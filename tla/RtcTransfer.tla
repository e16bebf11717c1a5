----------------------------- MODULE RtcTransfer -----------------------------
(***************************************************************************)
(* A transfer over a WebRTC data channel: the task of send_offer and the   *)
(* task of accept_offer (packages/core/src/webrtc/webrtc.rs) once the      *)
(* channel is open, the controllers the bridge gives to the two            *)
(* applications (doorstep_isolates/rust/src/api/webrtc.rs), and the two    *)
(* ways the functions end: by their task, or because the peer is gone.     *)
(*                                                                         *)
(* S sends the offer and the files, R accepts it.  A string sent in chunks *)
(* is one binary frame and the text that ends it.                          *)
(* The bridge keeps each PIN request until it is answered, so none is      *)
(* dropped (webrtc.rs:1148); an application that has chosen keeps its      *)
(* controller, so R is given a result for each file it waits for (:900).   *)
(***************************************************************************)
EXTENDS Naturals, Sequences, FiniteSets

CONSTANTS
    File,       \* the files S offers; each is Size frames long
    Size,       \* FileDto.size, in frames
    MaxFrames,  \* bound: frames the application of S may send for a file
    MaxTries,   \* PinConfig.max_tries
    None

ASSUME ConstantsAssumption ==
    /\ IsFiniteSet(File)
    /\ None \notin File
    /\ Size \in Nat
    /\ MaxFrames \in Nat
    /\ MaxTries \in Nat \ {0}

VARIABLES
    pin,       \* PinConfig of each peer: none, the empty string, a real one
    trusts,    \* whether the other's token fits expecting_public_key, if any
    pos,       \* where the task of each peer is
    out,       \* frames sent, not acknowledged (buffered_amount)
    inbox,     \* frames delivered, not yet received from receive_rx
    link,      \* whether the network still connects the peers
    open,      \* FALSE after peer_connection.close()
    outcome,   \* what the function of each peer came to
    slot,      \* the oneshot of handle_pin on its way to the controller
    tries,     \* pin_try of verify_pin
    picked,    \* selected_files: None until the application of R decides
    handed,    \* files the application of S has handed over
    queued,    \* sending_rx of S
    sending,   \* the file S streams
    sent,      \* frames of each file S has taken from its application
    finished,  \* the application of S has dropped its controller
    current,   \* file_state.file_id of R
    settling,  \* last_file_id: the file whose result R waits for
    got,       \* binary_rx of each file: the file each frame belonged to
    stream,    \* its state: none, open, ended
    results,   \* user_error_tx: results of the application of R
    \* History.
    typed,     \* PINs each peer has sent: wrong ones, and whether a right one
    verdict    \* what the application of R said of each file

setupVars == <<pin, trusts>>
pinVars   == <<slot, tries, typed>>
sendVars  == <<handed, queued, sending, sent, finished>>
takeVars  == <<current, settling, got, stream, results, verdict>>
fileVars  == <<picked, sendVars, takeVars>>
netVars   == <<inbox, link, open, outcome>>
vars == <<setupVars, pos, out, netVars, pinVars, fileVars>>
-----------------------------------------------------------------------------
Peers == {"S", "R"}
Other(p) == IF p = "S" THEN "R" ELSE "S"

SenderPositions   == {"nonce", "reply", "prompt", "typing", "answered", "verify",
                      "expel", "choice", "files", "flush", "last", "over"}
ReceiverPositions == {"nonce", "token", "reject", "verify", "expel", "senderPin", "prompt", "typing",
                      "answered", "choose", "receive", "settle", "flush", "over"}

Words == {"nonce", "token", "ok", "okPin", "badKey", "rightPin", "wrongPin", "pinOk", "pinAgain",
          "pinOver", "list", "tokens", "declined", "header", "data", "success", "failure", "end"}
Frames == [text : BOOLEAN, word : Words, file : File \cup {None}]

TextOf(word, f) == [text |-> TRUE, word |-> word, file |-> f]
Text(word)      == <<TextOf(word, None)>>
Binary(word, f) == [text |-> FALSE, word |-> word, file |-> f]
Delimiter       == TextOf("end", None)
InChunks(word)  == <<Binary(word, None), Delimiter>>

Init ==
    /\ pin \in [Peers -> {"none", "empty", "set"}]
    /\ trusts \in [Peers -> BOOLEAN]
    /\ pos = [p \in Peers |-> "nonce"]
    /\ out = [p \in Peers |-> IF p = "S" THEN Text("nonce") ELSE <<>>]
    /\ inbox = [p \in Peers |-> <<>>]
    /\ link = TRUE
    /\ open = [p \in Peers |-> TRUE]
    /\ outcome = [p \in Peers |-> "running"]
    /\ slot = [p \in Peers |-> "none"]
    /\ tries = [p \in Peers |-> 0]
    /\ picked = None
    /\ handed = {}
    /\ queued = None
    /\ sending = None
    /\ sent = [f \in File |-> 0]
    /\ finished = FALSE
    /\ current = None
    /\ settling = None
    /\ got = [f \in File |-> <<>>]
    /\ stream = [f \in File |-> "none"]
    /\ results = <<>>
    /\ typed = [p \in Peers |-> [wrong |-> 0, right |-> FALSE]]
    /\ verdict = [f \in File |-> "none"]
-----------------------------------------------------------------------------
(* The channel.  It is ordered and reliable until a peer or the network    *)
(* goes; what was not acknowledged by then never arrives.                  *)

Connected == link /\ open["S"] /\ open["R"]

Deliver(p) ==
    /\ Connected
    /\ out[p] # <<>>
    /\ inbox' = [inbox EXCEPT ![Other(p)] = Append(@, Head(out[p]))]
    /\ out' = [out EXCEPT ![p] = Tail(@)]
    /\ UNCHANGED <<setupVars, pos, link, open, outcome, pinVars, fileVars>>

Disconnect ==
    /\ link
    /\ link' = FALSE
    /\ UNCHANGED <<setupVars, pos, out, inbox, open, outcome, pinVars, fileVars>>

Goes(p, position) == pos' = [pos EXCEPT ![p] = position]

\* Sending fails, and with it the task, once the own connection is closed.
Sends(p, frames, position) ==
    IF open[p] THEN out' = [out EXCEPT ![p] = @ \o frames] /\ Goes(p, position)
               ELSE Goes(p, "over") /\ UNCHANGED out

Has(p) == inbox[p] # <<>>
Next1(p) == Head(inbox[p])
Takes(p) == inbox' = [inbox EXCEPT ![p] = Tail(@)]

\* receive_string_from_chunks takes every frame up to a text.
HasString(p) == \E i \in DOMAIN inbox[p] : inbox[p][i].text
EndOfString(p) ==
    CHOOSE i \in DOMAIN inbox[p] : inbox[p][i].text /\ \A j \in 1..(i - 1) : ~inbox[p][j].text
StringWord(p) == IF EndOfString(p) = 1 THEN "end" ELSE Head(inbox[p]).word
TakesString(p) ==
    inbox' = [inbox EXCEPT ![p] = SubSeq(@, EndOfString(p) + 1, Len(@))]
-----------------------------------------------------------------------------
(* How the functions end.                                                  *)

Ends(p, result) == outcome' = [outcome EXCEPT ![p] = IF @ = "running" THEN result ELSE @]

\* The task returned Ok: Finished, and the connection is closed.
Succeeds(p) ==
    /\ Goes(p, "over")
    /\ Ends(p, "finished")
    /\ open' = [open EXCEPT ![p] = FALSE]

\* The task returned Err: the bridge reports it, nobody closes the connection.
Fails(p) == Goes(p, "over") /\ Ends(p, "error") /\ UNCHANGED open

\* Mutant: only a broken network is noticed.
NetworkGone(p) == p \in Peers /\ ~link

\* The connection state Disconnected.
Gone(p) == ~link \/ ~open[Other(p)]

\* done_rx: the function returns and leaves its task behind, as it was.
PeerGone(p) ==
    /\ outcome[p] = "running"
    /\ Gone(p)
    /\ Ends(p, "finished")
    /\ open' = [open EXCEPT ![p] = FALSE]
    /\ UNCHANGED <<setupVars, pos, out, inbox, link, pinVars, fileVars>>
-----------------------------------------------------------------------------
(* Nonces and tokens.                                                      *)

ReceiveNonce ==
    /\ pos["R"] = "nonce" /\ Has("R")
    /\ Takes("R")
    /\ Sends("R", Text("nonce"), "token")
    /\ UNCHANGED <<setupVars, link, open, outcome, pinVars, fileVars>>

SendToken ==
    /\ pos["S"] = "nonce" /\ Has("S")
    /\ Takes("S")
    /\ Sends("S", Text("token"), "reply")
    /\ UNCHANGED <<setupVars, link, open, outcome, pinVars, fileVars>>

\* Mutant: the receiver answers before it looks at the signature.
VerifiesNothing(p) == p \in Peers

Verifies(p) == trusts[p]

\* verify_pin returns at once when the PIN is the empty string.
ReceiveToken ==
    /\ pos["R"] = "token" /\ Has("R")
    /\ Takes("R")
    /\ IF ~Verifies("R") THEN Sends("R", Text("badKey"), "reject")
       ELSE CASE pin["R"] = "none"  -> Sends("R", Text("ok"), "senderPin")
              [] pin["R"] = "empty" -> Sends("R", Text("okPin") \o Text("pinOk"), "senderPin")
              [] pin["R"] = "set"   -> Sends("R", Text("okPin"), "verify")
    /\ UNCHANGED <<setupVars, link, open, outcome, pinVars, fileVars>>

Reject ==
    /\ pos["R"] = "reject"
    /\ out["R"] = <<>>
    /\ Fails("R")
    /\ UNCHANGED <<setupVars, out, inbox, link, pinVars, fileVars>>

\* The sender's own PIN comes next, then its file list.
OwnPinThenList ==
    IF pin["S"] = "set" THEN Sends("S", InChunks("pinAgain"), "verify")
                        ELSE Sends("S", InChunks("list"), "choice")

ReceiveReply ==
    /\ pos["S"] = "reply" /\ Has("S")
    /\ Takes("S")
    /\ CASE Next1("S").word = "badKey" \/ ~Verifies("S") -> Fails("S") /\ UNCHANGED out
         [] Next1("S").word = "okPin" /\ Verifies("S") ->
                Goes("S", "prompt") /\ UNCHANGED <<out, open, outcome>>
         [] OTHER -> OwnPinThenList /\ UNCHANGED <<open, outcome>>
    /\ UNCHANGED <<setupVars, link, pinVars, fileVars>>
-----------------------------------------------------------------------------
(* PINs: handle_pin of the peer that types, verify_pin of the one that     *)
(* checks.                                                                 *)

\* pin_tx holds one request; PinRequired was reported before it got there.
Prompt(p) ==
    /\ pos[p] = "prompt"
    /\ slot[p] # "pushed"
    /\ slot' = [slot EXCEPT ![p] = "pushed"]
    /\ Goes(p, "typing")
    /\ UNCHANGED <<setupVars, out, netVars, tries, typed, fileVars>>

\* The bridge keeps the newest request.
Forward(p) ==
    /\ slot[p] = "pushed"
    /\ slot' = [slot EXCEPT ![p] = "ready"]
    /\ UNCHANGED <<setupVars, pos, out, netVars, tries, typed, fileVars>>

\* send_pin takes the request, or refuses when there is none.
SendPin(p, right) ==
    /\ pos[p] = "typing"
    /\ slot[p] = "ready"
    /\ slot' = [slot EXCEPT ![p] = "none"]
    /\ Sends(p, Text(IF right THEN "rightPin" ELSE "wrongPin"), "answered")
    /\ typed' = IF right THEN [typed EXCEPT ![p].right = TRUE]
                          ELSE [typed EXCEPT ![p].wrong = @ + 1]
    /\ UNCHANGED <<setupVars, netVars, tries, fileVars>>

\* Before pin_try is raised for this PIN.
TriesLeft(p) == tries[p] + 1 < MaxTries

\* What the verifier says: the sender in chunks, the receiver in a text.
Says(p, word) == IF p = "S" THEN InChunks(word) ELSE Text(word)

VerifyPin(p) ==
    /\ pos[p] = "verify" /\ Has(p)
    /\ Takes(p)
    /\ IF Next1(p).word = "rightPin"
       THEN /\ Sends(p, Says(p, IF p = "S" THEN "list" ELSE "pinOk"),
                     IF p = "S" THEN "choice" ELSE "senderPin")
            /\ UNCHANGED tries
       ELSE /\ tries' = [tries EXCEPT ![p] = @ + 1]
            /\ IF TriesLeft(p) THEN Sends(p, Says(p, "pinAgain"), "verify")
                               ELSE Sends(p, Says(p, "pinOver"), "expel")
    /\ UNCHANGED <<setupVars, link, open, outcome, slot, typed, fileVars>>

\* The notice gets five seconds.
Expel(p) ==
    /\ pos[p] = "expel"
    /\ Fails(p)
    /\ UNCHANGED <<setupVars, out, inbox, link, pinVars, fileVars>>

SenderPinReply ==
    /\ pos["S"] = "answered" /\ Has("S")
    /\ Takes("S")
    /\ CASE Next1("S").word = "pinOk"    -> OwnPinThenList /\ UNCHANGED <<open, outcome>>
         [] Next1("S").word = "pinAgain" -> Goes("S", "prompt") /\ UNCHANGED <<out, open, outcome>>
         [] OTHER                        -> Fails("S") /\ UNCHANGED out
    /\ UNCHANGED <<setupVars, link, pinVars, fileVars>>

\* The sender's PIN state, which is its file list when there is nothing to ask.
ReceiverPinReply ==
    /\ pos["R"] \in {"senderPin", "answered"} /\ HasString("R")
    /\ TakesString("R")
    /\ CASE StringWord("R") = "list"     -> Goes("R", "choose") /\ UNCHANGED <<open, outcome>>
         [] StringWord("R") = "pinAgain" -> Goes("R", "prompt") /\ UNCHANGED <<open, outcome>>
         [] OTHER                        -> Fails("R")
    /\ UNCHANGED <<setupVars, out, link, pinVars, fileVars>>
-----------------------------------------------------------------------------
(* The choice.                                                             *)

Select(files) ==
    /\ pos["R"] = "choose"
    /\ picked' = files
    /\ Sends("R", InChunks("tokens"), "receive")
    /\ UNCHANGED <<setupVars, netVars, pinVars, sendVars, takeVars>>

\* The task returns without waiting for the buffer.
Decline ==
    /\ pos["R"] = "choose"
    /\ Succeeds("R")
    /\ out' = [out EXCEPT !["R"] = IF open["R"] THEN @ \o InChunks("declined") ELSE @]
    /\ UNCHANGED <<setupVars, inbox, link, pinVars, fileVars>>

DropController ==
    /\ pos["R"] = "choose"
    /\ Succeeds("R")
    /\ UNCHANGED <<setupVars, out, inbox, link, pinVars, fileVars>>

\* The choice is passed on to the application, which may have gone.
ReceiveChoice ==
    /\ pos["S"] = "choice" /\ HasString("S")
    /\ TakesString("S")
    /\ CASE StringWord("S") = "tokens"   -> \/ Goes("S", "files") /\ UNCHANGED <<open, outcome>>
                                           \/ Fails("S")
         [] StringWord("S") = "declined" -> Succeeds("S")
    /\ UNCHANGED <<setupVars, out, link, pinVars, fileVars>>
-----------------------------------------------------------------------------
(* The files, at the sender.  Its application hands over each file once.   *)

SendFile(f) ==
    /\ pos["S"] = "files"
    /\ ~finished /\ queued = None
    /\ f \notin handed
    /\ handed' = handed \cup {f}
    /\ queued' = f
    /\ UNCHANGED <<setupVars, pos, out, netVars, pinVars, picked, sending, sent, finished, takeVars>>

FinishSending ==
    /\ pos["S"] = "files"
    /\ ~finished
    /\ finished' = TRUE
    /\ UNCHANGED <<setupVars, pos, out, netVars, pinVars, picked, handed, queued, sending, sent, takeVars>>

\* An error of the channel goes to error_tx and ends this file only.
Transmits(frame) == out' = [out EXCEPT !["S"] = IF open["S"] THEN Append(@, frame) ELSE @]

HasToken(f) == f \in picked

BeginFile ==
    /\ pos["S"] = "files"
    /\ sending = None /\ queued # None
    /\ IF HasToken(queued)
       THEN sending' = queued /\ Transmits(TextOf("header", queued))
       ELSE UNCHANGED <<sending, out>>
    /\ queued' = None
    /\ UNCHANGED <<setupVars, pos, netVars, pinVars, picked, handed, sent, finished, takeVars>>

SendFrame ==
    /\ pos["S"] = "files"
    /\ sending # None
    /\ sent[sending] < MaxFrames
    /\ sent' = [sent EXCEPT ![sending] = @ + 1]
    /\ Transmits(Binary("data", sending))
    /\ UNCHANGED <<setupVars, pos, netVars, pinVars, picked, handed, queued, sending, finished, takeVars>>

\* The application dropped the file's stream.
EndFile ==
    /\ pos["S"] = "files"
    /\ sending # None
    /\ sending' = None
    /\ UNCHANGED <<setupVars, pos, out, netVars, pinVars, picked, handed, queued, sent, finished, takeVars>>

EndFiles ==
    /\ pos["S"] = "files"
    /\ finished /\ queued = None /\ sending = None
    /\ Goes("S", "flush")
    /\ UNCHANGED <<setupVars, out, netVars, pinVars, fileVars>>

SendEnd ==
    /\ pos["S"] = "flush"
    /\ out["S"] = <<>>
    /\ Sends("S", <<Delimiter>>, "last")
    /\ UNCHANGED <<setupVars, netVars, pinVars, fileVars>>

\* One message is awaited, whichever it is.
ReceiveLast ==
    /\ pos["S"] = "last" /\ Has("S")
    /\ Takes("S")
    /\ Succeeds("S")
    /\ UNCHANGED <<setupVars, out, link, pinVars, fileVars>>
-----------------------------------------------------------------------------
(* The files, at the receiver.                                             *)

\* Dropping file_state closes binary_tx: its stream ends.
Closed(f) == [stream EXCEPT ![f] = "ended"]

\* A text ends the file in progress; the text itself is looked at after
\* the application has said what became of that file.
FileEnds ==
    /\ pos["R"] = "receive" /\ Has("R")
    /\ Next1("R").text /\ current # None
    /\ stream' = Closed(current)
    /\ settling' = current
    /\ current' = None
    /\ Goes("R", "settle")
    /\ UNCHANGED <<setupVars, out, netVars, pinVars, picked, sendVars, got, results, verdict>>

\* Mutant: any result is a success.
AnyResult(r) == r \in [file : File, ok : BOOLEAN]

IsSuccess(r) == r.ok

\* The result that comes is taken for the result of that file.
Settle ==
    /\ pos["R"] = "settle"
    /\ results # <<>>
    /\ results' = Tail(results)
    /\ settling' = None
    /\ LET answer == TextOf(IF IsSuccess(Head(results)) THEN "success" ELSE "failure", settling)
           last   == Next1("R") = Delimiter
       IN  /\ Sends("R", <<answer>>, IF last THEN "flush" ELSE "receive")
           /\ IF last THEN Takes("R") ELSE UNCHANGED inbox
    /\ UNCHANGED <<setupVars, link, open, outcome, pinVars, picked, sendVars, current, got, stream, verdict>>

\* No file in progress: the text must be a header, else the task fails.
ReceiveHeader ==
    /\ pos["R"] = "receive" /\ Has("R")
    /\ Next1("R").text /\ current = None
    /\ Takes("R")
    /\ IF Next1("R").word = "header"
       THEN /\ LET f == Next1("R").file
               IN  IF HasToken(f) THEN current' = f /\ stream' = [stream EXCEPT ![f] = "open"]
                                  ELSE UNCHANGED <<current, stream>>
            /\ UNCHANGED <<pos, open, outcome>>
       ELSE Fails("R") /\ UNCHANGED <<current, stream>>
    /\ UNCHANGED <<setupVars, out, link, pinVars, picked, sendVars, settling, got, results, verdict>>

\* Mutant: one frame too many reaches the application.
FitsLate(f) == Len(got[f]) <= Size

Fits(f) == Len(got[f]) < Size

\* A frame without a file is an error for the application and no more.
ReceiveData ==
    /\ pos["R"] = "receive" /\ Has("R")
    /\ ~Next1("R").text
    /\ Takes("R")
    /\ CASE current = None -> UNCHANGED <<got, stream, current>>
         [] current # None /\ Fits(current) ->
                /\ got' = [got EXCEPT ![current] = Append(@, Next1("R").file)]
                /\ UNCHANGED <<stream, current>>
         [] OTHER -> stream' = Closed(current) /\ current' = None /\ UNCHANGED got
    /\ UNCHANGED <<setupVars, pos, out, link, open, outcome, pinVars, picked, sendVars, settling, results, verdict>>

\* The application has let go of the file's stream: the task fails.
StreamRefused ==
    /\ pos["R"] = "receive" /\ Has("R")
    /\ ~Next1("R").text /\ current # None /\ Fits(current)
    /\ Takes("R")
    /\ current' = None
    /\ Fails("R")
    /\ UNCHANGED <<setupVars, out, link, pinVars, picked, sendVars, settling, got, stream, results, verdict>>

\* send_file_status: the application tells of a file whose stream has ended,
\* and calls it a success only if the size is right.
SendFileStatus(f, ok) ==
    /\ stream[f] = "ended"
    /\ verdict[f] = "none"
    /\ results = <<>>
    /\ ok => Len(got[f]) = Size
    /\ results' = <<[file |-> f, ok |-> ok]>>
    /\ verdict' = [verdict EXCEPT ![f] = IF ok THEN "success" ELSE "failure"]
    /\ UNCHANGED <<setupVars, pos, out, netVars, pinVars, picked, sendVars, current, settling, got, stream>>

\* The last status gets five seconds to leave.
ReceiverDone ==
    /\ pos["R"] = "flush"
    /\ Succeeds("R")
    /\ UNCHANGED <<setupVars, out, inbox, link, pinVars, fileVars>>
-----------------------------------------------------------------------------
Handshake  == ReceiveNonce \/ SendToken \/ ReceiveToken \/ Reject \/ ReceiveReply
SenderPart == ReceiveChoice \/ BeginFile \/ SendFrame \/ EndFiles \/ SendEnd \/ ReceiveLast
TakerPart  == FileEnds \/ Settle \/ ReceiveHeader \/ ReceiveData \/ StreamRefused \/ ReceiverDone
PinStep(p) == Prompt(p) \/ Forward(p) \/ VerifyPin(p) \/ Expel(p)
PinReply   == SenderPinReply \/ ReceiverPinReply

TypesPin(p) == \E right \in BOOLEAN : SendPin(p, right)
Decides     == (\E files \in SUBSET File : Select(files)) \/ Decline \/ DropController
Tells       == \E f \in File, ok \in BOOLEAN : SendFileStatus(f, ok)
Streams     == EndFile \/ \E f \in File : SendFile(f)

Next ==
    \/ \E p \in Peers : Deliver(p) \/ PeerGone(p) \/ PinStep(p) \/ TypesPin(p)
    \/ Handshake \/ PinReply \/ Decides \/ Tells
    \/ SenderPart \/ TakerPart \/ Streams \/ FinishSending
    \/ Disconnect

Spec == Init /\ [][Next]_vars

\* The tasks are scheduled, the network delivers as long as it is there, and
\* the applications get round to what they are asked; nobody has to send a
\* frame or a file, and the network need not fail.
FairSpec ==
    /\ Spec
    /\ \A p \in Peers : WF_vars(Deliver(p)) /\ WF_vars(PeerGone(p)) /\ WF_vars(PinStep(p))
                        /\ WF_vars(TypesPin(p))
    /\ WF_vars(Handshake) /\ WF_vars(PinReply) /\ WF_vars(Decides) /\ WF_vars(Tells)
    /\ WF_vars(SenderPart) /\ WF_vars(TakerPart) /\ WF_vars(EndFile) /\ WF_vars(FinishSending)
-----------------------------------------------------------------------------
(* Properties.                                                             *)

\* Types, and verify_pin looks at no more than max_tries wrong PINs.
TypeOK ==
    /\ pin \in [Peers -> {"none", "empty", "set"}]
    /\ trusts \in [Peers -> BOOLEAN]
    /\ pos["S"] \in SenderPositions /\ pos["R"] \in ReceiverPositions
    /\ out \in [Peers -> Seq(Frames)]
    /\ inbox \in [Peers -> Seq(Frames)]
    /\ link \in BOOLEAN
    /\ open \in [Peers -> BOOLEAN]
    /\ outcome \in [Peers -> {"running", "finished", "error"}]
    /\ slot \in [Peers -> {"none", "pushed", "ready"}]
    /\ tries \in [Peers -> 0..MaxTries]
    /\ picked \in (SUBSET File) \cup {None}
    /\ handed \subseteq File
    /\ queued \in File \cup {None} /\ sending \in File \cup {None}
    /\ sent \in [File -> 0..MaxFrames]
    /\ finished \in BOOLEAN
    /\ current \in File \cup {None} /\ settling \in File \cup {None}
    /\ got \in [File -> Seq(File)]
    /\ stream \in [File -> {"none", "open", "ended"}]
    /\ results \in Seq([file : File, ok : BOOLEAN])
    /\ typed \in [Peers -> [wrong : Nat, right : BOOLEAN]]
    /\ verdict \in [File -> {"none", "success", "failure"}]

\* The sender gives its file list away only after both signatures have been
\* accepted by whoever expects one, and each peer with a PIN has been sent it
\* by the other, within max_tries.
ListAfterProofs ==
    /\ TypeOK
    /\ pos["S"] \in {"choice", "files", "flush", "last"} =>
        /\ \A p \in Peers : trusts[p]
        /\ \A p \in Peers : pin[p] = "set" => typed[Other(p)].right

\* What an application reads as a file is frames of that file, in no greater
\* number than its size, of a file its user chose.
StreamIsOfItsFile ==
    \A f \in File :
        /\ \A i \in DOMAIN got[f] : got[f][i] = f
        /\ Len(got[f]) <= Size
        /\ got[f] # <<>> => f \in picked

\* What the sender hears of a file is what the other application said of that
\* file. A file that is interrupted leaves its result behind, and the next
\* file gets it (webrtc.rs:892): with files that exceed their size this fails.
VerdictsKeepToFiles ==
    \A m \in {out["R"][i] : i \in DOMAIN out["R"]} \cup {inbox["S"][i] : i \in DOMAIN inbox["S"]} :
        m.word \in {"success", "failure"} => verdict[m.file] = m.word

\* As long as no file exceeds its size, it holds.
VerdictOfItsFile == (\A f \in File : sent[f] <= Size) => VerdictsKeepToFiles

\* Frames and verdicts keep to their file.
EachOfItsFile == StreamIsOfItsFile /\ VerdictOfItsFile

\* Where no task fails, both functions return.
Concludes == <>(\/ \E p \in Peers : outcome[p] = "error"
               \/ \A p \in Peers : outcome[p] # "running")

\* webrtc.rs, on RTCStatus::Error: "Error occurred. Connection is closed."
ErrorCloses == \A p \in Peers : (outcome[p] = "error") ~> ~open[p]
=============================================================================
