--------------------------- MODULE RtcTransferProofs ---------------------------
(***************************************************************************)
(* Theorems about RtcTransfer, for any files, sizes and numbers of tries.  *)
(***************************************************************************)
EXTENDS RtcTransfer, SequenceTheorems, TLAPS

-----------------------------------------------------------------------------
(* The inductive invariant.                                                *)

\* What p has sent and the other has not taken.
Way(p) == inbox[Other(p)] \o out[p]

\* PINs p may have sent: a right one only if it has typed it.
PinsOf(p) == {Text("wrongPin")} \cup (IF typed[p].right THEN {Text("rightPin")} ELSE {})

\* A peer with a PIN has been sent it by the other.
Proved(p) == pin[p] = "set" => typed[Other(p)].right

Positions == SenderPositions \cup ReceiverPositions
Placed    == pos \in [Peers -> Positions]

(* The turns of the two peers: where R is and what is under way, for each  *)
(* position of S.                                                          *)

NonceTurn ==
    \/ pos["R"] = "nonce" /\ Way("S") = Text("nonce") /\ Way("R") = <<>>
    \/ pos["R"] = "token" /\ Way("S") = <<>> /\ Way("R") = Text("nonce")
    \/ pos["R"] = "over" /\ Way("R") = <<>>

ReplyTurn ==
    \/ pos["R"] = "token" /\ Way("S") = Text("token") /\ Way("R") = <<>>
    \/ pos["R"] = "over" /\ Way("R") = <<>>
    \/ pos["R"] \in {"reject", "over"} /\ Way("S") = <<>> /\ Way("R") = Text("badKey")
    \/ /\ pos["R"] = "senderPin" /\ Way("S") = <<>> /\ trusts["R"]
       /\ \/ pin["R"] = "none" /\ Way("R") = Text("ok")
          \/ pin["R"] = "empty" /\ Way("R") = Text("okPin") \o Text("pinOk")
    \/ pos["R"] = "verify" /\ Way("S") = <<>> /\ Way("R") = Text("okPin") /\ trusts["R"]

TypingTurn ==
    \/ pos["R"] = "verify" /\ Way("S") = <<>> /\ Way("R") = <<>>
    \/ pos["R"] = "senderPin" /\ Way("S") = <<>> /\ Way("R") = Text("pinOk") /\ Proved("R")

AnsweredTurn ==
    \/ pos["R"] = "verify" /\ Way("S") \in PinsOf("S") /\ Way("R") = <<>>
    \/ pos["R"] = "verify" /\ Way("S") = <<>> /\ Way("R") = Text("pinAgain")
    \/ /\ pos["R"] = "senderPin" /\ Way("R") = Text("pinOk") /\ Proved("R")
       /\ Way("S") = <<>> \/ Way("S") \in PinsOf("S")
    \/ pos["R"] = "expel" /\ Way("S") = <<>> /\ Way("R") = Text("pinOver")
    \/ pos["R"] = "over" /\ Way("R") = Text("pinOk") /\ Proved("R")
    \/ pos["R"] = "over" /\ Way("R") \in {<<>>, Text("pinOver")}

\* R reads a string that S has sent, perhaps after a PIN nobody asked for.
Hears(word) ==
    /\ pos["R"] \in {"senderPin", "answered"} /\ Way("R") = <<>>
    /\ \/ Way("S") = InChunks(word)
       \/ \E w \in PinsOf("S") : Way("S") = w \o InChunks(word)

VerifyTurn ==
    \/ Hears("pinAgain")
    \/ pos["R"] \in {"prompt", "typing"} /\ Way("S") = <<>> /\ Way("R") = <<>>
    \/ pos["R"] = "answered" /\ Way("S") = <<>> /\ Way("R") \in PinsOf("R")
    \/ pos["R"] = "over" /\ Way("R") = <<>>

ChoiceTurn ==
    \/ Hears("list")
    \/ pos["R"] = "choose" /\ Way("S") = <<>> /\ Way("R") = <<>>
    \/ pos["R"] = "receive" /\ Way("S") = <<>> /\ Way("R") = InChunks("tokens")
    \/ pos["R"] = "over" /\ Way("R") \in {<<>>, InChunks("declined")}

\* What R can still read once S has stopped.
StoppedTurn ==
    \/ pos["R"] \in {"receive", "settle", "flush", "over"}
    \/ pos["R"] # "choose" /\ Way("S") = <<>>
    \/ pos["R"] = "senderPin" /\ Way("S") \in PinsOf("S")
    \/ pos["R"] = "answered" /\ Way("S") = InChunks("pinOver")

Turns ==
    /\ Placed
    /\ pos["S"] = "nonce" => NonceTurn
    /\ pos["S"] = "reply" => ReplyTurn
    /\ pos["S"] \in {"prompt", "typing"} => TypingTurn
    /\ pos["S"] = "answered" => AnsweredTurn
    /\ pos["S"] = "verify" => VerifyTurn
    /\ pos["S"] = "choice" => ChoiceTurn
    /\ pos["S"] \in {"files", "flush", "last"} => pos["R"] \in {"receive", "settle", "flush", "over"}
    /\ pos["S"] \in {"expel", "over"} => StoppedTurn

\* What has been proved by the time S is there.
ProofsDone ==
    /\ pos["S"] \notin {"nonce", "reply", "over"} => \A p \in Peers : trusts[p]
    /\ pos["S"] \in {"verify", "choice", "files", "flush", "last"} => Proved("R")
    /\ pos["S"] \in {"choice", "files", "flush", "last"} => Proved("S")
    /\ \A p \in Peers : pos[p] \notin {"expel", "over"} => tries[p] < MaxTries

(* The files.                                                              *)

Taking == pos["R"] \in {"receive", "settle", "flush"}

Header(f) == TextOf("header", f)
Data(f)   == Binary("data", f)

\* Before the choice there are no files at R, and it reads one at a time after it.
FilesInTurn ==
    /\ Taking => picked \in SUBSET File
    /\ pos["R"] # "over" /\ ~Taking =>
            \A f \in File : stream[f] = "none" /\ verdict[f] = "none"
    /\ pos["R"] # "receive" => current = None
    /\ current # None => current \in picked /\ stream[current] = "open"
    /\ pos["R"] = "settle" =>
            settling \in File /\ inbox["R"] # <<>> /\ Head(inbox["R"]).text
    /\ pos["S"] # "files" => queued = None /\ sending = None

\* What R has kept of each file.
Kept ==
    \A f \in File :
        /\ stream[f] = "none" => got[f] = <<>>
        /\ stream[f] # "none" => f \in handed /\ f # queued /\ picked \in SUBSET File
        /\ verdict[f] # "none" => stream[f] = "ended"
        /\ f = queued => f \in handed
        /\ Len(got[f]) <= sent[f]

\* On the way to R each file has one header, in front of its data.
FrameOf(i) ==
    \/ Way("S")[i] = Delimiter /\ pos["S"] \in {"last", "over"}
    \/ \E f \in File : \/ Way("S")[i] = Header(f) /\ f \in handed /\ f # queued /\ stream[f] = "none"
                       \/ /\ Way("S")[i] = Data(f)
                          /\ i > 1 => Way("S")[i - 1] \in {Header(f), Data(f)}
                          /\ i = 1 => current \in {f, None}

WayOfFiles ==
    Taking =>
        /\ \A i \in DOMAIN Way("S") : FrameOf(i)
        /\ \A f \in File : \A i, j \in DOMAIN Way("S") :
                Way("S")[i] = Header(f) /\ Way("S")[j] = Header(f) => i = j
        /\ open["S"] /\ sending # None =>
                IF Way("S") = <<>> THEN current \in {sending, None}
                ELSE Way("S")[Len(Way("S"))] \in {Header(sending), Data(sending)}

\* No more frames of a file are under way than were sent.
CountedTo(f, i) ==
    /\ current = f /\ (\A j \in 1..i : Way("S")[j] = Data(f)) => Len(got[f]) + i <= sent[f]
    /\ \A h \in 1..(i - 1) :
            Way("S")[h] = Header(f) /\ (\A j \in (h + 1)..i : Way("S")[j] = Data(f)) => i - h <= sent[f]

Counted == Taking => \A f \in File : \A i \in DOMAIN Way("S") : CountedTo(f, i)

NoExcess == \A f \in File : sent[f] <= Size

Word(ok) == IF ok THEN "success" ELSE "failure"

\* The application of R has a result outstanding only while R waits for it.
Settled ==
    NoExcess =>
        /\ \A f \in File :
            stream[f] = "ended" /\ verdict[f] = "none" => pos["R"] = "settle" /\ settling = f /\ results = <<>>
        /\ results # <<>> =>
            /\ pos["R"] = "settle"
            /\ \E ok \in BOOLEAN : results = <<[file |-> settling, ok |-> ok]>> /\ verdict[settling] = Word(ok)
        /\ \A i \in DOMAIN Way("R") :
            Way("R")[i].word \in {"success", "failure"} =>
                Way("R")[i].file \in File /\ verdict[Way("R")[i].file] = Way("R")[i].word

IInv ==
    /\ TypeOK /\ Turns /\ ProofsDone
    /\ FilesInTurn /\ Kept /\ WayOfFiles /\ Counted /\ Settled
    /\ StreamIsOfItsFile

-----------------------------------------------------------------------------
(* Frames and ways.                                                        *)

LEMMA ThePeers == Peers = {"S", "R"} /\ Other("S") = "R" /\ Other("R") = "S"
  BY DEF Peers, Other

LEMMA FrameTypes ==
    /\ \A w \in Words : \A f \in File \cup {None} : TextOf(w, f) \in Frames /\ Binary(w, f) \in Frames
    /\ Delimiter \in Frames
  BY DEF TextOf, Binary, Delimiter, Frames, Words

LEMMA FrameFields ==
    /\ \A w, f : TextOf(w, f).text /\ TextOf(w, f).word = w /\ TextOf(w, f).file = f
    /\ \A w, f : ~Binary(w, f).text /\ Binary(w, f).word = w /\ Binary(w, f).file = f
    /\ Delimiter.text /\ Delimiter.word = "end"
  BY DEF TextOf, Binary, Delimiter

LEMMA Texts ==
    ASSUME NEW w \in Words
    PROVE  /\ Text(w) \in Seq(Frames) /\ Text(w) # <<>> /\ Len(Text(w)) = 1
           /\ Head(Text(w)) = TextOf(w, None) /\ Text(w)[1] = TextOf(w, None) /\ Tail(Text(w)) = <<>>
<1>1. TextOf(w, None) \in Frames
  BY FrameTypes
<1> HIDE DEF Frames
<1> QED BY <1>1 DEF Text

LEMMA Chunks ==
    ASSUME NEW w \in Words
    PROVE  /\ InChunks(w) \in Seq(Frames) /\ InChunks(w) # <<>> /\ Len(InChunks(w)) = 2
           /\ InChunks(w)[1] = Binary(w, None) /\ InChunks(w)[2] = Delimiter
           /\ Head(InChunks(w)) = Binary(w, None)
<1>1. Binary(w, None) \in Frames /\ Delimiter \in Frames
  BY FrameTypes
<1> HIDE DEF Frames, Delimiter
<1> QED BY <1>1 DEF InChunks

LEMMA NoFrames == /\ <<>> \in Seq(Frames)
                  /\ \A q \in Seq(Frames) : <<>> \o q = q /\ q \o <<>> = q
  BY EmptySeq, ConcatEmptySeq

LEMMA WaySeqs ==
    ASSUME TypeOK, NEW p \in Peers
    PROVE  inbox[p] \in Seq(Frames) /\ out[p] \in Seq(Frames) /\ Way(p) \in Seq(Frames)
<1>1. \A q \in Peers : inbox[q] \in Seq(Frames) /\ out[q] \in Seq(Frames) /\ Other(q) \in Peers
  BY ThePeers DEF TypeOK
<1> QED BY <1>1, ConcatProperties DEF Way

\* A queue that hands its first element to the one before it.
LEMMA HandedOver ==
    ASSUME NEW S, NEW p \in Seq(S), NEW q \in Seq(S), q # <<>>
    PROVE  Append(p, Head(q)) \o Tail(q) = p \o q
<1>1. <<Head(q)>> \in Seq(S) /\ Tail(q) \in Seq(S) /\ Append(p, Head(q)) = p \o <<Head(q)>>
  BY HeadTailProperties
<1>2. <<Head(q)>> \o Tail(q) = q
  <2>1. Len(<<Head(q)>> \o Tail(q)) = Len(q)
    BY <1>1, ConcatProperties, HeadTailProperties
  <2>2. \A i \in 1..Len(q) : (<<Head(q)>> \o Tail(q))[i] = q[i]
    BY <1>1, ConcatProperties, HeadTailProperties
  <2> QED BY <1>1, <2>1, <2>2, ConcatProperties, SeqEqual
<1> QED BY <1>1, <1>2, ConcatAssociative

\* The first element of the first queue is that of both.
LEMMA FirstTaken ==
    ASSUME NEW S, NEW p \in Seq(S), NEW q \in Seq(S), p # <<>>
    PROVE  Tail(p) \o q = Tail(p \o q) /\ Head(p) = Head(p \o q) /\ p \o q # <<>>
<1>1. p \o q \in Seq(S) /\ Len(p \o q) = Len(p) + Len(q) /\ Len(p) \in Nat \ {0} /\ Len(q) \in Nat
  BY ConcatProperties, LenProperties, EmptySeq
<1>2. p \o q # <<>> /\ Head(p) = Head(p \o q)
  BY <1>1, ConcatProperties, HeadTailProperties
<1>3. Tail(p) \in Seq(S) /\ Len(Tail(p)) = Len(p) - 1 /\ \A i \in 1..Len(Tail(p)) : Tail(p)[i] = p[i + 1]
  BY HeadTailProperties
<1>4. /\ Tail(p \o q) \in Seq(S) /\ Len(Tail(p \o q)) = Len(p) + Len(q) - 1
      /\ \A i \in 1..Len(Tail(p \o q)) : Tail(p \o q)[i] = (p \o q)[i + 1]
  BY <1>1, <1>2, HeadTailProperties
<1>5. Tail(p) \o q \in Seq(S) /\ Len(Tail(p) \o q) = Len(p) + Len(q) - 1
  BY <1>1, <1>3, ConcatProperties
<1>6. ASSUME NEW i \in 1..(Len(p) + Len(q) - 1) PROVE (Tail(p) \o q)[i] = Tail(p \o q)[i]
  <2>1. Tail(p \o q)[i] = (p \o q)[i + 1] /\ i + 1 \in 1..(Len(p) + Len(q))
    BY <1>1, <1>4
  <2>2. CASE i <= Len(p) - 1
    <3>1. (Tail(p) \o q)[i] = Tail(p)[i] /\ Tail(p)[i] = p[i + 1] /\ i + 1 <= Len(p)
      BY <1>1, <1>3, <2>2, ConcatProperties
    <3> QED BY <1>1, <2>1, <3>1, ConcatProperties
  <2>3. CASE i > Len(p) - 1
    <3>1. (Tail(p) \o q)[i] = q[i - (Len(p) - 1)]
      BY <1>1, <1>3, <1>5, <2>3, ConcatProperties
    <3>2. (p \o q)[i + 1] = q[i + 1 - Len(p)] /\ i - (Len(p) - 1) = i + 1 - Len(p)
      BY <1>1, <2>1, <2>3, ConcatProperties
    <3> QED BY <2>1, <3>1, <3>2
  <2> QED BY <1>1, <2>2, <2>3
<1>7. Tail(p) \o q = Tail(p \o q)
  BY <1>4, <1>5, <1>6, SeqEqual
<1> QED BY <1>2, <1>7

\* p takes a frame of the other.
LEMMA Taken ==
    ASSUME TypeOK, NEW p \in Peers, Has(p), Takes(p), out'[Other(p)] = out[Other(p)]
    PROVE  /\ Way(Other(p)) # <<>> /\ Next1(p) = Head(Way(Other(p))) /\ Next1(p) \in Frames
           /\ Way(Other(p))' = Tail(Way(Other(p)))
           /\ inbox' \in [Peers -> Seq(Frames)] /\ inbox'[Other(p)] = inbox[Other(p)]
<1>1. /\ inbox[p] \in Seq(Frames) /\ out[Other(p)] \in Seq(Frames) /\ inbox[p] # <<>>
      /\ Other(p) \in Peers /\ Other(Other(p)) = p /\ Other(p) # p
  BY WaySeqs, ThePeers DEF Has
<1>2. Tail(inbox[p]) \in Seq(Frames) /\ Head(inbox[p]) \in Frames
  BY <1>1, HeadTailProperties
<1>3. /\ inbox' \in [Peers -> Seq(Frames)] /\ inbox'[p] = Tail(inbox[p])
      /\ inbox'[Other(p)] = inbox[Other(p)]
  BY <1>1, <1>2 DEF TypeOK, Takes
<1>4. Way(Other(p)) = inbox[p] \o out[Other(p)] /\ Way(Other(p))' = Tail(inbox[p]) \o out[Other(p)]
  BY <1>1, <1>3 DEF Way
<1> QED BY <1>1, <1>2, <1>3, <1>4, FirstTaken, ZenonT(60) DEF Next1

\* p sends, or stops because its connection is closed.
LEMMA Sent ==
    ASSUME TypeOK, Placed,
           NEW p \in Peers, NEW frames \in Seq(Frames), NEW position \in Positions,
           Sends(p, frames, position), inbox'[Other(p)] = inbox[Other(p)]
    PROVE  /\ out' \in [Peers -> Seq(Frames)] /\ out'[Other(p)] = out[Other(p)]
           /\ Placed' /\ pos'[Other(p)] = pos[Other(p)]
           /\ IF open[p] THEN Way(p)' = Way(p) \o frames /\ pos'[p] = position
                         ELSE Way(p)' = Way(p) /\ pos'[p] = "over"
<1>1. out[p] \in Seq(Frames) /\ inbox[Other(p)] \in Seq(Frames) /\ Other(p) \in Peers /\ Other(p) # p
  BY WaySeqs, ThePeers
<1>2. out[p] \o frames \in Seq(Frames)
  BY <1>1, ConcatProperties
<1>3. CASE open[p]
  <2>1. /\ out' = [out EXCEPT ![p] = out[p] \o frames] /\ pos' = [pos EXCEPT ![p] = position]
    BY <1>3 DEF Sends, Goes
  <2>2. /\ out' \in [Peers -> Seq(Frames)] /\ out'[Other(p)] = out[Other(p)] /\ out'[p] = out[p] \o frames
        /\ Placed' /\ pos'[Other(p)] = pos[Other(p)] /\ pos'[p] = position
    BY <1>1, <1>2, <2>1 DEF TypeOK, Placed
  <2>3. Way(p)' = inbox[Other(p)] \o (out[p] \o frames)
    BY <2>2 DEF Way
  <2>4. (inbox[Other(p)] \o out[p]) \o frames = inbox[Other(p)] \o (out[p] \o frames)
    <3> DEFINE a == inbox[Other(p)]
               b == out[p]
    <3>1. a \in Seq(Frames) /\ b \in Seq(Frames) /\ frames \in Seq(Frames)
      BY <1>1
    <3> HIDE DEF a, b
    <3>2. (a \o b) \o frames = a \o (b \o frames)
      BY <3>1, ConcatAssociative
    <3> QED BY <3>2 DEF a, b
  <2>5. Way(p)' = Way(p) \o frames
    BY <2>3, <2>4 DEF Way
  <2> QED BY <1>3, <2>2, <2>5
<1>4. CASE ~open[p]
  <2>1. out' = out /\ pos' = [pos EXCEPT ![p] = "over"]
    BY <1>4 DEF Sends, Goes
  <2>2. "over" \in Positions
    BY DEF Positions, SenderPositions
  <2> QED BY <1>1, <1>4, <2>1, <2>2 DEF TypeOK, Way, Placed
<1> QED BY <1>3, <1>4

-----------------------------------------------------------------------------
(* What steps about other things keep.                                     *)

\* Where R is before it has chosen.
Early == {"nonce", "token", "reject", "verify", "expel", "senderPin", "prompt", "typing",
          "answered", "choose"}

\* Frames of Way("R") that tell of a file are those that were under way.
NoVerdictSent ==
    \A i \in DOMAIN Way("R")' :
        Way("R")'[i].word \in {"success", "failure"} => \E j \in DOMAIN Way("R") : Way("R")'[i] = Way("R")[j]

LEMMA FilesKept ==
    ASSUME IInv, UNCHANGED fileVars, NoVerdictSent,
           \/ pos'["R"] = pos["R"]
           \/ pos["R"] \in Early \cup {"flush", "over"} /\ pos'["R"] = "over"
           \/ pos["R"] \in Early /\ pos'["R"] \in Early,
           pos["S"] \in {"last", "over"} => pos'["S"] \in {"last", "over"},
           pos["S"] = "files" => pos'["S"] = "files" \/ (queued = None /\ sending = None),
           pos["R"] \in {"receive", "settle", "flush"} /\ pos'["R"] = pos["R"] =>
                Way("S")' = Way("S") /\ (open'["S"] => open["S"]),
           pos["R"] = "settle" => inbox'["R"] # <<>> /\ Head(inbox'["R"]) = Head(inbox["R"])
    PROVE  FilesInTurn' /\ Kept' /\ WayOfFiles' /\ Counted' /\ Settled' /\ StreamIsOfItsFile'
<1> USE DEF IInv
<1>1. UNCHANGED <<picked, handed, queued, sending, sent, finished, current, settling, got, stream, results, verdict>>
  BY DEF fileVars, sendVars, takeVars
<1>2. Taking' => Taking /\ pos'["R"] = pos["R"] /\ Way("S")' = Way("S") /\ (open'["S"] => open["S"])
  BY DEF Taking, Early
<1>3. FilesInTurn'
  BY <1>1 DEF FilesInTurn, Taking, Early
<1>4. Kept' /\ StreamIsOfItsFile'
  BY <1>1 DEF Kept, StreamIsOfItsFile
<1>5. WayOfFiles'
  <2> SUFFICES ASSUME Taking' PROVE WayOfFiles'
    BY DEF WayOfFiles
  <2>1. Way("S")' = Way("S") /\ Taking /\ (open'["S"] => open["S"])
    BY <1>2
  <2>2. \A i \in DOMAIN Way("S") : FrameOf(i)'
    BY <1>1, <2>1 DEF WayOfFiles, FrameOf
  <2> QED BY <1>1, <2>1, <2>2 DEF WayOfFiles
<1>6. Counted'
  BY <1>1, <1>2 DEF Counted, CountedTo
<1>7. Settled'
  BY <1>1 DEF Settled, NoExcess, NoVerdictSent, Early
<1> QED BY <1>3, <1>4, <1>5, <1>6, <1>7

LEMMA TurnsKept ==
    ASSUME Turns, ProofsDone, UNCHANGED <<pin, trusts, pos, typed, tries>>,
           Way("S")' = Way("S"), Way("R")' = Way("R")
    PROVE  Turns' /\ ProofsDone'
<1>1. Way("S")' = Way("S") /\ Way("R")' = Way("R") /\ \A p : PinsOf(p)' = PinsOf(p) /\ Proved(p)' = Proved(p)
  BY DEF PinsOf, Proved
<1>2. /\ NonceTurn' = NonceTurn /\ ReplyTurn' = ReplyTurn /\ TypingTurn' = TypingTurn
      /\ AnsweredTurn' = AnsweredTurn /\ StoppedTurn' = StoppedTurn
  BY <1>1 DEF NonceTurn, ReplyTurn, TypingTurn, AnsweredTurn, StoppedTurn
<1>3. VerifyTurn' = VerifyTurn /\ ChoiceTurn' = ChoiceTurn
  BY <1>1 DEF VerifyTurn, ChoiceTurn, Hears
<1> QED BY <1>1, <1>2, <1>3 DEF Turns, Placed, ProofsDone

\* A frame that is delivered is still on its way.
LEMMA Delivered ==
    ASSUME TypeOK, NEW p \in Peers, Deliver(p)
    PROVE  /\ inbox' \in [Peers -> Seq(Frames)] /\ out' \in [Peers -> Seq(Frames)]
           /\ Way("S")' = Way("S") /\ Way("R")' = Way("R")
           /\ inbox["R"] # <<>> => inbox'["R"] # <<>> /\ Head(inbox'["R"]) = Head(inbox["R"])
<1>1. /\ out[p] # <<>> /\ inbox' = [inbox EXCEPT ![Other(p)] = Append(inbox[Other(p)], Head(out[p]))]
      /\ out' = [out EXCEPT ![p] = Tail(out[p])]
  BY DEF Deliver
<1>2. /\ inbox[Other(p)] \in Seq(Frames) /\ inbox[p] \in Seq(Frames) /\ out[p] \in Seq(Frames)
      /\ Other(p) \in Peers /\ Other(p) # p /\ Other(Other(p)) = p
  BY WaySeqs, ThePeers
<1>3. Head(out[p]) \in Frames /\ Tail(out[p]) \in Seq(Frames)
  BY <1>1, <1>2, HeadTailProperties
<1>4. /\ Append(inbox[Other(p)], Head(out[p])) \in Seq(Frames)
      /\ Append(inbox[Other(p)], Head(out[p])) # <<>>
      /\ inbox[Other(p)] # <<>> => Head(Append(inbox[Other(p)], Head(out[p]))) = Head(inbox[Other(p)])
  <2> DEFINE a == inbox[Other(p)]
             e == Head(out[p])
  <2>1. a \in Seq(Frames) /\ e \in Frames
    BY <1>2, <1>3
  <2> HIDE DEF a, e, Frames
  <2>2. Append(a, e) \in Seq(Frames) /\ Append(a, e) # <<>> /\ (a # <<>> => Head(Append(a, e)) = Head(a))
    BY <2>1, AppendProperties, HeadTailProperties, EmptySeq, LenProperties
  <2> QED BY <2>2 DEF a, e
<1>5. /\ inbox' \in [Peers -> Seq(Frames)] /\ out' \in [Peers -> Seq(Frames)]
      /\ inbox'[Other(p)] = Append(inbox[Other(p)], Head(out[p])) /\ inbox'[p] = inbox[p]
      /\ out'[p] = Tail(out[p]) /\ out'[Other(p)] = out[Other(p)]
  BY <1>1, <1>2, <1>3, <1>4 DEF TypeOK
<1>6. Way(p)' = Way(p) /\ Way(Other(p))' = Way(Other(p))
  <2> DEFINE a == inbox[Other(p)]
             b == out[p]
  <2>1. a \in Seq(Frames) /\ b \in Seq(Frames) /\ b # <<>>
    BY <1>1, <1>2
  <2> HIDE DEF a, b
  <2>2. Append(a, Head(b)) \o Tail(b) = a \o b
    BY <2>1, HandedOver
  <2> QED BY <1>2, <1>5, <2>2 DEF Way, a, b
<1>7. inbox["R"] # <<>> => inbox'["R"] # <<>> /\ Head(inbox'["R"]) = Head(inbox["R"])
  BY <1>4, <1>5, ThePeers
<1> QED BY <1>5, <1>6, <1>7, ThePeers

LEMMA DeliverInv == ASSUME IInv, NEW p \in Peers, Deliver(p) PROVE IInv'
<1>1. UNCHANGED <<pin, trusts, pos, link, open, outcome, slot, tries, typed>> /\ UNCHANGED fileVars
  BY DEF Deliver, setupVars, pinVars
<1>2. /\ inbox' \in [Peers -> Seq(Frames)] /\ out' \in [Peers -> Seq(Frames)]
      /\ Way("S")' = Way("S") /\ Way("R")' = Way("R")
      /\ inbox["R"] # <<>> => inbox'["R"] # <<>> /\ Head(inbox'["R"]) = Head(inbox["R"])
  BY Delivered DEF IInv
<1>3. Turns' /\ ProofsDone'
  BY <1>1, <1>2, TurnsKept DEF IInv
<1>4. FilesInTurn' /\ Kept' /\ WayOfFiles' /\ Counted' /\ Settled' /\ StreamIsOfItsFile'
  <2>1. NoVerdictSent
    BY <1>2 DEF NoVerdictSent
  <2>2. pos["R"] = "settle" => inbox["R"] # <<>>
    BY DEF IInv, FilesInTurn
  <2> QED BY <1>1, <1>2, <2>1, <2>2, FilesKept
<1>5. TypeOK'
  BY <1>1, <1>2 DEF IInv, TypeOK, fileVars, sendVars, takeVars
<1> QED BY <1>3, <1>4, <1>5 DEF IInv

\* R takes a whole string.
LEMMA StringTaken ==
    ASSUME TypeOK, NEW p \in Peers, HasString(p), TakesString(p), out'[Other(p)] = out[Other(p)],
           NEW w \in Words, Way(Other(p)) = InChunks(w)
    PROVE  /\ StringWord(p) = w /\ Way(Other(p))' = <<>>
           /\ inbox' \in [Peers -> Seq(Frames)] /\ inbox'[Other(p)] = inbox[Other(p)]
<1> DEFINE q == inbox[p]
           r == out[Other(p)]
<1>1. q \in Seq(Frames) /\ r \in Seq(Frames) /\ Other(Other(p)) = p /\ Other(p) \in Peers /\ Other(p) # p
  BY WaySeqs, ThePeers
<1>2. q \o r = InChunks(w)
  BY <1>1 DEF Way
<1>3. PICK i \in DOMAIN q : q[i].text
  BY DEF HasString
<1> HIDE DEF q, r
<1>4. /\ Len(q) \in Nat /\ Len(r) \in Nat /\ Len(q) + Len(r) = 2 /\ i \in 1..Len(q)
      /\ \A j \in 1..Len(q) : q[j] = InChunks(w)[j]
  <2>1. Len(q) \in Nat /\ Len(r) \in Nat /\ DOMAIN q = 1..Len(q)
    BY <1>1, LenProperties
  <2>2. Len(q \o r) = Len(q) + Len(r) /\ \A j \in 1..Len(q) : (q \o r)[j] = q[j]
    BY <1>1, <2>1, ConcatProperties
  <2> QED BY <1>2, <1>3, <2>1, <2>2, Chunks
<1>5. ~InChunks(w)[1].text /\ InChunks(w)[1].word = w /\ InChunks(w)[2].text
  BY Chunks, FrameFields
<1>6. i = 2 /\ Len(q) = 2 /\ r = <<>>
  <2>1. i # 1
    BY <1>3, <1>4, <1>5
  <2>2. \A m, n \in Nat : m + n = 2 /\ i \in 1..m => i = 2 /\ m = 2 /\ n = 0
    BY <2>1
  <2>3. i = 2 /\ Len(q) = 2 /\ Len(r) = 0
    BY <1>4, <2>2
  <2> QED BY <1>1, <2>3, EmptySeq
<1>7. q = InChunks(w) /\ DOMAIN q = {1, 2}
  BY <1>1, <1>2, <1>6, NoFrames, LenProperties
<1>8. EndOfString(p) = 2
  <2> DEFINE P(e) == e \in DOMAIN inbox[p] /\ inbox[p][e].text /\ \A j \in 1..(e - 1) : ~inbox[p][j].text
  <2>1. P(2)
    BY <1>5, <1>7 DEF q
  <2>2. \A e \in DOMAIN inbox[p] : P(e) => e = 2
    BY <1>5, <1>7 DEF q
  <2> QED BY <2>1, <2>2 DEF EndOfString
<1>9. StringWord(p) = w
  BY <1>5, <1>7, <1>8 DEF StringWord, q
<1>10. SubSeq(q, 3, 2) = <<>>
  BY <1>1, <1>6, SubSeqProperties, EmptySeq
<1>11. /\ inbox' \in [Peers -> Seq(Frames)] /\ inbox'[p] = <<>> /\ inbox'[Other(p)] = inbox[Other(p)]
  <2>1. inbox' = [inbox EXCEPT ![p] = SubSeq(q, 2 + 1, Len(q))] /\ 2 + 1 = 3
    BY <1>8 DEF TakesString, q
  <2>2. inbox' = [inbox EXCEPT ![p] = <<>>]
    BY <1>6, <1>10, <2>1
  <2> QED BY <1>1, <2>2, NoFrames DEF TypeOK
<1>12. Way(Other(p))' = <<>>
  BY <1>1, <1>6, <1>11, NoFrames DEF Way, r
<1> QED BY <1>9, <1>11, <1>12

\* What begins with a text is no such string.
LEMMA TextTaken ==
    ASSUME TypeOK, NEW p \in Peers, HasString(p), TakesString(p),
           Way(Other(p)) # <<>> => Way(Other(p))[1].text
    PROVE  /\ StringWord(p) = "end" /\ Way(Other(p)) # <<>>
           /\ inbox' \in [Peers -> Seq(Frames)] /\ inbox'[Other(p)] = inbox[Other(p)]
<1> DEFINE q == inbox[p]
           r == out[Other(p)]
<1>1. q \in Seq(Frames) /\ r \in Seq(Frames) /\ Other(Other(p)) = p /\ Other(p) \in Peers /\ Other(p) # p
  BY WaySeqs, ThePeers
<1>2. Way(Other(p)) = q \o r /\ DOMAIN q # {}
  BY <1>1 DEF Way, HasString
<1> HIDE DEF q, r
<1>3. q # <<>> /\ Len(q) \in Nat \ {0} /\ DOMAIN q = 1..Len(q) /\ q \o r # <<>> /\ (q \o r)[1] = q[1]
  <2>1. q # <<>>
    BY <1>2
  <2>2. Len(q) \in Nat \ {0} /\ DOMAIN q = 1..Len(q) /\ Len(r) \in Nat
    BY <1>1, <2>1, LenProperties, EmptySeq
  <2>3. q \o r \in Seq(Frames) /\ Len(q \o r) = Len(q) + Len(r) /\ (q \o r)[1] = q[1]
    BY <1>1, <2>2, ConcatProperties
  <2> QED BY <2>1, <2>2, <2>3
<1>4. q[1].text /\ 1 \in DOMAIN q
  BY <1>2, <1>3
<1>5. EndOfString(p) = 1
  <2> DEFINE P(e) == e \in DOMAIN inbox[p] /\ inbox[p][e].text /\ \A j \in 1..(e - 1) : ~inbox[p][j].text
  <2>1. P(1)
    BY <1>4 DEF q
  <2>2. \A e \in DOMAIN inbox[p] : P(e) => e = 1
    <3> SUFFICES ASSUME NEW e \in DOMAIN inbox[p], P(e), e # 1 PROVE FALSE
      OBVIOUS
    <3>1. 1 \in 1..(e - 1)
      BY <1>3 DEF q
    <3> QED BY <1>4, <3>1 DEF q
  <2> QED BY <2>1, <2>2 DEF EndOfString
<1>6. StringWord(p) = "end"
  BY <1>5 DEF StringWord
<1>7. SubSeq(q, 2, Len(q)) \in Seq(Frames)
  BY <1>1, <1>3, SubSeqProperties
<1>8. inbox' = [inbox EXCEPT ![p] = SubSeq(q, 2, Len(q))]
  <2>1. inbox' = [inbox EXCEPT ![p] = SubSeq(q, 1 + 1, Len(q))]
    BY <1>5 DEF TakesString, q
  <2> QED BY <2>1
<1>9. inbox' \in [Peers -> Seq(Frames)] /\ inbox'[Other(p)] = inbox[Other(p)]
  BY <1>1, <1>7, <1>8 DEF TypeOK
<1> QED BY <1>2, <1>3, <1>6, <1>9

LEMMA QuietTaken ==
    ASSUME TypeOK,
           \/ Way("R")' = Way("R") \/ Way("R")' = <<>>
           \/ Way("R") # <<>> /\ Way("R")' = Tail(Way("R"))
    PROVE  NoVerdictSent
<1>1. Way("R") \in Seq(Frames)
  BY WaySeqs, ThePeers
<1>2. CASE Way("R")' = Way("R")
  BY <1>2 DEF NoVerdictSent
<1>3. CASE Way("R")' = <<>>
  BY <1>3 DEF NoVerdictSent
<1>4. CASE Way("R") # <<>> /\ Way("R")' = Tail(Way("R"))
  <2>1. \A i \in DOMAIN Tail(Way("R")) : i + 1 \in DOMAIN Way("R") /\ Tail(Way("R"))[i] = Way("R")[i + 1]
    <3> DEFINE q == Way("R")
    <3>1. q \in Seq(Frames) /\ q # <<>>
      BY <1>1, <1>4
    <3> HIDE DEF q, Frames
    <3>2. \A i \in DOMAIN Tail(q) : i + 1 \in DOMAIN q /\ Tail(q)[i] = q[i + 1]
      BY <3>1
    <3> QED BY <3>2 DEF q
  <2> QED BY <1>4, <2>1 DEF NoVerdictSent
<1> QED BY <1>2, <1>3, <1>4

LEMMA QuietSent ==
    ASSUME TypeOK, NEW frames \in Seq(Frames), Way("R")' = Way("R") \o frames,
           \A i \in 1..Len(frames) : frames[i].word \notin {"success", "failure"}
    PROVE  NoVerdictSent
<1> DEFINE q == Way("R")
<1>1. q \in Seq(Frames) /\ Way("R")' = q \o frames
  BY WaySeqs, ThePeers
<1> HIDE DEF q
<1>2. ASSUME NEW i \in DOMAIN (q \o frames), (q \o frames)[i].word \in {"success", "failure"}
      PROVE  \E j \in DOMAIN q : (q \o frames)[i] = q[j]
  <2>1. /\ Len(q) \in Nat /\ Len(frames) \in Nat /\ DOMAIN q = 1..Len(q)
        /\ DOMAIN (q \o frames) = 1..(Len(q) + Len(frames))
    BY <1>1, ConcatProperties, LenProperties
  <2>2. CASE i <= Len(q)
    <3>1. i \in 1..Len(q) /\ (q \o frames)[i] = q[i]
      BY <1>1, <2>1, <2>2, ConcatProperties
    <3> QED BY <2>1, <3>1
  <2>3. CASE i > Len(q)
    <3>1. i - Len(q) \in 1..Len(frames) /\ (q \o frames)[i] = frames[i - Len(q)]
      BY <1>1, <2>1, <2>3, ConcatProperties
    <3> QED BY <1>2, <3>1
  <2> QED BY <2>1, <2>2, <2>3
<1> QED BY <1>1, <1>2 DEF NoVerdictSent, q

\* What the peers say before the files are no verdicts.
LEMMA SetupFrames ==
    ASSUME NEW w \in Words \ {"success", "failure"}, NEW v \in Words \ {"success", "failure"}
    PROVE  \A frames \in {Text(w), InChunks(w), Text(w) \o Text(v)} :
                /\ frames \in Seq(Frames)
                /\ \A i \in 1..Len(frames) : frames[i].word \notin {"success", "failure"}
<1>1. Text(w) \in Seq(Frames) /\ Len(Text(w)) = 1 /\ Text(w)[1].word \notin {"success", "failure"}
  BY Texts, FrameFields
<1>2. /\ InChunks(w) \in Seq(Frames) /\ Len(InChunks(w)) = 2
      /\ InChunks(w)[1].word \notin {"success", "failure"} /\ InChunks(w)[2].word \notin {"success", "failure"}
  BY Chunks, FrameFields
<1>3. Text(v) \in Seq(Frames) /\ Len(Text(v)) = 1 /\ Text(v)[1].word \notin {"success", "failure"}
  BY Texts, FrameFields
<1>4. /\ Text(w) \o Text(v) \in Seq(Frames) /\ Len(Text(w) \o Text(v)) = 2
      /\ (Text(w) \o Text(v))[1] = Text(w)[1] /\ (Text(w) \o Text(v))[2] = Text(v)[1]
  <2> DEFINE a == Text(w)
             b == Text(v)
  <2>1. a \in Seq(Frames) /\ b \in Seq(Frames) /\ Len(a) = 1 /\ Len(b) = 1
    BY <1>1, <1>3
  <2> HIDE DEF a, b
  <2>2. /\ a \o b \in Seq(Frames) /\ Len(a \o b) = 2
        /\ (a \o b)[1] = a[1] /\ (a \o b)[2] = b[2 - 1]
    BY <2>1, ConcatProperties
  <2> QED BY <2>2 DEF a, b
<1> QED BY <1>1, <1>2, <1>3, <1>4

\* A step of S before the files.
LEMMA SenderSetup ==
    ASSUME IInv, UNCHANGED fileVars, pos'["R"] = pos["R"], inbox'["R"] = inbox["R"],
           pos["S"] \in {"nonce", "reply", "prompt", "typing", "answered", "verify", "expel"},
           pos["S"] = "expel" => Way("S")' = Way("S") /\ (open'["S"] => open["S"]),
           \/ Way("R")' = Way("R")
           \/ Way("R") # <<>> /\ Way("R")' = Tail(Way("R"))
    PROVE  FilesInTurn' /\ Kept' /\ WayOfFiles' /\ Counted' /\ Settled' /\ StreamIsOfItsFile'
<1>1. pos["R"] \in {"receive", "settle", "flush"} => pos["S"] = "expel"
  BY DEF IInv, Turns, NonceTurn, ReplyTurn, TypingTurn, AnsweredTurn, VerifyTurn, Hears
<1>2. NoVerdictSent
  BY QuietTaken DEF IInv
<1>3. pos["R"] = "settle" => inbox["R"] # <<>>
  BY DEF IInv, FilesInTurn
<1> QED BY <1>1, <1>2, <1>3, FilesKept

\* A step of R before the files.
LEMMA ReceiverSetup ==
    ASSUME IInv, UNCHANGED fileVars, pos'["S"] = pos["S"], pos["R"] \in Early, pos'["R"] \in Early \cup {"over"},
           \/ Way("R")' = Way("R")
           \/ \E w, v \in Words \ {"success", "failure"} :
                \E frames \in {Text(w), InChunks(w), Text(w) \o Text(v)} : Way("R")' = Way("R") \o frames
    PROVE  FilesInTurn' /\ Kept' /\ WayOfFiles' /\ Counted' /\ Settled' /\ StreamIsOfItsFile'
<1>1. NoVerdictSent
  <2>1. CASE Way("R")' = Way("R")
    BY <2>1, QuietTaken DEF IInv
  <2>2. CASE \E w, v \in Words \ {"success", "failure"} :
                \E frames \in {Text(w), InChunks(w), Text(w) \o Text(v)} : Way("R")' = Way("R") \o frames
    BY <2>2, SetupFrames, QuietSent DEF IInv
  <2> QED BY <2>1, <2>2
<1>2. pos["R"] \notin {"receive", "settle", "flush"}
  BY DEF Early
<1> QED BY <1>1, <1>2, FilesKept

LEMMA Gets ==
    ASSUME Placed, NEW p \in Peers, NEW position \in Positions, Goes(p, position)
    PROVE  Placed' /\ pos'[p] = position /\ pos'[Other(p)] = pos[Other(p)]
  BY ThePeers DEF Goes, Placed

LEMMA Stops ==
    ASSUME TypeOK, Placed, NEW p \in Peers, Fails(p) \/ Succeeds(p)
    PROVE  /\ Placed' /\ pos'[p] = "over" /\ pos'[Other(p)] = pos[Other(p)]
           /\ open' \in [Peers -> BOOLEAN] /\ outcome' \in [Peers -> {"running", "finished", "error"}]
           /\ \A q \in Peers : open'[q] => open[q]
<1>1. "over" \in Positions
  BY DEF Positions, SenderPositions
<1>2. Placed' /\ pos'[p] = "over" /\ pos'[Other(p)] = pos[Other(p)]
  BY <1>1, Gets DEF Fails, Succeeds
<1>3. outcome' \in [Peers -> {"running", "finished", "error"}]
  <2>1. PICK result \in {"finished", "error"} : Ends(p, result)
    BY DEF Fails, Succeeds
  <2>2. outcome' = [outcome EXCEPT ![p] = IF outcome[p] = "running" THEN result ELSE outcome[p]]
    BY <2>1 DEF Ends
  <2> QED BY <2>2 DEF TypeOK
<1>4. open' \in [Peers -> BOOLEAN] /\ \A q \in Peers : open'[q] => open[q]
  BY DEF Fails, Succeeds, TypeOK
<1> QED BY <1>2, <1>3, <1>4

LEMMA SetupTypes ==
    ASSUME TypeOK, UNCHANGED <<pin, trusts, link>>, UNCHANGED fileVars,
           inbox' \in [Peers -> Seq(Frames)], out' \in [Peers -> Seq(Frames)],
           pos'["S"] \in SenderPositions, pos'["R"] \in ReceiverPositions,
           open' \in [Peers -> BOOLEAN], outcome' \in [Peers -> {"running", "finished", "error"}],
           slot' \in [Peers -> {"none", "pushed", "ready"}], tries' \in [Peers -> 0..MaxTries],
           typed' \in [Peers -> [wrong : Nat, right : BOOLEAN]]
    PROVE  TypeOK'
  BY DEF TypeOK, fileVars, sendVars, takeVars

-----------------------------------------------------------------------------
(* The handshake.                                                          *)

\* S is somewhere.
LEMMA STurn ==
    ASSUME TypeOK, Turns
    PROVE  \/ pos["S"] = "nonce" /\ NonceTurn
           \/ pos["S"] = "reply" /\ ReplyTurn
           \/ pos["S"] \in {"prompt", "typing"} /\ TypingTurn
           \/ pos["S"] = "answered" /\ AnsweredTurn
           \/ pos["S"] = "verify" /\ VerifyTurn
           \/ pos["S"] = "choice" /\ ChoiceTurn
           \/ pos["S"] \in {"files", "flush", "last"} /\ pos["R"] \in {"receive", "settle", "flush", "over"}
           \/ pos["S"] \in {"expel", "over"} /\ StoppedTurn
<1>1. pos["S"] \in {"nonce", "reply", "prompt", "typing", "answered", "verify",
                     "expel", "choice", "files", "flush", "last", "over"}
  BY DEF TypeOK, SenderPositions
<1> QED BY <1>1 DEF Turns

\* A peer takes a frame and answers it.
LEMMA Replies ==
    ASSUME TypeOK, Placed, NEW p \in Peers, Has(p), Takes(p),
           NEW frames \in Seq(Frames), NEW position \in Positions, Sends(p, frames, position)
    PROVE  /\ Way(Other(p)) # <<>> /\ Next1(p) = Head(Way(Other(p))) /\ Way(Other(p))' = Tail(Way(Other(p)))
           /\ inbox' \in [Peers -> Seq(Frames)] /\ out' \in [Peers -> Seq(Frames)]
           /\ inbox'[Other(p)] = inbox[Other(p)]
           /\ Placed' /\ pos'[Other(p)] = pos[Other(p)]
           /\ IF open[p] THEN Way(p)' = Way(p) \o frames /\ pos'[p] = position
                         ELSE Way(p)' = Way(p) /\ pos'[p] = "over"
<1>1. Other(p) \in Peers /\ Other(p) # p
  BY ThePeers
<1>2. inbox'[Other(p)] = inbox[Other(p)] /\ out'[Other(p)] = out[Other(p)]
  BY <1>1 DEF Takes, Sends, TypeOK
<1> QED BY <1>2, Taken, Sent

\* A peer takes a frame and says nothing.
LEMMA Listens ==
    ASSUME TypeOK, NEW p \in Peers, Has(p), Takes(p), UNCHANGED out
    PROVE  /\ Way(Other(p)) # <<>> /\ Next1(p) = Head(Way(Other(p))) /\ Way(Other(p))' = Tail(Way(Other(p)))
           /\ inbox' \in [Peers -> Seq(Frames)] /\ inbox'[Other(p)] = inbox[Other(p)]
           /\ Way(p)' = Way(p)
<1>1. inbox'[Other(p)] = inbox[Other(p)]
  BY ThePeers DEF Takes, TypeOK
<1> QED BY <1>1, Taken DEF Way

\* A peer says something of its own accord.
LEMMA Speaks ==
    ASSUME TypeOK, Placed, NEW p \in Peers, UNCHANGED inbox,
           NEW frames \in Seq(Frames), NEW position \in Positions, Sends(p, frames, position)
    PROVE  /\ out' \in [Peers -> Seq(Frames)] /\ Way(Other(p))' = Way(Other(p))
           /\ Placed' /\ pos'[Other(p)] = pos[Other(p)]
           /\ IF open[p] THEN Way(p)' = Way(p) \o frames /\ pos'[p] = position
                         ELSE Way(p)' = Way(p) /\ pos'[p] = "over"
<1>1. out'[Other(p)] = out[Other(p)]
  BY ThePeers DEF Sends, TypeOK
<1> QED BY <1>1, Sent DEF Way

\* What S and R say before the files.
LEMMA SetupTexts ==
    ASSUME NEW w \in Words
    PROVE  /\ Text(w) \in Seq(Frames) /\ Text(w) # <<>> /\ Tail(Text(w)) = <<>>
           /\ Head(Text(w)).word = w /\ Head(Text(w)).text
           /\ <<>> \o Text(w) = Text(w) /\ InChunks(w) \in Seq(Frames) /\ <<>> \o InChunks(w) = InChunks(w)
  BY Texts, Chunks, NoFrames, FrameFields

LEMMA ReceiveNonceInv == ASSUME IInv, ReceiveNonce PROVE IInv'
<1> USE DEF IInv
<1>1. /\ pos["R"] = "nonce" /\ Has("R") /\ Takes("R") /\ Sends("R", Text("nonce"), "token")
      /\ UNCHANGED <<pin, trusts, link, open, outcome, slot, tries, typed>> /\ UNCHANGED fileVars
  BY DEF ReceiveNonce, setupVars, pinVars
<1>2. "nonce" \in Words \ {"success", "failure"} /\ "token" \in Positions
  BY DEF Words, Positions, ReceiverPositions
<1>3. Placed /\ "R" \in Peers /\ Other("R") = "S"
  BY ThePeers DEF Turns
<1>4. /\ Way("S") # <<>> /\ Way("S")' = Tail(Way("S"))
      /\ inbox' \in [Peers -> Seq(Frames)] /\ out' \in [Peers -> Seq(Frames)] /\ Placed' /\ pos'["S"] = pos["S"]
      /\ IF open["R"] THEN Way("R")' = Way("R") \o Text("nonce") /\ pos'["R"] = "token"
                      ELSE Way("R")' = Way("R") /\ pos'["R"] = "over"
  BY <1>1, <1>2, <1>3, Replies, SetupTexts
<1>5. pos["S"] = "nonce" /\ Way("S") = Text("nonce") /\ Way("R") = <<>>
  BY <1>1, <1>4, STurn DEF NonceTurn, ReplyTurn, TypingTurn, AnsweredTurn, VerifyTurn, Hears, ChoiceTurn,
                           StoppedTurn
<1>6. Way("S")' = <<>> /\ Way("R")' = IF open["R"] THEN Text("nonce") ELSE <<>>
  BY <1>2, <1>4, <1>5, SetupTexts
<1>7. Turns'
  BY <1>4, <1>5, <1>6 DEF Turns, NonceTurn
<1>8. ProofsDone'
  BY <1>1, <1>4, <1>5, ThePeers DEF ProofsDone
<1>9. FilesInTurn' /\ Kept' /\ WayOfFiles' /\ Counted' /\ Settled' /\ StreamIsOfItsFile'
  BY <1>1, <1>2, <1>4, ReceiverSetup DEF Early
<1>10. TypeOK'
  BY <1>1, <1>4, <1>5, SetupTypes DEF TypeOK, SenderPositions, ReceiverPositions
<1> QED BY <1>7, <1>8, <1>9, <1>10

LEMMA SendTokenInv == ASSUME IInv, SendToken PROVE IInv'
<1> USE DEF IInv
<1>1. /\ pos["S"] = "nonce" /\ Has("S") /\ Takes("S") /\ Sends("S", Text("token"), "reply")
      /\ UNCHANGED <<pin, trusts, link, open, outcome, slot, tries, typed>> /\ UNCHANGED fileVars
  BY DEF SendToken, setupVars, pinVars
<1>2. "token" \in Words /\ "nonce" \in Words /\ "reply" \in Positions
  BY DEF Words, Positions, SenderPositions
<1>3. Placed /\ "S" \in Peers /\ Other("S") = "R"
  BY ThePeers DEF Turns
<1>4. /\ Way("R") # <<>> /\ Way("R")' = Tail(Way("R")) /\ inbox'["R"] = inbox["R"]
      /\ inbox' \in [Peers -> Seq(Frames)] /\ out' \in [Peers -> Seq(Frames)] /\ Placed' /\ pos'["R"] = pos["R"]
      /\ IF open["S"] THEN Way("S")' = Way("S") \o Text("token") /\ pos'["S"] = "reply"
                      ELSE Way("S")' = Way("S") /\ pos'["S"] = "over"
  BY <1>1, <1>2, <1>3, Replies, SetupTexts
<1>5. pos["R"] = "token" /\ Way("S") = <<>> /\ Way("R") = Text("nonce")
  BY <1>1, <1>4 DEF Turns, NonceTurn
<1>6. Way("R")' = <<>> /\ Way("S")' = IF open["S"] THEN Text("token") ELSE <<>>
  BY <1>2, <1>4, <1>5, SetupTexts
<1>7. Turns'
  BY <1>4, <1>5, <1>6 DEF Turns, ReplyTurn, StoppedTurn
<1>8. ProofsDone'
  BY <1>1, <1>4, <1>5, ThePeers DEF ProofsDone
<1>9. FilesInTurn' /\ Kept' /\ WayOfFiles' /\ Counted' /\ Settled' /\ StreamIsOfItsFile'
  BY <1>1, <1>4, SenderSetup
<1>10. TypeOK'
  BY <1>1, <1>4, <1>5, SetupTypes DEF TypeOK, SenderPositions, ReceiverPositions
<1> QED BY <1>7, <1>8, <1>9, <1>10

LEMMA ReceiveTokenInv == ASSUME IInv, ReceiveToken PROVE IInv'
<1> USE DEF IInv
<1>1. /\ pos["R"] = "token" /\ Has("R") /\ Takes("R")
      /\ UNCHANGED <<pin, trusts, link, open, outcome, slot, tries, typed>> /\ UNCHANGED fileVars
  BY DEF ReceiveToken, setupVars, pinVars
<1>2. PICK frames, position :
        /\ Sends("R", frames, position)
        /\ \/ ~trusts["R"] /\ frames = Text("badKey") /\ position = "reject"
           \/ trusts["R"] /\ pin["R"] = "none" /\ frames = Text("ok") /\ position = "senderPin"
           \/ trusts["R"] /\ pin["R"] = "empty" /\ frames = Text("okPin") \o Text("pinOk") /\ position = "senderPin"
           \/ trusts["R"] /\ pin["R"] = "set" /\ frames = Text("okPin") /\ position = "verify"
  BY DEF ReceiveToken, Verifies, TypeOK, Peers
<1>3. /\ {"badKey", "ok", "okPin", "pinOk", "token"} \subseteq Words \ {"success", "failure"}
      /\ {"reject", "senderPin", "verify"} \subseteq Positions
  BY DEF Words, Positions, ReceiverPositions
<1>4. frames \in Seq(Frames) /\ <<>> \o frames = frames
  <2>1. \A w \in {"badKey", "ok", "okPin", "pinOk"} : Text(w) \in Seq(Frames)
    BY <1>3, SetupTexts
  <2>2. Text("okPin") \o Text("pinOk") \in Seq(Frames)
    BY <2>1, ConcatProperties
  <2>3. frames \in Seq(Frames)
    BY <1>2, <2>1, <2>2
  <2> QED BY <2>3, NoFrames
<1>5. Placed /\ "R" \in Peers /\ Other("R") = "S"
  BY ThePeers DEF Turns
<1>6. /\ Way("S") # <<>> /\ Way("S")' = Tail(Way("S"))
      /\ inbox' \in [Peers -> Seq(Frames)] /\ out' \in [Peers -> Seq(Frames)] /\ Placed' /\ pos'["S"] = pos["S"]
      /\ IF open["R"] THEN Way("R")' = Way("R") \o frames /\ pos'["R"] = position
                      ELSE Way("R")' = Way("R") /\ pos'["R"] = "over"
  BY <1>1, <1>2, <1>3, <1>4, <1>5, Replies
<1>7. pos["S"] = "reply" /\ Way("S") = Text("token") /\ Way("R") = <<>>
  BY <1>1, <1>6, STurn DEF NonceTurn, ReplyTurn, TypingTurn, AnsweredTurn, VerifyTurn, Hears, ChoiceTurn,
                           StoppedTurn
<1>8. Way("S")' = <<>> /\ Way("R")' = IF open["R"] THEN frames ELSE <<>>
  BY <1>3, <1>4, <1>6, <1>7, SetupTexts
<1>9. Turns'
  <2>1. ReplyTurn'
    BY <1>1, <1>2, <1>6, <1>8 DEF ReplyTurn
  <2> QED BY <1>6, <1>7, <2>1 DEF Turns
<1>10. ProofsDone'
  BY <1>1, <1>6, <1>7, ThePeers DEF ProofsDone
<1>11. FilesInTurn' /\ Kept' /\ WayOfFiles' /\ Counted' /\ Settled' /\ StreamIsOfItsFile'
  BY <1>1, <1>2, <1>3, <1>6, ReceiverSetup DEF Early
<1>12. TypeOK'
  BY <1>1, <1>2, <1>6, <1>7, SetupTypes DEF TypeOK, SenderPositions, ReceiverPositions
<1> QED BY <1>9, <1>10, <1>11, <1>12

LEMMA RejectInv == ASSUME IInv, Reject PROVE IInv'
<1> USE DEF IInv
<1>1. /\ pos["R"] = "reject" /\ Fails("R")
      /\ UNCHANGED <<pin, trusts, link, inbox, out, slot, tries, typed>> /\ UNCHANGED fileVars
  BY DEF Reject, setupVars, pinVars
<1>2. /\ Placed' /\ pos'["R"] = "over" /\ pos'["S"] = pos["S"]
      /\ open' \in [Peers -> BOOLEAN] /\ outcome' \in [Peers -> {"running", "finished", "error"}]
  BY <1>1, Stops, ThePeers DEF Turns
<1>3. Way("S")' = Way("S") /\ Way("R")' = Way("R")
  BY <1>1 DEF Way
<1>4. pos["S"] \in {"reply", "expel", "over"}
  BY <1>1, STurn DEF NonceTurn, ReplyTurn, TypingTurn, AnsweredTurn, VerifyTurn, Hears, ChoiceTurn, StoppedTurn
<1>5. Turns'
  BY <1>1, <1>2, <1>3, <1>4 DEF Turns, ReplyTurn, StoppedTurn
<1>6. ProofsDone'
  BY <1>1, <1>2, <1>4, ThePeers DEF ProofsDone
<1>7. FilesInTurn' /\ Kept' /\ WayOfFiles' /\ Counted' /\ Settled' /\ StreamIsOfItsFile'
  BY <1>1, <1>2, <1>3, ReceiverSetup DEF Early
<1>8. TypeOK'
  BY <1>1, <1>2, <1>4, SetupTypes DEF TypeOK, SenderPositions, ReceiverPositions
<1> QED BY <1>5, <1>6, <1>7, <1>8

LEMMA TwoTexts ==
    /\ Text("okPin") \o Text("pinOk") # <<>>
    /\ Head(Text("okPin") \o Text("pinOk")).word = "okPin"
    /\ Tail(Text("okPin") \o Text("pinOk")) = Text("pinOk")
<1> DEFINE a == Text("okPin")
           b == Text("pinOk")
<1>1. a \in Seq(Frames) /\ b \in Seq(Frames) /\ a # <<>> /\ Head(a).word = "okPin" /\ Tail(a) = <<>>
  BY SetupTexts DEF Words
<1> HIDE DEF a, b
<1>2. Tail(a) \o b = Tail(a \o b) /\ Head(a) = Head(a \o b) /\ a \o b # <<>>
  BY <1>1, FirstTaken
<1>3. Tail(a) \o b = b
  BY <1>1, NoFrames
<1>4. a \o b # <<>> /\ Head(a \o b).word = "okPin" /\ Tail(a \o b) = b
  BY <1>1, <1>2, <1>3
<1> QED BY <1>4 DEF a, b

\* The step after which S has given its list away, or asked for its own PIN.
LEMMA OwnPin ==
    ASSUME TypeOK, OwnPinThenList
    PROVE  \E word \in {"pinAgain", "list"} :
                /\ Sends("S", InChunks(word), IF word = "list" THEN "choice" ELSE "verify")
                /\ word = "list" => pin["S"] # "set"
  BY DEF OwnPinThenList

LEMMA ReceiveReplyInv == ASSUME IInv, ReceiveReply PROVE IInv'
<1> USE DEF IInv
<1>1. /\ pos["S"] = "reply" /\ Has("S") /\ Takes("S") /\ ReplyTurn /\ Placed
      /\ UNCHANGED <<pin, trusts, link, slot, tries, typed>> /\ UNCHANGED fileVars
  BY DEF ReceiveReply, setupVars, pinVars, Turns
<1>2. {"badKey", "ok", "okPin", "pinOk", "pinAgain", "list"} \subseteq Words /\ "S" \in Peers /\ Other("S") = "R"
  BY ThePeers DEF Words
<1>3. PinsOf("S")' = PinsOf("S") /\ Proved("R")' = Proved("R") /\ Proved("S")' = Proved("S")
  BY <1>1 DEF PinsOf, Proved
<1>4. CASE (Next1("S").word = "badKey" \/ ~Verifies("S")) /\ Fails("S") /\ UNCHANGED out
  <2>1. /\ Way("R") # <<>> /\ Way("R")' = Tail(Way("R")) /\ Way("S")' = Way("S")
        /\ inbox' \in [Peers -> Seq(Frames)] /\ inbox'["R"] = inbox["R"]
    BY <1>1, <1>2, <1>4, Listens
  <2>2. /\ Placed' /\ pos'["S"] = "over" /\ pos'["R"] = pos["R"]
        /\ open' \in [Peers -> BOOLEAN] /\ outcome' \in [Peers -> {"running", "finished", "error"}]
    BY <1>1, <1>2, <1>4, Stops
  <2>3. Turns'
    BY <1>1, <2>1, <2>2 DEF Turns, ReplyTurn, StoppedTurn
  <2>4. ProofsDone'
    BY <1>1, <2>2, ThePeers DEF ProofsDone
  <2>5. FilesInTurn' /\ Kept' /\ WayOfFiles' /\ Counted' /\ Settled' /\ StreamIsOfItsFile'
    BY <1>1, <2>1, <2>2, SenderSetup
  <2>6. TypeOK'
    BY <1>1, <1>4, <2>1, <2>2, SetupTypes DEF TypeOK, SenderPositions
  <2> QED BY <2>3, <2>4, <2>5, <2>6
<1>5. CASE Next1("S").word = "okPin" /\ Verifies("S") /\ Goes("S", "prompt") /\ UNCHANGED <<out, open, outcome>>
  <2>1. /\ Way("R") # <<>> /\ Way("R")' = Tail(Way("R")) /\ Way("S")' = Way("S") /\ Head(Way("R")).word = "okPin"
        /\ inbox' \in [Peers -> Seq(Frames)] /\ inbox'["R"] = inbox["R"]
    BY <1>1, <1>2, <1>5, Listens
  <2>2. Placed' /\ pos'["S"] = "prompt" /\ pos'["R"] = pos["R"]
    BY <1>1, <1>2, <1>5, Gets DEF Positions, SenderPositions
  <2>3. /\ trusts["R"] /\ Way("S") = <<>>
        /\ \/ pos["R"] = "senderPin" /\ pin["R"] = "empty" /\ Way("R") = Text("okPin") \o Text("pinOk")
           \/ pos["R"] = "verify" /\ Way("R") = Text("okPin")
    BY <1>1, <1>2, <2>1, SetupTexts DEF ReplyTurn
  <2>4. TypingTurn'
    <3>1. CASE pos["R"] = "senderPin" /\ pin["R"] = "empty" /\ Way("R") = Text("okPin") \o Text("pinOk")
      BY <1>3, <2>1, <2>2, <2>3, <3>1, TwoTexts DEF TypingTurn, Proved
    <3>2. CASE pos["R"] = "verify" /\ Way("R") = Text("okPin")
      BY <1>2, <2>1, <2>2, <2>3, <3>2, SetupTexts DEF TypingTurn
    <3> QED BY <2>3, <3>1, <3>2
  <2>5. Turns'
    BY <2>2, <2>4 DEF Turns
  <2>6. ProofsDone'
    BY <1>1, <1>5, <2>2, <2>3, ThePeers DEF ProofsDone, Verifies
  <2>7. FilesInTurn' /\ Kept' /\ WayOfFiles' /\ Counted' /\ Settled' /\ StreamIsOfItsFile'
    BY <1>1, <2>1, <2>2, SenderSetup
  <2>8. TypeOK'
    BY <1>1, <1>5, <2>1, <2>2, SetupTypes DEF TypeOK, SenderPositions
  <2> QED BY <2>5, <2>6, <2>7, <2>8
<1>6. CASE Next1("S").word \notin {"badKey", "okPin"} /\ Verifies("S") /\ OwnPinThenList /\ UNCHANGED <<open, outcome>>
  <2> DEFINE next(word) == IF word = "list" THEN "choice" ELSE "verify"
  <2>1. PICK word \in {"pinAgain", "list"} :
            Sends("S", InChunks(word), next(word)) /\ (word = "list" => pin["S"] # "set")
    BY <1>6, OwnPin
  <2>2. InChunks(word) \in Seq(Frames) /\ <<>> \o InChunks(word) = InChunks(word) /\ next(word) \in Positions
    BY <1>2, SetupTexts DEF Positions, SenderPositions
  <2>3. /\ Way("R") # <<>> /\ Next1("S") = Head(Way("R")) /\ Way("R")' = Tail(Way("R"))
        /\ inbox' \in [Peers -> Seq(Frames)] /\ out' \in [Peers -> Seq(Frames)] /\ inbox'["R"] = inbox["R"]
        /\ Placed' /\ pos'["R"] = pos["R"]
        /\ IF open["S"] THEN Way("S")' = Way("S") \o InChunks(word) /\ pos'["S"] = next(word)
                        ELSE Way("S")' = Way("S") /\ pos'["S"] = "over"
    BY <1>1, <1>2, <2>1, <2>2, Replies
  <2>4. pos["R"] = "senderPin" /\ Way("S") = <<>> /\ trusts["R"] /\ pin["R"] = "none" /\ Way("R") = Text("ok")
    <3>1. Way("R") # Text("badKey") /\ Way("R") # Text("okPin")
      BY <1>2, <1>6, <2>3, SetupTexts
    <3>2. Way("R") # Text("okPin") \o Text("pinOk") /\ Way("R") # <<>>
      BY <1>6, <2>3, TwoTexts
    <3> QED BY <1>1, <3>1, <3>2 DEF ReplyTurn
  <2>5. Way("R")' = <<>> /\ Way("S")' = IF open["S"] THEN InChunks(word) ELSE <<>>
    BY <1>2, <2>2, <2>3, <2>4, SetupTexts
  <2>6. Turns'
    BY <2>3, <2>4, <2>5 DEF Turns, VerifyTurn, ChoiceTurn, Hears, StoppedTurn
  <2>7. ProofsDone'
    BY <1>1, <1>6, <2>1, <2>3, <2>4, ThePeers DEF ProofsDone, Verifies, Proved
  <2>8. FilesInTurn' /\ Kept' /\ WayOfFiles' /\ Counted' /\ Settled' /\ StreamIsOfItsFile'
    BY <1>1, <2>3, SenderSetup
  <2>9. TypeOK'
    BY <1>1, <1>6, <2>3, SetupTypes DEF TypeOK, SenderPositions
  <2> QED BY <2>6, <2>7, <2>8, <2>9
<1> QED BY <1>4, <1>5, <1>6 DEF ReceiveReply

-----------------------------------------------------------------------------
(* PINs.                                                                   *)

\* Steps that move neither a frame nor a task.
LEMMA SilentInv ==
    ASSUME IInv, NEW p \in Peers, Disconnect \/ PeerGone(p) \/ Forward(p)
    PROVE  IInv'
<1> USE DEF IInv
<1>1. /\ UNCHANGED <<pin, trusts, pos, out, inbox, tries, typed>> /\ UNCHANGED fileVars
      /\ \A q \in Peers : open'[q] => open[q]
  <2>1. UNCHANGED <<pin, trusts, pos, out, inbox, tries, typed>> /\ UNCHANGED fileVars
    BY DEF Disconnect, PeerGone, Forward, setupVars, netVars, pinVars
  <2>2. open' = open \/ open' = [open EXCEPT ![p] = FALSE]
    BY DEF Disconnect, PeerGone, Forward, netVars
  <2> QED BY <2>1, <2>2 DEF TypeOK
<1>2. Way("S")' = Way("S") /\ Way("R")' = Way("R")
  BY <1>1 DEF Way
<1>3. Turns' /\ ProofsDone'
  BY <1>1, <1>2, TurnsKept
<1>4. FilesInTurn' /\ Kept' /\ WayOfFiles' /\ Counted' /\ Settled' /\ StreamIsOfItsFile'
  <2>1. NoVerdictSent
    BY <1>2, QuietTaken
  <2>2. pos["R"] = "settle" => inbox["R"] # <<>>
    BY DEF FilesInTurn
  <2> QED BY <1>1, <1>2, <2>1, <2>2, ThePeers, FilesKept
<1>5. link' \in BOOLEAN /\ open' \in [Peers -> BOOLEAN] /\ outcome' \in [Peers -> {"running", "finished", "error"}]
      /\ slot' \in [Peers -> {"none", "pushed", "ready"}]
  <2>1. CASE Disconnect
    BY <2>1 DEF Disconnect, TypeOK, pinVars
  <2>2. CASE PeerGone(p)
    <3>1. outcome' = [outcome EXCEPT ![p] = "finished"] /\ open' = [open EXCEPT ![p] = FALSE] /\ UNCHANGED <<link, slot>>
      BY <2>2 DEF PeerGone, Ends, pinVars, TypeOK
    <3> QED BY <3>1 DEF TypeOK
  <2>3. CASE Forward(p)
    BY <2>3 DEF Forward, TypeOK, netVars
  <2> QED BY <2>1, <2>2, <2>3
<1>6. TypeOK'
  BY <1>1, <1>5 DEF TypeOK, fileVars, sendVars, takeVars
<1> QED BY <1>3, <1>4, <1>6

LEMMA PromptInv == ASSUME IInv, NEW p \in Peers, Prompt(p) PROVE IInv'
<1> USE DEF IInv
<1>1. /\ pos[p] = "prompt" /\ Goes(p, "typing") /\ slot' = [slot EXCEPT ![p] = "pushed"]
      /\ UNCHANGED <<pin, trusts, out, inbox, link, open, outcome, tries, typed>> /\ UNCHANGED fileVars
  BY DEF Prompt, setupVars, netVars
<1>2. Placed' /\ pos'[p] = "typing" /\ pos'[Other(p)] = pos[Other(p)]
  BY <1>1, Gets DEF Positions, SenderPositions, Turns
<1>3. Way("S")' = Way("S") /\ Way("R")' = Way("R") /\ PinsOf("S")' = PinsOf("S") /\ Proved("R")' = Proved("R")
      /\ Proved("S")' = Proved("S")
  BY <1>1 DEF Way, PinsOf, Proved
<1>4. slot' \in [Peers -> {"none", "pushed", "ready"}]
  BY <1>1 DEF TypeOK
<1>5. CASE p = "S"
  <2>1. pos'["S"] = "typing" /\ pos'["R"] = pos["R"] /\ pos["S"] = "prompt"
    BY <1>1, <1>2, <1>5, ThePeers
  <2>2. TypingTurn
    BY <2>1 DEF Turns
  <2>3. Turns'
    BY <1>2, <1>3, <2>1, <2>2 DEF Turns, TypingTurn
  <2>4. ProofsDone'
    BY <1>1, <1>3, <2>1, ThePeers DEF ProofsDone
  <2>5. FilesInTurn' /\ Kept' /\ WayOfFiles' /\ Counted' /\ Settled' /\ StreamIsOfItsFile'
    BY <1>1, <1>3, <2>1, SenderSetup
  <2>6. TypeOK'
    BY <1>1, <1>4, <2>1, SetupTypes DEF TypeOK, SenderPositions
  <2> QED BY <2>3, <2>4, <2>5, <2>6
<1>6. CASE p = "R"
  <2>1. pos'["R"] = "typing" /\ pos'["S"] = pos["S"] /\ pos["R"] = "prompt"
    BY <1>1, <1>2, <1>6, ThePeers
  <2>2. /\ pos["S"] \in {"verify", "expel", "over"} /\ Way("S") = <<>>
        /\ pos["S"] = "verify" => Way("R") = <<>>
    BY <2>1, STurn DEF NonceTurn, ReplyTurn, TypingTurn, AnsweredTurn, VerifyTurn, Hears, ChoiceTurn, StoppedTurn
  <2>3. Turns'
    BY <1>2, <1>3, <2>1, <2>2 DEF Turns, VerifyTurn, StoppedTurn
  <2>4. ProofsDone'
    BY <1>1, <1>3, <2>1, ThePeers DEF ProofsDone
  <2>5. FilesInTurn' /\ Kept' /\ WayOfFiles' /\ Counted' /\ Settled' /\ StreamIsOfItsFile'
    BY <1>1, <1>3, <2>1, ReceiverSetup DEF Early
  <2>6. TypeOK'
    BY <1>1, <1>4, <2>1, SetupTypes DEF TypeOK, ReceiverPositions
  <2> QED BY <2>3, <2>4, <2>5, <2>6
<1> QED BY <1>5, <1>6, ThePeers

LEMMA SendPinInv == ASSUME IInv, NEW p \in Peers, NEW right \in BOOLEAN, SendPin(p, right) PROVE IInv'
<1> USE DEF IInv
<1> DEFINE w == IF right THEN "rightPin" ELSE "wrongPin"
<1>1. /\ pos[p] = "typing" /\ Sends(p, Text(w), "answered") /\ slot' = [slot EXCEPT ![p] = "none"]
      /\ UNCHANGED <<pin, trusts, inbox, link, open, outcome, tries>> /\ UNCHANGED fileVars
      /\ typed' = [typed EXCEPT ![p] = IF right THEN [typed[p] EXCEPT !.right = TRUE]
                                                ELSE [typed[p] EXCEPT !.wrong = typed[p].wrong + 1]]
  <2>1. /\ pos[p] = "typing" /\ Sends(p, Text(w), "answered") /\ slot' = [slot EXCEPT ![p] = "none"]
        /\ UNCHANGED <<pin, trusts, inbox, link, open, outcome, tries>> /\ UNCHANGED fileVars
    BY DEF SendPin, setupVars, netVars
  <2>2. typed' = [typed EXCEPT ![p] = IF right THEN [typed[p] EXCEPT !.right = TRUE]
                                                ELSE [typed[p] EXCEPT !.wrong = typed[p].wrong + 1]]
    <3>1. CASE right
      BY <3>1 DEF SendPin
    <3>2. CASE ~right
      BY <3>2 DEF SendPin
    <3> QED BY <3>1, <3>2
  <2> QED BY <2>1, <2>2
<1>2. w \in Words \ {"success", "failure"} /\ Text(w) \in Seq(Frames) /\ <<>> \o Text(w) = Text(w)
  BY SetupTexts DEF Words
<1>3. /\ typed' \in [Peers -> [wrong : Nat, right : BOOLEAN]]
      /\ typed'[p].right = (typed[p].right \/ right) /\ typed'[Other(p)] = typed[Other(p)]
  <2>1. typed[p] \in [wrong : Nat, right : BOOLEAN] /\ Other(p) # p /\ Other(p) \in Peers
    BY ThePeers DEF TypeOK
  <2>2. CASE right
    <3>1. [typed[p] EXCEPT !.right = TRUE] \in [wrong : Nat, right : BOOLEAN] /\ [typed[p] EXCEPT !.right = TRUE].right
      BY <2>1
    <3> QED BY <1>1, <2>1, <2>2, <3>1 DEF TypeOK
  <2>3. CASE ~right
    <3>1. /\ [typed[p] EXCEPT !.wrong = typed[p].wrong + 1] \in [wrong : Nat, right : BOOLEAN]
          /\ [typed[p] EXCEPT !.wrong = typed[p].wrong + 1].right = typed[p].right
      BY <2>1
    <3> QED BY <1>1, <2>1, <2>3, <3>1 DEF TypeOK
  <2> QED BY <2>2, <2>3
<1>4. /\ \A q \in Peers : (typed[q].right => typed'[q].right) /\ (Proved(q) => Proved(q)')
      /\ Text(w) \in PinsOf(p)' /\ PinsOf(Other(p))' = PinsOf(Other(p))
  <2>1. \A q \in Peers : typed[q].right => typed'[q].right
    BY <1>3, ThePeers
  <2> QED BY <1>1, <1>3, <2>1, ThePeers DEF Proved, PinsOf
<1>5. slot' \in [Peers -> {"none", "pushed", "ready"}]
  BY <1>1 DEF TypeOK
<1>6. /\ out' \in [Peers -> Seq(Frames)] /\ Way(Other(p))' = Way(Other(p))
      /\ Placed' /\ pos'[Other(p)] = pos[Other(p)]
      /\ IF open[p] THEN Way(p)' = Way(p) \o Text(w) /\ pos'[p] = "answered"
                    ELSE Way(p)' = Way(p) /\ pos'[p] = "over"
  BY <1>1, <1>2, Speaks DEF Positions, SenderPositions, Turns
<1> HIDE DEF w
<1>7. CASE p = "S"
  <2>1. /\ pos["S"] = "typing" /\ pos'["R"] = pos["R"] /\ Way("R")' = Way("R") /\ Text(w) \in PinsOf("S")'
        /\ IF open["S"] THEN Way("S")' = Way("S") \o Text(w) /\ pos'["S"] = "answered"
                        ELSE Way("S")' = Way("S") /\ pos'["S"] = "over"
    BY <1>1, <1>4, <1>6, <1>7, ThePeers
  <2>2. TypingTurn /\ Way("S") = <<>>
    BY <2>1 DEF Turns, TypingTurn
  <2>3. Turns'
    BY <1>2, <1>4, <1>6, <2>1, <2>2, ThePeers DEF Turns, TypingTurn, AnsweredTurn, StoppedTurn
  <2>4. ProofsDone'
    BY <1>1, <1>4, <2>1, ThePeers DEF ProofsDone
  <2>5. FilesInTurn' /\ Kept' /\ WayOfFiles' /\ Counted' /\ Settled' /\ StreamIsOfItsFile'
    BY <1>1, <2>1, SenderSetup
  <2>6. TypeOK'
    BY <1>1, <1>3, <1>5, <1>6, <2>1, SetupTypes DEF TypeOK, SenderPositions
  <2> QED BY <2>3, <2>4, <2>5, <2>6
<1>8. CASE p = "R"
  <2>1. /\ pos["R"] = "typing" /\ pos'["S"] = pos["S"] /\ Way("S")' = Way("S") /\ Text(w) \in PinsOf("R")'
        /\ IF open["R"] THEN Way("R")' = Way("R") \o Text(w) /\ pos'["R"] = "answered"
                        ELSE Way("R")' = Way("R") /\ pos'["R"] = "over"
    BY <1>1, <1>4, <1>6, <1>8, ThePeers
  <2>2. /\ pos["S"] \in {"verify", "expel", "over"} /\ Way("S") = <<>>
        /\ pos["S"] = "verify" => Way("R") = <<>>
    BY <2>1, STurn DEF NonceTurn, ReplyTurn, TypingTurn, AnsweredTurn, VerifyTurn, Hears, ChoiceTurn, StoppedTurn
  <2>3. Turns'
    BY <1>2, <1>6, <2>1, <2>2 DEF Turns, VerifyTurn, StoppedTurn
  <2>4. ProofsDone'
    BY <1>1, <1>4, <2>1, ThePeers DEF ProofsDone
  <2>5. FilesInTurn' /\ Kept' /\ WayOfFiles' /\ Counted' /\ Settled' /\ StreamIsOfItsFile'
    BY <1>1, <1>2, <2>1, ReceiverSetup DEF Early
  <2>6. TypeOK'
    BY <1>1, <1>3, <1>5, <1>6, <2>1, SetupTypes DEF TypeOK, ReceiverPositions
  <2> QED BY <2>3, <2>4, <2>5, <2>6
<1> QED BY <1>7, <1>8, ThePeers
LEMMA APin ==
    ASSUME NEW p, NEW q \in PinsOf(p)
    PROVE  \E w \in {"rightPin", "wrongPin"} : q = Text(w) /\ (w = "rightPin" => typed[p].right)
  BY DEF PinsOf

\* What the verifier does with a PIN.
LEMMA Judges ==
    ASSUME IInv, NEW p \in Peers, VerifyPin(p)
    PROVE  /\ pos[p] = "verify" /\ Has(p) /\ Takes(p)
           /\ UNCHANGED <<pin, trusts, link, open, outcome, slot, typed>> /\ UNCHANGED fileVars
           /\ tries' \in [Peers -> 0..MaxTries] /\ tries'[Other(p)] = tries[Other(p)]
           /\ \E word \in {"list", "pinOk", "pinAgain", "pinOver"}, position \in Positions :
                /\ Sends(p, Says(p, word), position)
                /\ \/ /\ Next1(p).word = "rightPin" /\ word = (IF p = "S" THEN "list" ELSE "pinOk")
                      /\ position = (IF p = "S" THEN "choice" ELSE "senderPin") /\ tries'[p] < MaxTries
                   \/ /\ Next1(p).word # "rightPin" /\ word = "pinAgain" /\ position = "verify"
                      /\ tries'[p] < MaxTries
                   \/ Next1(p).word # "rightPin" /\ word = "pinOver" /\ position = "expel"
<1>1. tries \in [Peers -> 0..MaxTries] /\ tries[p] < MaxTries /\ MaxTries \in Nat \ {0} /\ Other(p) # p
  <2>1. pos[p] = "verify"
    BY DEF VerifyPin
  <2> QED BY <2>1, ConstantsAssumption, ThePeers DEF IInv, TypeOK, ProofsDone
<1>2. /\ pos[p] = "verify" /\ Has(p) /\ Takes(p)
      /\ UNCHANGED <<pin, trusts, link, open, outcome, slot, typed>> /\ UNCHANGED fileVars
  BY DEF VerifyPin, setupVars
<1>3. {"list", "pinOk", "pinAgain", "pinOver"} \subseteq Words /\ {"choice", "senderPin", "verify", "expel"} \subseteq Positions
  BY DEF Words, Positions, SenderPositions, ReceiverPositions
<1>4. CASE Next1(p).word = "rightPin"
  <2>1. UNCHANGED tries /\ Sends(p, Says(p, IF p = "S" THEN "list" ELSE "pinOk"), IF p = "S" THEN "choice" ELSE "senderPin")
    BY <1>4 DEF VerifyPin
  <2> QED BY <1>1, <1>2, <1>3, <1>4, <2>1
<1>5. CASE Next1(p).word # "rightPin"
  <2>1. /\ tries' = [tries EXCEPT ![p] = tries[p] + 1]
        /\ IF tries[p] + 1 < MaxTries THEN Sends(p, Says(p, "pinAgain"), "verify")
                                      ELSE Sends(p, Says(p, "pinOver"), "expel")
    BY <1>5 DEF VerifyPin, TriesLeft
  <2>2. tries[p] + 1 \in 0..MaxTries
    BY <1>1
  <2>3. tries' \in [Peers -> 0..MaxTries] /\ tries'[p] = tries[p] + 1 /\ tries'[Other(p)] = tries[Other(p)]
    BY <1>1, <2>1, <2>2, ThePeers
  <2> QED BY <1>2, <1>3, <1>5, <2>1, <2>3
<1> QED BY <1>4, <1>5

LEMMA SenderVerifyInv == ASSUME IInv, VerifyPin("S") PROVE IInv'
<1> USE DEF IInv
<1>1. /\ pos["S"] = "verify" /\ Has("S") /\ Takes("S") /\ VerifyTurn /\ Placed /\ "S" \in Peers /\ Other("S") = "R"
      /\ UNCHANGED <<pin, trusts, link, open, outcome, slot, typed>> /\ UNCHANGED fileVars
      /\ tries' \in [Peers -> 0..MaxTries] /\ tries'["R"] = tries["R"]
  BY Judges, ThePeers DEF Turns
<1>2. PICK word \in {"list", "pinAgain", "pinOver"}, position \in {"choice", "verify", "expel"} :
        /\ Sends("S", InChunks(word), position)
        /\ \/ Next1("S").word = "rightPin" /\ word = "list" /\ position = "choice" /\ tries'["S"] < MaxTries
           \/ word = "pinAgain" /\ position = "verify" /\ tries'["S"] < MaxTries
           \/ word = "pinOver" /\ position = "expel"
  BY Judges, ThePeers DEF Says
<1>3. {"list", "pinAgain", "pinOver", "rightPin", "wrongPin"} \subseteq Words /\ position \in Positions
  BY DEF Words, Positions, SenderPositions
<1>4. /\ Way("R") # <<>> /\ Next1("S") = Head(Way("R")) /\ Way("R")' = Tail(Way("R")) /\ inbox'["R"] = inbox["R"]
      /\ inbox' \in [Peers -> Seq(Frames)] /\ out' \in [Peers -> Seq(Frames)] /\ Placed' /\ pos'["R"] = pos["R"]
      /\ IF open["S"] THEN Way("S")' = Way("S") \o InChunks(word) /\ pos'["S"] = position
                      ELSE Way("S")' = Way("S") /\ pos'["S"] = "over"
  BY <1>1, <1>2, <1>3, Replies, SetupTexts
<1>5. pos["R"] = "answered" /\ Way("S") = <<>> /\ Way("R") \in PinsOf("R")
  BY <1>1, <1>4 DEF VerifyTurn, Hears
<1>6. Way("R")' = <<>> /\ (Next1("S").word = "rightPin" => Proved("S"))
  <2>1. PICK w \in {"rightPin", "wrongPin"} : Way("R") = Text(w) /\ (w = "rightPin" => typed["R"].right)
    BY <1>5, APin
  <2> QED BY <1>1, <1>3, <1>4, <2>1, SetupTexts, ZenonT(60) DEF Proved
<1>7. Way("S")' = IF open["S"] THEN InChunks(word) ELSE <<>>
  BY <1>3, <1>4, <1>5, SetupTexts
<1>8. Turns'
  BY <1>2, <1>4, <1>5, <1>6, <1>7 DEF Turns, VerifyTurn, ChoiceTurn, Hears, StoppedTurn
<1>9. ProofsDone'
  <2>1. Proved("R")' = Proved("R") /\ Proved("S")' = Proved("S")
    BY <1>1 DEF Proved
  <2> QED BY <1>1, <1>2, <1>4, <1>5, <1>6, <2>1, ThePeers DEF ProofsDone
<1>10. FilesInTurn' /\ Kept' /\ WayOfFiles' /\ Counted' /\ Settled' /\ StreamIsOfItsFile'
  BY <1>1, <1>4, SenderSetup
<1>11. TypeOK'
  BY <1>1, <1>4, SetupTypes DEF TypeOK, SenderPositions
<1> QED BY <1>8, <1>9, <1>10, <1>11

LEMMA ReceiverVerifyInv == ASSUME IInv, VerifyPin("R") PROVE IInv'
<1> USE DEF IInv
<1>1. /\ pos["R"] = "verify" /\ Has("R") /\ Takes("R") /\ Placed /\ "R" \in Peers /\ Other("R") = "S"
      /\ UNCHANGED <<pin, trusts, link, open, outcome, slot, typed>> /\ UNCHANGED fileVars
      /\ tries' \in [Peers -> 0..MaxTries] /\ tries'["S"] = tries["S"]
  BY Judges, ThePeers DEF Turns
<1>2. PICK word \in {"pinOk", "pinAgain", "pinOver"}, position \in {"senderPin", "verify", "expel"} :
        /\ Sends("R", Text(word), position)
        /\ \/ Next1("R").word = "rightPin" /\ word = "pinOk" /\ position = "senderPin" /\ tries'["R"] < MaxTries
           \/ word = "pinAgain" /\ position = "verify" /\ tries'["R"] < MaxTries
           \/ word = "pinOver" /\ position = "expel"
  BY Judges, ThePeers DEF Says
<1>3. /\ {"pinOk", "pinAgain", "pinOver", "rightPin", "wrongPin"} \subseteq Words \ {"success", "failure"}
      /\ position \in Positions
  BY DEF Words, Positions, ReceiverPositions
<1>4. /\ Way("S") # <<>> /\ Next1("R") = Head(Way("S")) /\ Way("S")' = Tail(Way("S"))
      /\ inbox' \in [Peers -> Seq(Frames)] /\ out' \in [Peers -> Seq(Frames)] /\ Placed' /\ pos'["S"] = pos["S"]
      /\ IF open["R"] THEN Way("R")' = Way("R") \o Text(word) /\ pos'["R"] = position
                      ELSE Way("R")' = Way("R") /\ pos'["R"] = "over"
  BY <1>1, <1>2, <1>3, Replies, SetupTexts
<1>5. pos["S"] = "answered" /\ Way("R") = <<>> /\ Way("S") \in PinsOf("S")
  BY <1>1, <1>4, STurn DEF NonceTurn, ReplyTurn, TypingTurn, AnsweredTurn, VerifyTurn, Hears, ChoiceTurn, StoppedTurn
<1>6. Way("S")' = <<>> /\ (Next1("R").word = "rightPin" => Proved("R"))
  <2>1. PICK w \in {"rightPin", "wrongPin"} : Way("S") = Text(w) /\ (w = "rightPin" => typed["S"].right)
    BY <1>5, APin
  <2> QED BY <1>1, <1>3, <1>4, <2>1, SetupTexts, ZenonT(60) DEF Proved
<1>7. Way("R")' = IF open["R"] THEN Text(word) ELSE <<>>
  BY <1>3, <1>4, <1>5, SetupTexts
<1>8. Proved("R")' = Proved("R") /\ Proved("S")' = Proved("S")
  BY <1>1 DEF Proved
<1>9. Turns'
  BY <1>2, <1>4, <1>5, <1>6, <1>7, <1>8 DEF Turns, AnsweredTurn
<1>10. ProofsDone'
  BY <1>1, <1>2, <1>4, <1>5, <1>8, ThePeers DEF ProofsDone
<1>11. FilesInTurn' /\ Kept' /\ WayOfFiles' /\ Counted' /\ Settled' /\ StreamIsOfItsFile'
  BY <1>1, <1>2, <1>3, <1>4, ReceiverSetup DEF Early
<1>12. TypeOK'
  BY <1>1, <1>2, <1>4, SetupTypes DEF TypeOK, ReceiverPositions
<1> QED BY <1>9, <1>10, <1>11, <1>12

LEMMA ExpelInv == ASSUME IInv, NEW p \in Peers, Expel(p) PROVE IInv'
<1> USE DEF IInv
<1>1. /\ pos[p] = "expel" /\ Fails(p)
      /\ UNCHANGED <<pin, trusts, link, inbox, out, open, slot, tries, typed>> /\ UNCHANGED fileVars
  BY DEF Expel, Fails, setupVars, pinVars
<1>2. /\ Placed' /\ pos'[p] = "over" /\ pos'[Other(p)] = pos[Other(p)]
      /\ open' \in [Peers -> BOOLEAN] /\ outcome' \in [Peers -> {"running", "finished", "error"}]
  BY <1>1, Stops DEF Turns
<1>3. Way("S")' = Way("S") /\ Way("R")' = Way("R") /\ \A q : PinsOf(q)' = PinsOf(q) /\ Proved(q)' = Proved(q)
  BY <1>1 DEF Way, PinsOf, Proved
<1>4. CASE p = "S"
  <2>1. pos["S"] = "expel" /\ pos'["S"] = "over" /\ pos'["R"] = pos["R"] /\ StoppedTurn
    BY <1>1, <1>2, <1>4, ThePeers DEF Turns
  <2>2. Turns'
    BY <1>2, <1>3, <2>1 DEF Turns, StoppedTurn
  <2>3. ProofsDone'
    BY <1>1, <2>1, ThePeers DEF ProofsDone
  <2>4. FilesInTurn' /\ Kept' /\ WayOfFiles' /\ Counted' /\ Settled' /\ StreamIsOfItsFile'
    BY <1>1, <1>3, <2>1, SenderSetup
  <2>5. TypeOK'
    BY <1>1, <1>2, <2>1, SetupTypes DEF TypeOK, SenderPositions
  <2> QED BY <2>2, <2>3, <2>4, <2>5
<1>5. CASE p = "R"
  <2>1. pos["R"] = "expel" /\ pos'["R"] = "over" /\ pos'["S"] = pos["S"]
    BY <1>1, <1>2, <1>5, ThePeers
  <2>2. /\ pos["S"] \in {"answered", "expel", "over"} /\ Way("S") = <<>>
        /\ pos["S"] = "answered" => Way("R") = Text("pinOver")
    BY <2>1, STurn DEF NonceTurn, ReplyTurn, TypingTurn, AnsweredTurn, VerifyTurn, Hears, ChoiceTurn, StoppedTurn
  <2>3. Turns'
    BY <1>2, <1>3, <2>1, <2>2 DEF Turns, AnsweredTurn, StoppedTurn
  <2>4. ProofsDone'
    BY <1>1, <1>3, <2>1, ThePeers DEF ProofsDone
  <2>5. FilesInTurn' /\ Kept' /\ WayOfFiles' /\ Counted' /\ Settled' /\ StreamIsOfItsFile'
    BY <1>1, <1>3, <2>1, ReceiverSetup DEF Early
  <2>6. TypeOK'
    BY <1>1, <1>2, <2>1, SetupTypes DEF TypeOK, ReceiverPositions
  <2> QED BY <2>3, <2>4, <2>5, <2>6
<1> QED BY <1>4, <1>5, ThePeers
LEMMA SenderPinReplyInv == ASSUME IInv, SenderPinReply PROVE IInv'
<1> USE DEF IInv
<1>1. /\ pos["S"] = "answered" /\ Has("S") /\ Takes("S") /\ AnsweredTurn /\ Placed
      /\ UNCHANGED <<pin, trusts, link, slot, tries, typed>> /\ UNCHANGED fileVars
  BY DEF SenderPinReply, setupVars, pinVars, Turns
<1>2. {"pinOk", "pinAgain", "pinOver", "list"} \subseteq Words /\ "S" \in Peers /\ Other("S") = "R"
  BY ThePeers DEF Words
<1>3. PinsOf("S")' = PinsOf("S") /\ Proved("R")' = Proved("R") /\ Proved("S")' = Proved("S")
  BY <1>1 DEF PinsOf, Proved
<1>4. CASE Next1("S").word \notin {"pinOk", "pinAgain"} /\ Fails("S") /\ UNCHANGED out
  <2>1. /\ Way("R") # <<>> /\ Way("R")' = Tail(Way("R")) /\ Way("S")' = Way("S") /\ Next1("S") = Head(Way("R"))
        /\ inbox' \in [Peers -> Seq(Frames)] /\ inbox'["R"] = inbox["R"]
    BY <1>1, <1>2, <1>4, Listens
  <2>2. /\ Placed' /\ pos'["S"] = "over" /\ pos'["R"] = pos["R"]
        /\ open' \in [Peers -> BOOLEAN] /\ outcome' \in [Peers -> {"running", "finished", "error"}]
    BY <1>1, <1>2, <1>4, Stops
  <2>3. (pos["R"] = "expel" /\ Way("S") = <<>>) \/ pos["R"] = "over"
    BY <1>1, <1>2, <1>4, <2>1, SetupTexts DEF AnsweredTurn
  <2>4. Turns'
    BY <2>1, <2>2, <2>3 DEF Turns, StoppedTurn
  <2>5. ProofsDone'
    BY <1>1, <2>2, ThePeers DEF ProofsDone
  <2>6. FilesInTurn' /\ Kept' /\ WayOfFiles' /\ Counted' /\ Settled' /\ StreamIsOfItsFile'
    BY <1>1, <2>1, <2>2, SenderSetup
  <2>7. TypeOK'
    BY <1>1, <1>4, <2>1, <2>2, SetupTypes DEF TypeOK, SenderPositions
  <2> QED BY <2>4, <2>5, <2>6, <2>7
<1>5. CASE Next1("S").word = "pinAgain" /\ Goes("S", "prompt") /\ UNCHANGED <<out, open, outcome>>
  <2>1. /\ Way("R") # <<>> /\ Way("R")' = Tail(Way("R")) /\ Way("S")' = Way("S") /\ Next1("S") = Head(Way("R"))
        /\ inbox' \in [Peers -> Seq(Frames)] /\ inbox'["R"] = inbox["R"]
    BY <1>1, <1>2, <1>5, Listens
  <2>2. Placed' /\ pos'["S"] = "prompt" /\ pos'["R"] = pos["R"]
    BY <1>1, <1>2, <1>5, Gets DEF Positions, SenderPositions
  <2>3. pos["R"] = "verify" /\ Way("S") = <<>> /\ Way("R") = Text("pinAgain")
    BY <1>1, <1>2, <1>5, <2>1, SetupTexts DEF AnsweredTurn
  <2>4. Way("R")' = <<>>
    BY <1>2, <2>1, <2>3, SetupTexts
  <2>5. Turns'
    BY <2>1, <2>2, <2>3, <2>4 DEF Turns, TypingTurn
  <2>6. ProofsDone'
    BY <1>1, <1>3, <2>2, ThePeers DEF ProofsDone
  <2>7. FilesInTurn' /\ Kept' /\ WayOfFiles' /\ Counted' /\ Settled' /\ StreamIsOfItsFile'
    BY <1>1, <2>1, <2>2, SenderSetup
  <2>8. TypeOK'
    BY <1>1, <1>5, <2>1, <2>2, SetupTypes DEF TypeOK, SenderPositions
  <2> QED BY <2>5, <2>6, <2>7, <2>8
<1>6. CASE Next1("S").word = "pinOk" /\ OwnPinThenList /\ UNCHANGED <<open, outcome>>
  <2> DEFINE next(word) == IF word = "list" THEN "choice" ELSE "verify"
  <2>1. PICK word \in {"pinAgain", "list"} :
            Sends("S", InChunks(word), next(word)) /\ (word = "list" => pin["S"] # "set")
    BY <1>6, OwnPin
  <2>2. InChunks(word) \in Seq(Frames) /\ <<>> \o InChunks(word) = InChunks(word) /\ next(word) \in Positions
    BY <1>2, SetupTexts DEF Positions, SenderPositions
  <2>3. /\ Way("R") # <<>> /\ Next1("S") = Head(Way("R")) /\ Way("R")' = Tail(Way("R"))
        /\ inbox' \in [Peers -> Seq(Frames)] /\ out' \in [Peers -> Seq(Frames)] /\ inbox'["R"] = inbox["R"]
        /\ Placed' /\ pos'["R"] = pos["R"]
        /\ IF open["S"] THEN Way("S")' = Way("S") \o InChunks(word) /\ pos'["S"] = next(word)
                        ELSE Way("S")' = Way("S") /\ pos'["S"] = "over"
    BY <1>1, <1>2, <2>1, <2>2, Replies
  <2>4. /\ Way("R") = Text("pinOk") /\ Proved("R")
        /\ \/ pos["R"] = "senderPin" /\ (Way("S") = <<>> \/ Way("S") \in PinsOf("S"))
           \/ pos["R"] = "over"
    BY <1>1, <1>2, <1>6, <2>3, SetupTexts DEF AnsweredTurn
  <2>5. Way("R")' = <<>>
    BY <1>2, <2>3, <2>4, SetupTexts
  <2>6. Turns'
    <3>1. CASE open["S"] /\ pos["R"] = "senderPin"
      <4>1. Way("S")' = InChunks(word) \/ \E w \in PinsOf("S")' : Way("S")' = w \o InChunks(word)
        BY <1>3, <2>2, <2>3, <2>4, <3>1
      <4>2. Hears(word)'
        BY <2>3, <2>5, <3>1, <4>1 DEF Hears
      <4> QED BY <2>3, <3>1, <4>2 DEF Turns, VerifyTurn, ChoiceTurn
    <3>2. CASE open["S"] /\ pos["R"] = "over"
      BY <2>3, <2>5, <3>2 DEF Turns, VerifyTurn, ChoiceTurn
    <3>3. CASE ~open["S"]
      BY <1>3, <2>3, <2>4, <3>3 DEF Turns, StoppedTurn
    <3> QED BY <2>4, <3>1, <3>2, <3>3
  <2>7. ProofsDone'
    <3>1. word = "list" => Proved("S")
      BY <2>1 DEF Proved
    <3> QED BY <1>1, <1>3, <2>3, <2>4, <3>1, ThePeers DEF ProofsDone
  <2>8. FilesInTurn' /\ Kept' /\ WayOfFiles' /\ Counted' /\ Settled' /\ StreamIsOfItsFile'
    BY <1>1, <2>3, SenderSetup
  <2>9. TypeOK'
    BY <1>1, <1>6, <2>3, SetupTypes DEF TypeOK, SenderPositions
  <2> QED BY <2>6, <2>7, <2>8, <2>9
<1> QED BY <1>4, <1>5, <1>6 DEF SenderPinReply

\* A PIN before a string is a text.
LEMMA PinFirst ==
    ASSUME NEW p, NEW q \in PinsOf(p)
    PROVE  /\ q \in Seq(Frames) /\ q # <<>> /\ q[1].text
           /\ \A r \in Seq(Frames) : q \o r # <<>> /\ (q \o r)[1].text
<1>1. PICK w \in {"rightPin", "wrongPin"} : q = Text(w)
  BY APin
<1>2. q \in Seq(Frames) /\ Len(q) = 1 /\ q[1].text
  BY <1>1, Texts, FrameFields DEF Words
<1> HIDE DEF Frames
<1>3. ASSUME NEW r \in Seq(Frames) PROVE q \o r # <<>> /\ (q \o r)[1] = q[1]
  BY <1>2, ConcatProperties, EmptySeq
<1> QED BY <1>2, <1>3

LEMMA ReceiverPinReplyInv == ASSUME IInv, ReceiverPinReply PROVE IInv'
<1> USE DEF IInv
<1>1. /\ pos["R"] \in {"senderPin", "answered"} /\ HasString("R") /\ TakesString("R") /\ Placed /\ UNCHANGED out
      /\ UNCHANGED <<pin, trusts, link, slot, tries, typed>> /\ UNCHANGED fileVars
  BY DEF ReceiverPinReply, setupVars, pinVars, Turns
<1>2. {"pinOk", "pinAgain", "pinOver", "list"} \subseteq Words /\ "R" \in Peers /\ Other("R") = "S"
  BY ThePeers DEF Words
<1>3. PinsOf("R")' = PinsOf("R") /\ Proved("R")' = Proved("R") /\ Proved("S")' = Proved("S")
  BY <1>1 DEF PinsOf, Proved
<1>4. Way("S") # <<>> => Way("S")[1].text \/ \E w \in {"pinAgain", "list", "pinOver"} : Way("S") = InChunks(w)
  <2>1. \A r \in PinsOf("S") : r[1].text /\ \A w \in {"pinAgain", "list"} : (r \o InChunks(w))[1].text
    BY <1>2, PinFirst, SetupTexts
  <2> QED BY <1>1, <2>1, STurn DEF NonceTurn, ReplyTurn, TypingTurn, AnsweredTurn, VerifyTurn, Hears, ChoiceTurn, StoppedTurn
<1>5. /\ inbox' \in [Peers -> Seq(Frames)] /\ inbox'["S"] = inbox["S"]
      /\ \/ \E w \in {"pinAgain", "list", "pinOver"} :
                Way("S") = InChunks(w) /\ StringWord("R") = w /\ Way("S")' = <<>>
         \/ StringWord("R") = "end" /\ Way("S") # <<>> /\ Way("S")[1].text
  <2>1. CASE Way("S") # <<>> => Way("S")[1].text
    BY <1>1, <1>2, <2>1, TextTaken
  <2>2. CASE \E w \in {"pinAgain", "list", "pinOver"} : Way("S") = InChunks(w)
    BY <1>1, <1>2, <2>2, StringTaken
  <2> QED BY <1>4, <2>1, <2>2
<1>6. Way("R")' = Way("R")
  BY <1>1, <1>5, <1>2, ThePeers DEF Way
<1>7. CASE StringWord("R") = "list" /\ Goes("R", "choose") /\ UNCHANGED <<open, outcome>>
  <2>1. Placed' /\ pos'["R"] = "choose" /\ pos'["S"] = pos["S"]
    BY <1>1, <1>2, <1>7, Gets DEF Positions, ReceiverPositions
  <2>2. Way("S") = InChunks("list") /\ Way("S")' = <<>>
    BY <1>5, <1>7
  <2>3. pos["S"] = "choice" /\ Way("R") = <<>>
    <3>1. /\ ~Way("S")[1].text /\ Way("S") # <<>> /\ Way("S")[1].word = "list"
          /\ InChunks("pinAgain")[1].word = "pinAgain" /\ InChunks("pinOver")[1].word = "pinOver"
      BY <1>2, <2>2, Chunks, FrameFields
    <3>2. \A r \in PinsOf("S") : r[1].text /\ \A w \in {"pinAgain", "list"} : (r \o InChunks(w))[1].text
      BY <1>2, PinFirst, SetupTexts
    <3> QED BY <1>1, <3>1, <3>2, STurn DEF NonceTurn, ReplyTurn, TypingTurn, AnsweredTurn, VerifyTurn, Hears, ChoiceTurn, StoppedTurn
  <2>4. Turns'
    BY <1>6, <2>1, <2>2, <2>3 DEF Turns, ChoiceTurn
  <2>5. ProofsDone'
    BY <1>1, <1>3, <2>1, <2>3, ThePeers DEF ProofsDone
  <2>6. FilesInTurn' /\ Kept' /\ WayOfFiles' /\ Counted' /\ Settled' /\ StreamIsOfItsFile'
    BY <1>1, <1>6, <2>1, ReceiverSetup DEF Early
  <2>7. TypeOK'
    BY <1>1, <1>5, <1>7, <2>1, SetupTypes DEF TypeOK, ReceiverPositions
  <2> QED BY <2>4, <2>5, <2>6, <2>7
<1>8. CASE StringWord("R") = "pinAgain" /\ Goes("R", "prompt") /\ UNCHANGED <<open, outcome>>
  <2>1. Placed' /\ pos'["R"] = "prompt" /\ pos'["S"] = pos["S"]
    BY <1>1, <1>2, <1>8, Gets DEF Positions, ReceiverPositions
  <2>2. Way("S") = InChunks("pinAgain") /\ Way("S")' = <<>>
    BY <1>5, <1>8
  <2>3. pos["S"] = "verify" /\ Way("R") = <<>>
    <3>1. /\ ~Way("S")[1].text /\ Way("S") # <<>> /\ Way("S")[1].word = "pinAgain"
          /\ InChunks("list")[1].word = "list" /\ InChunks("pinOver")[1].word = "pinOver"
      BY <1>2, <2>2, Chunks, FrameFields
    <3>2. \A r \in PinsOf("S") : r[1].text /\ \A w \in {"pinAgain", "list"} : (r \o InChunks(w))[1].text
      BY <1>2, PinFirst, SetupTexts
    <3> QED BY <1>1, <3>1, <3>2, STurn DEF NonceTurn, ReplyTurn, TypingTurn, AnsweredTurn, VerifyTurn, Hears, ChoiceTurn, StoppedTurn
  <2>4. Turns'
    BY <1>6, <2>1, <2>2, <2>3 DEF Turns, VerifyTurn
  <2>5. ProofsDone'
    BY <1>1, <1>3, <2>1, <2>3, ThePeers DEF ProofsDone
  <2>6. FilesInTurn' /\ Kept' /\ WayOfFiles' /\ Counted' /\ Settled' /\ StreamIsOfItsFile'
    BY <1>1, <1>6, <2>1, ReceiverSetup DEF Early
  <2>7. TypeOK'
    BY <1>1, <1>5, <1>8, <2>1, SetupTypes DEF TypeOK, ReceiverPositions
  <2> QED BY <2>4, <2>5, <2>6, <2>7
<1>9. CASE StringWord("R") \notin {"list", "pinAgain"} /\ Fails("R")
  <2>1. /\ Placed' /\ pos'["R"] = "over" /\ pos'["S"] = pos["S"]
        /\ open' \in [Peers -> BOOLEAN] /\ outcome' \in [Peers -> {"running", "finished", "error"}]
    BY <1>1, <1>2, <1>9, Stops
  <2>2. Way("S") # <<>>
    BY <1>2, <1>5, SetupTexts, Chunks
  <2>3. /\ pos["S"] \in {"answered", "verify", "choice", "expel", "over"}
        /\ pos["S"] = "answered" => Way("R") = Text("pinOk") /\ Proved("R")
        /\ pos["S"] \in {"verify", "choice"} => Way("R") = <<>>
    BY <1>1, <2>2, STurn DEF NonceTurn, ReplyTurn, TypingTurn, AnsweredTurn, VerifyTurn, Hears, ChoiceTurn, StoppedTurn
  <2>4. Turns'
    BY <1>3, <1>6, <2>1, <2>3 DEF Turns, AnsweredTurn, VerifyTurn, ChoiceTurn, StoppedTurn
  <2>5. ProofsDone'
    BY <1>1, <1>3, <2>1, <2>3, ThePeers DEF ProofsDone
  <2>6. FilesInTurn' /\ Kept' /\ WayOfFiles' /\ Counted' /\ Settled' /\ StreamIsOfItsFile'
    BY <1>1, <1>6, <2>1, ReceiverSetup DEF Early
  <2>7. TypeOK'
    BY <1>1, <1>5, <1>9, <2>1, SetupTypes DEF TypeOK, ReceiverPositions
  <2> QED BY <2>4, <2>5, <2>6, <2>7
<1> QED BY <1>7, <1>8, <1>9 DEF ReceiverPinReply
-----------------------------------------------------------------------------
(* The choice.                                                             *)

LEMMA ChoosingTurn ==
    ASSUME TypeOK, Turns, pos["R"] = "choose"
    PROVE  pos["S"] = "choice" /\ Way("S") = <<>> /\ Way("R") = <<>>
  BY STurn DEF NonceTurn, ReplyTurn, TypingTurn, AnsweredTurn, VerifyTurn, Hears, ChoiceTurn, StoppedTurn

LEMMA SelectInv == ASSUME IInv, NEW files \in SUBSET File, Select(files) PROVE IInv'
<1> USE DEF IInv
<1>1. /\ pos["R"] = "choose" /\ picked' = files /\ Sends("R", InChunks("tokens"), "receive")
      /\ UNCHANGED <<pin, trusts, inbox, link, open, outcome, slot, tries, typed>>
      /\ UNCHANGED <<handed, queued, sending, sent, finished, current, settling, got, stream, results, verdict>>
  BY DEF Select, setupVars, netVars, pinVars, sendVars, takeVars
<1>2. "tokens" \in Words /\ "receive" \in Positions /\ "R" \in Peers /\ Other("R") = "S" /\ Placed
  BY ThePeers DEF Words, Positions, ReceiverPositions, Turns
<1>3. pos["S"] = "choice" /\ Way("S") = <<>> /\ Way("R") = <<>>
  BY <1>1, ChoosingTurn
<1>4. /\ out' \in [Peers -> Seq(Frames)] /\ Way("S")' = <<>> /\ Placed' /\ pos'["S"] = "choice"
      /\ \/ pos'["R"] = "receive" /\ Way("R")' = InChunks("tokens")
         \/ pos'["R"] = "over" /\ Way("R")' = <<>>
  BY <1>1, <1>2, <1>3, Speaks, SetupTexts, SMTT(30)
<1>5. Turns'
  BY <1>4 DEF Turns, ChoiceTurn
<1>6. ProofsDone'
  BY <1>1, <1>3, <1>4, ThePeers DEF ProofsDone, Proved
<1>7. \A f \in File : stream[f] = "none" /\ verdict[f] = "none" /\ got[f] = <<>>
  BY <1>1 DEF FilesInTurn, Taking, Kept
<1>8. current = None /\ queued = None /\ sending = None
  BY <1>1, <1>3 DEF FilesInTurn
<1>9. FilesInTurn'
  BY <1>1, <1>2, <1>4, <1>7, <1>8 DEF FilesInTurn, Taking
<1>10. Kept' /\ StreamIsOfItsFile'
  BY <1>1, <1>7 DEF Kept, StreamIsOfItsFile
<1>11. WayOfFiles' /\ Counted'
  BY <1>1, <1>4, <1>8 DEF WayOfFiles, Counted, CountedTo
<1>12. Settled'
  <2>1. \A i \in DOMAIN Way("R")' : Way("R")'[i].word \notin {"success", "failure"}
    <3>1. \A i \in DOMAIN InChunks("tokens") : InChunks("tokens")[i].word \notin {"success", "failure"}
      BY DEF InChunks, Binary, Delimiter, TextOf
    <3> QED BY <1>4, <3>1
  <2> QED BY <1>1, <1>7, <2>1 DEF Settled, NoExcess
<1>13. TypeOK'
  BY <1>1, <1>4 DEF TypeOK, SenderPositions, ReceiverPositions
<1> QED BY <1>5, <1>6, <1>9, <1>10, <1>11, <1>12, <1>13

LEMMA RefuseInv == ASSUME IInv, Decline \/ DropController PROVE IInv'
<1> USE DEF IInv
<1>1. /\ pos["R"] = "choose" /\ Succeeds("R") /\ Placed
      /\ UNCHANGED <<pin, trusts, inbox, link, slot, tries, typed>> /\ UNCHANGED fileVars
      /\ out' = out \/ out' = [out EXCEPT !["R"] = out["R"] \o InChunks("declined")]
  <2>1. /\ pos["R"] = "choose" /\ Succeeds("R") /\ Placed
        /\ UNCHANGED <<pin, trusts, inbox, link, slot, tries, typed>> /\ UNCHANGED fileVars
    BY DEF Decline, DropController, setupVars, pinVars, Turns
  <2>2. \/ out' = out \/ out' = [out EXCEPT !["R"] = out["R"] \o InChunks("declined")]
        \/ out' = [out EXCEPT !["R"] = out["R"]]
    BY DEF Decline, DropController
  <2>3. [out EXCEPT !["R"] = out["R"]] = out
    BY DEF TypeOK
  <2> QED BY <2>1, <2>2, <2>3
<1>2. /\ "declined" \in Words \ {"success", "failure"} /\ "R" \in Peers /\ Other("R") = "S" /\ "S" \in Peers
      /\ inbox["S"] \in Seq(Frames) /\ out["R"] \in Seq(Frames)
  BY ThePeers, WaySeqs DEF Words
<1>3. pos["S"] = "choice" /\ Way("S") = <<>> /\ Way("R") = <<>>
  BY <1>1, ChoosingTurn
<1>4. /\ Placed' /\ pos'["R"] = "over" /\ pos'["S"] = pos["S"]
      /\ open' \in [Peers -> BOOLEAN] /\ outcome' \in [Peers -> {"running", "finished", "error"}]
  BY <1>1, <1>2, Stops
<1>5. InChunks("declined") \in Seq(Frames) /\ <<>> \o InChunks("declined") = InChunks("declined")
  BY <1>2, SetupTexts
<1>6. inbox["S"] = <<>> /\ out["R"] = <<>>
  <2> DEFINE a == inbox["S"]
             b == out["R"]
  <2>1. a \in Seq(Frames) /\ b \in Seq(Frames) /\ a \o b = <<>>
    BY <1>2, <1>3 DEF Way
  <2> HIDE DEF a, b, Frames
  <2>2. Len(a) \in Nat /\ Len(b) \in Nat /\ Len(a) + Len(b) = 0
    BY <2>1, ConcatProperties, LenProperties, EmptySeq
  <2>3. a = <<>> /\ b = <<>>
    BY <2>1, <2>2, EmptySeq
  <2> QED BY <2>3 DEF a, b
<1>7. /\ out' \in [Peers -> Seq(Frames)] /\ Way("S")' = <<>>
      /\ Way("R")' = <<>> \/ Way("R")' = InChunks("declined")
  <2> DEFINE c == InChunks("declined")
  <2>1. c \in Seq(Frames) /\ <<>> \in Seq(Frames) /\ (out' = out \/ out' = [out EXCEPT !["R"] = c])
    BY <1>1, <1>5, <1>6, NoFrames
  <2> HIDE DEF c
  <2>2. out' \in [Peers -> Seq(Frames)] /\ out'["S"] = out["S"] /\ out'["R"] \in {<<>>, c}
    <3>1. out \in [Peers -> Seq(Frames)] /\ "S" \in Peers /\ "R" \in Peers /\ out["R"] = <<>>
      BY <1>2, <1>6 DEF TypeOK
    <3> HIDE DEF Frames
    <3> QED BY <2>1, <3>1
  <2> USE DEF c
  <2> QED BY <1>1, <1>2, <1>3, <1>5, <1>6, <2>2, NoFrames, ThePeers DEF Way
<1>8. Turns'
  BY <1>3, <1>4, <1>7 DEF Turns, ChoiceTurn
<1>9. ProofsDone'
  BY <1>1, <1>3, <1>4, ThePeers DEF ProofsDone, Proved
<1>10. FilesInTurn' /\ Kept' /\ WayOfFiles' /\ Counted' /\ Settled' /\ StreamIsOfItsFile'
  BY <1>1, <1>2, <1>3, <1>4, <1>5, <1>7, ReceiverSetup DEF Early
<1>11. TypeOK'
  BY <1>1, <1>4, <1>7, SetupTypes DEF TypeOK, ReceiverPositions
<1> QED BY <1>8, <1>9, <1>10, <1>11

\* The choice S hears is the one R has sent.
LEMMA ChoiceHeard ==
    ASSUME IInv, ReceiveChoice
    PROVE  \E w \in {"tokens", "declined"} :
              /\ (w = "tokens" => pos["R"] = "receive") /\ (w = "declined" => pos["R"] = "over")
              /\ StringWord("S") = w /\ Way("R")' = <<>> /\ Way("S")' = Way("S")
              /\ inbox' \in [Peers -> Seq(Frames)]
<1> USE DEF IInv
<1>1. /\ pos["S"] = "choice" /\ HasString("S") /\ TakesString("S") /\ UNCHANGED out /\ ChoiceTurn
  BY DEF ReceiveChoice, Turns
<1>2. {"tokens", "declined"} \subseteq Words /\ "S" \in Peers /\ Other("S") = "R" /\ Other("R") = "S"
  BY ThePeers DEF Words
<1>3. Way("R") # <<>>
  BY <1>1, <1>2, TextTaken
<1>4. PICK w \in {"tokens", "declined"} :
        Way("R") = InChunks(w) /\ (w = "tokens" => pos["R"] = "receive") /\ (w = "declined" => pos["R"] = "over")
  BY <1>1, <1>3 DEF ChoiceTurn, Hears
<1>5. /\ StringWord("S") = w /\ Way("R")' = <<>>
      /\ inbox' \in [Peers -> Seq(Frames)] /\ inbox'["R"] = inbox["R"]
  BY <1>1, <1>2, <1>4, StringTaken
<1>6. Way("S")' = Way("S")
  BY <1>1, <1>2, <1>5 DEF Way
<1> QED BY <1>4, <1>5, <1>6

LEMMA ReceiveChoiceInv == ASSUME IInv, ReceiveChoice PROVE IInv'
<1> USE DEF IInv
<1>1. /\ pos["S"] = "choice" /\ UNCHANGED out /\ Placed
      /\ UNCHANGED <<pin, trusts, link, slot, tries, typed>> /\ UNCHANGED fileVars
  BY DEF ReceiveChoice, setupVars, pinVars, Turns
<1>2. "S" \in Peers /\ Other("S") = "R" /\ Other("R") = "S"
  BY ThePeers
<1>3. PICK w \in {"tokens", "declined"} :
        /\ (w = "tokens" => pos["R"] = "receive") /\ (w = "declined" => pos["R"] = "over")
        /\ StringWord("S") = w /\ Way("R")' = <<>> /\ Way("S")' = Way("S")
        /\ inbox' \in [Peers -> Seq(Frames)]
  BY ChoiceHeard
<1>4. /\ Placed' /\ pos'["R"] = pos["R"] /\ pos'["S"] \in {"files", "over"}
      /\ pos'["S"] = "files" => w = "tokens"
      /\ open' \in [Peers -> BOOLEAN] /\ outcome' \in [Peers -> {"running", "finished", "error"}]
      /\ \A q \in Peers : open'[q] => open[q]
  <2>1. CASE w = "tokens" /\ Goes("S", "files") /\ UNCHANGED <<open, outcome>>
    <3>1. "files" \in Positions
      BY DEF Positions, SenderPositions
    <3>2. Placed' /\ pos'["S"] = "files" /\ pos'["R"] = pos["R"]
      BY <1>1, <1>2, <2>1, <3>1, Gets
    <3>3. open' = open /\ outcome' = outcome
      BY <2>1
    <3> QED BY <2>1, <3>2, <3>3 DEF TypeOK
  <2>2. CASE (w = "declined" /\ Succeeds("S")) \/ Fails("S")
    BY <1>1, <1>2, <2>2, Stops
  <2> QED BY <1>3, <2>1, <2>2 DEF ReceiveChoice
<1>5. Turns'
  BY <1>3, <1>4 DEF Turns, StoppedTurn
<1>6. ProofsDone'
  BY <1>1, <1>4, ThePeers DEF ProofsDone, Proved
<1>7. FilesInTurn' /\ Kept' /\ WayOfFiles' /\ Counted' /\ Settled' /\ StreamIsOfItsFile'
  <2>1. NoVerdictSent
    BY <1>3, QuietTaken
  <2>2. pos["R"] # "settle"
    BY <1>3
  <2> QED BY <1>1, <1>2, <1>3, <1>4, <2>1, <2>2, FilesKept
<1>8. TypeOK'
  BY <1>1, <1>3, <1>4, SetupTypes DEF TypeOK, SenderPositions
<1> QED BY <1>5, <1>6, <1>7, <1>8
-----------------------------------------------------------------------------
(* The files at the sender.                                                *)

LEMMA FileFrames ==
    /\ \A f \in File : Header(f) \in Frames /\ Data(f) \in Frames
    /\ \A f \in File : Header(f).text /\ Header(f).word = "header" /\ Header(f).file = f
    /\ \A f \in File : ~Data(f).text /\ Data(f).word = "data" /\ Data(f).file = f
    /\ \A f, g \in File : Header(f) # Data(g) /\ Header(f) # Delimiter /\ Data(f) # Delimiter
    /\ \A f, g \in File : (Header(f) = Header(g) => f = g) /\ (Data(f) = Data(g) => f = g)
  BY FrameTypes, FrameFields DEF Header, Data, Words

\* A frame of the files joins the others.
LEMMA Transmitted ==
    ASSUME TypeOK, NEW e \in Frames, Transmits(e), UNCHANGED inbox
    PROVE  /\ out' \in [Peers -> Seq(Frames)] /\ Way("R")' = Way("R")
           /\ Way("S")' = IF open["S"] THEN Append(Way("S"), e) ELSE Way("S")
<1>1. /\ out["S"] \in Seq(Frames) /\ inbox["R"] \in Seq(Frames) /\ out \in [Peers -> Seq(Frames)]
      /\ "S" \in Peers /\ Other("S") = "R" /\ Other("R") = "S"
  BY WaySeqs, ThePeers DEF TypeOK
<1> DEFINE a == inbox["R"]
           b == out["S"]
           c == Append(b, e)
<1>2. a \in Seq(Frames) /\ b \in Seq(Frames)
  BY <1>1
<1>3. out' = [out EXCEPT !["S"] = IF open["S"] THEN c ELSE b]
  BY DEF Transmits
<1>4. c \in Seq(Frames) /\ a \o c = Append(a \o b, e)
  <2> HIDE DEF a, b, Frames
  <2>1. <<e>> \in Seq(Frames) /\ c = b \o <<e>> /\ a \o b \in Seq(Frames)
    BY <1>2, AppendProperties, ConcatProperties
  <2>2. (a \o b) \o <<e>> = a \o (b \o <<e>>)
    BY <1>2, <2>1, ConcatAssociative
  <2>3. Append(a \o b, e) = (a \o b) \o <<e>>
    BY <2>1, AppendProperties
  <2> QED BY <2>1, <2>2, <2>3
<1> HIDE DEF a, b, c, Frames
<1>5. /\ out' \in [Peers -> Seq(Frames)] /\ out'["R"] = out["R"] /\ out'["S"] = (IF open["S"] THEN c ELSE b)
  BY <1>1, <1>2, <1>3, <1>4 DEF Peers
<1> QED BY <1>1, <1>4, <1>5 DEF Way, a, b

\* What was on the way stays as it was.
LEMMA FramesStay ==
    ASSUME IInv, Taking, NEW e \in Frames, Way("S")' = Append(Way("S"), e),
           UNCHANGED <<current, got, stream>>,
           pos["S"] \in {"last", "over"} => pos'["S"] \in {"last", "over"},
           \A f \in File : f \in handed /\ f # queued => f \in handed' /\ f # queued',
           \A f \in File : sent[f] <= sent'[f] /\ sent'[f] \in Nat
    PROVE  /\ Len(Way("S")) \in Nat /\ DOMAIN Way("S") = 1..Len(Way("S"))
           /\ DOMAIN Way("S")' = 1..(Len(Way("S")) + 1) /\ Len(Way("S")') = Len(Way("S")) + 1
           /\ Way("S")'[Len(Way("S")) + 1] = e
           /\ \A i \in 1..Len(Way("S")) : Way("S")'[i] = Way("S")[i]
           /\ \A i \in 1..Len(Way("S")) : FrameOf(i)'
           /\ \A f \in File : \A i \in 1..Len(Way("S")) : CountedTo(f, i)'
<1> USE DEF IInv
<1> DEFINE n == Len(Way("S"))
<1>1. /\ n \in Nat /\ DOMAIN Way("S") = 1..n /\ DOMAIN Way("S")' = 1..(n + 1) /\ Len(Way("S")') = n + 1
      /\ Way("S")'[n + 1] = e
      /\ \A i \in 1..n : Way("S")'[i] = Way("S")[i]
  <2> DEFINE q == Way("S")
             r == Append(q, e)
  <2>1. q \in Seq(Frames) /\ r = Way("S")'
    BY WaySeqs, ThePeers
  <2> HIDE DEF q, Frames
  <2>2. /\ Len(q) \in Nat /\ DOMAIN q = 1..Len(q) /\ DOMAIN r = 1..(Len(q) + 1) /\ Len(r) = Len(q) + 1
        /\ r[Len(q) + 1] = e /\ \A i \in 1..Len(q) : r[i] = q[i]
    BY <2>1, AppendProperties, LenProperties
  <2> HIDE DEF r
  <2> QED BY <2>1, <2>2 DEF q
<1> HIDE DEF n
<1>2. ASSUME NEW i \in 1..n PROVE FrameOf(i)'
  <2>1. FrameOf(i) /\ Way("S")'[i] = Way("S")[i] /\ (i > 1 => i - 1 \in 1..n)
    BY <1>1 DEF WayOfFiles
  <2>2. i > 1 => Way("S")'[i - 1] = Way("S")[i - 1]
    BY <1>1, <2>1
  <2> QED BY <2>1, <2>2 DEF FrameOf
<1>3. ASSUME NEW f \in File, NEW i \in 1..n PROVE CountedTo(f, i)'
  <2>1. CountedTo(f, i) /\ sent[f] <= sent'[f] /\ sent'[f] \in Nat /\ sent[f] \in Nat
    BY <1>1 DEF Counted, TypeOK
  <2>2. \A j \in 1..i : Way("S")'[j] = Way("S")[j]
    BY <1>1
  <2>3. ASSUME current' = f, \A j \in 1..i : Way("S")'[j] = Data(f)
        PROVE  Len(got'[f]) + i <= sent'[f]
    <3>1. Len(got[f]) + i <= sent[f] /\ got' = got
      BY <2>1, <2>2, <2>3 DEF CountedTo
    <3>2. Len(got[f]) \in Nat
      BY DEF TypeOK
    <3> QED BY <1>1, <2>1, <3>1, <3>2
  <2>4. ASSUME NEW h \in 1..(i - 1), Way("S")'[h] = Header(f), \A j \in (h + 1)..i : Way("S")'[j] = Data(f)
        PROVE  i - h <= sent'[f]
    <3>1. h \in 1..i /\ \A j \in (h + 1)..i : j \in 1..i
      BY <1>1
    <3>2. Way("S")[h] = Header(f) /\ \A j \in (h + 1)..i : Way("S")[j] = Data(f)
      BY <2>2, <2>4, <3>1
    <3>3. i - h <= sent[f]
      BY <2>1, <3>2 DEF CountedTo
    <3> QED BY <1>1, <2>1, <3>3
  <2> QED BY <2>3, <2>4 DEF CountedTo
<1> QED BY <1>1, <1>2, <1>3 DEF n
LEMMA HandsInv ==
    ASSUME IInv, FinishSending \/ EndFile \/ \E f \in File : SendFile(f)
    PROVE  IInv'
<1> USE DEF IInv
<1>1. /\ pos["S"] = "files" /\ UNCHANGED <<pin, trusts, pos, out, inbox, link, open, outcome, slot, tries, typed>>
      /\ UNCHANGED <<picked, sent, current, settling, got, stream, results, verdict>>
      /\ \/ UNCHANGED <<handed, queued, sending>>
         \/ UNCHANGED <<handed, queued>> /\ sending' = None
         \/ UNCHANGED sending /\ queued' \in File \ handed /\ handed' = handed \cup {queued'}
  BY DEF FinishSending, EndFile, SendFile, setupVars, netVars, pinVars, takeVars
<1>2. Way("S")' = Way("S") /\ Way("R")' = Way("R")
  BY <1>1 DEF Way
<1>3. Turns' /\ ProofsDone'
  BY <1>1, <1>2, TurnsKept
<1>4. /\ \A f \in File : f \in handed /\ f # queued => f \in handed' /\ f # queued'
      /\ queued' \in File => queued' \in handed'
      /\ sending' = sending \/ sending' = None
  BY <1>1 DEF Kept
<1>5. FilesInTurn'
  BY <1>1 DEF FilesInTurn, Taking
<1>6. Kept'
  BY <1>1, <1>4 DEF Kept
<1>7. WayOfFiles'
  <2>1. \A i \in DOMAIN Way("S") : FrameOf(i) => FrameOf(i)'
    BY <1>1, <1>2, <1>4 DEF FrameOf
  <2> QED BY <1>1, <1>2, <1>4, <2>1 DEF WayOfFiles, Taking
<1>8. Counted' /\ Settled' /\ StreamIsOfItsFile'
  BY <1>1, <1>2 DEF Counted, CountedTo, Taking, Settled, NoExcess, StreamIsOfItsFile
<1>9. TypeOK'
  <2>1. finished' \in BOOLEAN
    BY DEF FinishSending, EndFile, SendFile, TypeOK
  <2> QED BY <1>1, <2>1 DEF TypeOK
<1> QED BY <1>3, <1>5, <1>6, <1>7, <1>8, <1>9

LEMMA BeginFileInv == ASSUME IInv, BeginFile PROVE IInv'
<1> USE DEF IInv
<1>1. /\ pos["S"] = "files" /\ UNCHANGED <<pin, trusts, pos, inbox, link, open, outcome, slot, tries, typed>>
      /\ UNCHANGED <<picked, handed, sent, finished, current, settling, got, stream, results, verdict>>
      /\ sending = None /\ queued \in File /\ queued' = None
      /\ \/ sending' = queued /\ Transmits(Header(queued))
         \/ UNCHANGED <<sending, out>>
  BY DEF BeginFile, setupVars, netVars, pinVars, takeVars, Header, TypeOK
<1>2. queued \in handed /\ stream[queued] = "none"
  BY <1>1 DEF Kept
<1>3. Header(queued) \in Frames
  BY <1>1, FileFrames
<1>4. /\ out' \in [Peers -> Seq(Frames)] /\ Way("R")' = Way("R")
      /\ \/ sending' = queued /\ open["S"] /\ Way("S")' = Append(Way("S"), Header(queued))
         \/ sending' = queued /\ ~open["S"] /\ Way("S")' = Way("S")
         \/ UNCHANGED sending /\ Way("S")' = Way("S")
  <2>1. CASE sending' = queued /\ Transmits(Header(queued))
    BY <1>1, <1>3, <2>1, Transmitted
  <2>2. CASE UNCHANGED <<sending, out>>
    BY <1>1, <2>2 DEF TypeOK, Way
  <2> QED BY <1>1, <2>1, <2>2
<1>5. Turns'
  BY <1>1 DEF Turns, Placed
<1>6. ProofsDone'
  BY <1>1 DEF ProofsDone, Proved
<1>7. FilesInTurn'
  BY <1>1 DEF FilesInTurn, Taking
<1>8. Kept'
  BY <1>1, ConstantsAssumption DEF Kept
<1>9. Settled' /\ StreamIsOfItsFile'
  BY <1>1, <1>4 DEF Settled, NoExcess, StreamIsOfItsFile
<1>10. TypeOK'
  BY <1>1, <1>4 DEF TypeOK
<1>11. \A f \in File : f \in handed /\ f # queued => f \in handed' /\ f # queued'
  BY <1>1, ConstantsAssumption
<1>12. WayOfFiles' /\ Counted'
  <2> SUFFICES ASSUME Taking' PROVE WayOfFiles' /\ Counted'
    BY DEF WayOfFiles, Counted
  <2>1. Taking
    BY <1>1 DEF Taking
  <2>2. CASE Way("S")' = Way("S") /\ ~(sending' # None /\ open["S"])
    <3>1. \A i \in DOMAIN Way("S") : FrameOf(i)'
      BY <1>1, <1>11, <2>1, <2>2 DEF WayOfFiles, FrameOf
    <3>2. Counted'
      BY <1>1, <2>1, <2>2 DEF Counted, CountedTo
    <3> QED BY <1>1, <2>1, <2>2, <3>1, <3>2 DEF WayOfFiles
  <2>3. CASE sending' = queued /\ open["S"] /\ Way("S")' = Append(Way("S"), Header(queued))
    <3>0. PICK n : n = Len(Way("S"))
      OBVIOUS
    <3>1. \A f \in File : sent[f] <= sent'[f] /\ sent'[f] \in Nat
      BY <1>1 DEF TypeOK
    <3>2. /\ n \in Nat /\ DOMAIN Way("S") = 1..n
          /\ DOMAIN Way("S")' = 1..(n + 1) /\ Len(Way("S")') = n + 1 /\ Way("S")'[n + 1] = Header(queued)
          /\ \A i \in 1..n : Way("S")'[i] = Way("S")[i]
          /\ \A i \in 1..n : FrameOf(i)'
          /\ \A f \in File : \A i \in 1..n : CountedTo(f, i)'
      BY <1>1, <1>3, <1>11, <2>1, <2>3, <3>0, <3>1, FramesStay
    <3>3. \A i \in 1..(n + 1) : i \in 1..n \/ i = n + 1
      BY <3>2
    <3>4. FrameOf(n + 1)'
      BY <1>1, <1>2, <3>2, ConstantsAssumption DEF FrameOf
    <3>5. \A f \in File : CountedTo(f, n + 1)'
      <4>1. \A f \in File : Way("S")'[n + 1] # Data(f)
        BY <1>1, <3>2, FileFrames
      <4>2. n + 1 \in 1..(n + 1) /\ \A h \in 1..(n + 1 - 1) : n + 1 \in (h + 1)..(n + 1)
        BY <3>2
      <4> QED BY <4>1, <4>2 DEF CountedTo
    <3>6. \A i \in 1..n : Way("S")'[i] # Header(queued)
      <4> SUFFICES ASSUME NEW i \in 1..n, Way("S")[i] = Header(queued) PROVE FALSE
        BY <3>2
      <4>1. FrameOf(i)
        BY <2>1, <3>2 DEF WayOfFiles
      <4> QED BY <1>1, <4>1, FileFrames DEF FrameOf
    <3>7. \A f \in File : \A i, j \in 1..(n + 1) :
                Way("S")'[i] = Header(f) /\ Way("S")'[j] = Header(f) => i = j
      <4>1. \A f \in File : \A i, j \in 1..n : Way("S")'[i] = Header(f) /\ Way("S")'[j] = Header(f) => i = j
        BY <2>1, <3>2 DEF WayOfFiles
      <4>2. \A f \in File : Way("S")'[n + 1] = Header(f) => f = queued
        BY <1>1, <3>2, FileFrames
      <4> QED BY <3>3, <3>6, <4>1, <4>2
    <3>8. Way("S")' # <<>> /\ Way("S")'[Len(Way("S")')] = Header(sending')
      BY <2>3, <3>2
    <3>9. \A i \in DOMAIN Way("S")' : FrameOf(i)'
      BY <3>2, <3>3, <3>4
    <3>10. WayOfFiles'
      BY <3>2, <3>7, <3>8, <3>9 DEF WayOfFiles
    <3> QED BY <3>2, <3>3, <3>5, <3>10 DEF Counted
  <2> QED BY <1>1, <1>4, <2>2, <2>3
<1> QED BY <1>5, <1>6, <1>7, <1>8, <1>9, <1>10, <1>12
LEMMA SendFrameInv == ASSUME IInv, SendFrame PROVE IInv'
<1> USE DEF IInv
<1>1. /\ pos["S"] = "files" /\ UNCHANGED <<pin, trusts, pos, inbox, link, open, outcome, slot, tries, typed>>
      /\ UNCHANGED <<picked, handed, queued, sending, finished, current, settling, got, stream, results, verdict>>
      /\ sending \in File /\ sent[sending] < MaxFrames /\ sent' = [sent EXCEPT ![sending] = sent[sending] + 1]
      /\ Transmits(Data(sending))
  BY DEF SendFrame, setupVars, netVars, pinVars, takeVars, Data, TypeOK
<1>2. Data(sending) \in Frames
  BY <1>1, FileFrames
<1>3. /\ out' \in [Peers -> Seq(Frames)] /\ Way("R")' = Way("R")
      /\ Way("S")' = IF open["S"] THEN Append(Way("S"), Data(sending)) ELSE Way("S")
  BY <1>1, <1>2, Transmitted
<1>4. /\ sent' \in [File -> 0..MaxFrames] /\ sent'[sending] = sent[sending] + 1
      /\ \A f \in File : sent[f] <= sent'[f] /\ sent[f] \in Nat /\ sent'[f] \in Nat
  <2>1. sent \in [File -> 0..MaxFrames] /\ MaxFrames \in Nat
    BY ConstantsAssumption DEF TypeOK
  <2>2. sent[sending] + 1 \in 0..MaxFrames
    BY <1>1, <2>1
  <2>3. sent' \in [File -> 0..MaxFrames] /\ \A f \in File : sent'[f] = IF f = sending THEN sent[f] + 1 ELSE sent[f]
    BY <1>1, <2>1, <2>2
  <2>4. \A f \in File : sent[f] \in Nat /\ sent'[f] \in Nat
    BY <2>1, <2>3
  <2> QED BY <1>1, <2>3, <2>4
<1>5. Turns'
  BY <1>1 DEF Turns, Placed
<1>6. ProofsDone'
  BY <1>1 DEF ProofsDone, Proved
<1>7. FilesInTurn'
  BY <1>1 DEF FilesInTurn, Taking
<1>8. Kept'
  <2>1. \A f \in File : Len(got[f]) <= sent'[f]
    <3> SUFFICES ASSUME NEW f \in File PROVE Len(got[f]) <= sent'[f]
      OBVIOUS
    <3>1. Len(got[f]) <= sent[f] /\ Len(got[f]) \in Nat
      BY DEF Kept, TypeOK
    <3> QED BY <1>4, <3>1
  <2> QED BY <1>1, <2>1 DEF Kept
<1>9. StreamIsOfItsFile'
  BY <1>1 DEF StreamIsOfItsFile
<1>10. Settled'
  <2>1. NoExcess' => NoExcess
    <3> SUFFICES ASSUME NoExcess' PROVE NoExcess
      OBVIOUS
    <3>1. \A f \in File : sent'[f] <= Size /\ sent[f] <= sent'[f]
      BY <1>4 DEF NoExcess
    <3> QED BY <1>4, <3>1, ConstantsAssumption DEF NoExcess
  <2> QED BY <1>1, <1>3, <2>1 DEF Settled
<1>11. TypeOK'
  BY <1>1, <1>3, <1>4 DEF TypeOK
<1>12. WayOfFiles' /\ Counted'
  <2> SUFFICES ASSUME Taking' PROVE WayOfFiles' /\ Counted'
    BY DEF WayOfFiles, Counted
  <2>1. Taking /\ Way("S") \in Seq(Frames)
    BY <1>1, WaySeqs, ThePeers DEF Taking
  <2>2. CASE ~open["S"]
    <3>1. \A i \in DOMAIN Way("S") : FrameOf(i)'
      BY <1>1, <1>3, <2>1, <2>2 DEF WayOfFiles, FrameOf
    <3>2. ASSUME NEW f \in File, NEW i \in DOMAIN Way("S") PROVE CountedTo(f, i)'
      <4>1. CountedTo(f, i) /\ Way("S")' = Way("S") /\ i \in Nat
        BY <1>3, <2>1, <2>2, LenProperties DEF Counted
      <4>2. current = f /\ (\A j \in 1..i : Way("S")[j] = Data(f)) => Len(got[f]) + i <= sent'[f]
        <5>1. Len(got[f]) \in Nat
          BY DEF TypeOK
        <5> QED BY <1>4, <4>1, <5>1 DEF CountedTo
      <4>3. ASSUME NEW h \in 1..(i - 1), Way("S")[h] = Header(f), \A j \in (h + 1)..i : Way("S")[j] = Data(f)
            PROVE  i - h <= sent'[f]
        <5>1. i - h <= sent[f]
          BY <4>1, <4>3 DEF CountedTo
        <5> QED BY <1>4, <4>1, <5>1
      <4> QED BY <1>1, <4>1, <4>2, <4>3 DEF CountedTo
    <3> QED BY <1>1, <1>3, <2>1, <2>2, <3>1, <3>2 DEF WayOfFiles, Counted
  <2>3. CASE open["S"]
    <3>0. PICK n : n = Len(Way("S"))
      OBVIOUS
    <3>1. Way("S")' = Append(Way("S"), Data(sending))
      BY <1>3, <2>3
    <3>2. /\ n \in Nat /\ DOMAIN Way("S") = 1..n
          /\ DOMAIN Way("S")' = 1..(n + 1) /\ Len(Way("S")') = n + 1 /\ Way("S")'[n + 1] = Data(sending)
          /\ \A i \in 1..n : Way("S")'[i] = Way("S")[i]
          /\ \A i \in 1..n : FrameOf(i)'
          /\ \A f \in File : \A i \in 1..n : CountedTo(f, i)'
      BY <1>1, <1>2, <1>4, <2>1, <3>0, <3>1, FramesStay
    <3>3. \A i \in 1..(n + 1) : i \in 1..n \/ i = n + 1
      BY <3>2
    <3>4. IF n = 0 THEN current \in {sending, None} ELSE Way("S")[n] \in {Header(sending), Data(sending)}
      <4>1. Way("S") = <<>> <=> n = 0
        BY <2>1, <3>0, EmptySeq
      <4> QED BY <1>1, <2>1, <2>3, <3>0, <4>1, ConstantsAssumption DEF WayOfFiles
    <3>5. FrameOf(n + 1)'
      <4>1. n + 1 > 1 => Way("S")'[n + 1 - 1] \in {Header(sending), Data(sending)}
        <5> SUFFICES ASSUME n + 1 > 1 PROVE Way("S")'[n + 1 - 1] \in {Header(sending), Data(sending)}
          OBVIOUS
        <5>1. n + 1 - 1 = n /\ n \in 1..n /\ n # 0
          BY <3>2
        <5> QED BY <3>2, <3>4, <5>1
      <4>2. n + 1 = 1 => current' \in {sending, None}
        BY <1>1, <3>2, <3>4
      <4> QED BY <1>1, <3>2, <4>1, <4>2 DEF FrameOf
    <3>6. ASSUME NEW f \in File PROVE CountedTo(f, n + 1)'
      <4>1. CASE f # sending
        <5>1. Way("S")'[n + 1] # Data(f)
          BY <1>1, <3>2, <4>1, FileFrames
        <5>2. n + 1 \in 1..(n + 1) /\ \A h \in 1..(n + 1 - 1) : n + 1 \in (h + 1)..(n + 1)
          BY <3>2
        <5> QED BY <5>1, <5>2 DEF CountedTo
      <4>2. CASE f = sending
        <5>1. Len(got[f]) \in Nat /\ Len(got[f]) <= sent[f] /\ sent[f] \in Nat /\ sent'[f] = sent[f] + 1
          BY <1>4, <4>2 DEF Kept, TypeOK
        <5>2. n > 0 => CountedTo(f, n)
          BY <2>1, <3>2 DEF Counted
        <5>3. ASSUME current' = f, \A j \in 1..(n + 1) : Way("S")'[j] = Data(f)
              PROVE  Len(got'[f]) + (n + 1) <= sent'[f]
          <6>1. CASE n = 0
            BY <1>1, <5>1, <6>1
          <6>2. CASE n > 0
            <7>1. \A j \in 1..n : Way("S")[j] = Data(f)
              BY <3>2, <5>3
            <7>2. Len(got[f]) + n <= sent[f]
              BY <1>1, <5>2, <5>3, <6>2, <7>1 DEF CountedTo
            <7> QED BY <1>1, <3>2, <5>1, <7>2
          <6>3. n = 0 \/ n > 0
            BY <3>2
          <6> QED BY <6>1, <6>2, <6>3
        <5>4. ASSUME NEW h \in 1..(n + 1 - 1), Way("S")'[h] = Header(f),
                     \A j \in (h + 1)..(n + 1) : Way("S")'[j] = Data(f)
              PROVE  n + 1 - h <= sent'[f]
          <6>1. CASE h = n
            BY <3>2, <5>1, <6>1
          <6>2. CASE h # n
            <7>1. h \in 1..(n - 1) /\ n > 0 /\ h \in 1..n /\ \A j \in (h + 1)..n : j \in 1..n /\ j \in (h + 1)..(n + 1)
              BY <3>2, <6>2
            <7>2. Way("S")[h] = Header(f) /\ \A j \in (h + 1)..n : Way("S")[j] = Data(f)
              BY <3>2, <5>4, <7>1
            <7>3. n - h <= sent[f]
              BY <5>2, <7>1, <7>2 DEF CountedTo
            <7> QED BY <3>2, <5>1, <7>1, <7>3
          <6> QED BY <6>1, <6>2
        <5>5. current' = f /\ (\A j \in 1..(n + 1) : Way("S")'[j] = Data(f)) => Len(got'[f]) + (n + 1) <= sent'[f]
          BY <5>3
        <5>6. \A h \in 1..(n + 1 - 1) :
                Way("S")'[h] = Header(f) /\ (\A j \in (h + 1)..(n + 1) : Way("S")'[j] = Data(f))
                => n + 1 - h <= sent'[f]
          BY <5>4
        <5>7. PICK m : m = n + 1
          OBVIOUS
        <5>8. current' = f /\ (\A j \in 1..m : Way("S")'[j] = Data(f)) => Len(got'[f]) + m <= sent'[f]
          BY <5>5, <5>7
        <5>9. \A h \in 1..(m - 1) :
                Way("S")'[h] = Header(f) /\ (\A j \in (h + 1)..m : Way("S")'[j] = Data(f)) => m - h <= sent'[f]
          BY <3>2, <5>6, <5>7
        <5>10. CountedTo(f, m)'
          BY <5>8, <5>9 DEF CountedTo
        <5> QED BY <5>7, <5>10
      <4> QED BY <4>1, <4>2
    <3>7. \A f \in File : \A i, j \in 1..(n + 1) :
                Way("S")'[i] = Header(f) /\ Way("S")'[j] = Header(f) => i = j
      <4>1. \A f \in File : \A i, j \in 1..n : Way("S")'[i] = Header(f) /\ Way("S")'[j] = Header(f) => i = j
        BY <2>1, <3>2 DEF WayOfFiles
      <4>2. \A f \in File : Way("S")'[n + 1] # Header(f)
        BY <1>1, <3>2, FileFrames
      <4> QED BY <3>3, <4>1, <4>2
    <3>8. Way("S")' # <<>> /\ Way("S")'[Len(Way("S")')] = Data(sending')
      BY <1>1, <3>1, <3>2
    <3>9. \A i \in DOMAIN Way("S")' : FrameOf(i)'
      BY <3>2, <3>3, <3>5
    <3>10. WayOfFiles'
      BY <3>2, <3>7, <3>8, <3>9 DEF WayOfFiles
    <3> QED BY <3>2, <3>3, <3>6, <3>10 DEF Counted
  <2> QED BY <2>2, <2>3
<1> QED BY <1>5, <1>6, <1>7, <1>8, <1>9, <1>10, <1>11, <1>12
LEMMA EndFilesInv == ASSUME IInv, EndFiles PROVE IInv'
<1> USE DEF IInv
<1>1. /\ pos["S"] = "files" /\ queued = None /\ sending = None /\ Goes("S", "flush") /\ Placed
      /\ UNCHANGED <<pin, trusts, out, inbox, link, open, outcome, slot, tries, typed>> /\ UNCHANGED fileVars
  BY DEF EndFiles, setupVars, netVars, pinVars, Turns
<1>2. Way("S")' = Way("S") /\ Way("R")' = Way("R")
  BY <1>1 DEF Way
<1>3. Placed' /\ pos'["S"] = "flush" /\ pos'["R"] = pos["R"]
  BY <1>1, Gets, ThePeers DEF Positions, SenderPositions
<1>4. Turns'
  BY <1>1, <1>3 DEF Turns
<1>5. ProofsDone'
  BY <1>1, <1>3, ThePeers DEF ProofsDone, Proved
<1>6. FilesInTurn' /\ Kept' /\ WayOfFiles' /\ Counted' /\ Settled' /\ StreamIsOfItsFile'
  <2>1. NoVerdictSent
    BY <1>2, QuietTaken
  <2>2. pos["R"] = "settle" => inbox["R"] # <<>>
    BY DEF FilesInTurn
  <2> QED BY <1>1, <1>2, <1>3, <2>1, <2>2, FilesKept
<1>7. TypeOK'
  BY <1>1, <1>3, SetupTypes DEF TypeOK, SenderPositions
<1> QED BY <1>4, <1>5, <1>6, <1>7

LEMMA ReceiveLastInv == ASSUME IInv, ReceiveLast PROVE IInv'
<1> USE DEF IInv
<1>1. /\ pos["S"] = "last" /\ Has("S") /\ Takes("S") /\ Succeeds("S") /\ UNCHANGED out /\ Placed
      /\ UNCHANGED <<pin, trusts, link, slot, tries, typed>> /\ UNCHANGED fileVars
      /\ "S" \in Peers /\ Other("S") = "R"
  BY ThePeers DEF ReceiveLast, setupVars, pinVars, Turns
<1>2. /\ Way("R") # <<>> /\ Way("R")' = Tail(Way("R")) /\ Way("S")' = Way("S")
      /\ inbox' \in [Peers -> Seq(Frames)] /\ inbox'["R"] = inbox["R"]
  BY <1>1, Listens
<1>3. /\ Placed' /\ pos'["S"] = "over" /\ pos'["R"] = pos["R"]
      /\ open' \in [Peers -> BOOLEAN] /\ outcome' \in [Peers -> {"running", "finished", "error"}]
      /\ \A q \in Peers : open'[q] => open[q]
  BY <1>1, Stops
<1>4. Turns'
  BY <1>1, <1>3 DEF Turns, StoppedTurn
<1>5. ProofsDone'
  BY <1>1, <1>3, ThePeers DEF ProofsDone, Proved
<1>6. FilesInTurn' /\ Kept' /\ WayOfFiles' /\ Counted' /\ Settled' /\ StreamIsOfItsFile'
  <2>1. NoVerdictSent
    BY <1>2, QuietTaken
  <2>2. pos["R"] = "settle" => inbox["R"] # <<>>
    BY DEF FilesInTurn
  <2> QED BY <1>1, <1>2, <1>3, <2>1, <2>2, FilesKept
<1>7. TypeOK'
  BY <1>1, <1>2, <1>3, SetupTypes DEF TypeOK, SenderPositions
<1> QED BY <1>4, <1>5, <1>6, <1>7

LEMMA SendEndInv == ASSUME IInv, SendEnd PROVE IInv'
<1> USE DEF IInv
<1>1. /\ pos["S"] = "flush" /\ Sends("S", <<Delimiter>>, "last") /\ Placed
      /\ UNCHANGED <<pin, trusts, inbox, link, open, outcome, slot, tries, typed>> /\ UNCHANGED fileVars
      /\ UNCHANGED <<picked, handed, queued, sending, sent, finished, current, settling, got, stream, results, verdict>>
      /\ sending = None
  BY DEF SendEnd, setupVars, netVars, pinVars, fileVars, sendVars, takeVars, Turns, FilesInTurn
<1>2. Delimiter \in Frames /\ "S" \in Peers /\ Other("S") = "R" /\ "last" \in Positions
  BY FrameTypes, ThePeers DEF Positions, SenderPositions
<1>3. <<Delimiter>> \in Seq(Frames) /\ Way("S") \in Seq(Frames)
  <2>1. Delimiter \in Frames /\ Way("S") \in Seq(Frames)
    BY <1>2, WaySeqs
  <2> HIDE DEF Frames, Delimiter
  <2> QED BY <2>1
<1>4. /\ out' \in [Peers -> Seq(Frames)] /\ Way("R")' = Way("R") /\ Placed' /\ pos'["R"] = pos["R"]
      /\ IF open["S"] THEN Way("S")' = Way("S") \o <<Delimiter>> /\ pos'["S"] = "last"
                      ELSE Way("S")' = Way("S") /\ pos'["S"] = "over"
  BY <1>1, <1>2, <1>3, Speaks
<1>5. Turns'
  BY <1>1, <1>4 DEF Turns, StoppedTurn
<1>6. ProofsDone'
  BY <1>1, <1>4, ThePeers DEF ProofsDone, Proved
<1>7. TypeOK'
  BY <1>1, <1>4, SetupTypes DEF TypeOK, SenderPositions
<1>8. CASE ~open["S"]
  <2>1. NoVerdictSent
    BY <1>4, QuietTaken
  <2>2. pos["R"] = "settle" => inbox["R"] # <<>>
    BY DEF FilesInTurn
  <2>3. FilesInTurn' /\ Kept' /\ WayOfFiles' /\ Counted' /\ Settled' /\ StreamIsOfItsFile'
    BY <1>1, <1>4, <1>8, <2>1, <2>2, FilesKept
  <2> QED BY <1>5, <1>6, <1>7, <2>3
<1>9. CASE open["S"]
  <2>1. FilesInTurn'
    BY <1>1, <1>4, <1>9 DEF FilesInTurn, Taking
  <2>2. Kept' /\ StreamIsOfItsFile' /\ Settled'
    BY <1>1, <1>4 DEF Kept, StreamIsOfItsFile, Settled, NoExcess
  <2>3. WayOfFiles' /\ Counted'
    <3> SUFFICES ASSUME Taking' PROVE WayOfFiles' /\ Counted'
      BY DEF WayOfFiles, Counted
    <3>0. PICK n : n = Len(Way("S"))
      OBVIOUS
    <3>1. Taking
      BY <1>4 DEF Taking
    <3>2. Way("S")' = Append(Way("S"), Delimiter)
      <4> DEFINE q == Way("S")
      <4>1. q \in Seq(Frames) /\ Delimiter \in Frames /\ Way("S")' = q \o <<Delimiter>>
        BY <1>2, <1>3, <1>4, <1>9
      <4> HIDE DEF q, Frames, Delimiter
      <4>2. q \o <<Delimiter>> = Append(q, Delimiter)
        BY <4>1, AppendProperties
      <4> QED BY <4>1, <4>2 DEF q
    <3>3. \A f \in File : sent[f] <= sent'[f] /\ sent'[f] \in Nat
      BY <1>1 DEF TypeOK
    <3>4. /\ n \in Nat /\ DOMAIN Way("S") = 1..n
          /\ DOMAIN Way("S")' = 1..(n + 1) /\ Len(Way("S")') = n + 1 /\ Way("S")'[n + 1] = Delimiter
          /\ \A i \in 1..n : Way("S")'[i] = Way("S")[i]
          /\ \A i \in 1..n : FrameOf(i)'
          /\ \A f \in File : \A i \in 1..n : CountedTo(f, i)'
      BY <1>1, <1>2, <1>4, <1>9, <3>0, <3>1, <3>2, <3>3, FramesStay
    <3>5. \A i \in 1..(n + 1) : i \in 1..n \/ i = n + 1
      BY <3>4
    <3>6. FrameOf(n + 1)'
      BY <1>4, <1>9, <3>4 DEF FrameOf
    <3>7. \A f \in File : CountedTo(f, n + 1)'
      <4>1. \A f \in File : Way("S")'[n + 1] # Data(f)
        BY <3>4, FileFrames
      <4>2. n + 1 \in 1..(n + 1) /\ \A h \in 1..(n + 1 - 1) : n + 1 \in (h + 1)..(n + 1)
        BY <3>4
      <4> QED BY <4>1, <4>2 DEF CountedTo
    <3>8. \A f \in File : \A i, j \in 1..(n + 1) :
                Way("S")'[i] = Header(f) /\ Way("S")'[j] = Header(f) => i = j
      <4>1. \A f \in File : \A i, j \in 1..n : Way("S")'[i] = Header(f) /\ Way("S")'[j] = Header(f) => i = j
        BY <3>1, <3>4 DEF WayOfFiles
      <4>2. \A f \in File : Way("S")'[n + 1] # Header(f)
        BY <3>4, FileFrames
      <4> QED BY <3>5, <4>1, <4>2
    <3>9. \A i \in DOMAIN Way("S")' : FrameOf(i)'
      BY <3>4, <3>5, <3>6
    <3>10. WayOfFiles'
      BY <1>1, <3>4, <3>8, <3>9 DEF WayOfFiles
    <3> QED BY <3>4, <3>5, <3>7, <3>10 DEF Counted
  <2> QED BY <1>5, <1>6, <1>7, <2>1, <2>2, <2>3
<1> QED BY <1>8, <1>9
-----------------------------------------------------------------------------
(* The files at the receiver.                                              *)

\* Where S is once R takes files.
LEMMA TakingTurn ==
    ASSUME TypeOK, Turns, Taking
    PROVE  \/ pos["S"] \in {"files", "flush", "last", "expel", "over"}
           \/ pos["S"] = "choice" /\ pos["R"] = "receive" /\ Way("S") = <<>>
  BY STurn DEF Taking, NonceTurn, ReplyTurn, TypingTurn, AnsweredTurn, VerifyTurn, Hears, ChoiceTurn

\* R may go anywhere from there.
LEMMA TakingKept ==
    ASSUME IInv, Taking, Placed', UNCHANGED <<pin, trusts, typed, tries>>, pos'["S"] = pos["S"],
           pos["S"] # "choice", pos'["R"] \in {"receive", "settle", "flush", "over"}
    PROVE  Turns' /\ ProofsDone'
<1> USE DEF IInv
<1>1. pos["S"] \in {"files", "flush", "last", "expel", "over"}
  BY TakingTurn
<1>2. Turns'
  BY <1>1 DEF Turns, StoppedTurn
<1>3. ProofsDone'
  BY <1>1, ThePeers DEF ProofsDone, Proved, Taking
<1> QED BY <1>2, <1>3

\* The first frame of the way, and where the others go.
LEMMA FrameTaken ==
    ASSUME IInv, Taking, Way("S") # <<>>, Way("S")' = Tail(Way("S"))
    PROVE  \E n \in Nat :
            /\ Len(Way("S")) = n + 1 /\ DOMAIN Way("S") = 1..(n + 1)
            /\ Len(Way("S")') = n /\ DOMAIN Way("S")' = 1..n /\ (Way("S")' = <<>> <=> n = 0)
            /\ \A i \in 1..n : Way("S")'[i] = Way("S")[i + 1]
            /\ Head(Way("S")) = Way("S")[1] /\ FrameOf(1)
<1> USE DEF IInv
<1> DEFINE q == Way("S")
           r == Tail(q)
<1>1. q \in Seq(Frames) /\ q # <<>> /\ Way("S")' = r
  BY WaySeqs, ThePeers
<1> HIDE DEF q, Frames
<1>2. PICK n \in Nat : Len(q) = n + 1
  <2>1. Len(q) \in Nat /\ Len(q) # 0
    BY <1>1, LenProperties, EmptySeq
  <2>2. Len(q) - 1 \in Nat /\ Len(q) = (Len(q) - 1) + 1
    BY <2>1
  <2> QED BY <2>2
<1>3. /\ DOMAIN q = 1..(n + 1) /\ Len(r) = n /\ r \in Seq(Frames) /\ DOMAIN r = 1..n /\ Head(q) = q[1]
      /\ \A i \in 1..n : r[i] = q[i + 1]
  BY <1>1, <1>2, HeadTailProperties, LenProperties
<1>4. r = <<>> <=> n = 0
  BY <1>3, EmptySeq
<1>5. FrameOf(1)
  <2>1. 1 \in DOMAIN Way("S")
    BY <1>3 DEF q
  <2> QED BY <2>1 DEF WayOfFiles
<1> HIDE DEF r
<1> QED BY <1>1, <1>2, <1>3, <1>4, <1>5 DEF q

\* The way after R has taken its first frame.
LEMMA WayTaken ==
    ASSUME IInv, Taking, Way("S") # <<>>, Way("S")' = Tail(Way("S")),
           UNCHANGED <<handed, queued, sending, sent>>, pos'["S"] = pos["S"], open'["S"] => open["S"],
           \A f \in File : stream[f] = "none" /\ Way("S")[1] # Header(f) => stream'[f] = "none",
           current' = None \/ \E f \in File : current' = f /\ Way("S")[1] \in {Header(f), Data(f)},
           \A f \in File : \A i \in DOMAIN Way("S")' :
                current' = f /\ (\A j \in 1..i : Way("S")[j + 1] = Data(f)) => Len(got'[f]) + i <= sent[f]
    PROVE  WayOfFiles' /\ Counted'
<1> USE DEF IInv
<1>1. PICK n \in Nat :
        /\ Len(Way("S")) = n + 1 /\ DOMAIN Way("S") = 1..(n + 1)
        /\ Len(Way("S")') = n /\ DOMAIN Way("S")' = 1..n /\ (Way("S")' = <<>> <=> n = 0)
        /\ \A i \in 1..n : Way("S")'[i] = Way("S")[i + 1]
  BY FrameTaken
<1>2. /\ \A i \in 1..(n + 1) : FrameOf(i)
      /\ \A f \in File : \A i, j \in 1..(n + 1) : Way("S")[i] = Header(f) /\ Way("S")[j] = Header(f) => i = j
      /\ \A f \in File : \A i \in 1..(n + 1) : CountedTo(f, i)
  BY <1>1 DEF WayOfFiles, Counted
<1>3. \A i \in 1..n : i + 1 \in 1..(n + 1) /\ i + 1 # 1 /\ 1 \in 1..(n + 1) /\ i + 1 > 1 /\ i + 1 - 1 = i
  BY <1>1
<1>4. ASSUME NEW i \in 1..n PROVE FrameOf(i)'
  <2>1. FrameOf(i + 1) /\ Way("S")'[i] = Way("S")[i + 1]
    BY <1>1, <1>2, <1>3
  <2>2. CASE Way("S")[i + 1] = Delimiter /\ pos["S"] \in {"last", "over"}
    BY <2>1, <2>2 DEF FrameOf
  <2>3. ASSUME NEW f \in File, Way("S")[i + 1] = Header(f), f \in handed, f # queued, stream[f] = "none"
        PROVE  FrameOf(i)'
    <3>1. Way("S")[1] # Header(f)
      BY <1>2, <1>3, <2>3
    <3> QED BY <2>1, <2>3, <3>1 DEF FrameOf
  <2>4. ASSUME NEW f \in File, Way("S")[i + 1] = Data(f), Way("S")[i] \in {Header(f), Data(f)}
        PROVE  FrameOf(i)'
    <3>1. i > 1 => Way("S")'[i - 1] = Way("S")[i]
      <4> SUFFICES ASSUME i > 1 PROVE Way("S")'[i - 1] = Way("S")[i]
        OBVIOUS
      <4>1. i - 1 \in 1..n /\ i - 1 + 1 = i
        BY <1>1
      <4> QED BY <1>1, <4>1
    <3>2. i = 1 => current' \in {f, None}
      BY <2>4, FileFrames
    <3> QED BY <2>1, <2>4, <3>1, <3>2 DEF FrameOf
  <2> QED BY <1>3, <2>1, <2>2, <2>3, <2>4 DEF FrameOf
<1>5. \A f \in File : \A i, j \in 1..n : Way("S")'[i] = Header(f) /\ Way("S")'[j] = Header(f) => i = j
  <2> SUFFICES ASSUME NEW f \in File, NEW i \in 1..n, NEW j \in 1..n,
                      Way("S")'[i] = Header(f), Way("S")'[j] = Header(f)
               PROVE  i = j
    OBVIOUS
  <2>1. Way("S")[i + 1] = Header(f) /\ Way("S")[j + 1] = Header(f)
    BY <1>1
  <2>2. i + 1 = j + 1
    BY <1>2, <1>3, <2>1
  <2> QED BY <1>1, <2>2
<1>6. open'["S"] /\ sending # None =>
        IF Way("S")' = <<>> THEN current' \in {sending, None}
        ELSE Way("S")'[Len(Way("S")')] \in {Header(sending), Data(sending)}
  <2> SUFFICES ASSUME open'["S"], sending # None
               PROVE  IF Way("S")' = <<>> THEN current' \in {sending, None}
                      ELSE Way("S")'[Len(Way("S")')] \in {Header(sending), Data(sending)}
    OBVIOUS
  <2>1. Way("S")[n + 1] \in {Header(sending), Data(sending)} /\ sending \in File
    BY <1>1 DEF WayOfFiles, TypeOK
  <2>2. CASE n = 0
    <3>1. Way("S")[1] \in {Header(sending), Data(sending)}
      BY <2>1, <2>2
    <3> QED BY <1>1, <2>1, <2>2, <3>1, FileFrames
  <2>3. CASE n # 0
    <3>1. n \in 1..n
      BY <2>3
    <3> QED BY <1>1, <2>1, <2>3, <3>1
  <2> QED BY <2>2, <2>3
<1>7. WayOfFiles'
  BY <1>1, <1>4, <1>5, <1>6 DEF WayOfFiles
<1>8. ASSUME NEW f \in File, NEW i \in 1..n PROVE CountedTo(f, i)'
  <2>1. CountedTo(f, i + 1)
    BY <1>2, <1>3
  <2>2. \A j \in 1..i : j \in 1..n
    BY <1>1
  <2>3. ASSUME current' = f, \A j \in 1..i : Way("S")'[j] = Data(f)
        PROVE  Len(got'[f]) + i <= sent'[f]
    BY <1>1, <2>2, <2>3
  <2>4. ASSUME NEW h \in 1..(i - 1), Way("S")'[h] = Header(f), \A j \in (h + 1)..i : Way("S")'[j] = Data(f)
        PROVE  i - h <= sent'[f]
    <3>1. h \in 1..n /\ h + 1 \in 1..(i + 1 - 1) /\ i \in Nat /\ h \in Nat
      BY <1>1
    <3>2. Way("S")[h + 1] = Header(f)
      BY <1>1, <2>4, <3>1
    <3>3. ASSUME NEW j \in (h + 1 + 1)..(i + 1) PROVE Way("S")[j] = Data(f)
      <4>1. j - 1 \in (h + 1)..i /\ j - 1 \in 1..n /\ j - 1 + 1 = j
        BY <1>1
      <4> QED BY <1>1, <2>4, <4>1
    <3>4. (i + 1) - (h + 1) <= sent[f]
      BY <2>1, <3>1, <3>2, <3>3 DEF CountedTo
    <3>5. (i + 1) - (h + 1) = i - h
      BY <3>1
    <3> QED BY <3>4, <3>5
  <2> QED BY <2>3, <2>4 DEF CountedTo
<1> QED BY <1>1, <1>7, <1>8 DEF Counted
\* What R finds first is what it looks at.
LEMMA FirstOfR ==
    ASSUME TypeOK, Has("R")
    PROVE  /\ Way("S") # <<>> /\ Next1("R") = Head(Way("S")) /\ Next1("R") = Way("S")[1]
           /\ inbox["R"] \in Seq(Frames) /\ inbox["R"] # <<>>
<1> DEFINE a == inbox["R"]
           b == out["S"]
<1>1. a \in Seq(Frames) /\ b \in Seq(Frames) /\ a # <<>> /\ Way("S") = a \o b /\ Way("S") \in Seq(Frames)
  BY WaySeqs, ThePeers DEF Has, Way
<1> HIDE DEF a, b, Frames
<1>2. Head(a) = Head(a \o b) /\ a \o b # <<>>
  BY <1>1, FirstTaken
<1> DEFINE c == a \o b
<1>3. c \in Seq(Frames) /\ c # <<>> /\ Way("S") = c
  BY <1>1, <1>2
<1> HIDE DEF c
<1>4. Head(c) = c[1]
  BY <1>3, HeadTailProperties
<1> QED BY <1>1, <1>2, <1>3, <1>4 DEF a, c, Next1

LEMMA FileEndsInv == ASSUME IInv, FileEnds PROVE IInv'
<1> USE DEF IInv
<1>1. /\ pos["R"] = "receive" /\ Has("R") /\ Next1("R").text /\ current \in File /\ Goes("R", "settle") /\ Placed
      /\ UNCHANGED <<pin, trusts, out, inbox, link, open, outcome, slot, tries, typed>>
      /\ UNCHANGED <<picked, handed, queued, sending, sent, finished, got, results, verdict>>
      /\ stream' = [stream EXCEPT ![current] = "ended"] /\ settling' = current /\ current' = None
  BY DEF FileEnds, setupVars, netVars, pinVars, sendVars, Turns, TypeOK, Closed
<1>2. Taking /\ stream[current] = "open"
  BY <1>1, ConstantsAssumption DEF Taking, FilesInTurn
<1>3. /\ Way("S")' = Way("S") /\ Way("R")' = Way("R") /\ Way("S") # <<>>
      /\ inbox["R"] # <<>> /\ Head(inbox["R"]).text
  BY <1>1, FirstOfR DEF Way, Next1
<1>4. Placed' /\ pos'["R"] = "settle" /\ pos'["S"] = pos["S"]
  BY <1>1, Gets, ThePeers DEF Positions, ReceiverPositions
<1>5. pos["S"] # "choice"
  BY <1>2, <1>3, TakingTurn
<1>6. Turns' /\ ProofsDone'
  BY <1>1, <1>2, <1>4, <1>5, TakingKept
<1>7. stream' \in [File -> {"none", "open", "ended"}] /\ stream'[current] = "ended"
      /\ \A f \in File : f # current => stream'[f] = stream[f]
  BY <1>1 DEF TypeOK
<1>8. FilesInTurn'
  BY <1>1, <1>2, <1>3, <1>4 DEF FilesInTurn, Taking
<1>9. Kept'
  BY <1>1, <1>2, <1>7 DEF Kept
<1>10. StreamIsOfItsFile'
  BY <1>1 DEF StreamIsOfItsFile
<1>11. WayOfFiles'
  <2>1. ASSUME NEW i \in DOMAIN Way("S") PROVE FrameOf(i)'
    <3>1. FrameOf(i)
      BY <1>2 DEF WayOfFiles
    <3>2. \A f \in File : stream[f] = "none" => stream'[f] = "none"
      BY <1>2, <1>7
    <3> QED BY <1>1, <1>3, <1>4, <3>1, <3>2 DEF FrameOf
  <2> QED BY <1>1, <1>2, <1>3, <2>1 DEF WayOfFiles
<1>12. Counted'
  BY <1>1, <1>2, <1>3, ConstantsAssumption DEF Counted, CountedTo
<1>13. Settled'
  <2>1. NoExcess => results = <<>> /\ \A f \in File : stream[f] = "ended" => verdict[f] # "none"
    BY <1>1 DEF Settled
  <2> QED BY <1>1, <1>3, <1>4, <1>7, <2>1 DEF Settled, NoExcess
<1>14. TypeOK'
  BY <1>1, <1>4, <1>7 DEF TypeOK, ReceiverPositions
<1> QED BY <1>6, <1>8, <1>9, <1>10, <1>11, <1>12, <1>13, <1>14

LEMMA ReceiverDoneInv == ASSUME IInv, ReceiverDone PROVE IInv'
<1> USE DEF IInv
<1>1. /\ pos["R"] = "flush" /\ Succeeds("R") /\ Placed
      /\ UNCHANGED <<pin, trusts, out, inbox, link, slot, tries, typed>> /\ UNCHANGED fileVars
  BY DEF ReceiverDone, setupVars, pinVars, Turns
<1>2. Way("S")' = Way("S") /\ Way("R")' = Way("R")
  BY <1>1 DEF Way
<1>3. /\ Placed' /\ pos'["R"] = "over" /\ pos'["S"] = pos["S"]
      /\ open' \in [Peers -> BOOLEAN] /\ outcome' \in [Peers -> {"running", "finished", "error"}]
  BY <1>1, Stops, ThePeers
<1>4. Turns' /\ ProofsDone'
  BY <1>1, <1>3, TakingTurn, TakingKept DEF Taking
<1>5. FilesInTurn' /\ Kept' /\ WayOfFiles' /\ Counted' /\ Settled' /\ StreamIsOfItsFile'
  <2>1. NoVerdictSent
    BY <1>2, QuietTaken
  <2> QED BY <1>1, <1>2, <1>3, <2>1, FilesKept
<1>6. TypeOK'
  BY <1>1, <1>3, SetupTypes DEF TypeOK, ReceiverPositions
<1> QED BY <1>4, <1>5, <1>6

LEMMA SendFileStatusInv ==
    ASSUME IInv, NEW f \in File, NEW ok \in BOOLEAN, SendFileStatus(f, ok)
    PROVE  IInv'
<1> USE DEF IInv
<1>1. /\ stream[f] = "ended" /\ verdict[f] = "none" /\ results = <<>>
      /\ results' = <<[file |-> f, ok |-> ok]>>
      /\ verdict' = [verdict EXCEPT ![f] = Word(ok)]
      /\ UNCHANGED <<pin, trusts, pos, out, inbox, link, open, outcome, slot, tries, typed>>
      /\ UNCHANGED <<picked, handed, queued, sending, sent, finished, current, settling, got, stream>>
  BY DEF SendFileStatus, setupVars, netVars, pinVars, sendVars, Word
<1>2. Way("S")' = Way("S") /\ Way("R")' = Way("R")
  BY <1>1 DEF Way
<1>3. Turns' /\ ProofsDone'
  BY <1>1, <1>2, TurnsKept
<1>4. /\ verdict' \in [File -> {"none", "success", "failure"}] /\ verdict'[f] = Word(ok) /\ Word(ok) # "none"
      /\ \A g \in File : g # f => verdict'[g] = verdict[g]
  BY <1>1 DEF TypeOK, Word
<1>5. FilesInTurn'
  BY <1>1 DEF FilesInTurn, Taking
<1>6. Kept'
  BY <1>1, <1>4 DEF Kept
<1>7. WayOfFiles' /\ Counted' /\ StreamIsOfItsFile'
  <2>1. \A i \in DOMAIN Way("S") : FrameOf(i) => FrameOf(i)'
    BY <1>1, <1>2 DEF FrameOf
  <2> QED BY <1>1, <1>2, <2>1 DEF WayOfFiles, Counted, CountedTo, Taking, StreamIsOfItsFile
<1>8. Settled'
  <2> SUFFICES ASSUME NoExcess PROVE Settled'
    BY <1>1 DEF Settled, NoExcess
  <2>1. pos["R"] = "settle" /\ settling = f
    BY <1>1 DEF Settled
  <2>2. \A g \in File : stream[g] = "ended" /\ verdict'[g] = "none" => FALSE
    BY <1>1, <1>4, <2>1 DEF Settled
  <2>3. \A i \in DOMAIN Way("R") : Way("R")[i].word \in {"success", "failure"} =>
            /\ Way("R")[i].file \in File /\ verdict'[Way("R")[i].file] = Way("R")[i].word
    BY <1>1, <1>4 DEF Settled
  <2> QED BY <1>1, <1>2, <1>4, <2>1, <2>2, <2>3 DEF Settled
<1>9. TypeOK'
  <2>1. results' \in Seq([file : File, ok : BOOLEAN])
    <3>1. [file |-> f, ok |-> ok] \in [file : File, ok : BOOLEAN]
      OBVIOUS
    <3> QED BY <1>1, <3>1
  <2> QED BY <1>1, <1>4, <2>1 DEF TypeOK
<1> QED BY <1>3, <1>5, <1>6, <1>7, <1>8, <1>9
LEMMA ReceiveHeaderInv == ASSUME IInv, ReceiveHeader PROVE IInv'
<1> USE DEF IInv
<1>1. /\ pos["R"] = "receive" /\ Has("R") /\ Takes("R") /\ Next1("R").text /\ current = None /\ Placed
      /\ UNCHANGED <<pin, trusts, out, link, slot, tries, typed>>
      /\ UNCHANGED <<picked, handed, queued, sending, sent, finished, settling, got, results, verdict>>
      /\ "R" \in Peers /\ Other("R") = "S" /\ "S" \in Peers
  BY ThePeers DEF ReceiveHeader, setupVars, pinVars, sendVars, Turns
<1>2. Taking /\ picked \in SUBSET File
  BY <1>1 DEF Taking, FilesInTurn
<1>3. /\ Way("S") # <<>> /\ Next1("R") = Way("S")[1] /\ Way("S")' = Tail(Way("S")) /\ Way("R")' = Way("R")
      /\ inbox' \in [Peers -> Seq(Frames)]
  BY <1>1, FirstOfR, Listens
<1>4. FrameOf(1) /\ pos["S"] # "choice"
  BY <1>2, <1>3, FrameTaken, TakingTurn
<1>5. NoExcess => results = <<>> /\ \A f \in File : stream[f] = "ended" => verdict[f] # "none"
  BY <1>1 DEF Settled
<1>6. CASE Next1("R").word # "header" /\ Fails("R") /\ UNCHANGED <<current, stream>>
  <2>1. /\ Placed' /\ pos'["R"] = "over" /\ pos'["S"] = pos["S"]
        /\ open' \in [Peers -> BOOLEAN] /\ outcome' \in [Peers -> {"running", "finished", "error"}]
    BY <1>1, <1>6, Stops
  <2>2. Turns' /\ ProofsDone'
    BY <1>1, <1>2, <1>4, <2>1, TakingKept
  <2>3. ~Taking'
    BY <2>1 DEF Taking
  <2>4. FilesInTurn' /\ Kept' /\ WayOfFiles' /\ Counted' /\ StreamIsOfItsFile'
    BY <1>1, <1>6, <2>1, <2>3 DEF FilesInTurn, Kept, WayOfFiles, Counted, StreamIsOfItsFile
  <2>5. Settled'
    BY <1>1, <1>3, <1>5, <1>6 DEF Settled, NoExcess
  <2>6. TypeOK'
    BY <1>1, <1>3, <1>6, <2>1 DEF TypeOK, ReceiverPositions
  <2> QED BY <2>2, <2>4, <2>5, <2>6
<1>7. ASSUME NEW f, f = Next1("R").file, Next1("R").word = "header",
             \/ f \in picked /\ current' = f /\ stream' = [stream EXCEPT ![f] = "open"]
             \/ UNCHANGED <<current, stream>>,
             UNCHANGED <<pos, open, outcome>>
      PROVE  IInv'
  <2>1. f \in File /\ Way("S")[1] = Header(f) /\ f \in handed /\ f # queued /\ stream[f] = "none" /\ got[f] = <<>>
    <3>1. Way("S")[1].word = "header" /\ f = Way("S")[1].file
      BY <1>3, <1>7
    <3>2. Way("S")[1] # Delimiter /\ \A g \in File : Way("S")[1] # Data(g)
      BY <3>1, FrameFields, FileFrames
    <3>3. PICK g \in File : Way("S")[1] = Header(g) /\ g \in handed /\ g # queued /\ stream[g] = "none"
      BY <1>4, <3>2 DEF FrameOf
    <3>4. f = g
      BY <3>1, <3>3, FileFrames
    <3> QED BY <3>3, <3>4 DEF Kept
  <2>2. stream' \in [File -> {"none", "open", "ended"}] /\ \A g \in File : g # f => stream'[g] = stream[g]
    BY <1>7, <2>1, ZenonT(60) DEF TypeOK
  <2>3. \/ stream'[f] = "open" /\ f \in picked /\ current' = f
        \/ stream'[f] = "none" /\ current' = None
    <3>1. CASE f \in picked /\ current' = f /\ stream' = [stream EXCEPT ![f] = "open"]
      <4>1. stream'[f] = "open"
        BY <2>1, <3>1 DEF TypeOK
      <4> QED BY <3>1, <4>1
    <3>2. CASE UNCHANGED <<current, stream>>
      BY <1>1, <2>1, <3>2
    <3> QED BY <1>7, <3>1, <3>2
  <2>4. Turns' /\ ProofsDone'
    <3>1. Placed'
      BY <1>1, <1>7 DEF Placed
    <3> QED BY <1>1, <1>2, <1>4, <1>7, <3>1, TakingKept
  <2>5. FilesInTurn'
    BY <1>1, <1>2, <1>7, <2>3 DEF FilesInTurn, Taking
  <2>6. Kept'
    BY <1>1, <1>2, <2>1, <2>2, <2>3 DEF Kept
  <2>7. StreamIsOfItsFile'
    BY <1>1 DEF StreamIsOfItsFile
  <2>8. Settled'
    BY <1>1, <1>3, <1>5, <2>2, <2>3 DEF Settled, NoExcess
  <2>9. WayOfFiles' /\ Counted'
    <3>1. PICK n \in Nat : /\ DOMAIN Way("S") = 1..(n + 1) /\ DOMAIN Way("S")' = 1..n
      BY <1>2, <1>3, FrameTaken
    <3>2. ASSUME NEW i \in 1..n, \A j \in 1..i : Way("S")[j + 1] = Data(f)
          PROVE  Len(got'[f]) + i <= sent[f]
      <4>1. CountedTo(f, i + 1) /\ 1 \in 1..(i + 1 - 1)
        <5>1. i + 1 \in 1..(n + 1)
          BY <3>1
        <5> QED BY <1>2, <2>1, <3>1, <5>1 DEF Counted
      <4>2. ASSUME NEW j \in (1 + 1)..(i + 1) PROVE Way("S")[j] = Data(f)
        <5>1. j - 1 \in 1..i /\ j - 1 + 1 = j
          BY <3>1
        <5> QED BY <3>2, <5>1
      <4>3. i + 1 - 1 <= sent[f]
        BY <2>1, <4>1, <4>2 DEF CountedTo
      <4>4. Len(got'[f]) = 0 /\ sent[f] \in Nat
        BY <1>1, <2>1 DEF TypeOK
      <4> QED BY <3>1, <4>3, <4>4
    <3>3. \A g \in File : \A i \in DOMAIN Way("S")' :
            current' = g /\ (\A j \in 1..i : Way("S")[j + 1] = Data(g)) => Len(got'[g]) + i <= sent[g]
      <4> SUFFICES ASSUME NEW g \in File, NEW i \in 1..n, current' = g, \A j \in 1..i : Way("S")[j + 1] = Data(g)
                   PROVE  Len(got'[g]) + i <= sent[g]
        BY <3>1
      <4>1. g = f
        BY <2>3, ConstantsAssumption
      <4> QED BY <3>2, <4>1
    <3>4. \A g \in File : stream[g] = "none" /\ Way("S")[1] # Header(g) => stream'[g] = "none"
      BY <2>1, <2>2
    <3>5. current' = None \/ \E g \in File : current' = g /\ Way("S")[1] \in {Header(g), Data(g)}
      BY <2>1, <2>3
    <3> QED BY <1>1, <1>2, <1>3, <1>7, <3>3, <3>4, <3>5, WayTaken
  <2>10. TypeOK'
    <3>1. current' \in File \cup {None} /\ UNCHANGED <<pos, open, outcome>>
      BY <1>7, <2>1, <2>3
    <3>2. UNCHANGED <<pin, trusts, out, link, slot, tries, typed, picked, handed, queued, sending,
                      sent, finished, settling, got, results, verdict>>
      BY <1>1
    <3> QED BY <1>3, <2>2, <3>1, <3>2 DEF TypeOK
  <2> QED BY <2>4, <2>5, <2>6, <2>7, <2>8, <2>9, <2>10
<1> QED BY <1>6, <1>7 DEF ReceiveHeader, HasToken

LEMMA ReceiveDataInv == ASSUME IInv, ReceiveData PROVE IInv'
<1> USE DEF IInv
<1>1. /\ pos["R"] = "receive" /\ Has("R") /\ Takes("R") /\ ~Next1("R").text /\ Placed
      /\ UNCHANGED <<pin, trusts, pos, out, link, open, outcome, slot, tries, typed>>
      /\ UNCHANGED <<picked, handed, queued, sending, sent, finished, settling, results, verdict>>
      /\ "R" \in Peers /\ Other("R") = "S" /\ "S" \in Peers
  BY ThePeers DEF ReceiveData, setupVars, pinVars, sendVars, Turns
<1>2. Taking /\ picked \in SUBSET File
  BY <1>1 DEF Taking, FilesInTurn
<1>3. /\ Way("S") # <<>> /\ Next1("R") = Way("S")[1] /\ Way("S")' = Tail(Way("S")) /\ Way("R")' = Way("R")
      /\ inbox' \in [Peers -> Seq(Frames)]
  BY <1>1, FirstOfR, Listens
<1>4. FrameOf(1) /\ pos["S"] # "choice"
  BY <1>2, <1>3, FrameTaken, TakingTurn
<1>5. PICK f \in File : Way("S")[1] = Data(f) /\ current \in {f, None} /\ Next1("R").file = f
  <2>1. Way("S")[1] # Delimiter /\ \A g \in File : Way("S")[1] # Header(g)
    BY <1>1, <1>3, FrameFields, FileFrames
  <2> QED BY <1>3, <1>4, <2>1, FileFrames DEF FrameOf
<1>6. NoExcess => results = <<>> /\ \A g \in File : stream[g] = "ended" => verdict[g] # "none"
  BY <1>1 DEF Settled
<1>7. PICK n \in Nat : DOMAIN Way("S") = 1..(n + 1) /\ DOMAIN Way("S")' = 1..n
  BY <1>2, <1>3, FrameTaken
<1>8. \A g \in File : \A i \in 1..(n + 1) : CountedTo(g, i)
  BY <1>2, <1>7 DEF Counted
<1>9. ASSUME current = f, NEW i \in 0..n, \A j \in 1..i : Way("S")[j + 1] = Data(f)
      PROVE  Len(got[f]) + (i + 1) <= sent[f]
  <2>1. CountedTo(f, i + 1)
    <3>1. i + 1 \in 1..(n + 1)
      BY <1>7
    <3> QED BY <1>8, <3>1
  <2>2. ASSUME NEW j \in 1..(i + 1) PROVE Way("S")[j] = Data(f)
    <3>1. j = 1 \/ (j - 1 \in 1..i /\ j - 1 + 1 = j)
      BY <1>7
    <3> QED BY <1>5, <1>9, <3>1
  <2> QED BY <1>9, <2>1, <2>2 DEF CountedTo
<1>10. Turns' /\ ProofsDone'
  <2>1. Placed'
    BY <1>1 DEF Placed
  <2> QED BY <1>1, <1>2, <1>4, <2>1, TakingKept
<1>11. \A g \in File : got[g] \in Seq(File) /\ Len(got[g]) \in Nat /\ sent[g] \in Nat
  BY DEF TypeOK
<1>12. CASE current = None /\ UNCHANGED <<got, stream, current>>
  <2>1. FilesInTurn' /\ Kept' /\ StreamIsOfItsFile' /\ Settled'
    BY <1>1, <1>3, <1>12 DEF FilesInTurn, Taking, Kept, StreamIsOfItsFile, Settled, NoExcess
  <2>2. \A g \in File : \A i \in DOMAIN Way("S")' :
            current' = g /\ (\A j \in 1..i : Way("S")[j + 1] = Data(g)) => Len(got'[g]) + i <= sent[g]
    BY <1>12, ConstantsAssumption
  <2>3. WayOfFiles' /\ Counted'
    BY <1>1, <1>2, <1>3, <1>12, <2>2, WayTaken
  <2>4. TypeOK'
    BY <1>1, <1>3, <1>12 DEF TypeOK
  <2> QED BY <1>10, <2>1, <2>3, <2>4
<1>13. CASE current # None /\ Fits(current) /\ got' = [got EXCEPT ![current] = Append(got[current], f)]
            /\ UNCHANGED <<stream, current>>
  <2>1. current = f /\ stream[f] = "open" /\ f \in picked /\ Len(got[f]) < Size
    BY <1>5, <1>13 DEF FilesInTurn, Fits
  <2> DEFINE q == got[f]
             r == Append(q, f)
  <2>2. q \in Seq(File) /\ Len(q) \in Nat /\ \A i \in DOMAIN q : q[i] = f
    BY <1>11 DEF StreamIsOfItsFile
  <2> HIDE DEF q
  <2>3. r \in Seq(File) /\ Len(r) = Len(q) + 1 /\ \A i \in DOMAIN r : r[i] = f
    BY <2>2, AppendProperties
  <2> HIDE DEF r
  <2>4. got' \in [File -> Seq(File)] /\ got'[f] = r /\ \A g \in File : g # f => got'[g] = got[g]
    BY <1>13, <2>1, <2>3 DEF TypeOK, q, r
  <2>5. Len(q) + 1 <= Size /\ Len(q) + 1 <= sent[f]
    <3>1. Len(got[f]) + (0 + 1) <= sent[f]
      <4>1. 0 \in 0..n /\ \A j \in 1..0 : Way("S")[j + 1] = Data(f)
        BY <1>7
      <4> QED BY <1>9, <2>1, <4>1
    <3> QED BY <1>11, <2>1, <2>2, <3>1, ConstantsAssumption DEF q
  <2>6. FilesInTurn' /\ Settled'
    BY <1>1, <1>3, <1>13 DEF FilesInTurn, Taking, Settled, NoExcess
  <2>7. Kept'
    BY <1>1, <1>13, <2>1, <2>3, <2>4, <2>5 DEF Kept
  <2>8. StreamIsOfItsFile'
    BY <1>1, <2>1, <2>3, <2>4, <2>5 DEF StreamIsOfItsFile
  <2>9. ASSUME NEW g \in File, NEW i \in DOMAIN Way("S")', current' = g, \A j \in 1..i : Way("S")[j + 1] = Data(g)
        PROVE  Len(got'[g]) + i <= sent[g]
    <3>1. g = f /\ i \in 0..n
      BY <1>7, <1>13, <2>1, <2>9
    <3>2. Len(got[f]) + (i + 1) <= sent[f]
      BY <1>9, <2>1, <2>9, <3>1
    <3>3. Len(got'[f]) = Len(got[f]) + 1
      BY <2>3, <2>4 DEF q
    <3>4. i \in Nat /\ Len(got[f]) \in Nat /\ sent[f] \in Nat
      BY <1>11, <3>1
    <3>5. Len(got'[f]) + i <= sent[f]
      <4>1. \A a, b, c, d \in Nat : a + (b + 1) <= c /\ d = a + 1 => d + b <= c
        OBVIOUS
      <4> DEFINE l == Len(got[f])
                 m == Len(got'[f])
      <4>2. l \in Nat /\ m = l + 1
        BY <3>3, <3>4
      <4>4. l + (i + 1) <= sent[f]
        BY <3>2
      <4> HIDE DEF l, m
      <4>3. m + i <= sent[f]
        BY <3>4, <4>1, <4>2, <4>4
      <4> QED BY <4>3 DEF m
    <3> QED BY <3>1, <3>5
  <2>10. WayOfFiles' /\ Counted'
    BY <1>1, <1>2, <1>3, <1>5, <1>13, <2>1, <2>9, WayTaken
  <2>11. TypeOK'
    BY <1>1, <1>3, <1>13, <2>4 DEF TypeOK
  <2> QED BY <1>10, <2>6, <2>7, <2>8, <2>10, <2>11
<1>14. CASE current # None /\ ~Fits(current) /\ stream' = Closed(current) /\ current' = None /\ UNCHANGED got
  <2>1. current = f /\ stream[f] = "open" /\ ~(Len(got[f]) < Size)
    BY <1>5, <1>14 DEF FilesInTurn, Fits
  <2>2. stream' \in [File -> {"none", "open", "ended"}] /\ stream'[f] = "ended"
        /\ \A g \in File : g # f => stream'[g] = stream[g]
    BY <1>14, <2>1 DEF TypeOK, Closed
  <2>3. ~NoExcess
    <3>1. Len(got[f]) + (0 + 1) <= sent[f]
      <4>1. 0 \in 0..n /\ \A j \in 1..0 : Way("S")[j + 1] = Data(f)
        BY <1>7
      <4> QED BY <1>9, <2>1, <4>1
    <3>2. sent[f] > Size
      BY <1>11, <2>1, <3>1, ConstantsAssumption
    <3> QED BY <1>11, <3>2, ConstantsAssumption DEF NoExcess
  <2>4. FilesInTurn' /\ StreamIsOfItsFile'
    BY <1>1, <1>14 DEF FilesInTurn, Taking, StreamIsOfItsFile
  <2>5. Settled'
    BY <1>1, <2>3 DEF Settled, NoExcess
  <2>6. Kept'
    BY <1>1, <1>14, <2>1, <2>2 DEF Kept
  <2>7. \A g \in File : \A i \in DOMAIN Way("S")' :
            current' = g /\ (\A j \in 1..i : Way("S")[j + 1] = Data(g)) => Len(got'[g]) + i <= sent[g]
    BY <1>14, ConstantsAssumption
  <2>8. \A g \in File : stream[g] = "none" /\ Way("S")[1] # Header(g) => stream'[g] = "none"
    BY <2>1, <2>2
  <2>9. WayOfFiles' /\ Counted'
    BY <1>1, <1>2, <1>3, <1>14, <2>7, <2>8, WayTaken
  <2>10. TypeOK'
    BY <1>1, <1>3, <1>14, <2>2 DEF TypeOK
  <2> QED BY <1>10, <2>4, <2>5, <2>6, <2>9, <2>10
<1> QED BY <1>5, <1>12, <1>13, <1>14 DEF ReceiveData

LEMMA StreamRefusedInv == ASSUME IInv, StreamRefused PROVE IInv'
<1> USE DEF IInv
<1>1. /\ pos["R"] = "receive" /\ Has("R") /\ Takes("R") /\ Placed /\ Fails("R") /\ current' = None
      /\ UNCHANGED <<pin, trusts, out, link, slot, tries, typed>>
      /\ UNCHANGED <<picked, handed, queued, sending, sent, finished, settling, got, stream, results, verdict>>
      /\ "R" \in Peers /\ Other("R") = "S" /\ "S" \in Peers
  BY ThePeers DEF StreamRefused, setupVars, pinVars, sendVars, Turns
<1>2. Taking
  BY <1>1 DEF Taking
<1>3. /\ Way("S") # <<>> /\ Way("S")' = Tail(Way("S")) /\ Way("R")' = Way("R")
      /\ inbox' \in [Peers -> Seq(Frames)]
  BY <1>1, FirstOfR, Listens
<1>4. pos["S"] # "choice"
  BY <1>2, <1>3, TakingTurn
<1>5. NoExcess => results = <<>> /\ \A f \in File : stream[f] = "ended" => verdict[f] # "none"
  BY <1>1 DEF Settled
<1>6. /\ Placed' /\ pos'["R"] = "over" /\ pos'["S"] = pos["S"]
      /\ open' \in [Peers -> BOOLEAN] /\ outcome' \in [Peers -> {"running", "finished", "error"}]
  BY <1>1, Stops
<1>7. Turns' /\ ProofsDone'
  BY <1>1, <1>2, <1>4, <1>6, TakingKept
<1>8. ~Taking'
  BY <1>6 DEF Taking
<1>9. FilesInTurn' /\ Kept' /\ WayOfFiles' /\ Counted' /\ StreamIsOfItsFile'
  BY <1>1, <1>6, <1>8 DEF FilesInTurn, Kept, WayOfFiles, Counted, StreamIsOfItsFile
<1>10. Settled'
  BY <1>1, <1>3, <1>5, <1>6 DEF Settled, NoExcess
<1>11. TypeOK'
  BY <1>1, <1>3, <1>6 DEF TypeOK, ReceiverPositions
<1> QED BY <1>7, <1>9, <1>10, <1>11

LEMMA SettleInv == ASSUME IInv, Settle PROVE IInv'
<1> USE DEF IInv
<1> DEFINE answer == TextOf(Word(Head(results).ok), settling)
           last   == Next1("R") = Delimiter
<1>1. /\ pos["R"] = "settle" /\ results # <<>> /\ results' = Tail(results) /\ settling' = None
      /\ Sends("R", <<answer>>, IF last THEN "flush" ELSE "receive")
      /\ IF last THEN Takes("R") ELSE UNCHANGED inbox
      /\ UNCHANGED <<pin, trusts, link, open, outcome, slot, tries, typed>>
      /\ UNCHANGED <<picked, handed, queued, sending, sent, finished, current, got, stream, verdict>>
  <2>1. /\ pos["R"] = "settle" /\ results # <<>> /\ results' = Tail(results) /\ settling' = None
        /\ UNCHANGED <<pin, trusts, link, open, outcome, slot, tries, typed>>
        /\ UNCHANGED <<picked, handed, queued, sending, sent, finished, current, got, stream, verdict>>
    BY DEF Settle, setupVars, pinVars, sendVars
  <2>2. /\ Sends("R", <<answer>>, IF last THEN "flush" ELSE "receive")
        /\ IF last THEN Takes("R") ELSE UNCHANGED inbox
    BY DEF Settle, Word, IsSuccess
  <2> QED BY <2>1, <2>2
<1> HIDE DEF last
<1>2. /\ Taking /\ settling \in File /\ current = None /\ Has("R") /\ Placed
      /\ "R" \in Peers /\ Other("R") = "S" /\ "S" \in Peers
  BY <1>1, ThePeers DEF Taking, FilesInTurn, Has, Turns
<1>3. answer \in Frames /\ <<answer>> \in Seq(Frames) /\ Way("R") \in Seq(Frames)
  <2>1. Word(Head(results).ok) \in Words
    BY DEF Word, Words
  <2>2. answer \in Frames
    BY <1>1, <1>2, <2>1, FrameTypes
  <2> HIDE DEF Frames, answer
  <2> QED BY <1>2, <2>2, WaySeqs
<1>4. answer.word = Word(Head(results).ok) /\ answer.file = settling
  BY FrameFields
<1> HIDE DEF answer
<1>5. "flush" \in Positions /\ "receive" \in Positions
  BY DEF Positions, ReceiverPositions
<1>6. /\ inbox' \in [Peers -> Seq(Frames)] /\ out' \in [Peers -> Seq(Frames)] /\ Placed' /\ pos'["S"] = pos["S"]
      /\ IF open["R"] THEN Way("R")' = Way("R") \o <<answer>> /\ pos'["R"] \in {"flush", "receive"}
                      ELSE Way("R")' = Way("R") /\ pos'["R"] = "over"
      /\ \/ Way("S") # <<>> /\ Way("S")' = Tail(Way("S"))
         \/ Way("S")' = Way("S")
  <2>1. CASE last
    BY <1>1, <1>2, <1>3, <1>5, <2>1, Replies
  <2>2. CASE ~last
    <3>1. UNCHANGED inbox /\ Sends("R", <<answer>>, "receive") /\ inbox \in [Peers -> Seq(Frames)]
      BY <1>1, <2>2 DEF TypeOK
    <3> QED BY <1>2, <1>3, <1>5, <3>1, Speaks
  <2> QED BY <2>1, <2>2
<1>7. Turns' /\ ProofsDone'
  <2>1. pos["S"] # "choice" /\ pos'["R"] \in {"receive", "settle", "flush", "over"}
    BY <1>1, <1>2, <1>6, TakingTurn
  <2> QED BY <1>1, <1>2, <1>6, <2>1, TakingKept
<1>8. FilesInTurn'
  BY <1>1, <1>2, <1>6 DEF FilesInTurn, Taking
<1>9. Kept' /\ StreamIsOfItsFile'
  BY <1>1 DEF Kept, StreamIsOfItsFile
<1>10. WayOfFiles' /\ Counted'
  <2>1. CASE Way("S") # <<>> /\ Way("S")' = Tail(Way("S"))
    <3>1. \A f \in File : \A i \in DOMAIN Way("S")' :
            current' = f /\ (\A j \in 1..i : Way("S")[j + 1] = Data(f)) => Len(got'[f]) + i <= sent[f]
      BY <1>1, <1>2, ConstantsAssumption
    <3> QED BY <1>1, <1>2, <1>6, <2>1, <3>1, WayTaken
  <2>2. CASE Way("S")' = Way("S")
    <3>1. \A i \in DOMAIN Way("S") : FrameOf(i) => FrameOf(i)'
      BY <1>1, <1>6, <2>2 DEF FrameOf
    <3> QED BY <1>1, <1>2, <2>2, <3>1 DEF WayOfFiles, Counted, CountedTo
  <2> QED BY <1>6, <2>1, <2>2
<1>11. Settled'
  <2> SUFFICES ASSUME NoExcess PROVE Settled'
    BY <1>1 DEF Settled, NoExcess
  <2>1. PICK ok \in BOOLEAN : results = <<[file |-> settling, ok |-> ok]>> /\ verdict[settling] = Word(ok)
    BY <1>1 DEF Settled
  <2>2. results' = <<>> /\ Head(results).ok = ok
    BY <1>1, <2>1
  <2>3. answer.word = Word(ok) /\ answer.file = settling /\ verdict[answer.file] = answer.word
    BY <1>4, <2>1, <2>2
  <2>4. \A f \in File : ~(stream[f] = "ended" /\ verdict[f] = "none")
    BY <1>1 DEF Settled
  <2>5. \A i \in DOMAIN Way("R")' : Way("R")'[i] = answer \/ \E j \in DOMAIN Way("R") : Way("R")'[i] = Way("R")[j]
    <3> DEFINE q == Way("R")
               r == q \o <<answer>>
    <3>1. q \in Seq(Frames) /\ answer \in Frames /\ (Way("R")' = r \/ Way("R")' = q)
      BY <1>3, <1>6
    <3> HIDE DEF q, Frames
    <3>2. r = Append(q, answer) /\ DOMAIN q = 1..Len(q) /\ Len(q) \in Nat
      BY <3>1, AppendProperties, LenProperties
    <3>3. \A i \in DOMAIN r : r[i] = answer \/ \E j \in DOMAIN q : r[i] = q[j]
      BY <3>1, <3>2, AppendProperties
    <3> HIDE DEF r
    <3> QED BY <3>1, <3>3 DEF q
  <2>6. \A i \in DOMAIN Way("R")' : Way("R")'[i].word \in {"success", "failure"} =>
            Way("R")'[i].file \in File /\ verdict[Way("R")'[i].file] = Way("R")'[i].word
    <3>1. \A j \in DOMAIN Way("R") : Way("R")[j].word \in {"success", "failure"} =>
            Way("R")[j].file \in File /\ verdict[Way("R")[j].file] = Way("R")[j].word
      BY DEF Settled
    <3> QED BY <1>2, <2>3, <2>5, <3>1
  <2> QED BY <1>1, <2>2, <2>4, <2>6 DEF Settled
<1>12. TypeOK'
  <2>1. results' \in Seq([file : File, ok : BOOLEAN])
    BY <1>1, HeadTailProperties DEF TypeOK
  <2>2. pos'["R"] \in ReceiverPositions
    BY <1>6 DEF ReceiverPositions
  <2> QED BY <1>1, <1>6, <2>1, <2>2 DEF TypeOK
<1> QED BY <1>7, <1>8, <1>9, <1>10, <1>11, <1>12

-----------------------------------------------------------------------------
(* The theorems.                                                           *)

LEMMA InvInit == ASSUME Init PROVE IInv
<1>1. /\ pos["S"] = "nonce" /\ pos["R"] = "nonce" /\ pos \in [Peers -> {"nonce"}]
      /\ out["S"] = Text("nonce") /\ out["R"] = <<>> /\ inbox["S"] = <<>> /\ inbox["R"] = <<>>
  BY ThePeers DEF Init
<1>2. "nonce" \in Words /\ Text("nonce") \in Seq(Frames) /\ <<>> \in Seq(Frames)
  BY SetupTexts, NoFrames DEF Words
<1>3. Way("S") = Text("nonce") /\ Way("R") = <<>>
  BY <1>1, <1>2, NoFrames, ThePeers DEF Way
<1>4. TypeOK
  <2>1. out \in [Peers -> Seq(Frames)] /\ inbox \in [Peers -> Seq(Frames)]
    BY <1>2 DEF Init
  <2>2. pos["S"] \in SenderPositions /\ pos["R"] \in ReceiverPositions
    BY <1>1 DEF SenderPositions, ReceiverPositions
  <2>3. tries \in [Peers -> 0..MaxTries] /\ sent \in [File -> 0..MaxFrames]
    BY ConstantsAssumption DEF Init
  <2>4. got \in [File -> Seq(File)] /\ results \in Seq([file : File, ok : BOOLEAN])
    BY DEF Init
  <2>5. typed \in [Peers -> [wrong : Nat, right : BOOLEAN]]
    BY DEF Init
  <2>6. /\ pin \in [Peers -> {"none", "empty", "set"}] /\ trusts \in [Peers -> BOOLEAN] /\ link \in BOOLEAN
        /\ open \in [Peers -> BOOLEAN] /\ outcome \in [Peers -> {"running", "finished", "error"}]
        /\ slot \in [Peers -> {"none", "pushed", "ready"}]
    BY DEF Init
  <2>7. picked \in (SUBSET File) \cup {None}
    BY DEF Init
  <2>8. /\ handed \subseteq File /\ finished \in BOOLEAN
        /\ queued \in File \cup {None} /\ sending \in File \cup {None}
        /\ current \in File \cup {None} /\ settling \in File \cup {None}
    BY DEF Init
  <2>9. stream \in [File -> {"none", "open", "ended"}] /\ verdict \in [File -> {"none", "success", "failure"}]
    BY DEF Init
  <2> QED BY <2>1, <2>2, <2>3, <2>4, <2>5, <2>6, <2>8, <2>9, <2>7 DEF TypeOK
<1>5. Turns
  BY <1>1, <1>3 DEF Turns, Placed, Positions, SenderPositions, NonceTurn
<1>6. ProofsDone
  BY <1>1, ConstantsAssumption, ThePeers DEF Init, ProofsDone
<1>7. FilesInTurn /\ WayOfFiles /\ Counted
  BY <1>1 DEF Init, FilesInTurn, WayOfFiles, Counted, Taking
<1>8. Kept /\ StreamIsOfItsFile
  BY ConstantsAssumption DEF Init, Kept, StreamIsOfItsFile
<1>9. Settled
  BY <1>3 DEF Init, Settled
<1> QED BY <1>4, <1>5, <1>6, <1>7, <1>8, <1>9 DEF IInv

LEMMA StutterInv == ASSUME IInv, UNCHANGED vars PROVE IInv'
<1> USE DEF IInv
<1>1. UNCHANGED <<pin, trusts, pos, out, inbox, link, open, outcome, slot, tries, typed>> /\ UNCHANGED fileVars
  BY DEF vars, setupVars, netVars, pinVars
<1>2. Way("S")' = Way("S") /\ Way("R")' = Way("R")
  BY <1>1 DEF Way
<1>3. Turns' /\ ProofsDone'
  BY <1>1, <1>2, TurnsKept
<1>4. FilesInTurn' /\ Kept' /\ WayOfFiles' /\ Counted' /\ Settled' /\ StreamIsOfItsFile'
  <2>1. NoVerdictSent
    BY <1>2, QuietTaken
  <2>2. pos["R"] = "settle" => inbox["R"] # <<>>
    BY DEF FilesInTurn
  <2> QED BY <1>1, <1>2, <2>1, <2>2, FilesKept
<1>5. TypeOK'
  BY <1>1 DEF TypeOK, fileVars, sendVars, takeVars
<1> QED BY <1>3, <1>4, <1>5

LEMMA InvStep == ASSUME IInv, [Next]_vars PROVE IInv'
<1>1. CASE \E p \in Peers : Deliver(p) \/ PeerGone(p) \/ PinStep(p) \/ TypesPin(p)
  <2> PICK p \in Peers : Deliver(p) \/ PeerGone(p) \/ PinStep(p) \/ TypesPin(p)
    BY <1>1
  <2>1. CASE Deliver(p) \/ PeerGone(p) \/ TypesPin(p)
    BY <2>1, DeliverInv, SilentInv, SendPinInv DEF TypesPin
  <2>2. CASE PinStep(p)
    <3>1. VerifyPin(p) => VerifyPin("S") \/ VerifyPin("R")
      BY ThePeers
    <3> QED BY <2>2, <3>1, PromptInv, SilentInv, SenderVerifyInv, ReceiverVerifyInv, ExpelInv DEF PinStep
  <2> QED BY <2>1, <2>2
<1>2. CASE Handshake \/ PinReply
  BY <1>2, ReceiveNonceInv, SendTokenInv, ReceiveTokenInv, RejectInv, ReceiveReplyInv,
     SenderPinReplyInv, ReceiverPinReplyInv DEF Handshake, PinReply
<1>3. CASE Decides \/ Tells
  BY <1>3, SelectInv, RefuseInv, SendFileStatusInv DEF Decides, Tells
<1>4. CASE SenderPart
  BY <1>4, ReceiveChoiceInv, BeginFileInv, SendFrameInv, EndFilesInv, SendEndInv, ReceiveLastInv DEF SenderPart
<1>5. CASE TakerPart
  BY <1>5, FileEndsInv, SettleInv, ReceiveHeaderInv, ReceiveDataInv, StreamRefusedInv, ReceiverDoneInv DEF TakerPart
<1>6. CASE Streams \/ FinishSending
  BY <1>6, HandsInv DEF Streams
<1>7. CASE Disconnect
  BY <1>7, SilentInv, ThePeers
<1>8. CASE UNCHANGED vars
  BY <1>8, StutterInv
<1> QED BY <1>1, <1>2, <1>3, <1>4, <1>5, <1>6, <1>7, <1>8 DEF Next

LEMMA Invariant == Spec => []IInv
<1>1. Init => IInv
  BY InvInit
<1>2. IInv /\ [Next]_vars => IInv'
  BY InvStep
<1> QED BY <1>1, <1>2, PTL DEF Spec

\* For any number of tries, the sender gives its file list away only after both
\* signatures have been accepted by whoever expects one, and each peer with a
\* PIN has been sent it by the other (verify_pin, handle_pin).
THEOREM ListsAfterProofs == Spec => []ListAfterProofs
<1>1. IInv => ListAfterProofs
  <2> SUFFICES ASSUME IInv PROVE ListAfterProofs
    OBVIOUS
  <2>1. TypeOK /\ ProofsDone
    BY DEF IInv
  <2> QED BY <2>1, ThePeers DEF ListAfterProofs, ProofsDone, Proved
<1> QED BY <1>1, Invariant, PTL

\* For any files of any size, what an application reads as a file is frames of
\* that file, and while no file exceeds its size what the sender hears of a file
\* is what the other application said of it (receive_and_stream, send_file_status).
THEOREM FilesAreTheirOwn == Spec => []EachOfItsFile
<1>1. IInv => EachOfItsFile
  <2> SUFFICES ASSUME IInv PROVE EachOfItsFile
    OBVIOUS
  <2>1. StreamIsOfItsFile /\ Settled
    BY DEF IInv
  <2>2. VerdictOfItsFile
    <3> SUFFICES ASSUME NoExcess PROVE VerdictOfItsFile
      BY DEF VerdictOfItsFile, NoExcess
    <3>1. \A i \in DOMAIN Way("R") : Way("R")[i].word \in {"success", "failure"} =>
            verdict[Way("R")[i].file] = Way("R")[i].word
      BY <2>1 DEF Settled
    <3>2. /\ \A i \in DOMAIN inbox["S"] : \E j \in DOMAIN Way("R") : inbox["S"][i] = Way("R")[j]
          /\ \A i \in DOMAIN out["R"] : \E j \in DOMAIN Way("R") : out["R"][i] = Way("R")[j]
      <4> DEFINE a == inbox["S"]
                 b == out["R"]
      <4>1. a \in Seq(Frames) /\ b \in Seq(Frames) /\ Way("R") = a \o b
        BY WaySeqs, ThePeers DEF IInv, Way
      <4> HIDE DEF a, b, Frames
      <4>2. /\ Len(a) \in Nat /\ Len(b) \in Nat /\ DOMAIN a = 1..Len(a) /\ DOMAIN b = 1..Len(b)
            /\ DOMAIN (a \o b) = 1..(Len(a) + Len(b))
        BY <4>1, ConcatProperties, LenProperties
      <4>3. ASSUME NEW i \in DOMAIN a PROVE i \in DOMAIN (a \o b) /\ (a \o b)[i] = a[i]
        BY <4>1, <4>2, ConcatProperties
      <4>4. ASSUME NEW i \in DOMAIN b PROVE i + Len(a) \in DOMAIN (a \o b) /\ (a \o b)[i + Len(a)] = b[i]
        <5>1. i + Len(a) \in 1..(Len(a) + Len(b)) /\ i + Len(a) > Len(a) /\ i + Len(a) - Len(a) = i
          BY <4>2
        <5> QED BY <4>1, <4>2, <5>1, ConcatProperties
      <4> QED BY <4>1, <4>3, <4>4 DEF a, b
    <3> QED BY <3>1, <3>2 DEF VerdictOfItsFile, VerdictsKeepToFiles
  <2> QED BY <2>1, <2>2 DEF EachOfItsFile
<1> QED BY <1>1, Invariant, PTL

-----------------------------------------------------------------------------
(* No two tasks wait for each other.                                       *)

\* The task of p has what it waits for, or waits for its own application.
Ready(p) ==
    \/ pos[p] \in {"nonce", "token", "reply", "verify", "last", "receive"} /\ Has(p)
    \/ pos[p] = "answered" /\ IF p = "S" THEN Has(p) ELSE HasString(p)
    \/ pos[p] \in {"senderPin", "choice"} /\ HasString(p)
    \/ pos[p] \in {"prompt", "choose", "files", "expel"}
    \/ pos[p] = "typing" /\ slot[p] # "none"
    \/ pos[p] = "settle" /\ (results # <<>> \/ (stream[settling] = "ended" /\ verdict[settling] = "none"))
    \/ pos[p] \in {"reject", "flush"} /\ out[p] = <<>>

\* While both tasks run and the peers are connected, a frame is on its way or
\* one of the two tasks is ready.
SomebodyMoves ==
    Connected /\ (\A p \in Peers : pos[p] # "over")
    => \E p \in Peers : out[p] # <<>> \/ Ready(p)

\* Who types has been asked, at the controller or on the way there.
PromptAsked == \A p \in Peers : pos[p] = "typing" => slot[p] # "none"

\* The application has said what became of the file that R settles, or can.
SettlingServed ==
    pos["R"] = "settle" =>
        settling \in File /\ stream[settling] = "ended" /\ (verdict[settling] = "none" \/ results # <<>>)

\* R finds the end of the files where it reads on.
EndAtLast ==
    pos["S"] = "last" /\ pos["R"] \in {"receive", "settle"} =>
        Way("S") # <<>> /\ Way("S")[Len(Way("S"))] = Delimiter

WaitInv == PromptAsked /\ SettlingServed /\ EndAtLast

\* Where a step takes a task.
PosStep(p, X) == pos' = pos \/ \E x \in X : pos' = [pos EXCEPT ![p] = x]

\* The positions in which what is said above matters are entered by few steps.
Plain == Positions \ {"typing", "last", "settle", "receive"}

LEMMA Enters ==
    ASSUME IInv, [Next]_vars
    PROVE  \/ \E p \in Peers : Prompt(p) \/ PosStep(p, Plain)
           \/ SendEnd \/ FileEnds \/ Settle
           \/ \E files \in SUBSET File : Select(files)
<1> USE DEF Plain, Positions, SenderPositions, ReceiverPositions, Peers
<1> SUFFICES ASSUME Next,
                    ~SendEnd, ~FileEnds, ~Settle, \A files \in SUBSET File : ~Select(files),
                    \A p \in Peers : ~Prompt(p)
             PROVE  \E p \in Peers : PosStep(p, Plain)
  BY DEF vars, PosStep
<1>1. CASE \E p \in Peers : Deliver(p) \/ PeerGone(p) \/ PinStep(p) \/ TypesPin(p)
  <2> PICK p \in Peers : Deliver(p) \/ PeerGone(p) \/ PinStep(p) \/ TypesPin(p)
    BY <1>1
  <2>1. CASE Deliver(p) \/ PeerGone(p) \/ Forward(p)
    BY <2>1 DEF Deliver, PeerGone, Forward, PosStep
  <2>2. CASE VerifyPin(p) \/ TypesPin(p)
    BY <2>2 DEF VerifyPin, TypesPin, SendPin, Sends, Goes, PosStep
  <2>3. CASE Expel(p)
    BY <2>3 DEF Expel, Fails, Goes, PosStep
  <2> QED BY <2>1, <2>2, <2>3 DEF PinStep
<1>2. CASE Handshake
  <2>1. CASE ReceiveNonce
    BY <2>1 DEF ReceiveNonce, Sends, Goes, PosStep
  <2>4. CASE ReceiveToken
    <3>1. pin["R"] \in {"none", "empty", "set"}
      BY DEF IInv, TypeOK
    <3>2. CASE ~Verifies("R")
      <4>1. Sends("R", Text("badKey"), "reject")
        BY <2>4, <3>2 DEF ReceiveToken
      <4> QED BY <4>1 DEF Sends, Goes, PosStep
    <3>3. CASE Verifies("R") /\ pin["R"] = "none"
      <4>1. Sends("R", Text("ok"), "senderPin")
        BY <2>4, <3>3 DEF ReceiveToken
      <4> QED BY <4>1 DEF Sends, Goes, PosStep
    <3>4. CASE Verifies("R") /\ pin["R"] = "empty"
      <4>1. Sends("R", Text("okPin") \o Text("pinOk"), "senderPin")
        BY <2>4, <3>4 DEF ReceiveToken
      <4> QED BY <4>1 DEF Sends, Goes, PosStep
    <3>5. CASE Verifies("R") /\ pin["R"] = "set"
      <4>1. Sends("R", Text("okPin"), "verify")
        BY <2>4, <3>5 DEF ReceiveToken
      <4> QED BY <4>1 DEF Sends, Goes, PosStep
    <3> QED BY <3>1, <3>2, <3>3, <3>4, <3>5
  <2>2. CASE SendToken \/ ReceiveReply
    BY <2>2 DEF SendToken, ReceiveReply, OwnPinThenList, Fails, Sends, Goes, PosStep
  <2>3. CASE Reject
    BY <2>3 DEF Reject, Fails, Goes, PosStep
  <2> QED BY <1>2, <2>1, <2>2, <2>3, <2>4 DEF Handshake
<1>3. CASE PinReply
  BY <1>3 DEF PinReply, SenderPinReply, ReceiverPinReply, OwnPinThenList, Fails, Sends, Goes, PosStep
<1>4. CASE Decides \/ Tells
  BY <1>4 DEF Decides, Decline, DropController, Tells, SendFileStatus, Succeeds, Goes, PosStep
<1>5. CASE SenderPart
  <2>1. CASE ReceiveChoice
    <3>1. Goes("S", "files") \/ Succeeds("S") \/ Fails("S")
      BY <2>1, ChoiceHeard DEF ReceiveChoice
    <3> QED BY <3>1 DEF Succeeds, Fails, Goes, PosStep
  <2>2. CASE BeginFile \/ SendFrame \/ EndFiles \/ ReceiveLast
    BY <2>2 DEF BeginFile, SendFrame, EndFiles, ReceiveLast, Succeeds, Goes, PosStep
  <2> QED BY <1>5, <2>1, <2>2 DEF SenderPart
<1>6. CASE TakerPart
  BY <1>6 DEF TakerPart, ReceiveHeader, ReceiveData, StreamRefused, ReceiverDone, Fails, Succeeds, Goes, PosStep
<1>7. CASE Streams \/ FinishSending \/ Disconnect
  BY <1>7 DEF Streams, EndFile, SendFile, FinishSending, Disconnect, PosStep
<1> QED BY <1>1, <1>2, <1>3, <1>4, <1>5, <1>6, <1>7 DEF Next

\* No task comes into a position but by the step that leads there.
LEMMA EntersBy ==
    ASSUME IInv, [Next]_vars
    PROVE  /\ \A p \in Peers : pos'[p] = "typing" /\ ~Prompt(p) => pos[p] = "typing"
           /\ pos'["R"] = "settle" /\ ~FileEnds => pos["R"] = "settle"
           /\ pos'["S"] = "last" /\ ~SendEnd => pos["S"] = "last"
           /\ pos'["R"] \in {"receive", "settle"} => pos["R"] \in {"receive", "settle", "choose"}
<1>1. pos \in [Peers -> Positions]
  BY DEF IInv, Turns, Placed
<1>2. ASSUME NEW p \in Peers, PosStep(p, Plain)
      PROVE  \A q \in Peers : pos'[q] = pos[q] \/ pos'[q] \in Plain
  BY <1>1, <1>2 DEF PosStep
<1>3. ASSUME NEW p \in Peers, Prompt(p) PROVE \A q \in Peers : q # p => pos'[q] = pos[q]
  BY <1>1, <1>3 DEF Prompt, Goes
<1>4. ASSUME NEW p \in Peers, Prompt(p) PROVE pos'[p] = "typing"
  BY <1>1, <1>4 DEF Prompt, Goes
<1>5. SendEnd => pos'["R"] = pos["R"] /\ pos'["S"] \in {"last", "over"}
  BY <1>1 DEF SendEnd, Sends, Goes, Peers
<1>6. FileEnds => pos["R"] = "receive" /\ pos'["R"] = "settle" /\ pos'["S"] = pos["S"]
  BY <1>1 DEF FileEnds, Goes, Peers
<1>7. Settle => pos["R"] = "settle" /\ pos'["R"] \in {"receive", "flush", "over"} /\ pos'["S"] = pos["S"]
  BY <1>1 DEF Settle, Sends, Goes, Peers
<1>8. ASSUME NEW files \in SUBSET File, Select(files)
      PROVE  pos["R"] = "choose" /\ pos'["R"] \in {"receive", "over"} /\ pos'["S"] = pos["S"]
  BY <1>1, <1>8 DEF Select, Sends, Goes, Peers
<1> QED BY <1>2, <1>3, <1>4, <1>5, <1>6, <1>7, <1>8, Enters DEF Plain, Peers

LEMMA PromptStep == ASSUME IInv, PromptAsked, [Next]_vars PROVE PromptAsked'
<1>1. slot \in [Peers -> {"none", "pushed", "ready"}]
  BY DEF IInv, TypeOK
<1> SUFFICES ASSUME NEW p \in Peers, pos'[p] = "typing" PROVE slot'[p] # "none"
  BY DEF PromptAsked
<1>2. CASE Prompt(p)
  BY <1>1, <1>2 DEF Prompt
<1>3. CASE ~Prompt(p)
  <2>1. pos[p] = "typing" /\ slot[p] # "none"
    BY <1>3, EntersBy DEF PromptAsked
  <2>2. CASE slot' = slot
    BY <2>1, <2>2
  <2>3. CASE \E q \in Peers : Prompt(q) \/ Forward(q)
    BY <1>1, <2>1, <2>3 DEF Prompt, Forward
  <2>4. ASSUME NEW q \in Peers, NEW right \in BOOLEAN, SendPin(q, right)
        PROVE  slot'[p] # "none"
    <3>1. pos'[q] # "typing"
      BY <2>4 DEF IInv, Turns, Placed, SendPin, Sends, Goes
    <3>2. p # q
      BY <3>1
    <3> QED BY <1>1, <2>1, <2>4, <3>2 DEF SendPin
  <2>5. slot' = slot \/ (\E q \in Peers : Prompt(q) \/ Forward(q) \/ TypesPin(q))
    <3>1. CASE Handshake \/ PinReply \/ Decides \/ Tells \/ SenderPart
      BY <3>1 DEF Handshake, ReceiveNonce, SendToken, ReceiveToken, Reject, ReceiveReply,
         PinReply, SenderPinReply, ReceiverPinReply, Decides, Select, Decline, DropController,
         Tells, SendFileStatus, SenderPart, ReceiveChoice, BeginFile, SendFrame, EndFiles, SendEnd,
         ReceiveLast, pinVars
    <3>2. CASE TakerPart \/ Streams \/ FinishSending \/ Disconnect \/ UNCHANGED vars
      BY <3>2 DEF TakerPart, FileEnds, Settle, ReceiveHeader, ReceiveData, StreamRefused, ReceiverDone,
         Streams, EndFile, SendFile, FinishSending, Disconnect, vars, pinVars
    <3>3. CASE \E q \in Peers : Deliver(q) \/ PeerGone(q) \/ VerifyPin(q) \/ Expel(q)
      BY <3>3 DEF Deliver, PeerGone, VerifyPin, Expel, pinVars
    <3> QED BY <3>1, <3>2, <3>3 DEF Next, PinStep
  <2> QED BY <2>2, <2>3, <2>4, <2>5 DEF TypesPin
<1> QED BY <1>2, <1>3

LEMMA SettlingStep == ASSUME IInv, SettlingServed, [Next]_vars PROVE SettlingServed'
<1>1. stream \in [File -> {"none", "open", "ended"}]
  BY DEF IInv, TypeOK
<1>2. CASE FileEnds
  <2>1. current \in File /\ stream[current] = "open"
    BY <1>2 DEF IInv, TypeOK, FilesInTurn, FileEnds
  <2>2. verdict[current] = "none"
    BY <2>1 DEF IInv, Kept
  <2> QED BY <1>1, <1>2, <2>1, <2>2 DEF SettlingServed, FileEnds, Closed
<1>3. CASE ~FileEnds
  <2> SUFFICES ASSUME pos'["R"] = "settle"
               PROVE  settling' \in File /\ stream'[settling'] = "ended"
                      /\ (verdict'[settling'] = "none" \/ results' # <<>>)
    BY DEF SettlingServed
  <2>1. pos["R"] = "settle"
    BY <1>3, EntersBy
  <2>2. settling \in File /\ stream[settling] = "ended" /\ (verdict[settling] = "none" \/ results # <<>>)
    BY <2>1 DEF SettlingServed
  <2>3. CASE UNCHANGED takeVars
    BY <2>2, <2>3 DEF takeVars
  <2>4. ASSUME NEW f \in File, NEW ok \in BOOLEAN, SendFileStatus(f, ok)
        PROVE  settling' = settling /\ stream' = stream /\ results' # <<>>
    BY <2>4 DEF SendFileStatus
  <2>5. ~Settle /\ ~StreamRefused
    BY <2>1 DEF IInv, Turns, Placed, Settle, Sends, Goes, Peers, StreamRefused
  <2>6. UNCHANGED takeVars \/ Tells \/ FileEnds \/ Settle
    <3>1. CASE Handshake \/ PinReply \/ Decides \/ SenderPart
      BY <3>1 DEF Handshake, ReceiveNonce, SendToken, ReceiveToken, Reject, ReceiveReply,
         PinReply, SenderPinReply, ReceiverPinReply, Decides, Select, Decline, DropController,
         SenderPart, ReceiveChoice, BeginFile, SendFrame, EndFiles, SendEnd, ReceiveLast, fileVars
    <3>2. CASE TakerPart \/ Streams \/ FinishSending \/ Disconnect \/ UNCHANGED vars
      BY <2>1, <2>5, <3>2 DEF TakerPart, ReceiveHeader, ReceiveData, ReceiverDone,
         Streams, EndFile, SendFile, FinishSending, Disconnect, vars, fileVars
    <3>3. CASE \E q \in Peers : Deliver(q) \/ PeerGone(q) \/ PinStep(q) \/ TypesPin(q)
      BY <3>3 DEF Deliver, PeerGone, PinStep, Prompt, Forward, VerifyPin, Expel, TypesPin, SendPin, fileVars
    <3> QED BY <3>1, <3>2, <3>3 DEF Next
  <2> QED BY <1>3, <2>2, <2>3, <2>4, <2>5, <2>6 DEF Tells
<1> QED BY <1>2, <1>3

LEMMA LastOfTail ==
    ASSUME NEW T, NEW q \in Seq(T), q # <<>>, Head(q) # q[Len(q)]
    PROVE  Tail(q) # <<>> /\ Tail(q)[Len(Tail(q))] = q[Len(q)]
<1>1. Len(q) \in Nat \ {0} /\ Head(q) = q[1] /\ Len(q) # 1
  BY LenProperties, EmptySeq, HeadTailProperties
<1>2. Tail(q) \in Seq(T) /\ Len(Tail(q)) = Len(q) - 1 /\ \A i \in 1..Len(Tail(q)) : Tail(q)[i] = q[i + 1]
  BY HeadTailProperties
<1>3. Len(Tail(q)) \in 1..Len(Tail(q)) /\ Len(Tail(q)) + 1 = Len(q)
  BY <1>1, <1>2
<1>4. Tail(q) # <<>>
  BY <1>2, <1>3, EmptySeq
<1> QED BY <1>2, <1>3, <1>4

\* Only R changes what is on the way to it once S has sent its last frame.
LEMMA LastWay ==
    ASSUME IInv, [Next]_vars, pos["S"] = "last", pos["R"] \in {"receive", "settle"}
    PROVE  Way("S")' = Way("S") \/ Settle \/ ReceiveHeader \/ ReceiveData \/ StreamRefused
<1>1. CASE \E p \in Peers : Deliver(p)
  BY <1>1, Delivered, ThePeers DEF IInv
<1>2. CASE \E p \in Peers : PeerGone(p) \/ Prompt(p) \/ Forward(p) \/ VerifyPin(p) \/ Expel(p) \/ TypesPin(p)
  <2>1. CASE \E p \in Peers : PeerGone(p) \/ Prompt(p) \/ Forward(p) \/ Expel(p)
    BY <2>1 DEF PeerGone, Prompt, Forward, Expel, netVars, Way
  <2>2. ~\E p \in Peers : VerifyPin(p) \/ TypesPin(p)
    BY DEF Peers, VerifyPin, TypesPin, SendPin
  <2> QED BY <1>2, <2>1, <2>2
<1>3. ~Handshake /\ ~PinReply /\ ~Decides
  BY DEF Handshake, ReceiveNonce, SendToken, ReceiveToken, Reject, ReceiveReply,
     PinReply, SenderPinReply, ReceiverPinReply, Decides, Select, Decline, DropController
<1>4. CASE SenderPart
  <2>1. ReceiveLast
    BY <1>4 DEF SenderPart, ReceiveChoice, BeginFile, SendFrame, EndFiles, SendEnd
  <2> QED BY <2>1, ThePeers DEF ReceiveLast, Takes, Way, IInv, TypeOK
<1>5. CASE FileEnds \/ ReceiverDone \/ Tells
  BY <1>5 DEF FileEnds, ReceiverDone, Tells, SendFileStatus, netVars, Way
<1>6. CASE Streams \/ FinishSending
  BY <1>6 DEF Streams, EndFile, SendFile, FinishSending, netVars, Way
<1>7. CASE Disconnect \/ UNCHANGED vars
  BY <1>7 DEF Disconnect, vars, netVars, Way
<1> QED BY <1>1, <1>2, <1>3, <1>4, <1>5, <1>6, <1>7 DEF Next, PinStep, TakerPart

LEMMA LastStep == ASSUME IInv, EndAtLast, [Next]_vars PROVE EndAtLast'
<1> DEFINE w == Way("S")
<1>1. TypeOK /\ Placed /\ w \in Seq(Frames) /\ "S" \in Peers /\ "R" \in Peers /\ Other("R") = "S" /\ Other("S") = "R"
  BY WaySeqs, ThePeers DEF IInv, Turns
<1> SUFFICES ASSUME pos'["S"] = "last", pos'["R"] \in {"receive", "settle"}
             PROVE  w' # <<>> /\ w'[Len(w')] = Delimiter
  BY DEF EndAtLast, Way
<1>2. CASE SendEnd
  <2>1. <<Delimiter>> \in Seq(Frames) /\ Len(<<Delimiter>>) = 1 /\ <<Delimiter>>[1] = Delimiter
    <3>1. Delimiter \in Frames
      BY FrameTypes
    <3> HIDE DEF Frames, Delimiter
    <3> QED BY <3>1
  <2>2. w' = w \o <<Delimiter>>
    <3>1. Sends("S", <<Delimiter>>, "last") /\ inbox' = inbox /\ "last" \in Positions
      BY <1>2 DEF SendEnd, netVars, Positions, SenderPositions
    <3> QED BY <1>1, <2>1, <3>1, Sent
  <2>3. Len(w) \in Nat /\ Len(w \o <<Delimiter>>) = Len(w) + 1 /\ (w \o <<Delimiter>>)[Len(w) + 1] = Delimiter
        /\ w \o <<Delimiter>> \in Seq(Frames)
    <3> HIDE DEF w, Delimiter, Frames
    <3> QED BY <1>1, <2>1, ConcatProperties, LenProperties
  <2>4. w' # <<>>
    <3> HIDE DEF w, Delimiter, Frames
    <3> QED BY <2>2, <2>3, EmptySeq
  <2> HIDE DEF w
  <2> QED BY <2>2, <2>3, <2>4
<1>3. CASE ~SendEnd
  <2>1. pos["S"] = "last"
    BY <1>3, EntersBy
  <2>2. pos["R"] \in {"receive", "settle"}
    BY <2>1, EntersBy DEF IInv, Turns
  <2>3. w # <<>> /\ w[Len(w)] = Delimiter
    BY <2>1, <2>2 DEF EndAtLast
  <2>4. CASE w' = w
    <3> HIDE DEF w
    <3> QED BY <2>3, <2>4
  <2>5. CASE Settle
    <3>1. Next1("R") # Delimiter
      <4> SUFFICES ASSUME Next1("R") = Delimiter PROVE FALSE
        OBVIOUS
      <4>1. \E answer : Sends("R", <<answer>>, "flush")
        BY <2>5 DEF Settle
      <4> QED BY <1>1, <4>1 DEF Sends, Goes, Placed
    <3>2. inbox' = inbox /\ \E answer, x : Sends("R", <<answer>>, x)
      BY <2>5, <3>1 DEF Settle
    <3>3. out'["S"] = out["S"]
      BY <3>2 DEF Sends, TypeOK, IInv, Peers
    <3> QED BY <1>1, <2>3, <3>2, <3>3 DEF Way
  <2>7. ~StreamRefused
    BY <1>1 DEF StreamRefused, Fails, Goes, Placed
  <2>6. CASE ReceiveHeader \/ ReceiveData
    <3>1. Has("R") /\ Takes("R") /\ out' = out
      BY <2>6 DEF ReceiveHeader, ReceiveData
    <3>2. w' = Tail(w) /\ Next1("R") = Head(w)
      BY <1>1, <3>1, Taken
    <3>3. Next1("R") # Delimiter
      <4> SUFFICES ASSUME Next1("R") = Delimiter PROVE FALSE
        OBVIOUS
      <4>1. ReceiveHeader /\ Next1("R").word # "header"
        BY <2>6, FrameFields DEF ReceiveData
      <4>2. Fails("R")
        BY <4>1 DEF ReceiveHeader
      <4> QED BY <1>1, <4>2 DEF Fails, Goes, Placed
    <3> HIDE DEF w
    <3> QED BY <1>1, <2>3, <3>2, <3>3, LastOfTail
  <2> QED BY <2>1, <2>2, <2>4, <2>5, <2>6, <2>7, LastWay
<1> QED BY <1>2, <1>3

\* With nothing on its way, what a task waits for has reached it.
LEMMA Arrived ==
    ASSUME IInv, NEW p \in Peers, out[p] = <<>>
    PROVE  /\ Way(p) = inbox[Other(p)]
           /\ Way(p) # <<>> => Has(Other(p))
           /\ (\E i \in DOMAIN Way(p) : Way(p)[i].text) => HasString(Other(p))
<1>1. inbox[Other(p)] \in Seq(Frames)
  BY ThePeers DEF IInv, TypeOK
<1>2. Way(p) = inbox[Other(p)]
  <2> DEFINE q == inbox[Other(p)]
  <2> HIDE DEF q, Frames
  <2>1. q \o <<>> = q
    BY <1>1, NoFrames DEF q
  <2> QED BY <2>1 DEF Way, q
<1> QED BY <1>2 DEF Has, HasString

\* Every string ends with a text, whatever was sent in front of it.
LEMMA StringSent ==
    ASSUME IInv, NEW word \in Words, Hears(word)
    PROVE  \E i \in DOMAIN Way("S") : Way("S")[i].text
<1>1. InChunks(word) \in Seq(Frames) /\ Len(InChunks(word)) = 2 /\ InChunks(word)[2] = Delimiter
  BY Chunks
<1>2. CASE Way("S") = InChunks(word)
  <2>1. 2 \in DOMAIN InChunks(word)
    <3> HIDE DEF Frames
    <3> QED BY <1>1
  <2> QED BY <1>1, <1>2, <2>1, FrameFields
<1>3. CASE \E w \in PinsOf("S") : Way("S") = w \o InChunks(word)
  <2>1. PICK w \in PinsOf("S") : Way("S") = w \o InChunks(word)
    BY <1>3
  <2>2. Way("S") # <<>> /\ Way("S")[1].text
    BY <1>1, <2>1, PinFirst
  <2>3. Way("S") \in Seq(Frames)
    BY ThePeers, WaySeqs DEF IInv
  <2>4. 1 \in DOMAIN Way("S")
    <3> DEFINE q == Way("S")
    <3> HIDE DEF q, Frames
    <3>1. q \in Seq(Frames) /\ q # <<>> => 1 \in DOMAIN q
      BY LenProperties, EmptySeq
    <3> QED BY <2>2, <2>3, <3>1 DEF q
  <2> QED BY <2>2, <2>4
<1> QED BY <1>2, <1>3 DEF Hears

LEMMA Moves == ASSUME IInv, WaitInv PROVE SomebodyMoves
<1> SUFFICES ASSUME pos["S"] # "over", pos["R"] # "over", out["S"] = <<>>, out["R"] = <<>>
             PROVE  Ready("S") \/ Ready("R")
  BY DEF SomebodyMoves, Peers
<1> USE ThePeers
<1>1. /\ Way("S") # <<>> => Has("R")
      /\ Way("R") # <<>> => Has("S")
      /\ (\E i \in DOMAIN Way("S") : Way("S")[i].text) => HasString("R")
      /\ (\E i \in DOMAIN Way("R") : Way("R")[i].text) => HasString("S")
  BY Arrived
<1>2. Turns /\ pos["S"] \in SenderPositions
  BY DEF IInv, TypeOK
<1>3. \A w \in Words : Text(w) # <<>> /\ InChunks(w) # <<>>
  BY Texts, Chunks
<1>4. \A p \in Peers : \A w \in PinsOf(p) : w # <<>>
  BY PinFirst
<1>5. CASE pos["S"] = "nonce"
  BY <1>1, <1>2, <1>3, <1>5 DEF Turns, NonceTurn, Ready, Words
<1>6. CASE pos["S"] = "reply"
  <2>1. pos["R"] = "token" /\ Way("S") = Text("token") => Ready("R")
    BY <1>1, <1>3 DEF Ready, Words
  <2>2. pos["R"] = "reject" => Ready("R")
    BY DEF Ready
  <2>3. Way("R") # <<>> => Ready("S")
    BY <1>1, <1>6 DEF Ready
  <2>4. Text("okPin") \o Text("pinOk") # <<>>
    BY TwoTexts, EmptySeq DEF Words
  <2> QED BY <1>2, <1>3, <1>6, <2>1, <2>2, <2>3, <2>4 DEF Turns, ReplyTurn, Words
<1>7. CASE pos["S"] \in {"prompt", "typing", "files", "expel", "flush"}
  BY <1>7 DEF Ready, WaitInv, PromptAsked
<1>8. CASE pos["S"] = "answered"
  <2>1. Way("R") # <<>> => Ready("S")
    BY <1>1, <1>8 DEF Ready
  <2>2. pos["R"] = "verify" /\ Way("S") \in PinsOf("S") => Ready("R")
    BY <1>1, <1>4 DEF Ready
  <2> QED BY <1>2, <1>3, <1>8, <2>1, <2>2 DEF Turns, AnsweredTurn, Words
<1>9. ASSUME NEW word \in Words, Hears(word) PROVE Ready("R")
  <2>1. HasString("R") /\ pos["R"] \in {"senderPin", "answered"}
    BY <1>1, <1>9, StringSent DEF Hears
  <2> QED BY <2>1 DEF Ready
<1>10. CASE pos["S"] = "verify"
  <2>1. pos["R"] \in {"prompt", "typing"} => Ready("R")
    BY DEF Ready, WaitInv, PromptAsked
  <2>2. pos["R"] = "answered" /\ Way("R") \in PinsOf("R") => Ready("S")
    BY <1>1, <1>4, <1>10 DEF Ready
  <2> QED BY <1>2, <1>9, <1>10, <2>1, <2>2 DEF Turns, VerifyTurn, Words
<1>11. CASE pos["S"] = "choice"
  <2>1. pos["R"] = "choose" => Ready("R")
    BY DEF Ready
  <2>2. Way("R") = InChunks("tokens") => Ready("S")
    <3> SUFFICES ASSUME Way("R") = InChunks("tokens") PROVE Ready("S")
      OBVIOUS
    <3>1. 2 \in DOMAIN Way("R") /\ Way("R")[2].text
      <4>1. InChunks("tokens") \in Seq(Frames) /\ Len(InChunks("tokens")) = 2 /\ InChunks("tokens")[2] = Delimiter
        BY Chunks DEF Words
      <4>2. 2 \in DOMAIN InChunks("tokens")
        <5> HIDE DEF Frames
        <5> QED BY <4>1
      <4> QED BY <4>1, <4>2, FrameFields
    <3> QED BY <1>1, <1>11, <3>1 DEF Ready
  <2> QED BY <1>2, <1>9, <1>11, <2>1, <2>2 DEF Turns, ChoiceTurn, Words
<1>12. CASE pos["S"] = "last"
  <2>1. pos["R"] \in {"receive", "settle", "flush"}
    BY <1>2, <1>12 DEF Turns
  <2>2. CASE pos["R"] = "receive"
    BY <1>1, <1>12, <2>2 DEF WaitInv, EndAtLast, Ready
  <2>3. CASE pos["R"] \in {"settle", "flush"}
    BY <2>3 DEF WaitInv, SettlingServed, Ready
  <2> QED BY <2>1, <2>2, <2>3
<1> QED BY <1>2, <1>5, <1>6, <1>7, <1>8, <1>10, <1>11, <1>12 DEF SenderPositions

\* The two tasks never wait for each other: while both run and the peers are
\* connected, a frame is on its way, or a task has what it waits for, or it
\* waits for its own application, which has been asked.  (handle_pin,
\* verify_pin, receive_string_from_chunks and the loops of send_offer and
\* accept_offer in webrtc.rs; what Concludes needs besides fairness.)
THEOREM NobodyWaits == Spec => []SomebodyMoves
<1>1. Init => WaitInv
  BY DEF Init, WaitInv, PromptAsked, SettlingServed, EndAtLast, Peers
<1>2. IInv /\ WaitInv /\ [Next]_vars => WaitInv'
  BY PromptStep, SettlingStep, LastStep DEF WaitInv
<1>3. IInv /\ WaitInv => SomebodyMoves
  BY Moves
<1> QED BY <1>1, <1>2, <1>3, Invariant, PTL DEF Spec
=============================================================================
