------------------------------ MODULE CliSend ------------------------------
(***************************************************************************)
(* The sending side of the command-line client: the application that lists *)
(* devices (src/cli/src/devices.rs and app/discovery.rs), picks files      *)
(* (Picker), starts a send and cancels it (app/sending.rs and mod.rs), and *)
(* the send task (send_task.rs). The receivers are the environment, as     *)
(* their v2 server lets the sender see them. A run is one send. Requests   *)
(* and answers arrive (FileUpload has the network failing); the receiving  *)
(* side of the application is CliReceive. That a receiver accepts only     *)
(* files it was offered, as v2.rs:297 does, is an ASSUMPTION about it: an  *)
(* unknown id would stop the task at send_task.rs:175, before SendEnded.   *)
(***************************************************************************)
EXTENDS Picker

CONSTANTS
    Run,         \* sends, and the sessions they get
    File,        \* files on this device
    Device,      \* devices that announce themselves, by fingerprint
    Me,          \* this one
    Slots,       \* hotkeys for devices
    MaxKeys,     \* bound: keys pressed outside the picker, or closing it
    None

ASSUME ConstantsAssumption ==
    /\ IsFiniteSet(Run) /\ None \notin Run \cup Device \cup Slots
    /\ IsFiniteSet(File) /\ Slots \subseteq Nat /\ MaxKeys \in Nat
    /\ \A d \in Folder : \A i \in DOMAIN Listing[d] :
          IsDir(Listing[d][i]) \/ Listing[d][i].file \in File

VARIABLES
    \* The application.
    devices,    \* DeviceRegistry::devices
    picker,     \* the picker, or None
    send,       \* App::send: the run, or None
    known,      \* whether SendState has the session id
    marking,    \* the run whose by_peer is set and whose token is not yet
    quit,       \* whether the event loop has ended
    keys,       \* keys pressed
    mail,       \* AppEvents of the send tasks
    \* The send tasks.
    task,       \* idle, waiting, upload, reply, cancel, ended
    token,      \* SendCancel::token
    byPeer,     \* SendCancel::by_peer
    target,     \* the device a run sends to
    files,      \* the files it offers, and then those that were accepted
    sent,       \* sent_files
    said,       \* the last line
    \* The receivers.
    session,    \* none, asked, refused, active, over
    up,         \* the upload under way: none, on, ok, err
    settled,    \* files with a final status
    cancels,    \* CancelReceived events on their way here
    \* History.
    saved,      \* files the receiver has saved
    pressed,    \* runs cancelled here
    dropped     \* sessions cancelled by their receiver

appVars == <<devices, picker, send, known, marking, quit, keys, pressed>>
offerVars == <<target, files>>
taskVars == <<task, offerVars, sent, said>>
cancelVars == <<token, byPeer>>
receiverVars == <<session, up, settled, cancels, saved, dropped>>
vars == <<appVars, mail, taskVars, cancelVars, receiverVars>>

Event(kind, r) == [kind |-> kind, run |-> r]

Init ==
    /\ devices = <<>>
    /\ picker = None /\ send = None /\ known = FALSE /\ marking = None /\ quit = FALSE
    /\ keys = 0 /\ mail = <<>>
    /\ task = [r \in Run |-> "idle"]
    /\ token = [r \in Run |-> FALSE]
    /\ byPeer = [r \in Run |-> FALSE]
    /\ target = [r \in Run |-> None]
    /\ files = [r \in Run |-> {}]
    /\ sent = [r \in Run |-> 0]
    /\ said = [r \in Run |-> "nothing"]
    /\ session = [r \in Run |-> "none"]
    /\ up = [r \in Run |-> "none"]
    /\ settled = [r \in Run |-> 0]
    /\ cancels = {}
    /\ saved = [r \in Run |-> {}]
    /\ pressed = {}
    /\ dropped = {}
-----------------------------------------------------------------------------
(* The application.                                                        *)

\* The event loop does one thing at a time, until it ends.
Idle == ~quit /\ marking = None
Key == Idle /\ keys < MaxKeys /\ keys' = keys + 1

otherVars == <<marking, quit, pressed, cancelVars, up, settled, cancels, saved, dropped>>

Listed(d) == \E i \in DOMAIN devices : devices[i].device = d
InSlot(s) == {devices[i].device : i \in {j \in DOMAIN devices : devices[j].slot = s}}

\* Another device has answered a register request. A new one gets the first
\* free key; what changes of a known one, its name and address, is left out.
DeviceUp(d) ==
    /\ Idle /\ d # Me /\ ~Listed(d)
    /\ LET free == {s \in Slots : InSlot(s) = {}}
       IN  devices' = Append(devices, [device |-> d,
                                       slot |-> IF free = {} THEN None ELSE Min(free)])
    /\ UNCHANGED <<picker, send, known, keys, mail, taskVars, session, otherVars>>

CanPick == send = None

StartPicking ==
    /\ Key /\ picker = None /\ CanPick
    /\ \E s \in Slots : \E d \in InSlot(s) : picker' = OpenPicker(s, d)
    /\ UNCHANGED <<devices, send, known, mail, taskVars, session, otherVars>>

\* While it is open the picker takes every key.
PickerKey ==
    /\ Idle /\ picker # None
    /\ \/ picker' \in Moved(picker)
       \/ picker' \in Filtered(picker)
       \/ picker' \in Navigated(picker)
       \/ picker' \in Toggled(picker)
    /\ UNCHANGED <<devices, send, known, keys, mail, taskVars, session, otherVars>>

\* Esc, or files of which none can be read any more.
ClosePicker ==
    /\ Key /\ picker # None
    /\ picker.query = <<>> \/ Confirms(picker)
    /\ picker' = None
    /\ UNCHANGED <<devices, send, known, mail, taskVars, session, otherVars>>

\* The next session; which one it is makes no difference.
Fresh(r) == task[r] = "idle" /\ r = CHOOSE x \in Run : task[x] = "idle"

\* The files are picked: the task is spawned and asks the receiver.
StartSend(r) ==
    /\ Key /\ picker # None /\ Fresh(r)
    /\ Confirms(picker)
    /\ \E readable \in SUBSET Picked(picker) :
          readable # {} /\ files' = [files EXCEPT ![r] = readable]
    /\ \E d \in InSlot(picker.slot) : target' = [target EXCEPT ![r] = d]
    /\ picker' = None
    /\ send' = r /\ known' = FALSE
    /\ task' = [task EXCEPT ![r] = "waiting"]
    /\ session' = [session EXCEPT ![r] = "asked"]
    /\ UNCHANGED <<devices, mail, sent, said, otherVars>>

\* Ctrl-C: the picker, else the send, else the client quits. The task takes
\* it from there, and reports with SendEnded.
CtrlC ==
    /\ Key
    /\ CASE picker # None -> picker' = None /\ UNCHANGED <<token, pressed, quit>>
         [] picker = None /\ send # None ->
               /\ token' = [token EXCEPT ![send] = TRUE]
               /\ pressed' = pressed \cup {send}
               /\ UNCHANGED <<picker, quit>>
         [] OTHER -> quit' = TRUE /\ UNCHANGED <<picker, token, pressed>>
    /\ UNCHANGED <<devices, send, known, marking, mail, taskVars, byPeer, receiverVars>>

TakeMail ==
    /\ Idle /\ mail # <<>>
    /\ mail' = Tail(mail)
    /\ CASE Head(mail).kind = "started" -> known' = (send # None) /\ UNCHANGED send
         [] Head(mail).kind = "ended" -> send' = None /\ known' = FALSE
    /\ UNCHANGED <<devices, picker, marking, quit, keys, pressed, taskVars, cancelVars, receiverVars>>

\* CancelReceived counts for the session of the send only, once it is known,
\* and if it comes from the address the files were sent to: a receiver with
\* several addresses may use another one, and is not heard.
Concerns(r) == send = r /\ known

\* Mutant: the receiver's cancel looks like one from here.
MarksNothing == UNCHANGED byPeer

MarksByPeer == byPeer' = [byPeer EXCEPT ![send] = TRUE]

\* by_peer is set before the token, which the task may be looking at.
CancelReceived(r) ==
    /\ Idle /\ r \in cancels
    /\ cancels' = cancels \ {r}
    /\ \E sameHost \in BOOLEAN :
          IF Concerns(r) /\ sameHost
          THEN MarksByPeer /\ marking' = send
          ELSE UNCHANGED <<byPeer, marking>>
    /\ UNCHANGED <<devices, picker, send, known, quit, keys, pressed, mail, taskVars, token, session, up,
                   settled, saved, dropped>>

TriggersToken ==
    /\ marking # None
    /\ marking' = None
    /\ token' = [token EXCEPT ![marking] = TRUE]
    /\ UNCHANGED <<devices, picker, send, known, quit, keys, pressed, mail, taskVars, byPeer, receiverVars>>
-----------------------------------------------------------------------------
(* The send task.                                                          *)

\* Mutant: a task that is cancelled leaves without a word.
EndsSilently(r, line) ==
    /\ task' = [task EXCEPT ![r] = "ended"]
    /\ said' = [said EXCEPT ![r] = line]
    /\ mail' = IF token[r] THEN mail ELSE Append(mail, Event("ended", r))

\* The last line, and SendEnded, whatever happened.
Ends(r, line) ==
    /\ task' = [task EXCEPT ![r] = "ended"]
    /\ said' = [said EXCEPT ![r] = line]
    /\ mail' = Append(mail, Event("ended", r))

\* The receiver still has to be told.
TellsFirst(r, line) ==
    /\ task' = [task EXCEPT ![r] = "cancel"]
    /\ said' = [said EXCEPT ![r] = line]
    /\ UNCHANGED mail

\* The answer may be older than the receiver's last word.
Prepared(r) ==
    /\ task[r] = "waiting"
    /\ \/ /\ session[r] \in {"active", "over"}
          /\ task' = [task EXCEPT ![r] = "upload"]
          /\ mail' = Append(mail, Event("started", r))
          /\ UNCHANGED said
       \/ session[r] = "refused" /\ Ends(r, "declined")
    /\ UNCHANGED <<appVars, offerVars, sent, cancelVars, receiverVars>>

\* The request is dropped, whatever the receiver has answered.
CancelPrepare(r) ==
    /\ task[r] = "waiting" /\ token[r]
    /\ Ends(r, "gave up")
    /\ UNCHANGED <<appVars, offerVars, sent, cancelVars, receiverVars>>

\* Refused once the session is over.
Upload(r) ==
    /\ task[r] = "upload"
    /\ task' = [task EXCEPT ![r] = "reply"]
    /\ up' = [up EXCEPT ![r] = IF session[r] = "active" THEN "on" ELSE "err"]
    /\ UNCHANGED <<appVars, mail, offerVars, sent, said, cancelVars, session, settled, cancels, saved, dropped>>

IsOk(r) == up[r] = "ok"

Uploaded(r) ==
    /\ task[r] = "reply" /\ IsOk(r)
    /\ sent' = [sent EXCEPT ![r] = @ + 1]
    /\ up' = [up EXCEPT ![r] = "none"]
    /\ IF sent'[r] = Cardinality(files[r])
       THEN Ends(r, "sent")
       ELSE task' = [task EXCEPT ![r] = "upload"] /\ UNCHANGED <<said, mail>>
    /\ UNCHANGED <<appVars, offerVars, cancelVars, session, settled, cancels, saved, dropped>>

\* Mutant: the task ends without telling the receiver.
EndsUntold(r) == Ends(r, "failed")

FailsUpload(r) == TellsFirst(r, "failed")

UploadFailed(r) ==
    /\ task[r] = "reply" /\ up[r] = "err"
    /\ FailsUpload(r)
    /\ UNCHANGED <<appVars, offerVars, sent, cancelVars, receiverVars>>

CancelUpload(r) ==
    /\ task[r] \in {"upload", "reply"} /\ token[r]
    /\ IF byPeer[r] THEN Ends(r, "cancelled by receiver") ELSE TellsFirst(r, "cancelled")
    /\ UNCHANGED <<appVars, offerVars, sent, cancelVars, receiverVars>>

\* POST /cancel, which is awaited.
TellReceiver(r) ==
    /\ task[r] = "cancel"
    /\ session' = [session EXCEPT ![r] = "over"]
    /\ Ends(r, said[r])
    /\ UNCHANGED <<appVars, offerVars, sent, cancelVars, up, settled, cancels, saved, dropped>>
-----------------------------------------------------------------------------
(* The receivers.                                                          *)

Waits(r) == task[r] = "waiting" /\ ~quit

\* All files are accepted, or some of them, which the answer names. None of
\* them is a refusal (204), and so is the end of a request that is gone.
Answers(r) ==
    /\ session[r] = "asked"
    /\ \/ /\ Waits(r)
          /\ session' = [session EXCEPT ![r] = "active"]
          /\ \E yes \in SUBSET files[r] : yes # {} /\ files' = [files EXCEPT ![r] = yes]
       \/ session' = [session EXCEPT ![r] = "refused"] /\ UNCHANGED files
    /\ UNCHANGED <<appVars, mail, task, target, sent, said, cancelVars, up, settled, cancels, saved, dropped>>

\* An upload ends; the last one ends the session. One whose sender is gone
\* fails.
EndsUpload(r) ==
    /\ up[r] = "on"
    /\ \E result \in {"ok", "err"} :
          /\ task[r] # "reply" => result = "err"
          /\ up' = [up EXCEPT ![r] = result]
          /\ saved' = IF result = "ok" THEN [saved EXCEPT ![r] = @ \cup {sent[r] + 1}] ELSE saved
    /\ settled' = [settled EXCEPT ![r] = @ + 1]
    /\ session' = IF settled'[r] = Cardinality(files[r]) THEN [session EXCEPT ![r] = "over"] ELSE session
    /\ UNCHANGED <<appVars, mail, taskVars, cancelVars, cancels, dropped>>

\* The session is over first, then the sender is told.
ReceiverCancels(r) ==
    /\ session[r] = "active"
    /\ session' = [session EXCEPT ![r] = "over"]
    /\ cancels' = cancels \cup {r}
    /\ dropped' = dropped \cup {r}
    /\ UNCHANGED <<appVars, mail, taskVars, cancelVars, up, settled, saved>>
-----------------------------------------------------------------------------
App == TakeMail \/ TriggersToken \/ \E r \in Run : CancelReceived(r)
Keys == StartPicking \/ PickerKey \/ ClosePicker \/ CtrlC \/ \E r \in Run : StartSend(r)
\* The tasks end with the process.
Task(r) ==
    /\ ~quit
    /\ \/ Prepared(r) \/ CancelPrepare(r) \/ Upload(r) \/ Uploaded(r) \/ UploadFailed(r)
       \/ CancelUpload(r) \/ TellReceiver(r)
Responds(r) == Answers(r) \/ EndsUpload(r)
Receiver(r) == Responds(r) \/ ReceiverCancels(r)

Next == App \/ Keys \/ (\E d \in Device : DeviceUp(d)) \/ \E r \in Run : Task(r) \/ Receiver(r)

Spec == Init /\ [][Next]_vars

\* The loop and the tasks run on, receivers answer and uploads end.
FairSpec ==
    /\ Spec
    /\ WF_vars(App)
    /\ \A r \in Run : WF_vars(Task(r)) /\ WF_vars(Responds(r))
-----------------------------------------------------------------------------
Lines == {"nothing", "declined", "gave up", "failed", "sent", "cancelled", "cancelled by receiver"}

\* Types, and only the run of the application has a task: Ctrl-C and SendEnded
\* are always about it.
TypeOK ==
    /\ known \in BOOLEAN /\ quit \in BOOLEAN
    /\ keys \in 0..MaxKeys
    /\ send \in Run \cup {None} /\ marking \in Run \cup {None}
    /\ task \in [Run -> {"idle", "waiting", "upload", "reply", "cancel", "ended"}]
    /\ \A r \in Run : task[r] \notin {"idle", "ended"} => send = r
    /\ token \in [Run -> BOOLEAN] /\ byPeer \in [Run -> BOOLEAN]
    /\ files \in [Run -> SUBSET File]
    /\ \A r \in Run : sent[r] \in 0..Cardinality(files[r]) /\ settled[r] \in 0..Cardinality(files[r])
    /\ said \in [Run -> Lines]
    /\ session \in [Run -> {"none", "asked", "refused", "active", "over"}]
    /\ up \in [Run -> {"none", "on", "ok", "err"}]
    /\ cancels \subseteq Run /\ pressed \subseteq Run /\ dropped \subseteq Run
    /\ \A r \in Run : saved[r] \subseteq 1..Cardinality(files[r])

\* The last line is true: "Sent n files" is about the accepted files, which are
\* all on the other device (send_task.rs:251), and a cancel names who did it,
\* also when both sides do, and when the cancel of an earlier session is late
\* (send_task.rs:28, receive.rs:201).
HonestLine ==
    /\ TypeOK
    /\ \A r \in Run :
        /\ said[r] = "sent" => saved[r] = 1..Cardinality(files[r])
        /\ said[r] = "cancelled by receiver" => r \in dropped
        /\ said[r] = "cancelled" => r \in pressed

\* A task that got its session leaves none behind at the receiver, where it
\* would block all others, and so does a client that quits.
NoSessionLeft ==
    /\ \A r \in Run :
          task[r] = "ended" /\ said[r] \notin {"nothing", "declined", "gave up"}
          => session[r] # "active"
    /\ quit => \A r \in Run : session[r] = "active" => said[r] = "gave up"

\* Keys act on what the screen highlights, whatever the filter hides
\* (picker.rs:114), and what is picked goes to the device whose key was pressed
\* before, whatever other devices come up meanwhile.
PicksTheShown ==
    [][/\ picker # None /\ picker' # None =>
            /\ picker'.selected # picker.selected =>
                    \/ picker'.selected = picker.selected \cup {Highlighted(picker).file}
                    \/ picker'.selected = picker.selected \ {Highlighted(picker).file}
            /\ picker'.cwd \in {picker.cwd, Parent[picker.cwd], Highlighted(picker).dir}
       /\ \A r \in Run : target'[r] # target[r] =>
            /\ target'[r] = picker.device
            /\ files'[r] \subseteq
                    IF picker.selected # {} THEN picker.selected ELSE {Highlighted(picker).file}]_vars

\* run_send always ends by emitting SendEnded (send_task.rs:47), and the
\* device can send again, if receivers answer, accept what they were offered
\* and end their uploads.
SendEnds == send # None ~> send = None
-----------------------------------------------------------------------------
(* A defect of the code, see the README: TLC finds this violated.          *)

\* A send that is cancelled while the receiver's 200 is on its way ends
\* without telling the receiver, which goes on waiting for it.
NothingLeft == \A r \in Run : task[r] = "ended" => session[r] # "active"
=============================================================================
