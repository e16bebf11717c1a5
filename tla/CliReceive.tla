----------------------------- MODULE CliReceive -----------------------------
(***************************************************************************)
(* The receiving side of the command-line client (src/cli/src/app):        *)
(* requests that wait for the user, the session that is received, the      *)
(* results of its files, and the closing line of the session.              *)
(*                                                                         *)
(* Under it is the v2 server in the steps the application can tell apart   *)
(* (UploadServer has it in full). Senders are the environment: they ask,   *)
(* upload in any order and in parallel, try again after a mismatch, cancel *)
(* and hang up.                                                            *)
(***************************************************************************)
EXTENDS Naturals, Sequences, FiniteSets, Functions

CONSTANTS
    Session,     \* upload sessions
    File,        \* files
    FilesOf,     \* those of a session
    MaxTries,    \* of a file, after mismatches
    MaxUploads,  \* bound: uploads of all sessions
    MaxCancels,  \* bound: how often the user presses Ctrl-C
    None

ASSUME ConstantsAssumption ==
    /\ IsFiniteSet(Session) /\ IsFiniteSet(File)
    /\ FilesOf \in [Session -> (SUBSET File) \ {{}}]
    /\ None \notin Session
    /\ MaxTries \in Nat \ {0} /\ MaxUploads \in Nat /\ MaxCancels \in Nat

VARIABLES
    \* The server.
    slot,       \* the session in the slot, or None
    request,    \* prepare-upload: none, pending, yes, no, active, gone, closed
    status,     \* of a file: pending, progress, finished, failed
    up,         \* its upload: none, admitted, asked, target, dropped, or its result
    tries,      \* attempts of a file
    ending,     \* a SessionEnd that is being sent: none, finished, cancelled
    serverRx,   \* ServerEventV2 for the application
    \* The application.
    paired,     \* whether the senders are paired: accepted without asking
    pending,    \* App::pending
    receive,    \* App::receive
    results,    \* ReceiveFileResult events under way
    telling,    \* the tasks of cancel_receive that have yet to cancel the session
    cancels,    \* how often Ctrl-C was pressed
    \* History.
    saved,      \* files the server has reported as saved
    summary     \* the closing lines of a session

serverVars == <<slot, request, status, up, tries, ending>>
appVars == <<paired, pending, receive, summary, telling, cancels>>
vars == <<serverVars, serverRx, appVars, results, saved>>

Key == {k \in Session \X File : k[2] \in FilesOf[k[1]]}
NoReceive == [session |-> None, finished |-> 0, failed |-> 0, busy |-> {}, ended |-> "none"]
ReceiveSession(s) == [NoReceive EXCEPT !.session = s]
Event(kind, s, f) == [kind |-> kind, session |-> s, file |-> f]

Init ==
    /\ slot = None
    /\ request = [s \in Session |-> "none"]
    /\ status = [k \in Key |-> "pending"]
    /\ up = [k \in Key |-> "none"]
    /\ tries = [k \in Key |-> 0]
    /\ ending = [s \in Session |-> "none"]
    /\ serverRx = <<>>
    /\ paired \in BOOLEAN
    /\ pending = None
    /\ receive = NoReceive
    /\ results = {}
    /\ telling = {}
    /\ cancels = 0
    /\ saved = {}
    /\ summary = [s \in Session |-> <<>>]
-----------------------------------------------------------------------------
(* The server, and the senders.                                            *)

Pushes(kind, s, f) == serverRx' = Append(serverRx, Event(kind, s, f))

AsksToSend(s) ==
    /\ request[s] = "none" /\ slot = None
    /\ slot' = s
    /\ request' = [request EXCEPT ![s] = "pending"]
    /\ Pushes("prepare", s, None)
    /\ UNCHANGED <<status, up, tries, ending, appVars, results, saved>>

\* The session starts, or the declined request frees the slot.
Answers(s) ==
    /\ \/ request[s] = "yes" /\ request' = [request EXCEPT ![s] = "active"] /\ UNCHANGED slot
       \/ request[s] = "no" /\ request' = [request EXCEPT ![s] = "closed"] /\ slot' = None
    /\ UNCHANGED <<status, up, tries, ending, serverRx, appVars, results, saved>>

\* A sender that gives up before its session starts.
DropPrepare(s) ==
    /\ request[s] \in {"pending", "yes"}
    /\ request' = [request EXCEPT ![s] = "gone"]
    /\ slot' = None
    /\ UNCHANGED <<status, up, tries, ending, serverRx, appVars, results, saved>>

TellAborted(s) ==
    /\ request[s] = "gone"
    /\ request' = [request EXCEPT ![s] = "closed"]
    /\ Pushes("aborted", s, None)
    /\ UNCHANGED <<slot, status, up, tries, ending, appVars, results, saved>>

Upload(k) ==
    /\ slot = k[1] /\ request[k[1]] = "active"
    /\ FoldFunction(+, 0, tries) < MaxUploads
    /\ status[k] = "pending" /\ up[k] = "none"
    /\ status' = [status EXCEPT ![k] = "progress"]
    /\ up' = [up EXCEPT ![k] = "admitted"]
    /\ tries' = [tries EXCEPT ![k] = @ + 1]
    /\ UNCHANGED <<slot, request, ending, serverRx, appVars, results, saved>>

\* The event is sent without the lock: the session may be over by then.
Announce(k) ==
    /\ up[k] = "admitted"
    /\ up' = [up EXCEPT ![k] = "asked"]
    /\ Pushes("upload", k[1], k[2])
    /\ UNCHANGED <<slot, request, status, tries, ending, appVars, results, saved>>

Result(k, r) == [key |-> k, try |-> tries[k], result |-> r]

\* The writer creates the file and fills it; the application is told of the
\* whole outcome, the checksum included.
Save(k) ==
    /\ up[k] = "target"
    /\ \E r \in {"ok", "failed", "mismatch"} :
          /\ r = "mismatch" => MaxTries > 1
          /\ up' = [up EXCEPT ![k] = r]
          /\ results' = results \cup {Result(k, IF r = "ok" THEN "ok" ELSE "err")}
          /\ saved' = IF r = "ok" THEN saved \cup {k} ELSE saved
    /\ UNCHANGED <<slot, request, status, tries, ending, serverRx, appVars>>

FinalStatus(k, r) ==
    CASE r = "ok" -> "finished"
      [] r = "mismatch" /\ tries[k] < MaxTries -> "pending"
      [] OTHER -> "failed"

\* finalize_file: the last file ends the session, if it is still there.
Finalizes(k, r) ==
    IF slot = k[1]
    THEN /\ status' = [status EXCEPT ![k] = FinalStatus(k, r)]
         /\ IF \A f \in FilesOf[k[1]] : status'[<<k[1], f>>] \in {"finished", "failed"}
            THEN slot' = None /\ ending' = [ending EXCEPT ![k[1]] = "finished"]
            ELSE UNCHANGED <<slot, ending>>
    ELSE UNCHANGED <<status, slot, ending>>

Finish(k) ==
    /\ up[k] \in {"ok", "failed", "mismatch"}
    /\ up' = [up EXCEPT ![k] = "none"]
    /\ Finalizes(k, up[k])
    /\ UNCHANGED <<request, tries, serverRx, appVars, results, saved>>

\* Mutant: the end of a result channel is no result.
AbortsSilently(k) == results

\* The application's result channel goes with the upload.
Aborts(k) == IF up[k] = "target" THEN results \cup {Result(k, "err")} ELSE results

\* The guard of an upload whose sender hangs up.
DropUpload(k) ==
    /\ up[k] \in {"admitted", "asked", "target"}
    /\ up' = [up EXCEPT ![k] = IF @ = "asked" THEN "dropped" ELSE "none"]
    /\ results' = Aborts(k)
    /\ Finalizes(k, "failed")
    /\ UNCHANGED <<request, tries, serverRx, appVars, saved>>

\* The sender's POST /cancel.
CancelBySender(s) ==
    /\ slot = s /\ request[s] = "active"
    /\ slot' = None
    /\ ending' = [ending EXCEPT ![s] = "cancelled"]
    /\ UNCHANGED <<request, status, up, tries, serverRx, appVars, results, saved>>

\* SessionEnd is sent without the lock, after the slot is free.
TellEnd(s) ==
    /\ ending[s] # "none"
    /\ ending' = [ending EXCEPT ![s] = "none"]
    /\ Pushes(ending[s], s, None)
    /\ UNCHANGED <<slot, request, status, up, tries, appVars, results, saved>>

Cancellable(s) == slot = s /\ request[s] = "active"

\* cancel_v2_session: only an active session is freed.
CancelSession(s) ==
    /\ s \in telling
    /\ telling' = telling \ {s}
    /\ slot' = IF Cancellable(s) THEN None ELSE slot
    /\ UNCHANGED <<request, status, up, tries, ending, serverRx, paired, pending, receive, summary,
                   cancels, results, saved>>
-----------------------------------------------------------------------------
(* The application.                                                        *)

Line(r, how) == [how |-> how, finished |-> r.finished]
Says(r, how) == summary' = [summary EXCEPT ![r.session] = Append(@, Line(r, how))]

\* Mutant: the end reported by the server closes the session at once.
DoneAtEnd(r) == r.ended # "none"

\* The server has reported the end, and no result is outstanding.
Done(r) == r.ended # "none" /\ r.busy = {}

\* r is the session as the event leaves it.
FinishIfDone(r) ==
    IF Done(r) THEN receive' = NoReceive /\ Says(r, r.ended)
    ELSE receive' = r /\ UNCHANGED summary

\* The decision reaches a request that is still there; else it is too late.
Accepts(s) ==
    IF request[s] = "pending"
    THEN /\ request' = [request EXCEPT ![s] = "yes"]
         /\ receive' = ReceiveSession(s)
    ELSE UNCHANGED <<request, receive>>

Takes(kind, s, f) ==
    serverRx # <<>> /\ Head(serverRx) = Event(kind, s, f) /\ serverRx' = Tail(serverRx)

TakePrepare(s) ==
    /\ Takes("prepare", s, None)
    /\ IF paired THEN Accepts(s) /\ UNCHANGED pending
                 ELSE pending' = s /\ UNCHANGED <<request, receive>>
    /\ UNCHANGED <<slot, status, up, tries, ending, paired, summary, telling, cancels, results,
                   saved>>

\* Mutant: the request goes, whichever was aborted.
PendingAfterAny(s) == None

\* Only the request that was aborted goes.
PendingAfter(s) == IF pending = s THEN None ELSE pending

TakeAborted(s) ==
    /\ Takes("aborted", s, None)
    /\ pending' = PendingAfter(s)
    /\ UNCHANGED <<serverVars, paired, receive, summary, telling, cancels, results, saved>>

TakeEnd(s) ==
    /\ \E reason \in {"finished", "cancelled"} :
          /\ Takes(reason, s, None)
          /\ IF receive.session = s
             THEN FinishIfDone([receive EXCEPT !.ended = reason])
             ELSE UNCHANGED <<receive, summary>>
    /\ UNCHANGED <<serverVars, paired, pending, telling, cancels, results, saved>>

Receiving(s) == receive.session = s

\* An unknown session: the responder is dropped, which fails the request.
TakeUpload(k) ==
    /\ Takes("upload", k[1], k[2])
    /\ IF ~Receiving(k[1])
       THEN /\ up' = [up EXCEPT ![k] = IF @ = "asked" THEN "failed" ELSE "none"]
            /\ UNCHANGED <<receive, results>>
       ELSE /\ receive' = [receive EXCEPT !.busy = @ \cup {k[2]}]
            /\ up' = [up EXCEPT ![k] = IF @ = "asked" THEN "target" ELSE "none"]
            /\ results' = IF up[k] = "asked" THEN results ELSE results \cup {Result(k, "err")}
    /\ UNCHANGED <<slot, request, status, tries, ending, paired, pending, summary, telling, cancels,
                   saved>>

\* ReceiveFileResult; it races with the events of the server.
TakeResult(m) ==
    /\ m \in results
    /\ results' = results \ {m}
    /\ IF receive.session = m.key[1]
       THEN FinishIfDone([receive EXCEPT
                !.busy = @ \ {m.key[2]},
                !.finished = IF m.result = "ok" THEN @ + 1 ELSE @,
                !.failed = IF m.result = "ok" THEN @ ELSE @ + 1])
       ELSE UNCHANGED <<receive, summary>>
    /\ UNCHANGED <<serverVars, serverRx, paired, pending, telling, cancels, saved>>

\* p instead of y pairs the device, for this run also when saving it fails.
Pairs == paired' \in {paired, TRUE}

PressYes ==
    /\ pending # None
    /\ pending' = None
    /\ Pairs
    /\ Accepts(pending)
    /\ UNCHANGED <<slot, status, up, tries, ending, serverRx, summary, telling, cancels, results,
                   saved>>

DeclinePending ==
    IF pending = None THEN UNCHANGED <<pending, request>>
    ELSE /\ pending' = None
         /\ request' = [request EXCEPT ![pending] = IF @ = "pending" THEN "no" ELSE @]

PressNo ==
    /\ pending # None
    /\ DeclinePending
    /\ UNCHANGED <<slot, status, up, tries, ending, serverRx, paired, receive, summary, telling,
                   cancels, results, saved>>

\* The server, then the sender, are told by a task of their own.
CancelReceive ==
    IF receive = NoReceive THEN UNCHANGED <<receive, summary, telling>>
    ELSE /\ receive' = NoReceive
         /\ Says(receive, "cancelled here")
         /\ telling' = telling \cup {receive.session}

\* All that is under way at once. With nothing to cancel the client quits,
\* which is left out.
CtrlC ==
    /\ cancels < MaxCancels /\ cancels' = cancels + 1
    /\ pending # None \/ receive # NoReceive
    /\ DeclinePending
    /\ CancelReceive
    /\ UNCHANGED <<slot, status, up, tries, ending, serverRx, paired, results, saved>>
-----------------------------------------------------------------------------
Server ==
    \/ \E s \in Session : Answers(s) \/ TellAborted(s) \/ TellEnd(s) \/ CancelSession(s)
    \/ \E k \in Key : Announce(k) \/ Finish(k)
\* An upload is saved when its sender has come to the end of the body.
Senders ==
    \/ \E s \in Session : AsksToSend(s) \/ DropPrepare(s) \/ CancelBySender(s)
    \/ \E k \in Key : Upload(k) \/ Save(k) \/ DropUpload(k)
TakesEvent ==
    \/ \E s \in Session : TakePrepare(s) \/ TakeAborted(s) \/ TakeEnd(s)
    \/ \E k \in Key : TakeUpload(k)
TakesResult == \E m \in results : TakeResult(m)
User == PressYes \/ PressNo \/ CtrlC

Next == Server \/ Senders \/ TakesEvent \/ TakesResult \/ User

Spec == Init /\ [][Next]_vars

(* The server and the event loop run on, and results are taken: no step    *)
(* can be taken for ever, so each of them is in the end.                   *)
CodeRunsOn == WF_vars(Server) /\ WF_vars(TakesEvent) /\ WF_vars(TakesResult)

(* The server waits for a sender's body without a time limit (save.rs:141, *)
(* body.frame().await). That no sender stalls is an ASSUMPTION about the   *)
(* senders and not a fact about this code: one whose upload is being taken *)
(* comes to the end of its body or hangs up. Nothing else is assumed of    *)
(* senders, and nothing of the user.                                       *)
EndOfBody(k) == up[k] = "target" /\ (Save(k) \/ DropUpload(k))
NoSenderStalls == \A k \in Key : WF_vars(EndOfBody(k))

FairSpec == Spec /\ CodeRunsOn /\ NoSenderStalls
-----------------------------------------------------------------------------
TypeOK ==
    /\ slot \in Session \cup {None}
    /\ \A s \in Session : request[s] \in {"pending", "yes", "no"} => slot = s
    /\ request \in [Session -> {"none", "pending", "yes", "no", "active", "gone", "closed"}]
    /\ status \in [Key -> {"pending", "progress", "finished", "failed"}]
    /\ up \in [Key -> {"none", "admitted", "asked", "target", "dropped", "ok", "failed", "mismatch"}]
    /\ tries \in [Key -> 0..MaxTries]
    /\ ending \in [Session -> {"none", "finished", "cancelled"}]
    /\ paired \in BOOLEAN /\ pending \in Session \cup {None}
    /\ receive \in [session : Session \cup {None}, finished : 0..Cardinality(File),
                    failed : 0..Cardinality(Key) * MaxTries,
                    busy : SUBSET File, ended : {"none", "finished", "cancelled"}]
    /\ telling \subseteq Session
    /\ cancels \in 0..MaxCancels
    /\ saved \subseteq Key

SavedOf(s) == {f \in File : <<s, f>> \in saved}

\* The closing lines by which the server's end closed the session, and those
\* that count every file that was saved.
EndLines(s) == {i \in DOMAIN summary[s] : summary[s][i].how \in {"finished", "cancelled"}}
Exact(s) == \A i \in EndLines(s) : summary[s][i].finished = Cardinality(SavedOf(s))

\* A session has at most one closing line, and one that the server ended
\* counts every file that was saved: the results race with the end of the
\* session (receive.rs:183), uploads may outlive it, and those of an earlier
\* session are not counted with the next one. (No file was tried twice, see
\* SummaryDeferred.)
SummaryExact ==
    /\ TypeOK
    /\ \A s \in Session :
        /\ Len(summary[s]) <= 1
        /\ (\A f \in FilesOf[s] : tries[<<s, f>>] <= 1) => Exact(s)

\* A request that waits for the user's answer at the server is the one the
\* user is asked about, or will be: the abort of an older request does not
\* take it away (receive.rs:190).
WaitingIsAsked ==
    \A s \in Session :
        request[s] = "pending"
        => pending = s \/ \E i \in DOMAIN serverRx : serverRx[i] = Event("prepare", s, None)

\* What the session slot looks like without handlers, events and application.
SlotActive == slot # None /\ request[slot] = "active"
SlotPhase  == IF slot = None THEN "Free" ELSE IF SlotActive THEN "Active" ELSE "Pending"
SlotTodo   ==
    IF SlotActive THEN {f \in FilesOf[slot] : status[<<slot, f>>] \notin {"finished", "failed"}}
                  ELSE {}

Slot == INSTANCE SessionSlot WITH
    phase <- SlotPhase, holder <- {slot} \ {None}, todo <- SlotTodo,
    used <- {s \in Session : request[s] # "none"}

\* The server as the application sees it, with its keys, its decisions and
\* the cancels of both sides, lives the abstract life of a session that the
\* handlers of v2.rs implement in UploadServer.
ImplementsSlot == Slot!Spec

\* Once a session that began is over at the server, the application closes it:
\* no result and no end is missed. It waits for every upload that has begun,
\* so this holds only of senders that end or drop their uploads
\* (NoSenderStalls): one that cancels and then stalls a body keeps its session
\* open here.
ReceivingEnds ==
    \A s \in Session :
        (receive.session = s /\ request[s] = "active" /\ slot # s) ~> receive.session # s
-----------------------------------------------------------------------------
(* Defects of the code, see the README: TLC finds these violated.          *)

\* The summary is deferred until the in-flight results have all arrived
\* (receive.rs:52): but the result of a first attempt, when it is taken late,
\* removes the entry of the second one from in_progress.
SummaryDeferred == \A s \in Session : Exact(s)

\* An accepted session is closed with a line (receive.rs:140): but the next
\* request of a paired device can take its place before.
SummaryPrinted ==
    [][\A s \in Session :
        receive.session = s /\ receive'.session # s /\ request[s] = "active"
        => Len(summary'[s]) = 1]_vars

\* Cancelling rejects further uploads on the server (receive.rs:348): but
\* between the decision and the start of the session there is none to cancel,
\* and then it starts.
CancelRejects ==
    \A s \in Session :
        cancels > 0 /\ Len(summary[s]) = 1 /\ summary[s][1].how = "cancelled here" /\ s \notin telling
        => ~(slot = s /\ request[s] = "active")
=============================================================================
