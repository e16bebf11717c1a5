---------------------------- MODULE UploadServer ----------------------------
(***************************************************************************)
(* The v2 upload endpoints of the core HTTP server                         *)
(* (packages/core/src/http/server/v2.rs with common/pin.rs,                *)
(* common/session.rs and ServerHandle::cancel_v2_session of server/mod.rs).*)
(*                                                                         *)
(* One value of Request is one POST /prepare-upload; it is also the        *)
(* session id the handler draws (a UUID is never drawn twice).  One value  *)
(* of Upload is one POST /upload, one value of Cancel one POST /cancel.    *)
(* Each is a task of the async runtime: a step runs from one await point   *)
(* to the next, so what happens under one `session.lock().await` is one    *)
(* step, and a handler can be dropped (the client hung up, the server was  *)
(* stopped) exactly where it awaits.                                       *)
(***************************************************************************)
EXTENDS Naturals, Sequences, FiniteSets

CONSTANTS
    Request,            \* prepare-upload requests, and their session ids
    Upload,             \* upload requests
    Cancel,             \* cancel requests
    Peer,               \* addresses requests come from
    File,               \* file ids a sender can offer
    Offers,             \* the sets of files a prepare-upload may offer
    PinRequired,        \* whether the server was started with a PIN
    MaxPinAttempts,     \* MAX_PIN_ATTEMPTS
    MaxUploadAttempts,  \* MAX_UPLOAD_ATTEMPTS
    QueueCapacity,      \* capacity of the event channel (16 in the bridge)
    NoSession,          \* a cancel without the sessionId parameter
    Foreign             \* a session id issued by another device

ASSUME ConstantsAssumption ==
    /\ Request \cap Upload = {}
    /\ Offers \subseteq SUBSET File
    /\ PinRequired \in BOOLEAN
    /\ MaxPinAttempts \in Nat
    /\ MaxUploadAttempts \in Nat \ {0}
    /\ QueueCapacity \in Nat \ {0}
    /\ NoSession \notin Request
    /\ Foreign \notin Request

VARIABLES
    slot,         \* V2State.session
    pinAttempts,  \* V2State.pin_attempts
    req,          \* what each prepare-upload carries (chosen once)
    ppc,          \* where each prepare-upload handler is
    cancelled,    \* the CancellationToken of each prepare-upload
    decision,     \* the oneshot channel decision_tx / decision_rx
    upc,          \* where each upload handler is
    guard,        \* the UploadGuard of each upload: session and file
    target,       \* the oneshot channel target_tx / target_rx
    result,       \* the SaveResult each upload is about to report
    writing,      \* uploads whose target the server's writer task still holds
    cpc,          \* where each cancel handler is
    cancelling,   \* what each cancel carries after its first lock
    queue,        \* the event channel to the application
    open,         \* whether the application still holds event_rx
    reply,        \* status code answered to each prepare-upload and upload
    told          \* history: kinds of event sent so far for each session

prepareVars == <<req, ppc, cancelled, decision>>
uploadVars  == <<upc, guard, target, result, writing>>
cancelVars  == <<cpc, cancelling>>
eventVars   == <<queue, open, told>>
vars == <<slot, pinAttempts, prepareVars, uploadVars, cancelVars, eventVars,
          reply>>
-----------------------------------------------------------------------------
(* Data.                                                                   *)

FileStatus == {"Pending", "InProgress", "Finished", "Failed"}
Final      == {"Finished", "Failed"}

\* SessionFileV2: the dto and the token are not kept; an upload either has
\* the file's token or has not.
SessionFile == [status : FileStatus, attempts : Nat]

\* SessionStateV2 inside the Option of V2State.session.
Free == [state |-> "Free"]
PendingSession == [state : {"Pending"}, id : Request, ip : Peer]
ActiveSession(accepted) ==
    [state : {"Active"}, id : Request, ip : Peer, files : [accepted -> SessionFile]]

IsPending == slot.state = "Pending"
IsActive  == slot.state = "Active"

\* Slip: a file that is being received counts as done.
NonePending(files) == \A f \in DOMAIN files : files[f].status # "Pending"

\* UploadSessionV2::is_complete
IsComplete(files) == \A f \in DOMAIN files : files[f].status \in Final

Events ==
         [kind : {"PrepareUpload", "PrepareUploadAborted"}, id : Request]
    \cup [kind : {"FileUpload"}, id : Request, by : Upload]
    \cup [kind : {"Finished", "Cancelled"}, id : Request]
    \cup [kind : {"CancelReceived"}, id : Request \cup {Foreign}]
EventKinds == {"PrepareUpload", "PrepareUploadAborted", "FileUpload",
               "Finished", "Cancelled", "CancelReceived"}

SaveResults == {"Success", "Failed", "HashMismatch"}
Undecided == [kind |-> "Unsent", ids |-> {}]
Decisions ==
    [kind : {"Unsent", "Asked", "Accept", "Decline", "Dropped"}, ids : SUBSET File]
NoReply == 0
Replies == {NoReply, 200, 204, 400, 401, 403, 409, 422, 429, 500}

\* What an upload request asks for: `token` tells whether it is the file's.
Asks == [ip : Peer, session : Request, file : File, token : BOOLEAN]
NoGuard == [session |-> NoSession]
Guards == [session : Request, file : File]

\* What a cancel request carries.
NoCancel == [session |-> NoSession]
Cancels == [ip : Peer, session : Request \cup {Foreign}]
-----------------------------------------------------------------------------
(* The event channel: `event_tx.send(e).await` waits for room and fails    *)
(* once the application has dropped the receiver.                          *)

Send(e) ==
    /\ open
    /\ Len(queue) < QueueCapacity
    /\ queue' = Append(queue, e)
    /\ told' = IF e.id \in Request
                 THEN [told EXCEPT ![e.id] = @ \cup {e.kind}]
                 ELSE told
    /\ UNCHANGED open

SendFails == ~open /\ UNCHANGED eventVars

\* `let _ = event_tx.send(e).await`: the outcome is ignored.
SendOrIgnore(e) == Send(e) \/ SendFails

Ended(id, reason) == [kind |-> reason, id |-> id]
-----------------------------------------------------------------------------
Init ==
    /\ slot = Free
    /\ pinAttempts = [p \in Peer |-> 0]
    /\ req \in [Request -> [ip : Peer, files : Offers]]
    /\ ppc = [r \in Request |-> "idle"]
    /\ cancelled = [r \in Request |-> FALSE]
    /\ decision = [r \in Request |-> Undecided]
    /\ upc = [u \in Upload |-> "idle"]
    /\ guard = [u \in Upload |-> NoGuard]
    /\ target = [u \in Upload |-> "Unsent"]
    /\ result = [u \in Upload |-> "Failed"]
    /\ writing = {}
    /\ cpc = [c \in Cancel |-> "idle"]
    /\ cancelling = [c \in Cancel |-> NoCancel]
    /\ queue = <<>>
    /\ open = TRUE
    /\ reply = [x \in Request \cup Upload |-> NoReply]
    /\ told = [r \in Request |-> {}]
-----------------------------------------------------------------------------
(* POST /prepare-upload                                                    *)

\* Slip: the guard is not disarmed before the answer.
AnswerWithoutDisarm(r, code) ==
    /\ ppc' = [ppc EXCEPT ![r] = "cleanup"]
    /\ reply' = [reply EXCEPT ![r] = code]

\* The handler returns with nothing left to clean up.
AnswerPrepare(r, code) ==
    /\ ppc' = [ppc EXCEPT ![r] = "done"]
    /\ reply' = [reply EXCEPT ![r] = code]

\* Slip: one more wrong PIN than allowed.
BlockedLate(p) == pinAttempts[p] > MaxPinAttempts

\* check_pin: too many wrong PINs from this address.
Blocked(p) == pinAttempts[p] >= MaxPinAttempts

\* check_pin: no PIN configured, or the right one, which forgets the
\* failures of that address.
PinAccepted(r) ==
    /\ ppc[r] = "idle"
    /\ PinRequired => ~Blocked(req[r].ip)
    /\ ppc' = [ppc EXCEPT ![r] = "claim"]
    /\ pinAttempts' = [pinAttempts EXCEPT ![req[r].ip] = 0]
    /\ UNCHANGED <<slot, req, cancelled, decision, uploadVars, cancelVars,
                   eventVars, reply>>

\* check_pin: blocked (429), PIN missing (401, not counted), wrong PIN.
PinRefused(r) ==
    /\ ppc[r] = "idle"
    /\ PinRequired
    /\ \/ /\ Blocked(req[r].ip)
          /\ AnswerPrepare(r, 429)
          /\ UNCHANGED pinAttempts
       \/ /\ ~Blocked(req[r].ip)
          /\ AnswerPrepare(r, 401)
          /\ \E wrong \in {0, 1} :
                pinAttempts' = [pinAttempts EXCEPT ![req[r].ip] = @ + wrong]
    /\ UNCHANGED <<slot, req, cancelled, decision, uploadVars, cancelVars,
                   eventVars>>

\* Slip: only an active session blocks a new one.
NoActiveSession == ~IsActive

SlotVacant == slot = Free

\* The body is read; nothing offered (400) or the slot taken (409).
ClaimRefused(r) ==
    /\ ppc[r] = "claim"
    /\ \/ req[r].files = {} /\ AnswerPrepare(r, 400)
       \/ req[r].files # {} /\ ~SlotVacant /\ AnswerPrepare(r, 409)
    /\ UNCHANGED <<slot, pinAttempts, req, cancelled, decision, uploadVars,
                   cancelVars, eventVars>>

\* The single session slot is claimed and the PendingSessionGuard armed.
Claim(r) ==
    /\ ppc[r] = "claim"
    /\ req[r].files # {}
    /\ SlotVacant
    /\ slot' = [state |-> "Pending", id |-> r, ip |-> req[r].ip]
    /\ ppc' = [ppc EXCEPT ![r] = "asking"]
    /\ UNCHANGED <<pinAttempts, req, cancelled, decision, uploadVars,
                   cancelVars, eventVars, reply>>

\* The PrepareUpload event, with decision_tx in it, is handed over.
Ask(r) ==
    /\ ppc[r] = "asking"
    /\ Send([kind |-> "PrepareUpload", id |-> r])
    /\ ppc' = [ppc EXCEPT ![r] = "deciding"]
    /\ UNCHANGED <<slot, pinAttempts, req, cancelled, decision, uploadVars,
                   cancelVars, reply>>

\* A return with the guard armed: its drop spawns the clean-up task.
AnswerArmed(r, code) ==
    /\ ppc' = [ppc EXCEPT ![r] = "cleanup"]
    /\ reply' = [reply EXCEPT ![r] = code]

\* The application is gone, or it dropped decision_tx: 500.
AskFails(r) ==
    /\ \/ ppc[r] = "asking" /\ SendFails
       \/ ppc[r] = "deciding" /\ decision[r].kind = "Dropped" /\ UNCHANGED eventVars
    /\ AnswerArmed(r, 500)
    /\ UNCHANGED <<slot, pinAttempts, req, cancelled, decision, uploadVars,
                   cancelVars>>

\* The other branch of select!: the sender cancelled (403).
CancelledBySender(r) ==
    /\ ppc[r] = "deciding"
    /\ cancelled[r]
    /\ AnswerArmed(r, 403)
    /\ UNCHANGED <<slot, pinAttempts, req, cancelled, decision, uploadVars,
                   cancelVars, eventVars>>

AcceptedFiles(r) == req[r].files \cap decision[r].ids

\* The decision arrives.  Declined or nothing accepted: guard.clear()
\* disarms first and then waits for the lock.  Otherwise the handler waits
\* for the lock with the guard still armed.
Decided(r) ==
    /\ ppc[r] = "deciding"
    /\ \/ /\ \/ decision[r].kind = "Decline"
             \/ decision[r].kind = "Accept" /\ AcceptedFiles(r) = {}
          /\ ppc' = [ppc EXCEPT ![r] = "clearing"]
       \/ /\ decision[r].kind = "Accept" /\ AcceptedFiles(r) # {}
          /\ ppc' = [ppc EXCEPT ![r] = "activating"]
    /\ UNCHANGED <<slot, pinAttempts, req, cancelled, decision, uploadVars,
                   cancelVars, eventVars, reply>>

\* clear_pending_session: whatever is pending is cleared.
ClearPendingSession == slot' = IF IsPending THEN Free ELSE slot

Clear(r) ==
    /\ ppc[r] = "clearing"
    /\ ClearPendingSession
    /\ AnswerPrepare(r, IF decision[r].kind = "Decline" THEN 403 ELSE 204)
    /\ UNCHANGED <<pinAttempts, req, cancelled, decision, uploadVars,
                   cancelVars, eventVars>>

\* The slot becomes the active session, whatever it held, and the tokens
\* are answered.
Activate(r) ==
    /\ ppc[r] = "activating"
    /\ slot' = [state |-> "Active", id |-> r, ip |-> req[r].ip,
                files |-> [f \in AcceptedFiles(r) |->
                             [status |-> "Pending", attempts |-> 0]]]
    /\ AnswerPrepare(r, 200)
    /\ UNCHANGED <<pinAttempts, req, cancelled, decision, uploadVars,
                   cancelVars, eventVars>>

\* The request future is dropped at an await point.  The armed guard spawns
\* the clean-up; inside guard.clear() it is no longer armed and nothing runs.
DropPrepare(r) ==
    /\ \/ ppc[r] = "claim" /\ ppc' = [ppc EXCEPT ![r] = "done"]
       \/ /\ ppc[r] \in {"asking", "deciding", "activating"}
          /\ ppc' = [ppc EXCEPT ![r] = "cleanup"]
       \/ ppc[r] = "clearing" /\ ppc' = [ppc EXCEPT ![r] = "lost"]
    /\ UNCHANGED <<slot, pinAttempts, req, cancelled, decision, uploadVars,
                   cancelVars, eventVars, reply>>

\* The task spawned by PendingSessionGuard::drop.
CleanUp(r) ==
    /\ ppc[r] = "cleanup"
    /\ ClearPendingSession
    /\ ppc' = [ppc EXCEPT ![r] = "aborting"]
    /\ UNCHANGED <<pinAttempts, req, cancelled, decision, uploadVars,
                   cancelVars, eventVars, reply>>

TellAborted(r) ==
    /\ ppc[r] = "aborting"
    /\ SendOrIgnore([kind |-> "PrepareUploadAborted", id |-> r])
    /\ ppc' = [ppc EXCEPT ![r] = "done"]
    /\ UNCHANGED <<slot, pinAttempts, req, cancelled, decision, uploadVars,
                   cancelVars, reply>>
-----------------------------------------------------------------------------
(* POST /upload                                                            *)

\* Slip: the status of the file is not looked at.
AdmissibleAnyStatus(a) ==
    /\ IsActive
    /\ slot.id = a.session
    /\ slot.ip = a.ip
    /\ a.file \in DOMAIN slot.files
    /\ a.token

\* The request is valid for the active session and its file is pending.
Admissible(a) ==
    /\ IsActive
    /\ slot.id = a.session
    /\ slot.ip = a.ip
    /\ a.file \in DOMAIN slot.files
    /\ a.token
    /\ slot.files[a.file].status = "Pending"

\* A parameter is missing (400), or the request is not valid (403).
UploadRefused(u) ==
    /\ upc[u] = "idle"
    /\ upc' = [upc EXCEPT ![u] = "done"]
    /\ \/ reply' = [reply EXCEPT ![u] = 400]
       \/ (\E a \in Asks : ~Admissible(a)) /\ reply' = [reply EXCEPT ![u] = 403]
    /\ UNCHANGED <<slot, pinAttempts, prepareVars, guard, target, result, writing,
                   cancelVars, eventVars>>

\* Validated and marked in progress under one lock; the guard is armed.
UploadAdmitted(u) ==
    /\ upc[u] = "idle"
    /\ \E a \in Asks :
         /\ Admissible(a)
         /\ slot' = [slot EXCEPT !.files[a.file] =
                       [status |-> "InProgress", attempts |-> @.attempts + 1]]
         /\ guard' = [guard EXCEPT ![u] = [session |-> a.session, file |-> a.file]]
    /\ upc' = [upc EXCEPT ![u] = "announcing"]
    /\ UNCHANGED <<pinAttempts, prepareVars, target, result, writing, cancelVars,
                   eventVars, reply>>

\* The FileUpload event, with target_tx in it, is handed over.
Announce(u) ==
    /\ upc[u] = "announcing"
    /\ Send([kind |-> "FileUpload", id |-> guard[u].session, by |-> u])
    /\ upc' = [upc EXCEPT ![u] = "targeting"]
    /\ UNCHANGED <<slot, pinAttempts, prepareVars, guard, target, result, writing,
                   cancelVars, reply>>

\* No application, or no target for the file: the upload has failed.
\* UploadGuard::finish disarms the guard before it waits for the lock.
NoTarget(u) ==
    /\ \/ upc[u] = "announcing" /\ SendFails
       \/ upc[u] = "targeting" /\ target[u] = "Dropped" /\ UNCHANGED eventVars
    /\ result' = [result EXCEPT ![u] = "Failed"]
    /\ upc' = [upc EXCEPT ![u] = "finishing"]
    /\ UNCHANGED <<slot, pinAttempts, prepareVars, guard, target, writing,
                   cancelVars, reply>>

\* save_req_to_target: a path or a descriptor is written by a task of its
\* own, a stream by the application. (FileUpload has it in detail.)
StartSaving(u) ==
    /\ upc[u] = "targeting"
    /\ target[u] = "Given"
    /\ upc' = [upc EXCEPT ![u] = "saving"]
    /\ writing' \in {writing, writing \cup {u}}
    /\ UNCHANGED <<slot, pinAttempts, prepareVars, guard, target, result,
                   cancelVars, eventVars, reply>>

\* The writer is through with what it was sent, or has failed. Nothing ends
\* it with the handler: it writes on after a drop until its channel is empty.
WriterStops(u) ==
    /\ u \in writing
    /\ writing' = writing \ {u}
    /\ UNCHANGED <<slot, pinAttempts, prepareVars, upc, guard, target, result,
                   cancelVars, eventVars, reply>>

\* save_req_to_target returns: the result of its writer is awaited, also
\* when the body has failed.
Saved(u) ==
    /\ upc[u] = "saving"
    /\ u \notin writing
    /\ \E res \in SaveResults : result' = [result EXCEPT ![u] = res]
    /\ upc' = [upc EXCEPT ![u] = "finishing"]
    /\ UNCHANGED <<slot, pinAttempts, prepareVars, guard, target, writing,
                   cancelVars, eventVars, reply>>

\* Slip: off by one in the number of attempts.
FinalStatusOneMore(file, res) ==
    CASE res = "Success" -> "Finished"
      [] res = "HashMismatch" /\ file.attempts <= MaxUploadAttempts -> "Pending"
      [] OTHER -> "Failed"

\* The status finalize_file gives to a file in progress.
FinalStatus(file, res) ==
    CASE res = "Success" -> "Finished"
      [] res = "HashMismatch" /\ file.attempts < MaxUploadAttempts -> "Pending"
      [] OTHER -> "Failed"

\* The session's files once the upload of f has reported res.
Settled(files, f, res) ==
    IF f \in DOMAIN files /\ files[f].status = "InProgress"
      THEN [files EXCEPT ![f].status = FinalStatus(files[f], res)]
      ELSE files

\* finalize_file under its lock: `ends` tells whether the session ended.
FinalizeFile(g, res, ends) ==
    IF IsActive /\ slot.id = g.session
      THEN LET files == Settled(slot.files, g.file, res)
           IN  /\ ends = IsComplete(files)
               /\ slot' = IF ends THEN Free ELSE [slot EXCEPT !.files = files]
      ELSE ends = FALSE /\ UNCHANGED slot

ReplyFor(res) ==
    CASE res = "Success" -> 200 [] res = "Failed" -> 500 [] OTHER -> 422

\* UploadGuard::finish inside the request, then the answer; when the
\* session ended its SessionEnd event is sent before.
Finish(u) ==
    /\ upc[u] = "finishing"
    /\ \E ends \in BOOLEAN :
         /\ FinalizeFile(guard[u], result[u], ends)
         /\ upc' = [upc EXCEPT ![u] = IF ends THEN "ending" ELSE "done"]
         /\ reply' = [reply EXCEPT ![u] = IF ends THEN @ ELSE ReplyFor(result[u])]
    /\ UNCHANGED <<pinAttempts, prepareVars, guard, target, result, writing,
                   cancelVars, eventVars>>

TellFinished(u) ==
    /\ upc[u] = "ending"
    /\ SendOrIgnore(Ended(guard[u].session, "Finished"))
    /\ upc' = [upc EXCEPT ![u] = "done"]
    /\ reply' = [reply EXCEPT ![u] = ReplyFor(result[u])]
    /\ UNCHANGED <<slot, pinAttempts, prepareVars, guard, target, result, writing,
                   cancelVars>>

\* The request future is dropped.  An armed guard spawns finalize_file; in
\* finish() the guard is disarmed and nothing is left to run.  The writer of
\* the target, if it has begun, only loses the other end of its channel.
DropUpload(u) ==
    /\ \/ /\ upc[u] \in {"announcing", "targeting", "saving"}
          /\ upc' = [upc EXCEPT ![u] = "cleanup"]
       \/ upc[u] \in {"finishing", "ending"} /\ upc' = [upc EXCEPT ![u] = "lost"]
    /\ UNCHANGED <<slot, pinAttempts, prepareVars, guard, target, result, writing,
                   cancelVars, eventVars, reply>>

\* Slip: the file of a dropped upload may be tried again.
AfterDropAgain == "HashMismatch"

\* What the drop of the guard reports. The file stays failed: its writer may
\* still be at it.
AfterDrop == "Failed"

\* The task spawned by UploadGuard::drop: finalize_file(Failed).
FailDropped(u) ==
    /\ upc[u] = "cleanup"
    /\ \E ends \in BOOLEAN :
         /\ FinalizeFile(guard[u], AfterDrop, ends)
         /\ upc' = [upc EXCEPT ![u] = IF ends THEN "telling" ELSE "done"]
    /\ UNCHANGED <<pinAttempts, prepareVars, guard, target, result, writing,
                   cancelVars, eventVars, reply>>

TellFailed(u) ==
    /\ upc[u] = "telling"
    /\ SendOrIgnore(Ended(guard[u].session, "Finished"))
    /\ upc' = [upc EXCEPT ![u] = "done"]
    /\ UNCHANGED <<slot, pinAttempts, prepareVars, guard, target, result, writing,
                   cancelVars, reply>>
-----------------------------------------------------------------------------
(* POST /cancel                                                            *)

\* First lock: a pending session of that address is told to stop.  The
\* handler that waits for the decision frees the slot.
CancelPending(c) ==
    /\ cpc[c] = "idle"
    /\ IsPending
    /\ \E p \in Peer, s \in Request \cup {NoSession, Foreign} :
         /\ p = slot.ip
         /\ s \in {NoSession, slot.id}
    /\ cancelled' = [cancelled EXCEPT ![slot.id] = TRUE]
    /\ cpc' = [cpc EXCEPT ![c] = "done"]
    /\ UNCHANGED <<slot, pinAttempts, req, ppc, decision, uploadVars,
                   cancelling, eventVars, reply>>

\* First lock, no pending session to cancel: without a session id the
\* handler is done, with one it goes for the lock a second time.
CancelOther(c) ==
    /\ cpc[c] = "idle"
    /\ \E p \in Peer, s \in Request \cup {NoSession, Foreign} :
         /\ ~(IsPending /\ p = slot.ip /\ s \in {NoSession, slot.id})
         /\ IF s = NoSession
              THEN /\ cpc' = [cpc EXCEPT ![c] = "done"]
                   /\ UNCHANGED cancelling
              ELSE /\ cpc' = [cpc EXCEPT ![c] = "second"]
                   /\ cancelling' = [cancelling EXCEPT ![c] = [ip |-> p, session |-> s]]
    /\ UNCHANGED <<slot, pinAttempts, prepareVars, uploadVars, eventVars, reply>>

\* Second lock: the active session of that address and id ends.
CancelActive(c) ==
    /\ cpc[c] = "second"
    /\ IF /\ IsActive
          /\ slot.id = cancelling[c].session
          /\ slot.ip = cancelling[c].ip
         THEN slot' = Free /\ cpc' = [cpc EXCEPT ![c] = "ending"]
         ELSE UNCHANGED slot /\ cpc' = [cpc EXCEPT ![c] = "relaying"]
    /\ UNCHANGED <<pinAttempts, prepareVars, uploadVars, cancelling, eventVars,
                   reply>>

\* SessionEnd for the session that was ended, CancelReceived otherwise.
TellCancelled(c) ==
    /\ \/ /\ cpc[c] = "ending"
          /\ SendOrIgnore(Ended(cancelling[c].session, "Cancelled"))
       \/ /\ cpc[c] = "relaying"
          /\ SendOrIgnore([kind |-> "CancelReceived", id |-> cancelling[c].session])
    /\ cpc' = [cpc EXCEPT ![c] = "done"]
    /\ UNCHANGED <<slot, pinAttempts, prepareVars, uploadVars, cancelling, reply>>

DropCancel(c) ==
    /\ cpc[c] \in {"second", "ending", "relaying"}
    /\ cpc' = [cpc EXCEPT ![c] = "done"]
    /\ UNCHANGED <<slot, pinAttempts, prepareVars, uploadVars, cancelling,
                   eventVars, reply>>
-----------------------------------------------------------------------------
(* The application behind the event channel: any application that takes    *)
(* events in order and answers each oneshot channel at most once.  The     *)
(* bridge (packages/doorstep_isolates/rust/src/api/server.rs) is one.      *)

AppTake ==
    /\ open
    /\ queue # <<>>
    /\ queue' = Tail(queue)
    /\ LET e == Head(queue)
       IN  /\ decision' = IF e.kind = "PrepareUpload"
                            THEN [decision EXCEPT ![e.id].kind = "Asked"]
                            ELSE decision
           /\ target' = IF e.kind = "FileUpload"
                          THEN [target EXCEPT ![e.by] = "Asked"]
                          ELSE target
    /\ UNCHANGED <<slot, pinAttempts, req, ppc, cancelled, upc, guard, result,
                   writing, cancelVars, open, reply, told>>

\* respond_prepare_upload, or the decision_tx is replaced or dropped.
AppDecide(r) ==
    /\ decision[r].kind = "Asked"
    /\ \/ \E ids \in SUBSET File :
            decision' = [decision EXCEPT ![r] = [kind |-> "Accept", ids |-> ids]]
       \/ \E k \in {"Decline", "Dropped"} :
            decision' = [decision EXCEPT ![r] = [kind |-> k, ids |-> {}]]
    /\ UNCHANGED <<slot, pinAttempts, req, ppc, cancelled, uploadVars,
                   cancelVars, eventVars, reply>>

\* respond_file_upload or fail_file_upload.
AppTarget(u) ==
    /\ target[u] = "Asked"
    /\ \E t \in {"Given", "Dropped"} : target' = [target EXCEPT ![u] = t]
    /\ UNCHANGED <<slot, pinAttempts, prepareVars, upc, guard, result, writing,
                   cancelVars, eventVars, reply>>

\* ServerHandle::cancel_v2_session, for a session the user was shown.
AppCancel ==
    /\ IsActive
    /\ slot' = Free
    /\ UNCHANGED <<pinAttempts, prepareVars, uploadVars, cancelVars, eventVars,
                   reply>>

\* The receiver is dropped, and with it every oneshot sender still queued.
AppClose ==
    /\ open
    /\ open' = FALSE
    /\ queue' = <<>>
    /\ decision' = [r \in Request |->
                      IF \E i \in DOMAIN queue :
                            queue[i] = [kind |-> "PrepareUpload", id |-> r]
                        THEN [kind |-> "Dropped", ids |-> {}]
                        ELSE decision[r]]
    /\ target' = [u \in Upload |->
                    IF \E i \in DOMAIN queue :
                          queue[i].kind = "FileUpload" /\ queue[i].by = u
                      THEN "Dropped"
                      ELSE target[u]]
    /\ UNCHANGED <<slot, pinAttempts, req, ppc, cancelled, upc, guard, result,
                   writing, cancelVars, reply, told>>
-----------------------------------------------------------------------------
PrepareStep(r) ==
    \/ Claim(r) \/ ClaimRefused(r) \/ Ask(r) \/ AskFails(r)
    \/ CancelledBySender(r) \/ Decided(r) \/ Clear(r) \/ Activate(r)
    \/ CleanUp(r) \/ TellAborted(r)

UploadStep(u) ==
    \/ Announce(u) \/ NoTarget(u) \/ StartSaving(u) \/ Finish(u) \/ TellFinished(u)
    \/ FailDropped(u) \/ TellFailed(u)

\* These need the sender's body, for which the server waits without a limit,
\* and the disk.
Transfer(u) == WriterStops(u) \/ Saved(u)

CancelStep(c) == CancelActive(c) \/ TellCancelled(c)

\* What the clients do: send a request, or hang up on it.
PrepareClient(r) == PinAccepted(r) \/ PinRefused(r) \/ DropPrepare(r)
UploadClient(u)  == UploadRefused(u) \/ UploadAdmitted(u) \/ DropUpload(u)
CancelClient(c)  == CancelPending(c) \/ CancelOther(c) \/ DropCancel(c)

App ==
    \/ AppTake \/ AppCancel \/ AppClose
    \/ \E r \in Request : AppDecide(r)
    \/ \E u \in Upload : AppTarget(u)

Next ==
    \/ \E r \in Request : PrepareStep(r) \/ PrepareClient(r)
    \/ \E u \in Upload : UploadStep(u) \/ Transfer(u) \/ UploadClient(u)
    \/ \E c \in Cancel : CancelStep(c) \/ CancelClient(c)
    \/ App

Spec == Init /\ [][Next]_vars

\* The runtime polls every task that can go on, and the application takes
\* its events.  Clients owe nothing, not even the end of a body, and nobody
\* owes a decision.
ServerFairness ==
    /\ \A r \in Request : WF_vars(PrepareStep(r))
    /\ \A u \in Upload : WF_vars(UploadStep(u))
    /\ \A c \in Cancel : WF_vars(CancelStep(c))
    /\ WF_vars(AppTake)

FairSpec == Spec /\ ServerFairness
-----------------------------------------------------------------------------
(* What must hold.                                                         *)

PrepareStates == {"idle", "claim", "asking", "deciding", "clearing",
                  "activating", "cleanup", "aborting", "lost", "done"}
UploadStates == {"idle", "announcing", "targeting", "saving", "finishing", "ending",
                 "cleanup", "telling", "lost", "done"}
CancelStates == {"idle", "second", "ending", "relaying", "done"}

\* Types; the count of wrong PINs of an address stops at the limit.
TypeOK ==
    /\ \/ slot \in {Free} \cup PendingSession
       \/ \E accepted \in SUBSET File : slot \in ActiveSession(accepted)
    /\ pinAttempts \in [Peer -> 0 .. MaxPinAttempts]
    /\ req \in [Request -> [ip : Peer, files : Offers]]
    /\ ppc \in [Request -> PrepareStates]
    /\ cancelled \in [Request -> BOOLEAN]
    /\ decision \in [Request -> Decisions]
    /\ upc \in [Upload -> UploadStates]
    /\ guard \in [Upload -> Guards \cup {NoGuard}]
    /\ target \in [Upload -> {"Unsent", "Asked", "Given", "Dropped"}]
    /\ result \in [Upload -> SaveResults]
    /\ writing \subseteq Upload
    /\ cpc \in [Cancel -> CancelStates]
    /\ cancelling \in [Cancel -> Cancels \cup {NoCancel}]
    /\ queue \in Seq(Events)
    /\ open \in BOOLEAN
    /\ reply \in [Request \cup Upload -> Replies]
    /\ told \in [Request -> SUBSET EventKinds]

Holds(r) == IsPending /\ slot.id = r

\* The handler, or the clean-up task its guard spawned, still has to give
\* the slot back.
Owes(r) == ppc[r] \in {"asking", "deciding", "clearing", "activating", "cleanup"}

\* A request that has claimed the slot finds it still pending for itself
\* until it or its clean-up task releases it.  clear_pending_session and the
\* write of the active session look at neither the id nor the state of what
\* they replace; this is why that is safe for a later session.
SlotOwned == \A r \in Request : Owes(r) => Holds(r)

\* An upload whose guard, or the task its drop spawned, still has to report.
Armed(u) == upc[u] \in {"announcing", "targeting", "saving", "finishing", "cleanup"}

\* Two uploads never report on the same file of a session, and an upload that
\* outlived its session never settles a file of the next one: whoever still
\* has to report on a file of the active session finds it in progress.
FileOwned ==
    \A u \in Upload :
        Armed(u) /\ IsActive /\ slot.id = guard[u].session =>
            /\ guard[u].file \in DOMAIN slot.files
            /\ slot.files[guard[u].file].status = "InProgress"
            /\ \A v \in Upload \ {u} : Armed(v) => guard[v] # guard[u]

\* A file is uploaded at most MAX_UPLOAD_ATTEMPTS times in its session,
\* however mismatches, hang-ups and retries alternate.
AttemptsBounded ==
    IsActive => \A f \in DOMAIN slot.files :
                    slot.files[f].attempts <= MaxUploadAttempts

\* While a target is written, by the task of save.rs:233 that goes on after
\* its handler was dropped, no other upload has the file or its target, also
\* after a retry: the file of an active session is neither free to be tried
\* again nor counted as received.
OneWriter ==
    \A u \in writing :
        /\ \A v \in Upload \ {u} : Armed(v) \/ v \in writing => guard[v] # guard[u]
        /\ IsActive /\ slot.id = guard[u].session =>
              slot.files[guard[u].file].status \in {"InProgress", "Failed"}

\* The three together: what happens to a file happens in order.
FilesInOrder == FileOwned /\ AttemptsBounded /\ OneWriter

\* Once the application is told that a session finished, no handler and no
\* clean-up of its uploads has anything left to report (FileOwned says why
\* that matters). A target that is still written then is that of an upload
\* which was dropped, and whose sender was told nothing.
FinishedIsQuiet ==
    \A u \in Upload :
        Armed(u) \/ (u \in writing /\ reply[u] # NoReply)
            => "Finished" \notin told[guard[u].session]

EndKinds == {"Finished", "Cancelled", "PrepareUploadAborted"}

\* A session is announced as over at most once, and never both as aborted
\* and as ended.
EndedOnce ==
    [][\A s \in Request : \A k \in EndKinds :
         (\E e \in {[kind |-> k, id |-> s]} : queue' = Append(queue, e))
            => told[s] \cap EndKinds = {}]_vars

\* What the session slot looks like without handlers and events.
SlotHolder == IF slot = Free THEN {} ELSE {slot.id}
SlotTodo ==
    IF IsActive THEN {f \in DOMAIN slot.files : slot.files[f].status \notin Final} ELSE {}
SlotUsed == {r \in Request : ppc[r] \notin {"idle", "claim"}}

Slot == INSTANCE SessionSlot WITH
    Session <- Request, phase <- slot.state, holder <- SlotHolder,
    todo <- SlotTodo, used <- SlotUsed

\* A sender that gives up on a pending session gives the slot back without the
\* user doing anything: when it hangs up, the clean-up of its guard frees it;
\* when it cancels, its handler does (v2.rs:444). Two cases are excepted: it
\* hangs up as well while guard.clear() waits for the lock, or the user's
\* decision wins the race in select! (v2.rs:268), and the session starts with
\* the sender answered 200 (CancelledNeverActive).
GivenUpIsReleased ==
    \A r \in Request :
        /\ ppc[r] = "cleanup" ~> r \notin SlotHolder
        /\ Holds(r) /\ cancelled[r] ~>
              \/ r \notin SlotHolder
              \/ ppc[r] = "lost"
              \/ IsActive /\ slot.id = r /\ reply[r] = 200

\* The slot implements the abstract life of a session: every handler step,
\* drop and clean-up of v2.rs is one of its steps or none.
ImplementsSlot == Slot!Spec

\* Stated by the comment on PendingSessionGuard (v2.rs:512): the slot is not
\* leaked when the request is dropped.
SlotNotLeaked == \A r \in Request : Holds(r) => Owes(r)

\* Stated by the comment on UploadGuard (v2.rs:570): a file is not stuck in
\* progress when its request is dropped.
FileNotStuck ==
    IsActive => \A f \in DOMAIN slot.files :
        slot.files[f].status = "InProgress" =>
            \E u \in Upload : Armed(u) /\ guard[u] = [session |-> slot.id, file |-> f]

\* Stated by the comment in cancel (v2.rs:444): the handler of a pending
\* session that was cancelled frees the slot, so it never becomes active.
CancelledNeverActive ==
    \A r \in Request : cancelled[r] => ~(IsActive /\ slot.id = r)
=============================================================================
