------------------------------- MODULE WebSend -------------------------------
(***************************************************************************)
(* Web send: browsers download files of this device.  The two endpoints    *)
(* (packages/core/src/http/server/web.rs), the bridge that keeps their     *)
(* responders (doorstep_isolates/rust/src/api/server.rs), the isolate that *)
(* passes events and answers on, and the controller that asks the user     *)
(* (app/.../send_controller.dart).                                         *)
(*                                                                         *)
(* A session belongs to a client address and is named by it: the requests  *)
(* of one browser share the entry of the sessions map, the responder in    *)
(* the bridge and the row the user sees, while each is a task of its own.  *)
(***************************************************************************)
EXTENDS Naturals, Sequences, FiniteSets

CONSTANTS
    Client,          \* addresses; PeerIp and its text are the same thing here
    Prepare,         \* prepare-download requests
    Download,        \* download requests
    File,            \* the files offered
    PinRequired,     \* whether web send has a PIN
    MaxPinAttempts,  \* MAX_PIN_ATTEMPTS
    QueueCapacity,   \* of the event channel (16 in the bridge)
    None

ASSUME ConstantsAssumption ==
    /\ IsFiniteSet(Prepare)
    /\ Prepare \cap Download = {}
    /\ None \notin Client \cup Prepare \cup Download \cup File
    /\ PinRequired \in BOOLEAN
    /\ MaxPinAttempts \in Nat
    /\ QueueCapacity \in Nat \ {0}

VARIABLES
    from,         \* the client of each request (chosen once)
    wanted,       \* the file of each download (chosen once)
    sessions,     \* WebPageState.sessions
    pinAttempts,  \* WebPageState.pin_attempts
    ppc,          \* where each prepare-download is
    decision,     \* its decision channel: open, the answer, or dropped
    dpc,          \* where each download is
    content,      \* its content channel: open, given or dropped
    queue,        \* WebSendConfig.event_tx: events with their responders
    responder,    \* pending_download_decisions of the bridge
    supplier,     \* pending_downloads of the bridge
    stream,       \* events on their way to the main isolate
    shown,        \* webSendState.sessions of the app
    orders,       \* decisions on their way to the bridge
    fetches,      \* content sources on their way to the bridge
    accepts       \* history: how often the user accepted a client

requestVars == <<from, wanted>>
coreVars    == <<sessions, pinAttempts, ppc, dpc>>
answerVars  == <<decision, content>>
bridgeVars  == <<responder, supplier>>
appVars     == <<stream, shown, orders, fetches, accepts>>
vars == <<requestVars, coreVars, answerVars, queue, bridgeVars, appVars>>
-----------------------------------------------------------------------------
(* Data.                                                                   *)

SessionStates  == {"none", "pending", "accepted"}
PrepareStates  == {"idle", "admitted", "entered", "waiting", "declining", "cleaning",
                   "listed", "accepted", "declined", "refused", "lost", "gone"}
DownloadStates == {"idle", "valid", "asking", "served", "failed", "refused", "gone"}

PrepareAsks(p)  == [kind |-> "Prepare", request |-> p]
DownloadAsks(d) == [kind |-> "Download", request |-> d]
Events == [kind : {"Prepare"}, request : Prepare] \cup [kind : {"Download"}, request : Download]

\* What the main isolate is told: the session, and the file of a download.
Notices == Client \X (File \cup {None})

Init ==
    /\ from \in [Prepare \cup Download -> Client]
    /\ wanted \in [Download -> File]
    /\ sessions = [c \in Client |-> "none"]
    /\ pinAttempts = [c \in Client |-> 0]
    /\ ppc = [p \in Prepare |-> "idle"]
    /\ decision = [p \in Prepare |-> "open"]
    /\ dpc = [d \in Download |-> "idle"]
    /\ content = [d \in Download |-> "open"]
    /\ queue = <<>>
    /\ responder = [c \in Client |-> None]
    /\ supplier = [k \in Client \X File |-> None]
    /\ stream = <<>>
    /\ shown = [c \in Client |-> "none"]
    /\ orders = [k \in Client \X BOOLEAN |-> 0]
    /\ fetches = [k \in Client \X File |-> 0]
    /\ accepts = [c \in Client |-> 0]

HasRoom == Len(queue) < QueueCapacity

Moved(p, state) == ppc' = [ppc EXCEPT ![p] = state]
-----------------------------------------------------------------------------
(* prepare-download: getting in.                                           *)

\* Mutant: any session will do.
AnySession(c) == sessions[c] # "none"

\* A request may name an accepted session of its own address.
Valid(c) == sessions[c] = "accepted"

\* A reload of the page: the file list again, without PIN and question.
List(p) ==
    /\ ppc[p] = "idle"
    /\ Valid(from[p])
    /\ Moved(p, "listed")
    /\ UNCHANGED <<requestVars, sessions, pinAttempts, dpc, answerVars, queue, bridgeVars, appVars>>

\* Mutant: one wrong PIN more.
BlockedLate(c) == pinAttempts[c] > MaxPinAttempts

Blocked(c) == pinAttempts[c] >= MaxPinAttempts

\* check_pin
Admit(p) ==
    /\ ppc[p] = "idle"
    /\ PinRequired => ~Blocked(from[p])
    /\ pinAttempts' = [pinAttempts EXCEPT ![from[p]] = IF PinRequired THEN 0 ELSE @]
    /\ Moved(p, "admitted")
    /\ UNCHANGED <<requestVars, sessions, dpc, answerVars, queue, bridgeVars, appVars>>

Refuse(p) ==
    /\ ppc[p] = "idle"
    /\ PinRequired
    /\ \/ UNCHANGED pinAttempts
       \/ /\ ~Blocked(from[p])
          /\ pinAttempts' = [pinAttempts EXCEPT ![from[p]] = @ + 1]
    /\ Moved(p, "refused")
    /\ UNCHANGED <<requestVars, sessions, dpc, answerVars, queue, bridgeVars, appVars>>

\* The new session replaces whatever session the client had.
Enter(p) ==
    /\ ppc[p] = "admitted"
    /\ sessions' = [sessions EXCEPT ![from[p]] = "pending"]
    /\ Moved(p, "entered")
    /\ UNCHANGED <<requestVars, pinAttempts, dpc, answerVars, queue, bridgeVars, appVars>>

Ask(p) ==
    /\ ppc[p] = "entered"
    /\ HasRoom
    /\ queue' = Append(queue, PrepareAsks(p))
    /\ Moved(p, "waiting")
    /\ UNCHANGED <<requestVars, sessions, pinAttempts, dpc, answerVars, bridgeVars, appVars>>
-----------------------------------------------------------------------------
(* prepare-download: the answer, and PendingWebSessionGuard.               *)

\* Mutant: the guard removes the session in any state.
RemovableAlways(c) == c \in Client

\* clear_pending_session looks at the state of the entry, not at whose it is.
Removable(c) == sessions[c] = "pending"

ClearPendingSession(c) ==
    sessions' = IF Removable(c) THEN [sessions EXCEPT ![c] = "none"] ELSE sessions

\* Accepted: the entry, if it is still there, is marked.
Grant(p) ==
    /\ ppc[p] = "waiting"
    /\ decision[p] = "yes"
    /\ sessions' = [sessions EXCEPT ![from[p]] = IF @ = "none" THEN @ ELSE "accepted"]
    /\ Moved(p, "accepted")
    /\ UNCHANGED <<requestVars, pinAttempts, dpc, answerVars, queue, bridgeVars, appVars>>

\* Declined: clear() disarms the guard before it waits for the lock.
Decline(p) ==
    /\ ppc[p] = "waiting"
    /\ decision[p] = "no"
    /\ Moved(p, "declining")
    /\ UNCHANGED <<requestVars, sessions, pinAttempts, dpc, answerVars, queue, bridgeVars, appVars>>

Clear(p) ==
    /\ ppc[p] = "declining"
    /\ ClearPendingSession(from[p])
    /\ Moved(p, "declined")
    /\ UNCHANGED <<requestVars, pinAttempts, dpc, answerVars, queue, bridgeVars, appVars>>

\* Mutant: the guard cleans up only what has not been asked yet.
ArmedUntilAsked(p) == ppc[p] = "entered"

Armed(p) == ppc[p] \in {"entered", "waiting"}

\* The bridge dropped the responder: 500, and the guard spawns its clean-up.
Unanswered(p) ==
    /\ ppc[p] = "waiting"
    /\ decision[p] = "dropped"
    /\ Moved(p, IF Armed(p) THEN "cleaning" ELSE "gone")
    /\ UNCHANGED <<requestVars, sessions, pinAttempts, dpc, answerVars, queue, bridgeVars, appVars>>

\* The browser hung up; the guard goes with the request.
HangUp(p) ==
    /\ ppc[p] \in {"admitted", "entered", "waiting", "declining"}
    /\ Moved(p, IF Armed(p) THEN "cleaning"
                ELSE IF ppc[p] = "declining" THEN "lost" ELSE "gone")
    /\ UNCHANGED <<requestVars, sessions, pinAttempts, dpc, answerVars, queue, bridgeVars, appVars>>

CleanUp(p) ==
    /\ ppc[p] = "cleaning"
    /\ ClearPendingSession(from[p])
    /\ Moved(p, "gone")
    /\ UNCHANGED <<requestVars, pinAttempts, dpc, answerVars, queue, bridgeVars, appVars>>
-----------------------------------------------------------------------------
(* download.                                                               *)

Begin(d) ==
    /\ dpc[d] = "idle"
    /\ dpc' = [dpc EXCEPT ![d] = IF Valid(from[d]) THEN "valid" ELSE "refused"]
    /\ UNCHANGED <<requestVars, sessions, pinAttempts, ppc, answerVars, queue, bridgeVars, appVars>>

AskContent(d) ==
    /\ dpc[d] = "valid"
    /\ HasRoom
    /\ queue' = Append(queue, DownloadAsks(d))
    /\ dpc' = [dpc EXCEPT ![d] = "asking"]
    /\ UNCHANGED <<requestVars, sessions, pinAttempts, ppc, answerVars, bridgeVars, appVars>>

Serve(d) ==
    /\ dpc[d] = "asking"
    /\ content[d] # "open"
    /\ dpc' = [dpc EXCEPT ![d] = IF content[d] = "given" THEN "served" ELSE "failed"]
    /\ UNCHANGED <<requestVars, sessions, pinAttempts, ppc, answerVars, queue, bridgeVars, appVars>>

HangUpDownload(d) ==
    /\ dpc[d] \in {"valid", "asking"}
    /\ dpc' = [dpc EXCEPT ![d] = "gone"]
    /\ UNCHANGED <<requestVars, sessions, pinAttempts, ppc, answerVars, queue, bridgeVars, appVars>>
-----------------------------------------------------------------------------
(* The bridge.                                                             *)

\* handle_web_event: the responder is kept under the session; one that was
\* there before is dropped.
ForwardPrepare ==
    /\ queue # <<>>
    /\ Head(queue).kind = "Prepare"
    /\ LET p == Head(queue).request  c == from[p] IN
        /\ responder' = [responder EXCEPT ![c] = p]
        /\ decision' = [q \in Prepare |-> IF q = responder[c] THEN "dropped" ELSE decision[q]]
        /\ stream' = Append(stream, <<c, None>>)
    /\ queue' = Tail(queue)
    /\ UNCHANGED <<requestVars, coreVars, content, supplier, shown, orders, fetches, accepts>>

ForwardDownload ==
    /\ queue # <<>>
    /\ Head(queue).kind = "Download"
    /\ LET d == Head(queue).request  k == <<from[d], wanted[d]>> IN
        /\ supplier' = [supplier EXCEPT ![k] = d]
        /\ content' = [e \in Download |-> IF e = supplier[k] THEN "dropped" ELSE content[e]]
        /\ stream' = Append(stream, k)
    /\ queue' = Tail(queue)
    /\ UNCHANGED <<requestVars, coreVars, decision, responder, shown, orders, fetches, accepts>>

\* Mutant: one responder for all sessions, as for prepare-upload.
ResponderOfAny(c) ==
    IF \E b \in Client : responder[b] # None
    THEN responder[CHOOSE b \in Client : responder[b] # None] ELSE responder[c]

Responder(c) == responder[c]

\* respond_prepare_download.  The isolate starts a task for each answer, so
\* answers overtake each other; one without a responder is an error in the log.
Respond(c, yes) ==
    /\ orders[<<c, yes>>] > 0
    /\ orders' = [orders EXCEPT ![<<c, yes>>] = @ - 1]
    /\ LET p == Responder(c) IN
        /\ responder' = [b \in Client |-> IF responder[b] = p THEN None ELSE responder[b]]
        /\ decision' = [q \in Prepare |->
                            IF q = p THEN (IF yes THEN "yes" ELSE "no") ELSE decision[q]]
    /\ UNCHANGED <<requestVars, coreVars, content, queue, supplier, stream, shown, fetches, accepts>>

\* Mutant: a file without a source is reported in the log only.
KeptWhenUnresolved(k, result) == IF result = "dropped" THEN supplier ELSE [supplier EXCEPT ![k] = None]

Taken(k, result) == [supplier EXCEPT ![k] = None]

\* respond_file_download, fail_file_download
Supply(k, result) ==
    /\ fetches[k] > 0
    /\ fetches' = [fetches EXCEPT ![k] = @ - 1]
    /\ supplier' = Taken(k, result)
    /\ content' = [d \in Download |->
                      IF d = supplier[k] /\ supplier'[k] # d THEN result ELSE content[d]]
    /\ UNCHANGED <<requestVars, coreVars, decision, queue, responder, stream, shown, orders, accepts>>
-----------------------------------------------------------------------------
(* The controller in the main isolate.                                     *)

\* Mutant: a client that was accepted before keeps its row.
RowKept(c) == IF shown[c] = "accepted" THEN "accepted" ELSE "pending"

NewRow(c) == "pending"

\* onPrepareDownload.  With auto-accept an Accept follows at once.
OnPrepareDownload ==
    /\ stream # <<>>
    /\ Head(stream)[2] = None
    /\ LET c == Head(stream)[1] IN shown' = [shown EXCEPT ![c] = NewRow(c)]
    /\ stream' = Tail(stream)
    /\ UNCHANGED <<requestVars, coreVars, answerVars, queue, bridgeVars, orders, fetches, accepts>>

\* onFileDownload looks for the source, which may wait for the platform.
OnFileDownload ==
    /\ stream # <<>>
    /\ Head(stream)[2] # None
    /\ fetches' = [fetches EXCEPT ![Head(stream)] = @ + 1]
    /\ stream' = Tail(stream)
    /\ UNCHANGED <<requestVars, coreVars, answerVars, queue, bridgeVars, shown, orders, accepts>>

\* acceptRequest
Accept(c) ==
    /\ shown[c] = "pending"
    /\ shown' = [shown EXCEPT ![c] = "accepted"]
    /\ orders' = [orders EXCEPT ![<<c, TRUE>>] = @ + 1]
    /\ accepts' = [accepts EXCEPT ![c] = @ + 1]
    /\ UNCHANGED <<requestVars, coreVars, answerVars, queue, bridgeVars, stream, fetches>>

\* declineRequest
Reject(c) ==
    /\ shown[c] = "pending"
    /\ shown' = [shown EXCEPT ![c] = "none"]
    /\ orders' = [orders EXCEPT ![<<c, FALSE>>] = @ + 1]
    /\ UNCHANGED <<requestVars, coreVars, answerVars, queue, bridgeVars, stream, fetches, accepts>>
-----------------------------------------------------------------------------
PrepareStep(p) ==
    \/ List(p) \/ Admit(p) \/ Refuse(p) \/ Enter(p) \/ Ask(p) \/ HangUp(p)
    \/ Grant(p) \/ Decline(p) \/ Clear(p) \/ Unanswered(p) \/ CleanUp(p)

DownloadStep(d) == Begin(d) \/ AskContent(d) \/ Serve(d) \/ HangUpDownload(d)

Next ==
    \/ \E p \in Prepare : PrepareStep(p)
    \/ \E d \in Download : DownloadStep(d)
    \/ ForwardPrepare \/ ForwardDownload
    \/ \E c \in Client, yes \in BOOLEAN : Respond(c, yes)
    \/ \E k \in Client \X File, result \in {"given", "dropped"} : Supply(k, result)
    \/ OnPrepareDownload \/ OnFileDownload
    \/ \E c \in Client : Accept(c) \/ Reject(c)

Spec == Init /\ [][Next]_vars

\* Tasks that can go on do, events and answers travel.  Browsers owe nothing,
\* and the user owes no answer.
ServerFairness ==
    /\ \A p \in Prepare :
        WF_vars(Enter(p) \/ Ask(p) \/ Grant(p) \/ Decline(p) \/ Clear(p) \/ Unanswered(p) \/ CleanUp(p))
    /\ \A d \in Download : WF_vars(AskContent(d) \/ Serve(d))
    /\ WF_vars(ForwardPrepare \/ ForwardDownload)
    /\ WF_vars(OnPrepareDownload \/ OnFileDownload)
    /\ \A c \in Client, yes \in BOOLEAN : WF_vars(Respond(c, yes))
    /\ \A k \in Client \X File : WF_vars(\E result \in {"given", "dropped"} : Supply(k, result))

FairSpec == Spec /\ ServerFairness
-----------------------------------------------------------------------------
(* Properties.                                                             *)

\* Every variable keeps its type; the wrong PINs of an address stop at the limit.
TypeOK ==
    /\ from \in [Prepare \cup Download -> Client]
    /\ wanted \in [Download -> File]
    /\ sessions \in [Client -> SessionStates]
    /\ pinAttempts \in [Client -> 0 .. MaxPinAttempts]
    /\ ppc \in [Prepare -> PrepareStates]
    /\ decision \in [Prepare -> {"open", "yes", "no", "dropped"}]
    /\ dpc \in [Download -> DownloadStates]
    /\ content \in [Download -> {"open", "given", "dropped"}]
    /\ queue \in Seq(Events) /\ Len(queue) <= QueueCapacity
    /\ responder \in [Client -> Prepare \cup {None}]
    /\ supplier \in [Client \X File -> Download \cup {None}]
    /\ stream \in Seq(Notices)
    /\ shown \in [Client -> SessionStates]
    /\ orders \in [Client \X BOOLEAN -> Nat]
    /\ fetches \in [Client \X File -> Nat]
    /\ accepts \in [Client -> Nat]

InQueue(e)  == \E i \in 1 .. Len(queue) : queue[i] = e
InStream(n) == \E i \in 1 .. Len(stream) : stream[i] = n

\* No request waits for an answer nobody can give: its responder is on the
\* way to the bridge, or there, and then the user has been asked, will be,
\* or has answered.  Requests of one client replace each other's responders
\* and rows, but never the newest one's.
NobodyForgotten ==
    /\ \A p \in Prepare :
        ppc[p] = "waiting" /\ decision[p] = "open" =>
            InQueue(PrepareAsks(p)) \/ responder[from[p]] = p
    /\ \A c \in Client :
        responder[c] # None =>
            \/ shown[c] = "pending"
            \/ InStream(<<c, None>>)
            \/ \E yes \in BOOLEAN : orders[<<c, yes>>] > 0

\* Each time the user accepts a client, at most one of its requests, and none
\* of another client, is let in: answers that come late, twice or to a newer
\* request do not multiply.
OneYesOneRequest ==
    \A c \in Client :
        Cardinality({p \in Prepare : from[p] = c /\ ppc[p] = "accepted"}) <= accepts[c]

\* A file is asked for only on behalf of a client the user accepted.
DownloadConsented ==
    \A d \in Download : dpc[d] \notin {"idle", "refused"} => accepts[from[d]] > 0

\* A pending session has a request that is still to settle it, or one whose
\* browser hung up while clear() waited for the lock.
PendingOwned ==
    \A c \in Client : sessions[c] = "pending" =>
        \E p \in Prepare :
            from[p] = c /\ ppc[p] \in {"entered", "waiting", "declining", "cleaning", "lost"}

\* A request that is declined, dropped or given up never takes away a session
\* that was accepted; only a new request of the client replaces it.
AcceptedStays == [][\A c \in Client : sessions[c] = "accepted" => sessions'[c] # "none"]_vars

\* A download that is under way ends, whatever the duplicates of it do to the
\* responder they share.
DownloadEnds ==
    \A d \in Download : dpc[d] \in {"valid", "asking"} ~> dpc[d] \in {"served", "failed", "gone"}

\* The session of a client that gave up goes away by itself.
AbandonedGoes ==
    \A c \in Client :
        sessions[c] = "pending" ~>
            \/ sessions[c] # "pending"
            \/ \E p \in Prepare :
                from[p] = c /\ (ppc[p] = "lost" \/ (ppc[p] = "waiting" /\ decision[p] = "open"))

\* Whoever waits is let go: downloads under way and sessions nobody wants.
WaitingEnds == DownloadEnds /\ AbandonedGoes

\* Stated by the comment on WebSendEvent::PrepareDownload (web.rs:37): session_id
\* is "The ID of the download session that is created when accepted."
CreatedWhenAccepted ==
    [][\A p \in Prepare :
        ppc[p] = "waiting" /\ ppc'[p] = "accepted" => sessions'[from[p]] = "accepted"]_vars
=============================================================================
