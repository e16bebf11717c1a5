------------------------------ MODULE HttpPeers ------------------------------
(***************************************************************************)
(* The life of the HTTP server of one device and the calls other devices   *)
(* make to it: the app's operations (server_provider.dart), the service in *)
(* the server isolate (http_server.dart, server_isolate.dart), the bridge  *)
(* (api/server.rs), the server task with its listeners and connections     *)
(* (core http/server/mod.rs), and the client with its pinned certificate   *)
(* (core http/client).                                                     *)
(*                                                                         *)
(* A value of Server is one server instance, from its bind to the end of   *)
(* its task.  A value of Op is one tap of the user: start, stop or restart.*)
(* A value of Call is one request of another device over a connection of   *)
(* its own (a connection that is kept for the next request was shaken      *)
(* hands on in the same way).  The messages between the app and its        *)
(* isolate keep their order, so that the isolate handles a task in the     *)
(* step that sends it.                                                     *)
(***************************************************************************)
EXTENDS Naturals, Sequences, FiniteSets

CONSTANTS
    Call,
    Op, Server,     \* numbered in the order in which they begin or are bound
    Cert,           \* certificates: the identities of devices
    Expired,        \* those that are not valid (any more)
    Goals,          \* what an operation may ask for
    Requests,       \* what a call may be
    QueueCapacity,  \* of the event channel of a server, mpsc::channel(16)
    None            \* no server, no certificate

Settings == {g.setting : g \in Goals}
Ports    == {w.port : w \in Settings}

ASSUME ConstantsAssumption ==
    /\ Goals \subseteq [kind : {"start", "stop", "restart"},
                        setting : [port : Ports, tls : BOOLEAN, cert : Cert, show : BOOLEAN]]
    /\ Requests \subseteq [kind : {"register", "info", "prepare", "show", "other"},
                           port : Ports, https : BOOLEAN, pin : Cert \cup {None},
                           cert : Cert \cup {None}, claim : Cert, good : BOOLEAN,
                           token : BOOLEAN, patient : BOOLEAN]
    /\ Goals # {} /\ Requests # {}
    /\ QueueCapacity \in Nat \ {0}
    /\ Op \cup Server \subseteq Nat
    /\ None \notin Server \cup Cert

VARIABLES
    goal, pc,    \* of each operation: what it asks for and where it is
    mine,        \* the server an operation has bound, or waits for to stop
    retry,       \* attemptRetry of its startServer
    state,       \* the app's ServerState: the server it stands for
    sub,         \* _subscription
    listening,   \* the servers whose events the app handles
    published,   \* serverRunning of the sync state, read by the discovery
    held,        \* _server of the HttpServerService
    life, conf,  \* of each server: its task's progress and its configuration
    asked,       \* whether its stop_tx was used
    events,      \* its event channel
    req,         \* the request of each call
    at,          \* the server that holds the connection of a call
    handler,     \* how far that server is with it
    status,      \* the answer
    out,         \* whether the caller waits, or got what it asked for
    overlap      \* history: an operation began while another was under way

opVars     == <<goal, pc, mine, retry, overlap>>
appVars    == <<state, sub, listening, published>>
serverVars == <<held, life, conf, asked>>
callVars   == <<req, at, handler, status, out>>
vars == <<opVars, appVars, serverVars, callVars, events>>
-----------------------------------------------------------------------------
OpStates   == {"idle", "stop", "cancelled", "stopping", "start", "binding",
               "failed", "bound", "started", "done"}
Lives      == {"unused", "serving", "draining", "ended"}
Handlers   == {"none", "accepted", "handling", "asking", "told", "replied"}
Statuses   == {0, 200, 204, 400, 403, 404}
Outcomes   == {"none", "waiting", "ok"}
AnyGoal     == CHOOSE g \in Goals : TRUE
AnyRequest  == CHOOSE r \in Requests : TRUE
AnySetting  == CHOOSE w \in Settings : TRUE
UnderWay(o) == pc[o] \notin {"idle", "done"}

Init ==
    /\ goal = [o \in Op |-> AnyGoal]
    /\ pc = [o \in Op |-> "idle"]
    /\ mine = [o \in Op |-> None]
    /\ retry = [o \in Op |-> TRUE]
    /\ state = None /\ sub = None /\ listening = {} /\ published = FALSE
    /\ held = None
    /\ life = [s \in Server |-> "unused"]
    /\ conf = [s \in Server |-> AnySetting]
    /\ asked = [s \in Server |-> FALSE]
    /\ events = [s \in Server |-> <<>>]
    /\ req = [c \in Call |-> AnyRequest]
    /\ at = [c \in Call |-> None]
    /\ handler = [c \in Call |-> "none"]
    /\ status = [c \in Call |-> 0]
    /\ out = [c \in Call |-> "none"]
    /\ overlap = FALSE
-----------------------------------------------------------------------------
(* The operations of the app.                                              *)

GoOn(o, where) ==
    pc' = [pc EXCEPT ![o] = where] /\ UNCHANGED <<goal, retry>>

\* What is over is forgotten.
Finish(o) ==
    /\ pc' = [pc EXCEPT ![o] = "done"]
    /\ goal' = [goal EXCEPT ![o] = AnyGoal]
    /\ retry' = [retry EXCEPT ![o] = TRUE]

\* The user taps; a start goes ahead at once, the others stop first.
Begin(o) ==
    /\ pc[o] = "idle" /\ \A q \in Op : pc[q] = "idle" => o <= q
    /\ \E g \in Goals :
        /\ goal' = [goal EXCEPT ![o] = g]
        /\ pc' = [pc EXCEPT ![o] = IF g.kind = "start" THEN "start" ELSE "stop"]
    /\ overlap' = (overlap \/ \E q \in Op : UnderWay(q))
    /\ UNCHANGED <<mine, retry, appVars, serverVars, callVars, events>>

\* stopServer: the subscription is cancelled, and awaited.
CancelSubscription(o) ==
    /\ pc[o] = "stop"
    /\ listening' = listening \ {sub}
    /\ pc' = [pc EXCEPT ![o] = "cancelled"]
    /\ UNCHANGED <<goal, mine, retry, overlap, state, sub, published,
                   serverVars, callVars, events>>

\* HttpServerService.stop: the service forgets its server before it stops it.
\* RsHttpServer::stop uses stop_tx once; without it there is nothing to wait for.
SendStop(o) ==
    /\ pc[o] = "cancelled"
    /\ sub' = None
    /\ held' = None
    /\ LET waits == held # None /\ ~asked[held] IN
       /\ mine' = [mine EXCEPT ![o] = IF waits THEN held ELSE None]
       /\ asked' = IF waits THEN [asked EXCEPT ![held] = TRUE] ELSE asked
    /\ pc' = [pc EXCEPT ![o] = "stopping"]
    /\ UNCHANGED <<goal, retry, overlap, state, listening, published,
                   life, conf, callVars, events>>

\* Mutant: the stop returns when the signal is sent.
NotAwaited(o) == TRUE

\* ServerHandle::wait_stopped
Gone(o) == mine[o] # None => life[mine[o]] = "ended"

\* The change of the state is what publishes that no server runs (onChanged).
StopReturns(o) ==
    /\ pc[o] = "stopping"
    /\ Gone(o)
    /\ state' = None
    /\ published' = IF state = None THEN published ELSE FALSE
    /\ IF goal[o].kind = "stop" THEN Finish(o) ELSE GoOn(o, "start")
    /\ mine' = [mine EXCEPT ![o] = None]
    /\ UNCHANGED <<overlap, sub, listening, serverVars, callVars, events>>

\* startServer, up to the check of the service for a server it holds already.
StartServer(o) ==
    /\ pc[o] = "start"
    /\ IF state # None
       THEN Finish(o) /\ UNCHANGED published
       ELSE /\ published' = TRUE
            /\ GoOn(o, IF held = None THEN "binding" ELSE "failed")
    /\ UNCHANGED <<mine, overlap, state, sub, listening,
                   serverVars, callVars, events>>

Listens(s, p) == life[s] = "serving" /\ conf[s].port = p

\* start_with_port: the IPv4 listener decides.
Bind(o) ==
    /\ pc[o] = "binding"
    /\ \A s \in Server : ~Listens(s, goal[o].setting.port)
    /\ \E s \in Server :
        /\ life[s] = "unused" /\ \A u \in Server : life[u] = "unused" => s <= u
        /\ life' = [life EXCEPT ![s] = "serving"]
        /\ conf' = [conf EXCEPT ![s] = goal[o].setting]
        /\ mine' = [mine EXCEPT ![o] = s]
    /\ pc' = [pc EXCEPT ![o] = "bound"]
    /\ UNCHANGED <<goal, retry, overlap, appVars, held, asked, callVars, events>>

\* The port is taken, by this device's server or by another program.
BindFails(o) ==
    /\ pc[o] = "binding"
    /\ pc' = [pc EXCEPT ![o] = "failed"]
    /\ UNCHANGED <<goal, mine, retry, overlap, appVars, serverVars, callVars, events>>

\* The service has its server, whatever it held meanwhile, and tells the app.
Hold(o) ==
    /\ pc[o] = "bound"
    /\ held' = mine[o]
    /\ pc' = [pc EXCEPT ![o] = "started"]
    /\ UNCHANGED <<goal, mine, retry, overlap, appVars, life, conf, asked,
                   callVars, events>>

\* HttpServerStartedEvent.  Events of the server follow it in the same stream.
Started(o) ==
    /\ pc[o] = "started"
    /\ sub' = mine[o]
    /\ listening' = listening \cup {mine[o]}
    /\ state' = mine[o]
    /\ published' = TRUE
    /\ mine' = [mine EXCEPT ![o] = None]
    /\ Finish(o)
    /\ UNCHANGED <<overlap, serverVars, callVars, events>>

\* Mutant: a start that failed leaves what was published before it.
StartFailsUnpublished(o) ==
    /\ pc[o] = "failed"
    /\ \/ /\ retry[o]
          /\ retry' = [retry EXCEPT ![o] = FALSE]
          /\ pc' = [pc EXCEPT ![o] = "stop"]
          /\ UNCHANGED goal
       \/ ~retry[o] /\ Finish(o)
    /\ UNCHANGED <<mine, overlap, appVars, serverVars, callVars, events>>

\* A start that failed stops what there is and tries once more.
StartFails(o) ==
    /\ pc[o] = "failed"
    /\ published' = FALSE
    /\ \/ /\ retry[o]
          /\ retry' = [retry EXCEPT ![o] = FALSE]
          /\ pc' = [pc EXCEPT ![o] = "stop"]
          /\ UNCHANGED goal
       \/ ~retry[o] /\ Finish(o)
    /\ UNCHANGED <<mine, overlap, state, sub, listening, serverVars, callVars, events>>
-----------------------------------------------------------------------------
(* The server task.                                                        *)

\* stop_rx: the listeners are dropped, the connections are cancelled.
Shut(s) ==
    /\ life[s] = "serving"
    /\ asked[s]
    /\ life' = [life EXCEPT ![s] = "draining"]
    /\ UNCHANGED <<held, conf, asked, opVars, appVars, callVars, events>>

\* The accept loop fails, or its TLS configuration.
Die(s) ==
    /\ life[s] = "serving"
    /\ life' = [life EXCEPT ![s] = "draining"]
    /\ UNCHANGED <<held, conf, asked, opVars, appVars, callVars, events>>

\* connections.wait()
AllClosed(s) == \A c \in Call : at[c] # s

End(s) ==
    /\ life[s] = "draining"
    /\ AllClosed(s)
    /\ life' = [life EXCEPT ![s] = "ended"]
    /\ conf' = [conf EXCEPT ![s] = AnySetting]
    /\ UNCHANGED <<held, asked, opVars, appVars, callVars, events>>

\* RsHttpServer::listen and the isolate's loop: the next event of a server
\* goes to the app, which handles it while it listens.
Listening(s) == s \in listening
Newest(c, q) == \A i \in 2..Len(q) : q[i].call # c

Listen(s) ==
    /\ events[s] # <<>>
    /\ \A o \in Op : mine[o] = s => pc[o] \notin {"bound", "started"}
    /\ events' = [events EXCEPT ![s] = Tail(@)]
    /\ LET c == Head(events[s]).call IN
       handler' = IF Listening(s) /\ at[c] = s /\ handler[c] = "asking" /\ Newest(c, events[s])
                  THEN [handler EXCEPT ![c] = "told"] ELSE handler
    /\ UNCHANGED <<req, at, status, out, opVars, appVars, serverVars>>
-----------------------------------------------------------------------------
(* The calls.                                                              *)

Closed(c) == /\ at' = [at EXCEPT ![c] = None]
             /\ handler' = [handler EXCEPT ![c] = "none"]
             /\ status' = [status EXCEPT ![c] = 0]
             /\ req' = [req EXCEPT ![c] = AnyRequest]

\* The caller connects.  What it gets if nobody listens there, it gets at once.
Dial(c) ==
    /\ out[c] # "waiting"
    /\ at[c] = None
    /\ \/ \E s \in Server, r \in Requests :
            /\ Listens(s, r.port)
            /\ req' = [req EXCEPT ![c] = r]
            /\ at' = [at EXCEPT ![c] = s]
            /\ handler' = [handler EXCEPT ![c] = "accepted"]
            /\ out' = [out EXCEPT ![c] = "waiting"]
       \/ /\ \E r \in Requests : \A s \in Server : ~Listens(s, r.port)
          /\ out' = [out EXCEPT ![c] = "none"]
          /\ UNCHANGED <<req, at, handler>>
    /\ UNCHANGED <<status, opVars, appVars, serverVars, events>>

\* verify_cert_from_cert: the time; a signature is as good as its certificate.
Valid(k) == k \notin Expired

\* Mutant: the fingerprint is not compared.
ServerUnpinned(c, k) == Valid(k)

\* PinnedServerCertVerifier::verify_server_cert
ServerTrusted(c, k) == Valid(k) /\ req[c].pin \in {None, k}

\* CustomClientCertVerifier: any valid certificate will do, but there must be one.
ClientTrusted(k) == k # None /\ Valid(k)

HandsShaken(c) ==
    LET w == conf[at[c]] IN
    /\ req[c].https = w.tls
    /\ w.tls => ServerTrusted(c, w.cert) /\ ClientTrusted(req[c].cert)

\* Both sides verify before a byte of the request is sent.
Handshake(c) ==
    /\ handler[c] = "accepted"
    /\ IF HandsShaken(c)
       THEN /\ handler' = [handler EXCEPT ![c] = "handling"]
            /\ UNCHANGED <<req, at, status, out>>
       ELSE /\ Closed(c)
            /\ out' = [out EXCEPT ![c] = IF @ = "waiting" THEN "none" ELSE @]
    /\ UNCHANGED <<opVars, appVars, serverVars, events>>

Answer(c, code) ==
    /\ handler' = [handler EXCEPT ![c] = "replied"]
    /\ status' = [status EXCEPT ![c] = code]
    /\ UNCHANGED <<req, at, out>>

\* An event waits for room in the channel.
Emit(c) ==
    /\ Len(events[at[c]]) < QueueCapacity
    /\ events' = [events EXCEPT ![at[c]] = Append(@, [call |-> c, req |-> req[c]])]

\* Mutant: the claim is believed.
FingerprintClaimed(c) == TRUE

\* RequestClientInfo: the certificate the connection was shaken hands with.
ClientCert(c) == IF conf[at[c]].tls THEN req[c].cert ELSE None

\* register: over TLS only a fingerprint the certificate proves is believed;
\* the answer does not tell.
FingerprintValid(c) == ClientCert(c) \in {None, req[c].claim}

RegisterTells(c)  == req[c].good /\ FingerprintValid(c)
RegisterStatus(c) == IF req[c].good THEN 200 ELSE 400

InfoStatus == 200

ShowTells(c)  == conf[at[c]].show /\ req[c].token /\ req[c].good
ShowStatus(c) == IF ~conf[at[c]].show THEN 404
                 ELSE IF ~req[c].token THEN 403
                 ELSE IF ~req[c].good THEN 400
                 ELSE 200

\* What the app is told of.  Of the requests that wait for the user
\* ("prepare") only the wait matters here.
Tells(c) ==
    CASE req[c].kind = "register" -> RegisterTells(c)
      [] req[c].kind = "show" -> ShowTells(c)
      [] OTHER -> req[c].kind = "prepare"

StatusOf(c) ==
    CASE req[c].kind = "register" -> RegisterStatus(c)
      [] req[c].kind = "show" -> ShowStatus(c)
      [] req[c].kind = "info" -> InfoStatus
      [] OTHER -> 404

\* handle_request_inner
Handle(c) ==
    /\ handler[c] = "handling"
    /\ IF Tells(c) THEN Emit(c) ELSE UNCHANGED events
    /\ \/ req[c].kind # "prepare" /\ Answer(c, StatusOf(c))
       \/ /\ req[c].kind = "prepare"
          /\ handler' = [handler EXCEPT ![c] = "asking"]
          /\ UNCHANGED <<req, at, status, out>>
    /\ UNCHANGED <<opVars, appVars, serverVars>>

\* The user answers a request the app was told of, through the service.
AppAnswer(c) ==
    /\ handler[c] = "told"
    /\ held = at[c]
    /\ \E code \in {200, 204, 403} : Answer(c, code)
    /\ UNCHANGED <<opVars, appVars, serverVars, events>>

\* verify_cert_from_res: the server's certificate, once more.
Verified(c) == req[c].https => Valid(conf[at[c]].cert)

\* LsHttpClientV2: what the caller makes of an answer.
RegisterSucceeds(c) == status[c] = 200 /\ Verified(c)
InfoSucceeds(c)     == status[c] = 200
PrepareSucceeds(c)  == status[c] < 400 /\ Verified(c)

Outcome(c) ==
    LET ok == CASE req[c].kind = "register" -> RegisterSucceeds(c)
                [] req[c].kind = "prepare" -> PrepareSucceeds(c)
                [] OTHER -> InfoSucceeds(c)
    IN IF ok THEN "ok" ELSE "none"

Reply(c) ==
    /\ handler[c] = "replied"
    /\ Closed(c)
    /\ out' = [out EXCEPT ![c] = IF @ = "waiting" THEN Outcome(c) ELSE @]
    /\ UNCHANGED <<opVars, appVars, serverVars, events>>

\* The caller's time limit, or its cancellation token.
GiveUp(c) ==
    /\ out[c] = "waiting"
    /\ ~req[c].patient
    /\ out' = [out EXCEPT ![c] = "none"]
    /\ UNCHANGED <<req, at, handler, status, opVars, appVars, serverVars, events>>

\* The server notices that the caller has gone; the handler is dropped.
HangUp(c) ==
    /\ at[c] # None
    /\ out[c] # "waiting"
    /\ Closed(c)
    /\ UNCHANGED <<out, opVars, appVars, serverVars, events>>

\* Mutant: connections are left to end by themselves.
NotCancelled(c) == FALSE

\* cancel.cancelled(): the connections of a server that stops are dropped,
\* with the handlers on them.
Cancelled(c) == life[at[c]] = "draining"

Cut(c) ==
    /\ at[c] # None
    /\ Cancelled(c)
    /\ Closed(c)
    /\ out' = [out EXCEPT ![c] = IF @ = "waiting" THEN "none" ELSE @]
    /\ UNCHANGED <<opVars, appVars, serverVars, events>>
-----------------------------------------------------------------------------
OpStep(o) ==
    \/ CancelSubscription(o) \/ SendStop(o) \/ StopReturns(o)
    \/ StartServer(o) \/ Bind(o) \/ BindFails(o) \/ Hold(o) \/ Started(o)
    \/ StartFails(o)

ServerStep(s) == Shut(s) \/ End(s)

CallStep(c) == Handshake(c) \/ Handle(c) \/ Reply(c) \/ HangUp(c) \/ Cut(c)

Next ==
    \/ \E o \in Op : Begin(o) \/ OpStep(o)
    \/ \E s \in Server : ServerStep(s) \/ Die(s) \/ Listen(s)
    \/ \E c \in Call : CallStep(c) \/ Dial(c) \/ AppAnswer(c) \/ GiveUp(c)

Spec == Init /\ [][Next]_vars

\* The app's isolates and the tasks of the server run on, and so does a
\* connection that is cancelled. Nothing is assumed of the handlers, the loop
\* that takes the events and the callers: an operation waits for none of them.
FairSpec ==
    /\ Spec
    /\ \A o \in Op : WF_vars(OpStep(o))
    /\ \A s \in Server : WF_vars(ServerStep(s))
    /\ \A c \in Call : WF_vars(Cut(c))
-----------------------------------------------------------------------------
(* Properties.                                                             *)

TypeOK ==
    /\ goal \in [Op -> Goals] /\ pc \in [Op -> OpStates]
    /\ mine \in [Op -> Server \cup {None}] /\ retry \in [Op -> BOOLEAN]
    /\ {state, sub, held} \subseteq Server \cup {None}
    /\ listening \subseteq Server /\ published \in BOOLEAN
    /\ life \in [Server -> Lives] /\ conf \in [Server -> Settings]
    /\ asked \in [Server -> BOOLEAN]
    /\ \A s \in Server : /\ events[s] \in Seq([call : Call, req : Requests])
                          /\ Len(events[s]) <= QueueCapacity
    /\ req \in [Call -> Requests] /\ at \in [Call -> Server \cup {None}]
    /\ handler \in [Call -> Handlers] /\ status \in [Call -> Statuses]
    /\ out \in [Call -> Outcomes]
    /\ overlap \in BOOLEAN

\* Whatever address a caller was given, and however often the server behind it
\* was replaced or reconfigured, a request that is pinned to a certificate is
\* handled only by the server with that certificate; and what the app is told
\* over TLS of a device that registers was said by this device.
NobodyImpersonated ==
    /\ \A c \in Call :
        handler[c] \in {"handling", "asking", "told", "replied"} /\ req[c].https
        => req[c].pin \in {None, conf[at[c]].cert}
    /\ \A s \in Server : \A i \in DOMAIN events[s] :
        LET r == events[s][i].req IN
        r.kind = "register" /\ r.https => r.claim = r.cert

\* When the stop of a server has returned, its task has ended, no connection to
\* it is left and no handler of it runs, also while other operations are under
\* way and callers wait for the user: the port can be bound again. (A writer
\* or a clean-up task which a dropped handler leaves behind holds no
\* connection, and may run on; UploadServer has them.)
StopMeansStopped ==
    /\ TypeOK
    /\ \A s \in Server :
        asked[s] /\ (\A o \in Op : pc[o] = "stopping" => mine[o] # s)
        => life[s] = "ended" /\ AllClosed(s)

Dead(s) == life[s] \in {"draining", "ended"} /\ ~asked[s]

\* As long as the user lets every operation end before the next, and no server
\* died unnoticed, the app knows between operations which server runs: the
\* service holds the server of the state and no other serves, its events and no
\* others reach the app, and the discovery is told that one runs if one does;
\* also after starts that failed and were tried again.
StateTrue ==
    ~overlap /\ (\A s \in Server : ~Dead(s)) /\ (\A o \in Op : ~UnderWay(o)) =>
        /\ state = held /\ sub = state
        /\ published = (state # None)
        /\ {s \in Server : life[s] = "serving"} = {state} \ {None}
        /\ listening = {state} \ {None}

\* Every operation ends, also one that is to stop a server whose handlers wait
\* for the user or for callers that do not hang up; and whoever waits for an
\* answer of a server that is stopped learns that there will be none.
Ends ==
    /\ \A o \in Op : UnderWay(o) ~> ~UnderWay(o)
    /\ \A c \in Call :
        (at[c] # None /\ life[at[c]] = "draining") ~> out[c] # "waiting"

\* http_server.dart:8 says that only one server can run at a time.  The code
\* breaks this: the service checks for a server before it awaits the start of
\* its own, so that a start and a restart with another port that overlap leave
\* a server that serves and that no stop reaches.
OnlyOneServer == Cardinality({s \in Server : life[s] = "serving"}) <= 1

\* server_provider.dart:24 says that the state is null if the server is not
\* running.  The code breaks this: nobody tells the app of a server task that
\* ends by itself.
StateNullIfDown ==
    (\A o \in Op : ~UnderWay(o)) /\ state # None => life[state] = "serving"
=============================================================================
