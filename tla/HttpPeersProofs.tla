---------------------------- MODULE HttpPeersProofs ----------------------------
(***************************************************************************)
(* Theorems about HttpPeers, for any operations, servers, certificates and *)
(* calls.                                                                  *)
(***************************************************************************)
EXTENDS HttpPeers, TLAPS

\* Calls whose connection was shaken hands on.
Past == {"handling", "asking", "told", "replied"}

EventsAreSeqs == events \in [Server -> Seq([call : Call, req : Requests])]

\* A connection lasts no longer than the task of its server, so the server is
\* not reconfigured under it.
Connected == \A c \in Call :
    /\ at[c] = None => handler[c] = "none"
    /\ at[c] # None => life[at[c]] \in {"serving", "draining"}

\* What the handshake established holds until the connection is closed.
Shaken == \A c \in Call :
    handler[c] \in Past =>
        /\ req[c].https = conf[at[c]].tls
        /\ req[c].https => req[c].pin \in {None, conf[at[c]].cert} /\ req[c].cert # None

\* What the app is told of over TLS is proved by the certificate.
Proved == \A s \in Server : \A i \in DOMAIN events[s] :
    LET r == events[s][i].req IN r.kind = "register" /\ r.https => r.claim = r.cert

\* Servers that are held, being started or asked to stop have been bound.
Bound ==
    /\ \A o \in Op : pc[o] \in {"bound", "started"} => mine[o] \in Server /\ life[mine[o]] # "unused"
    /\ held # None => life[held] # "unused"
    /\ \A s \in Server : asked[s] => life[s] # "unused"

\* A server that is asked to stop is waited for until it has ended.
Awaited == \A s \in Server :
    asked[s] => life[s] = "ended" \/ \E o \in Op : pc[o] = "stopping" /\ mine[o] = s

\* No server serves but s, if any.
NoneBut(s) == \A u \in Server : life[u] = "serving" => u = s

Runs(s) == NoneBut(s) /\ (s # None => life[s] # "unused" /\ ~asked[s])

\* The app and the service agree on the server that runs.
Settled ==
    /\ state = held /\ sub = state /\ Runs(state)
    /\ published = (state # None)
    /\ listening = {state} \ {None}

\* Nothing is held, and nothing of a server reaches the app.
Idle == held = None /\ sub = None /\ listening = {}

\* What an operation has done so far, if it is the only one.
Progress(o) ==
    /\ pc[o] \in {"stop", "start"} => Settled
    /\ pc[o] = "cancelled" =>
        /\ state = held /\ sub = state /\ Runs(state)
        /\ published = (state # None) /\ listening = {}
    /\ pc[o] = "stopping" =>
        Idle /\ mine[o] = state /\ NoneBut(state) /\ published = (state # None)
    /\ pc[o] \in {"binding", "failed"} => Idle /\ state = None /\ NoneBut(None)
    /\ pc[o] = "bound" => Idle /\ state = None /\ Runs(mine[o])
    /\ pc[o] = "started" =>
        /\ held = mine[o] /\ sub = None /\ listening = {}
        /\ state = None /\ Runs(mine[o])

OneByOne ==
    ~overlap =>
        /\ \A o, q \in Op : UnderWay(o) /\ UnderWay(q) => o = q
        /\ (\A o \in Op : ~UnderWay(o)) => Settled
        /\ \A o \in Op : Progress(o)

IInv ==
    /\ TypeOK /\ EventsAreSeqs /\ Connected /\ Shaken /\ Proved
    /\ Bound /\ Awaited /\ OneByOne
-----------------------------------------------------------------------------
\* The values that stand for "forgotten" are values.
LEMMA AnyValues == AnyGoal \in Goals /\ AnyRequest \in Requests /\ AnySetting \in Settings
<1>1. \E g \in Goals : TRUE
  BY ConstantsAssumption
<1>2. AnyGoal \in Goals
  BY <1>1 DEF AnyGoal
<1>3. AnyRequest \in Requests
  <2>1. \E r \in Requests : TRUE
    BY ConstantsAssumption
  <2> QED BY <2>1 DEF AnyRequest
<1>4. AnySetting \in Settings
  <2>1. AnyGoal.setting \in Settings
    BY <1>2 DEF Settings
  <2> QED BY <2>1 DEF AnySetting
<1> QED BY <1>2, <1>3, <1>4

LEMMA InitInv == Init => IInv
<1> SUFFICES ASSUME Init PROVE IInv
  OBVIOUS
<1>1. TypeOK
  <2>1. <<>> \in Seq([call : Call, req : Requests]) /\ Len(<<>>) = 0 /\ 0 <= QueueCapacity
    BY ConstantsAssumption
  <2>2. \A s \in Server : events[s] = <<>>
    BY DEF Init
  <2> QED BY <2>1, <2>2, AnyValues, ConstantsAssumption
          DEF Init, TypeOK, OpStates, Lives, Handlers, Statuses, Outcomes
<1>2. EventsAreSeqs /\ Proved
  BY DEF Init, EventsAreSeqs, Proved
<1>3. Connected /\ Shaken /\ Bound /\ Awaited
  BY DEF Init, Connected, Shaken, Bound, Awaited, Past
<1>4. OneByOne
  <2>1. \A o \in Op : pc[o] = "idle" /\ ~UnderWay(o)
    BY DEF Init, UnderWay
  <2>2. Settled
    BY DEF Init, Settled, Runs, NoneBut
  <2> QED BY <2>1, <2>2 DEF OneByOne, Progress
<1> QED BY <1>1, <1>2, <1>3, <1>4 DEF IInv

-----------------------------------------------------------------------------
(* The operations.                                                         *)

\* An operation changes its own row only, and a server only when it binds it.
LEMMA OpFrame ==
    ASSUME TypeOK, NEW o \in Op, Begin(o) \/ OpStep(o)
    PROVE  /\ UNCHANGED <<callVars, events>>
           /\ \A q \in Op \ {o} : pc'[q] = pc[q] /\ mine'[q] = mine[q]
           /\ \/ UNCHANGED <<life, conf>>
              \/ \E s \in Server, w \in Settings :
                    /\ life[s] = "unused"
                    /\ life' = [life EXCEPT ![s] = "serving"]
                    /\ conf' = [conf EXCEPT ![s] = w]
<1>1. CASE ~Bind(o)
  BY <1>1 DEF OpStep, Begin, CancelSubscription, SendStop, StopReturns, StartServer, BindFails,
              Hold, Started, StartFails, Finish, GoOn, appVars, serverVars, TypeOK
<1>2. CASE Bind(o)
  <2>1. goal[o].setting \in Settings
    BY DEF TypeOK, Settings
  <2> QED BY <1>2, <2>1 DEF Bind, TypeOK
<1> QED BY <1>1, <1>2

LEMMA OpKeepsCalls ==
    ASSUME IInv, NEW o \in Op, Begin(o) \/ OpStep(o)
    PROVE  EventsAreSeqs' /\ Connected' /\ Shaken' /\ Proved'
<1> USE DEF IInv
<1>1. UNCHANGED <<req, at, handler, events>>
  BY OpFrame DEF callVars
<1>2. \A c \in Call : at[c] # None => at[c] \in Server
  BY DEF TypeOK
<1>3. \A s \in Server : life[s] # "unused" => life'[s] = life[s] /\ conf'[s] = conf[s]
  BY OpFrame DEF TypeOK
<1>4. \A c \in Call : at[c] # None => life'[at[c]] = life[at[c]] /\ conf'[at[c]] = conf[at[c]]
  BY <1>2, <1>3 DEF Connected
<1>5. \A c \in Call : handler[c] \in Past => at[c] # None
  BY DEF Connected, Past
<1> QED BY <1>1, <1>4, <1>5 DEF EventsAreSeqs, Connected, Shaken, Proved

LEMMA OpTypes ==
    ASSUME TypeOK, Bound, NEW o \in Op, Begin(o) \/ OpStep(o)
    PROVE  TypeOK'
<1>1. /\ req' \in [Call -> Requests] /\ at' \in [Call -> Server \cup {None}]
      /\ handler' \in [Call -> Handlers] /\ status' \in [Call -> Statuses]
      /\ out' \in [Call -> Outcomes]
      /\ \A s \in Server : /\ events'[s] \in Seq([call : Call, req : Requests])
                            /\ Len(events'[s]) <= QueueCapacity
  BY OpFrame DEF TypeOK, callVars
<1>2. life' \in [Server -> Lives] /\ conf' \in [Server -> Settings]
  BY OpFrame DEF TypeOK, Lives
<1>3. goal' \in [Op -> Goals] /\ pc' \in [Op -> OpStates] /\ retry' \in [Op -> BOOLEAN]
  BY AnyValues, ZenonT(60) DEF Begin, OpStep, CancelSubscription, SendStop, StopReturns, StartServer, Bind,
        BindFails, Hold, Started, StartFails, Finish, GoOn, TypeOK, OpStates, opVars
<1>4. mine' \in [Op -> Server \cup {None}] /\ asked' \in [Server -> BOOLEAN]
  <2>1. CASE SendStop(o)
    <3>1. \/ mine' = [mine EXCEPT ![o] = None] /\ asked' = asked
          \/ held # None /\ mine' = [mine EXCEPT ![o] = held] /\ asked' = [asked EXCEPT ![held] = TRUE]
      BY <2>1 DEF SendStop
    <3>2. /\ mine \in [Op -> Server \cup {None}] /\ asked \in [Server -> BOOLEAN]
          /\ held \in Server \cup {None}
      BY DEF TypeOK
    <3>3. mine' \in [Op -> Server \cup {None}]
      BY <3>1, <3>2
    <3>4. asked' \in [Server -> BOOLEAN]
      BY <3>1, <3>2
    <3> QED BY <3>3, <3>4
  <2>2. CASE Bind(o)
    BY <2>2 DEF Bind, TypeOK
  <2>3. CASE ~SendStop(o) /\ ~Bind(o)
    <3>1. mine' \in {mine, [mine EXCEPT ![o] = None]} /\ asked' = asked
      BY <2>3 DEF Begin, OpStep, CancelSubscription, StopReturns, StartServer,
            BindFails, Hold, Started, StartFails, serverVars
    <3>2. mine \in [Op -> Server \cup {None}] /\ asked \in [Server -> BOOLEAN]
      BY DEF TypeOK
    <3> QED BY <3>1, <3>2
  <2> QED BY <2>1, <2>2, <2>3
<1>5. {state', sub', held'} \subseteq Server \cup {None} /\ listening' \subseteq Server
  <2>1. pc[o] \in {"bound", "started"} => mine[o] \in Server
    BY DEF Bound
  <2>2. state' \in {state, None} \/ (pc[o] = "started" /\ state' = mine[o])
    BY DEF Begin, OpStep, CancelSubscription, SendStop, StopReturns, StartServer, Bind,
           BindFails, Hold, Started, StartFails, appVars
  <2>3. sub' \in {sub, None} \/ (pc[o] = "started" /\ sub' = mine[o])
    BY DEF Begin, OpStep, CancelSubscription, SendStop, StopReturns, StartServer, Bind,
           BindFails, Hold, Started, StartFails, appVars
  <2>4. held' \in {held, None} \/ (pc[o] = "bound" /\ held' = mine[o])
    BY DEF Begin, OpStep, CancelSubscription, SendStop, StopReturns, StartServer, Bind,
           BindFails, Hold, Started, StartFails, serverVars
  <2>5. \/ listening' \in {listening, listening \ {sub}}
        \/ pc[o] = "started" /\ listening' = listening \cup {mine[o]}
    BY DEF Begin, OpStep, CancelSubscription, SendStop, StopReturns, StartServer, Bind,
           BindFails, Hold, Started, StartFails, appVars
  <2>6. state' \in Server \cup {None} /\ sub' \in Server \cup {None} /\ held' \in Server \cup {None}
    BY <2>1, <2>2, <2>3, <2>4 DEF TypeOK
  <2>7. listening' \subseteq Server
    BY <2>1, <2>5 DEF TypeOK
  <2> QED BY <2>6, <2>7
<1>6. published' \in BOOLEAN /\ overlap' \in BOOLEAN
  BY DEF Begin, OpStep, CancelSubscription, SendStop, StopReturns, StartServer, Bind,
        BindFails, Hold, Started, StartFails, TypeOK, appVars
<1> QED BY <1>1, <1>2, <1>3, <1>4, <1>5, <1>6 DEF TypeOK

LEMMA OpKeepsBound ==
    ASSUME TypeOK, Bound, Awaited, NEW o \in Op, Begin(o) \/ OpStep(o)
    PROVE  Bound' /\ Awaited'
<1>1. \A s \in Server : life[s] # "unused" => life'[s] = life[s]
  BY OpFrame DEF TypeOK
<1>2. \A q \in Op \ {o} : pc'[q] = pc[q] /\ mine'[q] = mine[q]
  BY OpFrame
<1>3. CASE Begin(o)
  <2>1. pc[o] = "idle" /\ pc'[o] \in {"start", "stop"} /\ UNCHANGED <<mine, held, life, asked>>
    BY <1>3 DEF Begin, serverVars, TypeOK
  <2> QED BY <1>2, <2>1 DEF Bound, Awaited
<1>4. CASE CancelSubscription(o) \/ StartServer(o) \/ BindFails(o) \/ StartFails(o)
  <2>1. /\ pc[o] \in {"stop", "start", "binding", "failed"}
        /\ pc'[o] \in {"cancelled", "done", "binding", "failed", "stop"}
        /\ UNCHANGED <<mine, held, life, asked>>
    BY <1>4 DEF CancelSubscription, StartServer, BindFails, StartFails, Finish, GoOn, serverVars, TypeOK
  <2> QED BY <1>2, <2>1 DEF Bound, Awaited
<1>5. CASE SendStop(o)
  <2>1. /\ pc[o] = "cancelled" /\ pc'[o] = "stopping" /\ held' = None /\ UNCHANGED life
        /\ \/ held # None /\ mine'[o] = held /\ asked' = [asked EXCEPT ![held] = TRUE]
           \/ asked' = asked
    BY <1>5 DEF SendStop, TypeOK
  <2>2. \A s \in Server : asked'[s] => asked[s] \/ (s = held /\ mine'[o] = s)
    BY <2>1 DEF TypeOK
  <2> QED BY <1>2, <2>1, <2>2 DEF Bound, Awaited
<1>6. CASE StopReturns(o)
  <2>1. /\ pc[o] = "stopping" /\ pc'[o] \in {"done", "start"} /\ UNCHANGED <<held, life, asked>>
        /\ mine[o] # None => life[mine[o]] = "ended"
    BY <1>6 DEF StopReturns, Gone, Finish, GoOn, serverVars, TypeOK
  <2> QED BY <1>2, <2>1, ConstantsAssumption DEF Bound, Awaited
<1>7. CASE Bind(o)
  <2>1. /\ pc[o] = "binding" /\ pc'[o] = "bound" /\ UNCHANGED <<held, asked>>
        /\ mine'[o] \in Server /\ life'[mine'[o]] = "serving"
    BY <1>7 DEF Bind, TypeOK
  <2>2. \A s \in Server : life[s] # "unused" => life'[s] # "unused"
    <3> SUFFICES ASSUME NEW s \in Server, life[s] # "unused" PROVE life'[s] # "unused"
      OBVIOUS
    <3>1. life'[s] = life[s]
      BY <1>1
    <3> QED BY <3>1
  <2>3. held \in Server \cup {None} /\ \A q \in Op : mine[q] \in Server \cup {None}
    BY DEF TypeOK
  <2>4. \A q \in Op : pc'[q] \in {"bound", "started"} =>
            mine'[q] \in Server /\ life'[mine'[q]] # "unused"
    BY <1>2, <2>1, <2>2 DEF Bound
  <2>5. Bound'
    BY <2>1, <2>2, <2>3, <2>4 DEF Bound
  <2>6. \A q \in Op : pc[q] = "stopping" => pc'[q] = "stopping" /\ mine'[q] = mine[q]
    BY <1>2, <2>1
  <2>7. ASSUME NEW s \in Server, asked'[s]
        PROVE  \/ life'[s] = "ended"
               \/ \E q \in Op : pc'[q] = "stopping" /\ mine'[q] = s
    <3>1. \/ life[s] = "ended"
          \/ \E q \in Op : pc[q] = "stopping" /\ mine[q] = s
      BY <2>1, <2>7 DEF Awaited
    <3>2. CASE life[s] = "ended"
      BY <1>1, <3>2
    <3>3. CASE \E q \in Op : pc[q] = "stopping" /\ mine[q] = s
      <4> PICK q \in Op : pc[q] = "stopping" /\ mine[q] = s
        BY <3>3
      <4>1. pc'[q] = "stopping" /\ mine'[q] = s
        BY <2>6
      <4> QED BY <4>1
    <3> QED BY <3>1, <3>2, <3>3
  <2>8. Awaited'
    BY <2>7 DEF Awaited
  <2> QED BY <2>5, <2>8
<1>8. CASE Hold(o)
  <2>1. /\ pc[o] = "bound" /\ pc'[o] = "started" /\ held' = mine[o]
        /\ UNCHANGED <<mine, life, asked>>
    BY <1>8 DEF Hold, TypeOK
  <2> QED BY <1>2, <2>1 DEF Bound, Awaited
<1>9. CASE Started(o)
  <2>1. pc[o] = "started" /\ pc'[o] = "done" /\ UNCHANGED <<held, life, asked>>
    BY <1>9 DEF Started, Finish, serverVars, TypeOK
  <2> QED BY <1>2, <2>1 DEF Bound, Awaited
<1> QED BY <1>3, <1>4, <1>5, <1>6, <1>7, <1>8, <1>9 DEF OpStep

LEMMA OpOneByOne ==
    ASSUME TypeOK, Bound, OneByOne, NEW o \in Op, Begin(o) \/ OpStep(o)
    PROVE  OneByOne'
<1> SUFFICES ASSUME ~overlap'
             PROVE  /\ \A p, q \in Op : UnderWay(p)' /\ UnderWay(q)' => p = q
                    /\ (\A p \in Op : ~UnderWay(p)') => Settled'
                    /\ \A p \in Op : Progress(p)'
  BY DEF OneByOne
<1>1. ~overlap
  BY DEF Begin, OpStep, CancelSubscription, SendStop, StopReturns, StartServer, Bind,
         BindFails, Hold, Started, StartFails, TypeOK
<1>2. \A q \in Op \ {o} : ~UnderWay(q)
  <2>1. CASE Begin(o)
    BY <2>1 DEF Begin
  <2>2. CASE OpStep(o)
    <3>1. UnderWay(o)
      BY <2>2 DEF OpStep, CancelSubscription, SendStop, StopReturns, StartServer, Bind,
                  BindFails, Hold, Started, StartFails, UnderWay
    <3> QED BY <1>1, <3>1 DEF OneByOne
  <2> QED BY <2>1, <2>2
<1>3. \A q \in Op \ {o} : pc'[q] \in {"idle", "done"}
  BY <1>2, OpFrame DEF UnderWay
<1>4. \A q \in Op \ {o} : Progress(q)' /\ ~UnderWay(q)'
  BY <1>3 DEF Progress, UnderWay
<1>5. Progress(o) /\ ((\A p \in Op : ~UnderWay(p)) => Settled)
  BY <1>1 DEF OneByOne
<1> SUFFICES Progress(o)' /\ (~UnderWay(o)' => Settled')
  BY <1>4
<1>6. CASE Begin(o)
  <2>1. Settled
    <3>1. ~UnderWay(o)
      BY <1>6 DEF Begin, UnderWay
    <3> QED BY <1>2, <1>5, <3>1
  <2>2. pc'[o] \in {"stop", "start"} /\ UNCHANGED <<state, sub, held, published, listening, life, asked>>
    BY <1>6 DEF Begin, appVars, serverVars, TypeOK
  <2> QED BY <2>1, <2>2 DEF Progress, Settled, Runs, NoneBut, UnderWay
<1>7. CASE CancelSubscription(o)
  <2>1. pc[o] = "stop" /\ pc'[o] = "cancelled"
    BY <1>7 DEF CancelSubscription, TypeOK
  <2>2. UNCHANGED <<state, sub, held, published, life, asked>> /\ listening' = listening \ {sub}
    BY <1>7 DEF CancelSubscription, serverVars
  <2>3. Settled
    BY <1>5, <2>1 DEF Progress
  <2> QED BY <2>1, <2>2, <2>3 DEF Progress, Settled, Runs, NoneBut, UnderWay
<1>8. CASE SendStop(o)
  <2>1. pc[o] = "cancelled" /\ pc'[o] = "stopping" /\ sub' = None /\ held' = None
    BY <1>8 DEF SendStop, TypeOK
  <2>2. state = held /\ Runs(state) /\ published = (state # None) /\ listening = {}
    BY <1>5, <2>1 DEF Progress
  <2>3. mine'[o] = state /\ UNCHANGED <<state, listening, published, life>>
    BY <1>8, <2>2 DEF SendStop, Runs, TypeOK
  <2> QED BY <2>1, <2>2, <2>3 DEF Progress, Idle, Runs, NoneBut, UnderWay
<1>9. CASE StopReturns(o)
  <2>1. pc[o] = "stopping" /\ pc'[o] \in {"done", "start"} /\ state' = None
    BY <1>9 DEF StopReturns, Finish, GoOn, TypeOK
  <2>2. Idle /\ mine[o] = state /\ NoneBut(state) /\ published = (state # None)
    BY <1>5, <2>1 DEF Progress
  <2>3. NoneBut(None) /\ UNCHANGED <<sub, listening, held, life, asked>>
    BY <1>9, <2>2 DEF StopReturns, Gone, NoneBut, serverVars
  <2>4. published' = FALSE
    BY <1>9, <2>2 DEF StopReturns
  <2>5. Settled'
    BY <2>1, <2>2, <2>3, <2>4 DEF Settled, Runs, NoneBut, Idle
  <2> QED BY <2>1, <2>5 DEF Progress
<1>10. CASE StartServer(o)
  <2>1. pc[o] = "start" /\ UNCHANGED <<state, sub, listening, held, life, asked>>
    BY <1>10 DEF StartServer, serverVars
  <2>2. Settled
    BY <1>5, <2>1 DEF Progress
  <2>3. CASE state # None
    <3>1. pc'[o] = "done" /\ published' = published
      BY <1>10, <2>3 DEF StartServer, Finish, TypeOK
    <3> QED BY <2>1, <2>2, <3>1 DEF Settled, Runs, NoneBut, Progress
  <2>4. CASE state = None
    <3>1. pc'[o] \in {"binding", "failed"}
      BY <1>10, <2>4 DEF StartServer, GoOn, TypeOK
    <3> QED BY <2>1, <2>2, <2>4, <3>1 DEF Settled, Runs, NoneBut, Idle, Progress, UnderWay
  <2> QED BY <2>3, <2>4
<1>11. CASE Bind(o)
  <2>1. pc[o] = "binding" /\ pc'[o] = "bound" /\ UNCHANGED <<state, sub, listening, held, asked>>
    BY <1>11 DEF Bind, appVars, TypeOK
  <2>2. Idle /\ state = None /\ NoneBut(None)
    BY <1>5, <2>1 DEF Progress
  <2>3. PICK s \in Server : /\ life[s] = "unused" /\ mine'[o] = s
                            /\ life' = [life EXCEPT ![s] = "serving"]
    BY <1>11 DEF Bind, TypeOK
  <2>4. \A u \in Server : life[u] # "serving"
    BY <2>2, ConstantsAssumption DEF NoneBut
  <2>5. Runs(mine[o])'
    BY <2>1, <2>3, <2>4 DEF Runs, NoneBut, Bound, TypeOK
  <2> QED BY <2>1, <2>2, <2>5 DEF Progress, Idle, UnderWay
<1>12. CASE BindFails(o)
  <2>1. /\ pc[o] = "binding" /\ pc'[o] = "failed"
        /\ UNCHANGED <<state, sub, listening, held, life>>
    BY <1>12 DEF BindFails, appVars, serverVars, TypeOK
  <2> QED BY <1>5, <2>1 DEF Progress, Idle, NoneBut, UnderWay
<1>13. CASE Hold(o)
  <2>1. /\ pc[o] = "bound" /\ pc'[o] = "started" /\ held' = mine[o]
        /\ UNCHANGED <<mine, state, sub, listening, life, asked>>
    BY <1>13 DEF Hold, appVars, TypeOK
  <2> QED BY <1>5, <2>1 DEF Progress, Idle, Runs, NoneBut, UnderWay
<1>14. CASE Started(o)
  <2>1. /\ pc[o] = "started" /\ pc'[o] = "done"
        /\ sub' = mine[o] /\ state' = mine[o] /\ published' = TRUE
        /\ listening' = listening \cup {mine[o]} /\ UNCHANGED <<held, life, asked>>
    BY <1>14 DEF Started, Finish, serverVars, TypeOK
  <2>2. held = mine[o] /\ listening = {} /\ Runs(mine[o]) /\ mine[o] # None
    BY <1>5, <2>1, ConstantsAssumption DEF Progress, Bound
  <2>3. Settled'
    BY <2>1, <2>2 DEF Settled, Runs, NoneBut
  <2> QED BY <2>1, <2>3 DEF Progress
<1>15. CASE StartFails(o)
  <2>1. /\ pc[o] = "failed" /\ pc'[o] \in {"stop", "done"} /\ published' = FALSE
        /\ UNCHANGED <<state, sub, listening, held, life>>
    BY <1>15 DEF StartFails, Finish, serverVars, TypeOK
  <2>2. Idle /\ state = None /\ NoneBut(None)
    BY <1>5, <2>1 DEF Progress
  <2>3. Settled'
    BY <2>1, <2>2 DEF Settled, Runs, NoneBut, Idle
  <2> QED BY <2>1, <2>3 DEF Progress
<1> QED BY <1>6, <1>7, <1>8, <1>9, <1>10, <1>11, <1>12, <1>13, <1>14, <1>15 DEF OpStep

LEMMA OpInv == ASSUME IInv, NEW o \in Op, Begin(o) \/ OpStep(o) PROVE IInv'
<1> QED BY OpKeepsCalls, OpTypes, OpKeepsBound, OpOneByOne DEF IInv

-----------------------------------------------------------------------------
(* The servers.                                                            *)

\* A server only goes on: from serving to draining, from draining to ended.
LEMMA ServerFrame ==
    ASSUME TypeOK, NEW s \in Server, ServerStep(s) \/ Die(s)
    PROVE  /\ UNCHANGED <<opVars, appVars, callVars, events, held, asked>>
           /\ life' \in [Server -> Lives] /\ conf' \in [Server -> Settings]
           /\ \A u \in Server :
                /\ life'[u] = "unused" <=> life[u] = "unused"
                /\ life'[u] = "serving" => life[u] = "serving"
                /\ life[u] = "ended" => life'[u] = "ended"
                /\ life[u] \in {"serving", "draining"} /\ ~AllClosed(u)
                   => life'[u] \in {"serving", "draining"} /\ conf'[u] = conf[u]
<1>1. CASE Shut(s) \/ Die(s)
  BY <1>1 DEF Shut, Die, TypeOK, Lives
<1>2. CASE End(s)
  BY <1>2, AnyValues DEF End, TypeOK, Lives
<1> QED BY <1>1, <1>2 DEF ServerStep

LEMMA ServerInv == ASSUME IInv, NEW s \in Server, ServerStep(s) \/ Die(s) PROVE IInv'
<1> USE DEF IInv
<1>1. UNCHANGED <<opVars, appVars, callVars, events, held, asked>>
  BY ServerFrame
<1>2. TypeOK'
  BY ServerFrame DEF TypeOK, opVars, appVars, callVars
<1>3. \A c \in Call : at[c] # None =>
        /\ at[c] \in Server /\ life'[at[c]] \in {"serving", "draining"}
        /\ conf'[at[c]] = conf[at[c]]
  <2> SUFFICES ASSUME NEW c \in Call, at[c] # None
               PROVE  /\ at[c] \in Server /\ life'[at[c]] \in {"serving", "draining"}
                      /\ conf'[at[c]] = conf[at[c]]
    OBVIOUS
  <2>1. at[c] \in Server /\ ~AllClosed(at[c]) /\ life[at[c]] \in {"serving", "draining"}
    BY DEF TypeOK, AllClosed, Connected
  <2> QED BY <2>1, ServerFrame
<1>4. Connected' /\ Shaken' /\ EventsAreSeqs' /\ Proved'
  BY <1>1, <1>3, ZenonT(60) DEF Connected, Shaken, EventsAreSeqs, Proved, callVars, Past
<1>5. Bound' /\ Awaited'
  <2>1. held \in Server \cup {None}
    BY DEF TypeOK
  <2> QED BY <1>1, <2>1, ServerFrame DEF Bound, Awaited, opVars
<1>6. OneByOne'
  <2>1. \A x \in Server \cup {None} : (NoneBut(x) => NoneBut(x)') /\ (Runs(x) => Runs(x)')
    BY <1>1, ServerFrame DEF NoneBut, Runs
  <2>2. state \in Server \cup {None} /\ \A o \in Op : mine[o] \in Server \cup {None}
    BY DEF TypeOK
  <2>3. Settled => Settled'
    BY <1>1, <2>1, <2>2 DEF Settled, appVars
  <2>4. ASSUME NEW o \in Op, Progress(o) PROVE Progress(o)'
    BY <1>1, <2>1, <2>2, <2>3, <2>4 DEF Progress, Idle, opVars, appVars
  <2> QED BY <1>1, <2>3, <2>4 DEF OneByOne, UnderWay, opVars
<1> QED BY <1>2, <1>4, <1>5, <1>6

\* What does not depend on calls and events is kept by their steps.
LEMMA CallFrame ==
    ASSUME Bound, Awaited, OneByOne, UNCHANGED <<opVars, appVars, serverVars>>
    PROVE  Bound' /\ Awaited' /\ OneByOne'
<1> USE DEF opVars, appVars, serverVars
<1>1. Bound' /\ Awaited'
  BY DEF Bound, Awaited
<1>2. Settled => Settled'
  BY DEF Settled, Runs, NoneBut
<1>3. ASSUME NEW o \in Op, Progress(o) PROVE Progress(o)'
  BY <1>2, <1>3 DEF Progress, Idle, Runs, NoneBut
<1> QED BY <1>1, <1>2, <1>3 DEF OneByOne, UnderWay

LEMMA TailSeq ==
    ASSUME NEW S, NEW q \in Seq(S), q # <<>>
    PROVE  /\ Head(q) \in S /\ Tail(q) \in Seq(S) /\ Len(Tail(q)) <= Len(q)
           /\ \A i \in DOMAIN Tail(q) : i + 1 \in DOMAIN q /\ Tail(q)[i] = q[i + 1]
  OBVIOUS

LEMMA ListenInv == ASSUME IInv, NEW s \in Server, Listen(s) PROVE IInv'
<1> USE DEF IInv
<1> DEFINE Event == [call : Call, req : Requests]
<1>1. /\ UNCHANGED <<req, at, status, out, opVars, appVars, serverVars>>
      /\ events[s] # <<>> /\ events' = [events EXCEPT ![s] = Tail(events[s])]
      /\ \/ handler' = handler
         \/ \E c \in Call : at[c] = s /\ handler[c] = "asking" /\ handler' = [handler EXCEPT ![c] = "told"]
  <2>1. events[s] \in Seq(Event) /\ events[s] # <<>>
    BY DEF EventsAreSeqs, Listen
  <2>2. Head(events[s]) \in Event
    BY <2>1, TailSeq
  <2>3. Head(events[s]).call \in Call
    BY <2>2
  <2> QED BY <2>3 DEF Listen
<1>2. /\ Tail(events[s]) \in Seq(Event) /\ Len(Tail(events[s])) <= Len(events[s])
      /\ \A i \in DOMAIN Tail(events[s]) :
            i + 1 \in DOMAIN events[s] /\ Tail(events[s])[i] = events[s][i + 1]
  <2>1. events[s] \in Seq(Event) /\ events[s] # <<>>
    BY <1>1 DEF EventsAreSeqs
  <2> HIDE DEF Event
  <2> QED BY <2>1, TailSeq
<1>3. EventsAreSeqs' /\ \A u \in Server : Len(events'[u]) <= QueueCapacity
  <2>1. Len(Tail(events[s])) <= QueueCapacity
    <3>1. Len(events[s]) \in Nat /\ Len(Tail(events[s])) \in Nat /\ Len(events[s]) <= QueueCapacity
      BY <1>2 DEF TypeOK, EventsAreSeqs
    <3> QED BY <1>2, <3>1, ConstantsAssumption
  <2> QED BY <1>1, <1>2, <2>1 DEF EventsAreSeqs, TypeOK
<1>4. Proved'
  BY <1>1, <1>2 DEF Proved, EventsAreSeqs
<1>5. TypeOK' /\ Connected' /\ Shaken'
  <2>1. handler' \in [Call -> Handlers]
    BY <1>1 DEF TypeOK, Handlers
  <2>2. \A c \in Call : handler'[c] = handler[c] \/ (at[c] = s /\ handler[c] = "asking" /\ handler'[c] = "told")
    BY <1>1 DEF TypeOK
  <2>3. TypeOK'
    BY <1>1, <1>3, <2>1 DEF TypeOK, EventsAreSeqs, opVars, appVars, serverVars
  <2>4. Connected' /\ Shaken'
    BY <1>1, <2>2, ConstantsAssumption DEF Connected, Shaken, serverVars, Past
  <2> QED BY <2>3, <2>4
<1> QED BY <1>1, <1>3, <1>4, <1>5, CallFrame

-----------------------------------------------------------------------------
(* The calls.                                                              *)

\* A step of a call changes its own row only.
LEMMA CallTypes ==
    ASSUME IInv, NEW c \in Call, CallStep(c) \/ Dial(c) \/ AppAnswer(c) \/ GiveUp(c)
    PROVE  /\ UNCHANGED <<opVars, appVars, serverVars>>
           /\ req' \in [Call -> Requests] /\ at' \in [Call -> Server \cup {None}]
           /\ handler' \in [Call -> Handlers] /\ status' \in [Call -> Statuses]
           /\ out' \in [Call -> Outcomes]
           /\ \A d \in Call \ {c} : req'[d] = req[d] /\ at'[d] = at[d] /\ handler'[d] = handler[d]
<1> USE DEF IInv
<1>1. ASSUME Closed(c)
      PROVE  /\ req' \in [Call -> Requests] /\ at' \in [Call -> Server \cup {None}]
             /\ handler' \in [Call -> Handlers] /\ status' \in [Call -> Statuses]
             /\ \A d \in Call \ {c} : req'[d] = req[d] /\ at'[d] = at[d] /\ handler'[d] = handler[d]
  BY <1>1, AnyValues DEF Closed, TypeOK, Handlers, Statuses
<1>2. CASE Handshake(c)
  BY <1>1, <1>2 DEF Handshake, TypeOK, Handlers, Outcomes
<1>3. CASE Handle(c)
  <2>1. StatusOf(c) \in Statuses
    BY DEF StatusOf, RegisterStatus, ShowStatus, InfoStatus, Statuses
  <2> QED BY <1>3, <2>1 DEF Handle, Answer, TypeOK, Handlers
<1>4. CASE Reply(c)
  <2>1. Outcome(c) \in Outcomes
    BY DEF Outcome, Outcomes
  <2> QED BY <1>1, <1>4, <2>1 DEF Reply, TypeOK
<1>5. CASE HangUp(c) \/ Cut(c)
  BY <1>1, <1>5 DEF HangUp, Cut, TypeOK, Outcomes
<1>6. CASE Dial(c)
  <2>1. CASE \E s \in Server, r \in Requests :
               /\ req' = [req EXCEPT ![c] = r]
               /\ at' = [at EXCEPT ![c] = s]
               /\ handler' = [handler EXCEPT ![c] = "accepted"]
               /\ out' = [out EXCEPT ![c] = "waiting"]
    BY <1>6, <2>1 DEF Dial, TypeOK, Handlers, Outcomes
  <2>2. CASE UNCHANGED <<req, at, handler>> /\ out' = [out EXCEPT ![c] = "none"]
    BY <1>6, <2>2 DEF Dial, TypeOK, Outcomes
  <2> QED BY <1>6, <2>1, <2>2 DEF Dial
<1>7. CASE AppAnswer(c) \/ GiveUp(c)
  BY <1>7 DEF AppAnswer, Answer, GiveUp, TypeOK, Handlers, Statuses, Outcomes
<1> QED BY <1>2, <1>3, <1>4, <1>5, <1>6, <1>7 DEF CallStep

\* The queues change by the event of a request that was shaken hands on.
LEMMA EmitProved ==
    ASSUME IInv, NEW c \in Call, CallStep(c) \/ Dial(c) \/ AppAnswer(c) \/ GiveUp(c)
    PROVE  /\ EventsAreSeqs' /\ Proved'
           /\ \A s \in Server : Len(events'[s]) <= QueueCapacity
<1> USE DEF IInv
<1> DEFINE Event == [call : Call, req : Requests]
           e == [call |-> c, req |-> req[c]]
<1>1. CASE UNCHANGED events
  BY <1>1 DEF EventsAreSeqs, Proved, TypeOK
<1>2. CASE Handle(c) /\ Tells(c)
  <2>1. handler[c] = "handling" /\ Emit(c)
    BY <1>2 DEF Handle
  <2>2. at[c] \in Server
    BY <2>1 DEF Connected, TypeOK
  <2>3. e \in Event /\ (e.req.kind = "register" /\ e.req.https => e.req.claim = e.req.cert)
    <3>1. e \in Event
      BY DEF TypeOK
    <3>2. ASSUME req[c].kind = "register", req[c].https PROVE req[c].claim = req[c].cert
      <4>1. FingerprintValid(c)
        BY <1>2, <3>2 DEF Tells, RegisterTells
      <4>2. conf[at[c]].tls /\ req[c].cert # None
        BY <2>1, <3>2 DEF Shaken, Past
      <4> QED BY <4>1, <4>2 DEF FingerprintValid, ClientCert
    <3> QED BY <3>1, <3>2
  <2>4. events[at[c]] \in Seq(Event) /\ Len(events[at[c]]) < QueueCapacity
    BY <2>1, <2>2 DEF Emit, EventsAreSeqs
  <2> HIDE DEF Event, e
  <2>5. events' = [events EXCEPT ![at[c]] = Append(events[at[c]], e)]
    BY <2>1 DEF Emit, e
  <2>6. /\ Append(events[at[c]], e) \in Seq(Event)
        /\ Len(Append(events[at[c]], e)) <= QueueCapacity
        /\ \A i \in DOMAIN Append(events[at[c]], e) :
             \/ i \in DOMAIN events[at[c]] /\ Append(events[at[c]], e)[i] = events[at[c]][i]
             \/ Append(events[at[c]], e)[i] = e
    BY <2>3, <2>4, ConstantsAssumption
  <2>7. EventsAreSeqs' /\ \A s \in Server : Len(events'[s]) <= QueueCapacity
    BY <2>2, <2>5, <2>6 DEF EventsAreSeqs, TypeOK, Event
  <2>8. Proved'
    <3> SUFFICES ASSUME NEW s \in Server, NEW i \in DOMAIN events'[s]
                 PROVE  LET r == events'[s][i].req
                        IN r.kind = "register" /\ r.https => r.claim = r.cert
      BY DEF Proved
    <3>1. CASE s = at[c]
      <4>1. events'[s] = Append(events[s], e)
        BY <2>5, <3>1 DEF EventsAreSeqs
      <4> QED BY <2>3, <2>6, <3>1, <4>1 DEF Proved
    <3>2. CASE s # at[c]
      <4>1. events'[s] = events[s]
        BY <2>5, <3>2 DEF EventsAreSeqs
      <4> QED BY <4>1 DEF Proved
    <3> QED BY <3>1, <3>2
  <2> QED BY <2>7, <2>8
<1> QED BY <1>1, <1>2 DEF CallStep, Handshake, Handle, Reply, HangUp, Cut, Dial, AppAnswer, GiveUp

LEMMA CallInv ==
    ASSUME IInv, NEW c \in Call, CallStep(c) \/ Dial(c) \/ AppAnswer(c) \/ GiveUp(c)
    PROVE  IInv'
<1> USE DEF IInv
<1>1. UNCHANGED <<opVars, appVars, serverVars>>
  BY CallTypes
<1>2. EventsAreSeqs' /\ Proved' /\ \A s \in Server : Len(events'[s]) <= QueueCapacity
  BY EmitProved
<1>3. TypeOK'
  BY <1>1, <1>2, CallTypes DEF TypeOK, EventsAreSeqs, opVars, appVars, serverVars
<1>4. \A d \in Call \ {c} : req'[d] = req[d] /\ at'[d] = at[d] /\ handler'[d] = handler[d]
  BY CallTypes
<1>5. \/ at'[c] = None /\ handler'[c] = "none"
      \/ at'[c] \in Server /\ life[at'[c]] = "serving" /\ handler'[c] = "accepted"
      \/ at'[c] = at[c] /\ handler'[c] = handler[c] /\ req'[c] = req[c]
      \/ /\ at'[c] = at[c] /\ handler[c] = "accepted" /\ handler'[c] = "handling"
         /\ req'[c] = req[c] /\ HandsShaken(c)
      \/ /\ at'[c] = at[c] /\ handler[c] \in Past /\ handler'[c] \in Past /\ req'[c] = req[c]
  BY DEF CallStep, Handshake, Handle, Answer, Reply, HangUp, Cut, Dial, AppAnswer, GiveUp, Closed,
         Listens, TypeOK, Past
<1>6. Connected'
  BY <1>1, <1>4, <1>5, ConstantsAssumption DEF Connected, serverVars, Past
<1>7. Shaken'
  BY <1>1, <1>4, <1>5 DEF Shaken, HandsShaken, ServerTrusted, ClientTrusted, serverVars, Past
<1> QED BY <1>1, <1>2, <1>3, <1>6, <1>7, CallFrame

LEMMA InvStep == IInv /\ [Next]_vars => IInv'
<1> SUFFICES ASSUME IInv, [Next]_vars PROVE IInv'
  OBVIOUS
<1>1. CASE UNCHANGED vars
  <2>1. UNCHANGED <<opVars, appVars, serverVars, callVars, events>>
    BY <1>1 DEF vars
  <2>2. TypeOK' /\ EventsAreSeqs' /\ Connected' /\ Shaken' /\ Proved'
    BY <2>1 DEF IInv, TypeOK, EventsAreSeqs, Connected, Shaken, Proved,
                opVars, appVars, serverVars, callVars
  <2> QED BY <2>1, <2>2, CallFrame DEF IInv
<1> QED BY <1>1, OpInv, ServerInv, ListenInv, CallInv DEF Next

LEMMA Invariant == Spec => []IInv
<1> QED BY InitInv, InvStep, PTL DEF Spec

-----------------------------------------------------------------------------
\* NobodyImpersonated: a request that is pinned is handled only by the server
\* with that certificate, and what is registered over TLS is proved.  The
\* handshake compares the certificates, and the server cannot be reconfigured
\* as long as a connection to it is open (Connected).
THEOREM NobodyIsImpersonated == Spec => []NobodyImpersonated
<1>1. IInv => NobodyImpersonated
  BY DEF IInv, NobodyImpersonated, Shaken, Proved, Past
<1> QED BY <1>1, Invariant, PTL

\* StopMeansStopped: as long as the task of a server that is asked to stop has
\* not ended, the operation that asked waits for it (Awaited), and the task does
\* not end before its last connection is closed (Connected).
THEOREM StopsAreComplete == Spec => []StopMeansStopped
<1>1. IInv => StopMeansStopped
  <2> SUFFICES ASSUME IInv, NEW s \in Server, asked[s], \A o \in Op : pc[o] = "stopping" => mine[o] # s
               PROVE  life[s] = "ended" /\ AllClosed(s)
    BY DEF IInv, StopMeansStopped
  <2>1. life[s] = "ended"
    BY DEF IInv, Awaited
  <2>2. s # None
    BY ConstantsAssumption
  <2> QED BY <2>1, <2>2 DEF IInv, Connected, AllClosed
<1> QED BY <1>1, Invariant, PTL

\* StateTrue: between operations that do not overlap the app knows which server
\* runs.  Each of them leads from a settled state to a settled one (Progress).
THEOREM StateIsTrue == Spec => []StateTrue
<1>1. IInv => StateTrue
  <2> SUFFICES ASSUME IInv, ~overlap, \A s \in Server : ~Dead(s), \A o \in Op : ~UnderWay(o)
               PROVE  /\ state = held /\ sub = state
                      /\ published = (state # None)
                      /\ {s \in Server : life[s] = "serving"} = {state} \ {None}
                      /\ listening = {state} \ {None}
    BY DEF StateTrue
  <2>1. Settled
    BY DEF IInv, OneByOne
  <2>2. state \in Server \cup {None}
    BY DEF IInv, TypeOK
  <2>3. state # None => life[state] = "serving"
    <3> SUFFICES ASSUME state # None PROVE life[state] = "serving"
      OBVIOUS
    <3>1. state \in Server /\ life[state] \in Lives
      BY <2>2 DEF IInv, TypeOK
    <3> QED BY <2>1, <3>1 DEF Settled, Runs, Dead, Lives
  <2>4. \A s \in Server : s # None
    BY ConstantsAssumption
  <2>5. {s \in Server : life[s] = "serving"} = {state} \ {None}
    BY <2>1, <2>2, <2>3, <2>4 DEF Settled, Runs, NoneBut
  <2> QED BY <2>1, <2>5 DEF Settled
<1> QED BY <1>1, Invariant, PTL
=============================================================================
