---------------------------- MODULE WebSendProofs ----------------------------
(***************************************************************************)
(* Theorems about WebSend, for any number of clients, requests and files.  *)
(***************************************************************************)
EXTENDS WebSend, FiniteSetTheorems, TLAPS

LEMMA InTail ==
    ASSUME NEW S, NEW q \in Seq(S), q # <<>>, NEW i \in 1 .. Len(q), q[i] # Head(q)
    PROVE  \E j \in 1 .. Len(Tail(q)) : Tail(q)[j] = q[i]
<1>1. i # 1 /\ i - 1 \in 1 .. Len(Tail(q))
  OBVIOUS
<1>2. Tail(q)[i - 1] = q[i]
  BY <1>1
<1> QED BY <1>1, <1>2

LEMMA InAppend ==
    ASSUME NEW S, NEW q \in Seq(S), NEW x \in S
    PROVE  /\ \A i \in 1 .. Len(q) : \E j \in 1 .. Len(Append(q, x)) : Append(q, x)[j] = q[i]
           /\ \E j \in 1 .. Len(Append(q, x)) : Append(q, x)[j] = x
<1>1. \A i \in 1 .. Len(q) : i \in 1 .. Len(Append(q, x)) /\ Append(q, x)[i] = q[i]
  OBVIOUS
<1>2. Len(q) + 1 \in 1 .. Len(Append(q, x)) /\ Append(q, x)[Len(q) + 1] = x
  OBVIOUS
<1> QED BY <1>1, <1>2

LEMMA TypeStep == TypeOK /\ [Next]_vars => TypeOK'
<1> SUFFICES ASSUME TypeOK, [Next]_vars PROVE TypeOK'
  OBVIOUS
<1> USE ConstantsAssumption DEF requestVars, coreVars, answerVars, bridgeVars, appVars
<1>1. ASSUME NEW p \in Prepare, List(p) \/ Enter(p) \/ Grant(p) \/ Decline(p) \/ Unanswered(p) \/ HangUp(p)
      PROVE  TypeOK'
  <2>1. ppc' \in [Prepare -> PrepareStates]
    <3>1. \E state \in PrepareStates : Moved(p, state)
      BY <1>1 DEF List, Enter, Grant, Decline, Unanswered, HangUp, PrepareStates
    <3> QED BY <3>1 DEF Moved, TypeOK
  <2>2. sessions' \in [Client -> SessionStates]
    BY <1>1, ZenonT(60) DEF List, Enter, Grant, Decline, Unanswered, HangUp, TypeOK, SessionStates
  <2> QED BY <1>1, <2>1, <2>2 DEF List, Enter, Grant, Decline, Unanswered, HangUp, TypeOK
<1>2. ASSUME NEW p \in Prepare, Admit(p) \/ Refuse(p) PROVE TypeOK'
  <2>1. pinAttempts' \in [Client -> 0 .. MaxPinAttempts]
    <3>1. pinAttempts \in [Client -> 0 .. MaxPinAttempts] /\ from[p] \in Client /\ MaxPinAttempts \in Nat
      BY DEF TypeOK
    <3>2. CASE Admit(p)
      <4>1. pinAttempts' = pinAttempts \/ pinAttempts' = [pinAttempts EXCEPT ![from[p]] = 0]
        BY <3>1, <3>2 DEF Admit
      <4> QED BY <3>1, <4>1
    <3>3. CASE Refuse(p)
      <4>1. \/ pinAttempts' = pinAttempts
            \/ ~Blocked(from[p]) /\ pinAttempts' = [pinAttempts EXCEPT ![from[p]] = @ + 1]
        BY <3>3 DEF Refuse
      <4> QED BY <3>1, <4>1 DEF Blocked
    <3> QED BY <1>2, <3>2, <3>3
  <2> QED BY <1>2, <2>1 DEF Admit, Refuse, Moved, TypeOK, PrepareStates
<1>3. ASSUME NEW p \in Prepare, Ask(p) PROVE TypeOK'
  <2>1. PrepareAsks(p) \in Events
    BY DEF PrepareAsks, Events
  <2>2. queue' \in Seq(Events) /\ Len(queue') <= QueueCapacity
    BY <1>3, <2>1 DEF Ask, HasRoom, TypeOK
  <2> QED BY <1>3, <2>2 DEF Ask, Moved, TypeOK, PrepareStates
<1>4. ASSUME NEW p \in Prepare, Clear(p) \/ CleanUp(p) PROVE TypeOK'
  BY <1>4, ZenonT(60) DEF Clear, CleanUp, ClearPendingSession, Moved, TypeOK, PrepareStates, SessionStates
<1>5. ASSUME NEW d \in Download, Begin(d) \/ Serve(d) \/ HangUpDownload(d) PROVE TypeOK'
  BY <1>5 DEF Begin, Serve, HangUpDownload, TypeOK, DownloadStates
<1>6. ASSUME NEW d \in Download, AskContent(d) PROVE TypeOK'
  <2>1. DownloadAsks(d) \in Events
    BY DEF DownloadAsks, Events
  <2>2. queue' \in Seq(Events) /\ Len(queue') <= QueueCapacity
    BY <1>6, <2>1 DEF AskContent, HasRoom, TypeOK
  <2> QED BY <1>6, <2>2 DEF AskContent, TypeOK, DownloadStates
<1>7. ASSUME ForwardPrepare \/ ForwardDownload
      PROVE  Head(queue) \in Events /\ queue' \in Seq(Events) /\ Len(queue') <= QueueCapacity
  <2>1. queue \in Seq(Events) /\ queue # <<>> /\ queue' = Tail(queue) /\ Len(queue) <= QueueCapacity
    BY <1>7 DEF ForwardPrepare, ForwardDownload, TypeOK
  <2> HIDE DEF Events
  <2> QED BY <2>1
<1>8. ASSUME ForwardPrepare PROVE TypeOK'
  <2>1. Head(queue).request \in Prepare
    BY <1>7, <1>8 DEF ForwardPrepare, Events
  <2> DEFINE p == Head(queue).request
             c == from[p]
  <2>2. c \in Client /\ <<c, None>> \in Notices
    BY <2>1 DEF TypeOK, Notices
  <2>3. responder' \in [Client -> Prepare \cup {None}]
    BY <1>8, <2>1 DEF ForwardPrepare, TypeOK
  <2>4. decision' \in [Prepare -> {"open", "yes", "no", "dropped"}]
    BY <1>8 DEF ForwardPrepare, TypeOK
  <2>5. stream' \in Seq(Notices)
    <3> HIDE DEF c
    <3>1. stream' = Append(stream, <<c, None>>)
      BY <1>8 DEF ForwardPrepare, c
    <3> QED BY <2>2, <3>1 DEF TypeOK
  <2> QED BY <1>7, <1>8, <2>3, <2>4, <2>5 DEF ForwardPrepare, TypeOK
<1>9. ASSUME ForwardDownload PROVE TypeOK'
  <2>1. Head(queue).request \in Download
    BY <1>7, <1>9 DEF ForwardDownload, Events
  <2> DEFINE d == Head(queue).request
             k == <<from[d], wanted[d]>>
  <2>2. k \in Client \X File /\ k \in Notices
    BY <2>1 DEF TypeOK, Notices
  <2>3. supplier' \in [Client \X File -> Download \cup {None}]
    BY <1>9, <2>1, <2>2 DEF ForwardDownload, TypeOK
  <2>4. content' \in [Download -> {"open", "given", "dropped"}]
    BY <1>9 DEF ForwardDownload, TypeOK
  <2>5. stream' \in Seq(Notices)
    <3> HIDE DEF k
    <3>1. stream' = Append(stream, k)
      BY <1>9 DEF ForwardDownload, k
    <3> QED BY <2>2, <3>1 DEF TypeOK
  <2> QED BY <1>7, <1>9, <2>3, <2>4, <2>5 DEF ForwardDownload, TypeOK
<1>10. ASSUME NEW c \in Client, NEW yes \in BOOLEAN, Respond(c, yes) PROVE TypeOK'
  <2>1. orders' \in [Client \X BOOLEAN -> Nat]
    BY <1>10 DEF Respond, TypeOK
  <2>2. responder' \in [Client -> Prepare \cup {None}]
    BY <1>10 DEF Respond, TypeOK
  <2>3. decision' \in [Prepare -> {"open", "yes", "no", "dropped"}]
    BY <1>10 DEF Respond, TypeOK
  <2> QED BY <1>10, <2>1, <2>2, <2>3 DEF Respond, TypeOK
<1>11. ASSUME NEW k \in Client \X File, NEW result \in {"given", "dropped"}, Supply(k, result) PROVE TypeOK'
  <2>1. fetches' \in [Client \X File -> Nat]
    BY <1>11 DEF Supply, TypeOK
  <2>2. supplier' \in [Client \X File -> Download \cup {None}]
    BY <1>11 DEF Supply, Taken, TypeOK
  <2>3. content' \in [Download -> {"open", "given", "dropped"}]
    BY <1>11 DEF Supply, TypeOK
  <2> QED BY <1>11, <2>1, <2>2, <2>3 DEF Supply, TypeOK
<1>12. ASSUME OnPrepareDownload \/ OnFileDownload
       PROVE  stream \in Seq(Notices) /\ Head(stream) \in Notices /\ stream' \in Seq(Notices)
  <2>1. stream \in Seq(Notices) /\ stream # <<>> /\ stream' = Tail(stream)
    BY <1>12 DEF OnPrepareDownload, OnFileDownload, TypeOK
  <2> HIDE DEF Notices
  <2> QED BY <2>1
<1>13. ASSUME OnPrepareDownload PROVE TypeOK'
  <2>1. shown' \in [Client -> SessionStates]
    BY <1>12, <1>13 DEF OnPrepareDownload, Notices, NewRow, SessionStates, TypeOK
  <2> QED BY <1>12, <1>13, <2>1 DEF OnPrepareDownload, TypeOK
<1>14. ASSUME OnFileDownload PROVE TypeOK'
  <2>1. fetches' \in [Client \X File -> Nat]
    <3>1. ASSUME NEW n \in Notices, n[2] # None PROVE n \in Client \X File
      BY <3>1 DEF Notices
    <3>2. Head(stream) \in Client \X File
      <4>1. Head(stream)[2] # None
        BY <1>14 DEF OnFileDownload
      <4> QED BY <1>12, <1>14, <3>1, <4>1
    <3>3. ASSUME NEW k \in Client \X File PROVE [fetches EXCEPT ![k] = @ + 1] \in [Client \X File -> Nat]
      BY DEF TypeOK
    <3> QED BY <1>14, <3>2, <3>3 DEF OnFileDownload
  <2> QED BY <1>12, <1>14, <2>1 DEF OnFileDownload, TypeOK
<1>15. ASSUME NEW c \in Client, Accept(c) \/ Reject(c) PROVE TypeOK'
  <2>1. shown' \in [Client -> SessionStates]
    BY <1>15 DEF Accept, Reject, SessionStates, TypeOK
  <2>2. ASSUME NEW k \in Client \X BOOLEAN PROVE [orders EXCEPT ![k] = @ + 1] \in [Client \X BOOLEAN -> Nat]
    BY DEF TypeOK
  <2>3. orders' \in [Client \X BOOLEAN -> Nat]
    <3>1. <<c, TRUE>> \in Client \X BOOLEAN /\ <<c, FALSE>> \in Client \X BOOLEAN
      OBVIOUS
    <3>2. \/ orders' = [orders EXCEPT ![<<c, TRUE>>] = @ + 1]
          \/ orders' = [orders EXCEPT ![<<c, FALSE>>] = @ + 1]
      BY <1>15 DEF Accept, Reject
    <3> QED BY <2>2, <3>1, <3>2, ZenonT(60)
  <2>4. accepts' \in [Client -> Nat]
    <3>1. accepts' = accepts \/ accepts' = [accepts EXCEPT ![c] = @ + 1]
      BY <1>15 DEF Accept, Reject
    <3>2. accepts \in [Client -> Nat] /\ [accepts EXCEPT ![c] = @ + 1] \in [Client -> Nat]
      BY DEF TypeOK
    <3> QED BY <3>1, <3>2
  <2> QED BY <1>15, <2>1, <2>3, <2>4 DEF Accept, Reject, TypeOK
<1>16. CASE UNCHANGED vars
  BY <1>16 DEF vars, TypeOK
<1> QED BY <1>1, <1>2, <1>3, <1>4, <1>5, <1>6, <1>8, <1>9, <1>10, <1>11, <1>13, <1>14, <1>15, <1>16
        DEF Next, PrepareStep, DownloadStep

LEMMA TypeInit == Init => TypeOK
BY ConstantsAssumption DEF Init, TypeOK, SessionStates, PrepareStates, DownloadStates

\* Every variable keeps its type; the wrong PINs of an address stop at the limit.
THEOREM Typed == Spec => []TypeOK
BY TypeInit, TypeStep, PTL DEF Spec
-----------------------------------------------------------------------------
(* Sessions.                                                               *)

\* A session that was accepted is never removed, only replaced.
THEOREM AcceptedLasts == Spec => AcceptedStays
<1>1. ASSUME TypeOK, [Next]_vars, NEW c \in Client, sessions[c] = "accepted" PROVE sessions'[c] # "none"
  <2> USE DEF requestVars, coreVars, answerVars, bridgeVars, appVars
  <2>1. ASSUME NEW p \in Prepare, PrepareStep(p) PROVE sessions'[c] # "none"
    BY <1>1, <2>1 DEF PrepareStep, List, Admit, Refuse, Enter, Ask, HangUp, Grant, Decline, Clear,
       Unanswered, CleanUp, ClearPendingSession, Removable, TypeOK
  <2>2. CASE sessions' = sessions
    BY <1>1, <2>2
  <2>3. ASSUME ~\E p \in Prepare : PrepareStep(p) PROVE sessions' = sessions
    BY <1>1, <2>3 DEF Next, DownloadStep, Begin, AskContent, Serve, HangUpDownload, ForwardPrepare,
       ForwardDownload, Respond, Supply, OnPrepareDownload, OnFileDownload, Accept, Reject, vars
  <2> QED BY <2>1, <2>2, <2>3
<1>2. TypeOK /\ [Next]_vars => [\A c \in Client : sessions[c] = "accepted" => sessions'[c] # "none"]_vars
  BY <1>1
<1> QED BY <1>2, Typed, PTL DEF Spec, AcceptedStays

\* Whose request it is never changes.
LEMMA FromFixed == [Next]_vars => from' = from
BY DEF Next, PrepareStep, DownloadStep, List, Admit, Refuse, Enter, Ask, HangUp, Grant, Decline, Clear,
   Unanswered, CleanUp, Begin, AskContent, Serve, HangUpDownload, ForwardPrepare, ForwardDownload,
   Respond, Supply, OnPrepareDownload, OnFileDownload, Accept, Reject, vars, requestVars

LEMMA OwnedStep == TypeOK /\ PendingOwned /\ [Next]_vars => PendingOwned'
<1> SUFFICES ASSUME TypeOK, PendingOwned, [Next]_vars, NEW c \in Client, sessions'[c] = "pending"
             PROVE  \E p \in Prepare :
                        from'[p] = c /\ ppc'[p] \in {"entered", "waiting", "declining", "cleaning", "lost"}
  BY DEF PendingOwned
<1> USE DEF requestVars, coreVars, answerVars, bridgeVars, appVars
<1> DEFINE Owning == {"entered", "waiting", "declining", "cleaning", "lost"}
           Goal == \E p \in Prepare : from'[p] = c /\ ppc'[p] \in Owning
<1>1. from' = from
  BY FromFixed
<1>2. ASSUME NEW p \in Prepare, Enter(p) PROVE Goal
  <2>1. CASE from[p] = c
    BY <1>1, <1>2, <2>1 DEF Enter, Moved, TypeOK
  <2>2. CASE from[p] # c
    <3>1. sessions[c] = "pending"
      BY <1>2, <2>2 DEF Enter, TypeOK
    <3>2. PICK q \in Prepare : from[q] = c /\ ppc[q] \in Owning
      BY <3>1 DEF PendingOwned
    <3> QED BY <1>1, <1>2, <2>2, <3>2 DEF Enter, Moved, TypeOK
  <2> QED BY <2>1, <2>2
<1>3. ASSUME NEW p \in Prepare, ~Enter(p), PrepareStep(p) PROVE Goal
  <2>1. sessions[c] = "pending"
    BY <1>3 DEF PrepareStep, List, Admit, Refuse, Ask, HangUp, Grant, Decline, Clear,
       Unanswered, CleanUp, ClearPendingSession, TypeOK
  <2>2. PICK q \in Prepare : from[q] = c /\ ppc[q] \in Owning
    BY <2>1 DEF PendingOwned
  <2>3. CASE q # p
    <3>1. ppc'[q] = ppc[q]
      BY <1>3, <2>3 DEF PrepareStep, List, Admit, Refuse, Ask, HangUp, Grant, Decline, Clear,
         Unanswered, CleanUp, Moved, TypeOK
    <3> QED BY <1>1, <2>2, <3>1
  <2>4. CASE q = p
    <3>1. CASE Grant(p) \/ Clear(p) \/ CleanUp(p)
      <4>1. sessions'[from[p]] # "pending"
        BY <2>1, <2>2, <2>4, <3>1 DEF Grant, Clear, CleanUp, ClearPendingSession, Removable, TypeOK
      <4> QED BY <2>2, <2>4, <4>1
    <3>2. CASE List(p) \/ Admit(p) \/ Refuse(p) \/ Ask(p) \/ HangUp(p) \/ Decline(p) \/ Unanswered(p)
      <4>1. ppc'[p] \in Owning
        BY <2>2, <2>4, <3>2 DEF List, Admit, Refuse, Ask, HangUp, Decline, Unanswered, Armed, Moved, TypeOK
      <4> QED BY <1>1, <2>2, <2>4, <4>1
    <3> QED BY <1>3, <3>1, <3>2 DEF PrepareStep
  <2> QED BY <2>3, <2>4
<1>4. ASSUME ~\E p \in Prepare : PrepareStep(p) PROVE Goal
  <2>1. sessions' = sessions /\ ppc' = ppc
    BY <1>4 DEF Next, DownloadStep, Begin, AskContent, Serve, HangUpDownload, ForwardPrepare,
       ForwardDownload, Respond, Supply, OnPrepareDownload, OnFileDownload, Accept, Reject, vars
  <2> QED BY <1>1, <2>1 DEF PendingOwned
<1> QED BY <1>2, <1>3, <1>4

\* A pending session has a request that is to settle it, or one that lost its chance.
THEOREM PendingIsOwned == Spec => []PendingOwned
<1>1. Init => PendingOwned
  BY DEF Init, PendingOwned
<1> QED BY <1>1, TypeInit, TypeStep, OwnedStep, PTL DEF Spec
-----------------------------------------------------------------------------
(* Every request that waits is answered, or will be asked about.           *)

\* An event leaves the channel only by way of the bridge.
LEMMA QueueKeeps ==
    ASSUME TypeOK, [Next]_vars, NEW p \in Prepare, InQueue(PrepareAsks(p)),
           ~(ForwardPrepare /\ Head(queue).request = p)
    PROVE  InQueue(PrepareAsks(p))'
<1> USE DEF requestVars, coreVars, answerVars, bridgeVars, appVars
<1> DEFINE e == PrepareAsks(p)
<1>1. PICK i \in 1 .. Len(queue) : queue[i] = e
  BY DEF InQueue
<1>2. queue \in Seq(Events) /\ PrepareAsks(p).kind = "Prepare" /\ PrepareAsks(p).request = p
  BY DEF TypeOK, PrepareAsks
<1> HIDE DEF e
<1>3. ASSUME NEW x \in Events, queue' = Append(queue, x) PROVE \E j \in 1 .. Len(queue') : queue'[j] = e
  <2>1. queue \in Seq(Events)
    BY <1>2
  <2> HIDE DEF Events
  <2>2. \E j \in 1 .. Len(Append(queue, x)) : Append(queue, x)[j] = queue[i]
    BY <1>1, <2>1, InAppend
  <2> QED BY <1>1, <1>3, <2>2
<1>4. CASE ForwardPrepare \/ ForwardDownload
  <2>1. queue # <<>> /\ queue' = Tail(queue) /\ queue[i] # Head(queue)
    BY <1>1, <1>2, <1>4 DEF ForwardPrepare, ForwardDownload, e
  <2>2. \E j \in 1 .. Len(queue') : queue'[j] = e
    BY <1>1, <1>2, <2>1, InTail
  <2> QED BY <2>2 DEF InQueue, e
<1>5. ASSUME NEW q \in Prepare, Ask(q) PROVE \E j \in 1 .. Len(queue') : queue'[j] = e
  <2>1. PrepareAsks(q) \in Events
    BY DEF PrepareAsks, Events
  <2> QED BY <1>3, <1>5, <2>1 DEF Ask
<1>6. ASSUME NEW d \in Download, AskContent(d) PROVE \E j \in 1 .. Len(queue') : queue'[j] = e
  <2>1. DownloadAsks(d) \in Events
    BY DEF DownloadAsks, Events
  <2> QED BY <1>3, <1>6, <2>1 DEF AskContent
<1>7. CASE queue' = queue
  BY <1>1, <1>7 DEF InQueue, e
<1>8. ASSUME ~(ForwardPrepare \/ ForwardDownload), ~\E q \in Prepare : Ask(q), ~\E d \in Download : AskContent(d)
      PROVE  queue' = queue
  BY <1>8 DEF Next, PrepareStep, DownloadStep, List, Admit, Refuse, Enter, HangUp, Grant, Decline, Clear,
     Unanswered, CleanUp, Begin, Serve, HangUpDownload, Respond, Supply, OnPrepareDownload,
     OnFileDownload, Accept, Reject, vars
<1> QED BY <1>4, <1>5, <1>6, <1>7, <1>8 DEF InQueue, e

LEMMA HeadAsked ==
    ASSUME TypeOK, ForwardPrepare
    PROVE  Head(queue).request \in Prepare
<1>1. queue \in Seq(Events) /\ queue # <<>> /\ Head(queue).kind = "Prepare"
  BY DEF ForwardPrepare, TypeOK
<1> HIDE DEF Events
<1>2. Head(queue) \in Events
  BY <1>1
<1> QED BY <1>1, <1>2 DEF Events

\* A question leaves the stream only by way of the controller.
LEMMA StreamKeeps ==
    ASSUME TypeOK, [Next]_vars, NEW c \in Client, InStream(<<c, None>>),
           ~(OnPrepareDownload /\ Head(stream)[1] = c)
    PROVE  InStream(<<c, None>>)'
<1> USE DEF requestVars, coreVars, answerVars, bridgeVars, appVars
<1> DEFINE n == <<c, None>>
<1>1. PICK i \in 1 .. Len(stream) : stream[i] = n
  BY DEF InStream
<1>2. stream \in Seq(Notices) /\ n[1] = c /\ n[2] = None
  BY DEF TypeOK
<1> HIDE DEF n
<1>3. ASSUME NEW x \in Notices, stream' = Append(stream, x) PROVE \E j \in 1 .. Len(stream') : stream'[j] = n
  BY <1>1, <1>2, <1>3, InAppend
<1>4. CASE OnPrepareDownload \/ OnFileDownload
  <2>1. stream # <<>> /\ stream' = Tail(stream) /\ stream[i] # Head(stream)
    BY <1>1, <1>2, <1>4 DEF OnPrepareDownload, OnFileDownload
  <2>2. \E j \in 1 .. Len(stream') : stream'[j] = n
    BY <1>1, <1>2, <2>1, InTail
  <2> QED BY <2>2 DEF InStream, n
<1>5. CASE ForwardPrepare
  <2> DEFINE b == from[Head(queue).request]
  <2>1. Head(queue).request \in Prepare
    BY <1>5, HeadAsked
  <2>2. <<b, None>> \in Notices
    BY <2>1 DEF TypeOK, Notices
  <2>3. stream' = Append(stream, <<b, None>>)
    BY <1>5 DEF ForwardPrepare
  <2> QED BY <1>3, <2>2, <2>3 DEF InStream, n
<1>6. CASE ForwardDownload
  <2> DEFINE k == <<from[Head(queue).request], wanted[Head(queue).request]>>
  <2>1. Head(queue).request \in Download
    <3>1. queue \in Seq(Events) /\ queue # <<>> /\ Head(queue).kind = "Download"
      BY <1>6 DEF ForwardDownload, TypeOK
    <3> HIDE DEF Events
    <3>2. Head(queue) \in Events
      BY <3>1
    <3> QED BY <3>1, <3>2 DEF Events
  <2>2. k \in Notices
    BY <2>1 DEF TypeOK, Notices
  <2>3. stream' = Append(stream, k)
    BY <1>6 DEF ForwardDownload
  <2> QED BY <1>3, <2>2, <2>3 DEF InStream, n
<1>7. CASE stream' = stream
  BY <1>1, <1>7 DEF InStream, n
<1>8. ASSUME ~(OnPrepareDownload \/ OnFileDownload), ~ForwardPrepare, ~ForwardDownload PROVE stream' = stream
  BY <1>8 DEF Next, PrepareStep, DownloadStep, List, Admit, Refuse, Enter, Ask, HangUp, Grant, Decline, Clear,
     Unanswered, CleanUp, Begin, AskContent, Serve, HangUpDownload, Respond, Supply, Accept, Reject, vars
<1> QED BY <1>4, <1>5, <1>6, <1>7, <1>8

ResponderKept(p) ==
    ppc[p] = "waiting" /\ decision[p] = "open" => InQueue(PrepareAsks(p)) \/ responder[from[p]] = p

UserAsked(c) ==
    responder[c] # None =>
        shown[c] = "pending" \/ InStream(<<c, None>>) \/ \E yes \in BOOLEAN : orders[<<c, yes>>] > 0

LEMMA ResponderStep ==
    ASSUME TypeOK, [Next]_vars, NEW p \in Prepare, ResponderKept(p)
    PROVE  ResponderKept(p)'
<1> USE DEF requestVars, coreVars, answerVars, bridgeVars, appVars
<1> SUFFICES ASSUME ppc'[p] = "waiting", decision'[p] = "open", ~InQueue(PrepareAsks(p))'
             PROVE  responder'[from[p]] = p
  BY FromFixed DEF ResponderKept
<1>1. ASSUME ppc[p] = "waiting", decision[p] = "open", ~ForwardPrepare PROVE responder[from[p]] = p
  BY <1>1, QueueKeeps DEF ResponderKept
<1>2. ASSUME NEW q \in Prepare, Ask(q) PROVE responder'[from[p]] = p
  <2>1. q # p
    <3>1. ASSUME q = p PROVE FALSE
      <4>1. queue \in Seq(Events) /\ PrepareAsks(p) \in Events /\ queue' = Append(queue, PrepareAsks(p))
        BY <1>2, <3>1 DEF Ask, TypeOK, PrepareAsks, Events
      <4> HIDE DEF Events
      <4>2. \E j \in 1 .. Len(queue') : queue'[j] = PrepareAsks(p)
        BY <4>1, InAppend
      <4> QED BY <4>2 DEF InQueue, PrepareAsks
    <3> QED BY <3>1
  <2>2. ppc[p] = "waiting" /\ decision[p] = "open" /\ responder' = responder
    BY <1>2, <2>1 DEF Ask, Moved, TypeOK
  <2>3. ~ForwardPrepare
    BY <1>2, <2>2 DEF Ask, Moved, ForwardPrepare, TypeOK
  <2> QED BY <1>1, <2>2, <2>3
<1>3. ASSUME NEW q \in Prepare, ~Ask(q), PrepareStep(q) PROVE responder'[from[p]] = p
  <2>1. ppc'[p] = ppc[p] \/ ppc'[p] # "waiting"
    BY <1>3 DEF PrepareStep, List, Admit, Refuse, Enter, HangUp, Grant, Decline, Clear, Unanswered, CleanUp,
       Moved, TypeOK
  <2>2. decision' = decision /\ responder' = responder /\ queue' = queue
    BY <1>3 DEF PrepareStep, List, Admit, Refuse, Enter, HangUp, Grant, Decline, Clear, Unanswered, CleanUp
  <2> QED BY <2>1, <2>2 DEF ResponderKept, InQueue
<1>4. CASE ForwardPrepare
  <2> DEFINE r == Head(queue).request
             c == from[r]
  <2>1. r \in Prepare /\ c \in Client
    BY <1>4, HeadAsked DEF TypeOK
  <2>2. ppc[p] = "waiting" /\ p # responder[c] /\ decision[p] = "open"
    BY <1>4, <2>1 DEF ForwardPrepare, TypeOK
  <2>3. responder' = [responder EXCEPT ![c] = r]
    BY <1>4 DEF ForwardPrepare
  <2>4. CASE p = r
    BY <2>1, <2>3, <2>4 DEF TypeOK
  <2>5. CASE p # r
    <3>1. responder[from[p]] = p
      BY <2>2, <2>5, QueueKeeps DEF ResponderKept
    <3>2. from[p] # c
      BY <2>2, <3>1
    <3> QED BY <2>1, <2>3, <3>1, <3>2 DEF TypeOK
  <2> QED BY <2>4, <2>5
<1>5. ASSUME NEW c \in Client, NEW yes \in BOOLEAN, Respond(c, yes) PROVE responder'[from[p]] = p
  <2>1. queue' = queue /\ ppc[p] = "waiting" /\ p # responder[c] /\ decision[p] = "open"
    BY <1>5 DEF Respond, Responder, TypeOK
  <2>2. responder[from[p]] = p
    BY <2>1 DEF ResponderKept, InQueue
  <2> QED BY <1>5, <2>1, <2>2 DEF Respond, Responder, TypeOK
<1>6. ASSUME ~\E q \in Prepare : PrepareStep(q), ~ForwardPrepare,
             ~\E c \in Client, yes \in BOOLEAN : Respond(c, yes)
      PROVE  responder'[from[p]] = p
  <2>1. ppc' = ppc /\ decision' = decision /\ responder' = responder
    BY <1>6 DEF Next, DownloadStep, Begin, AskContent, Serve, HangUpDownload, ForwardDownload, Supply,
       OnPrepareDownload, OnFileDownload, Accept, Reject, vars
  <2> QED BY <1>1, <1>6, <2>1
<1> QED BY <1>2, <1>3, <1>4, <1>5, <1>6

LEMMA AskedStep ==
    ASSUME TypeOK, [Next]_vars, NEW c \in Client, UserAsked(c)
    PROVE  UserAsked(c)'
<1> USE DEF requestVars, coreVars, answerVars, bridgeVars, appVars
<1> DEFINE Going == \E yes \in BOOLEAN : orders[<<c, yes>>] > 0
<1> SUFFICES ASSUME responder'[c] # None, ~InStream(<<c, None>>)'
             PROVE  shown'[c] = "pending" \/ Going'
  BY DEF UserAsked
<1>1. CASE ForwardPrepare
  <2> DEFINE b == from[Head(queue).request]
  <2>1. b \in Client
    BY <1>1, HeadAsked DEF TypeOK
  <2>2. stream' = Append(stream, <<b, None>>) /\ responder' = [responder EXCEPT ![b] = Head(queue).request]
    BY <1>1 DEF ForwardPrepare
  <2>3. b # c
    <3>1. stream \in Seq(Notices) /\ <<b, None>> \in Notices
      BY <2>1 DEF TypeOK, Notices
    <3> HIDE DEF b
    <3>2. \E j \in 1 .. Len(stream') : stream'[j] = <<b, None>>
      BY <2>2, <3>1, InAppend
    <3> QED BY <3>2 DEF InStream
  <2>4. responder[c] # None /\ shown' = shown /\ orders' = orders
    BY <1>1, <2>1, <2>2, <2>3 DEF ForwardPrepare, TypeOK
  <2>5. Len(stream') = Len(stream) + 1
    BY <2>1, <2>2 DEF TypeOK
  <2>6. ~InStream(<<c, None>>)
    <3>1. ~OnPrepareDownload
      BY <2>5 DEF OnPrepareDownload, TypeOK
    <3> QED BY <3>1, StreamKeeps
  <2> QED BY <2>4, <2>6 DEF UserAsked
<1>2. CASE OnPrepareDownload
  <2>1. Head(stream)[1] \in Client
    <3>1. stream \in Seq(Notices) /\ stream # <<>>
      BY <1>2 DEF OnPrepareDownload, TypeOK
    <3> HIDE DEF Notices
    <3>2. Head(stream) \in Notices
      BY <3>1
    <3> QED BY <3>2 DEF Notices
  <2>2. CASE Head(stream)[1] = c
    BY <1>2, <2>2 DEF OnPrepareDownload, NewRow, TypeOK
  <2>3. CASE Head(stream)[1] # c
    <3>1. ~InStream(<<c, None>>)
      BY <2>3, StreamKeeps
    <3>2. responder' = responder /\ orders' = orders /\ shown'[c] = shown[c]
      BY <1>2, <2>1, <2>3 DEF OnPrepareDownload, TypeOK
    <3> QED BY <3>1, <3>2 DEF UserAsked
  <2> QED BY <2>2, <2>3
<1>3. ASSUME NEW b \in Client, Accept(b) \/ Reject(b) PROVE shown'[c] = "pending" \/ Going'
  <2> DEFINE to == IF Accept(b) THEN <<b, TRUE>> ELSE <<b, FALSE>>
  <2>1. orders \in [Client \X BOOLEAN -> Nat] /\ to \in Client \X BOOLEAN /\ to[1] = b
    BY DEF TypeOK
  <2>2. orders' = [orders EXCEPT ![to] = @ + 1]
    BY <1>3 DEF Accept, Reject
  <2> HIDE DEF to
  <2>3. CASE b = c
    <3>1. PICK yes \in BOOLEAN : to = <<b, yes>>
      BY DEF to
    <3>2. orders'[to] > 0
      BY <2>1, <2>2
    <3> QED BY <2>3, <3>1, <3>2
  <2>4. CASE b # c
    <3>1. responder' = responder /\ shown'[c] = shown[c] /\ stream' = stream
      BY <1>3, <2>4 DEF Accept, Reject, TypeOK
    <3>2. \A yes \in BOOLEAN : orders'[<<c, yes>>] = orders[<<c, yes>>]
      BY <2>1, <2>2, <2>4
    <3> QED BY <3>1, <3>2 DEF UserAsked, InStream
  <2> QED BY <2>3, <2>4
<1>4. ASSUME NEW b \in Client, NEW yes \in BOOLEAN, Respond(b, yes) PROVE shown'[c] = "pending" \/ Going'
  <2>1. b # c /\ responder[c] # None
    BY <1>4 DEF Respond, Responder, TypeOK
  <2>2. stream' = stream /\ shown' = shown /\ ~InStream(<<c, None>>)
    BY <1>4 DEF Respond, InStream
  <2>3. \A y \in BOOLEAN : orders'[<<c, y>>] = orders[<<c, y>>]
    BY <1>4, <2>1 DEF Respond, TypeOK
  <2> QED BY <2>1, <2>2, <2>3 DEF UserAsked
<1>5. ASSUME ~ForwardPrepare, ~OnPrepareDownload, ~\E b \in Client : Accept(b) \/ Reject(b),
             ~\E b \in Client, yes \in BOOLEAN : Respond(b, yes)
      PROVE  shown'[c] = "pending" \/ Going'
  <2>1. responder' = responder /\ shown' = shown /\ orders' = orders
    BY <1>5 DEF Next, PrepareStep, DownloadStep, List, Admit, Refuse, Enter, Ask, HangUp, Grant, Decline, Clear,
       Unanswered, CleanUp, Begin, AskContent, Serve, HangUpDownload, ForwardDownload, Supply, OnFileDownload, vars
  <2> QED BY <1>5, <2>1, StreamKeeps DEF UserAsked
<1> QED BY <1>1, <1>2, <1>3, <1>4, <1>5

\* Whoever waits for an answer will get one, be dropped, or have the user asked.
THEOREM NobodyIsForgotten == Spec => []NobodyForgotten
<1>1. Init => NobodyForgotten
  BY DEF Init, NobodyForgotten
<1>2. TypeOK /\ NobodyForgotten /\ [Next]_vars => NobodyForgotten'
  BY ResponderStep, AskedStep DEF NobodyForgotten, ResponderKept, UserAsked
<1> QED BY <1>1, <1>2, TypeInit, TypeStep, PTL DEF Spec
-----------------------------------------------------------------------------
(* What the user said yes to.                                              *)

\* The bridge keeps a responder under the client that waits for it.
ResponderOwn == \A c \in Client : responder[c] # None => from[responder[c]] = c

LEMMA OwnStep == TypeOK /\ ResponderOwn /\ [Next]_vars => ResponderOwn'
<1> SUFFICES ASSUME TypeOK, ResponderOwn, [Next]_vars, NEW c \in Client, responder'[c] # None
             PROVE  from[responder'[c]] = c
  BY FromFixed DEF ResponderOwn
<1> USE DEF requestVars, coreVars, answerVars, bridgeVars, appVars
<1>1. CASE ForwardPrepare
  BY <1>1, HeadAsked DEF ForwardPrepare, ResponderOwn, TypeOK
<1>2. ASSUME NEW b \in Client, NEW yes \in BOOLEAN, Respond(b, yes) PROVE from[responder'[c]] = c
  BY <1>2 DEF Respond, Responder, ResponderOwn, TypeOK
<1>3. CASE responder' = responder
  BY <1>3 DEF ResponderOwn
<1>4. ASSUME ~ForwardPrepare, ~\E b \in Client, yes \in BOOLEAN : Respond(b, yes) PROVE responder' = responder
  BY <1>4 DEF Next, PrepareStep, DownloadStep, List, Admit, Refuse, Enter, Ask, HangUp, Grant, Decline, Clear,
     Unanswered, CleanUp, Begin, AskContent, Serve, HangUpDownload, ForwardDownload, Supply, OnPrepareDownload,
     OnFileDownload, Accept, Reject, vars
<1> QED BY <1>1, <1>2, <1>3, <1>4

LEMMA FromClient == TypeOK => \A r \in Prepare \cup Download : from[r] \in Client
BY DEF TypeOK

\* A yes that is on its way, in a decision channel or in the sessions map was said.
YesSaid ==
    /\ \A c \in Client : orders[<<c, TRUE>>] > 0 => accepts[c] > 0
    /\ \A p \in Prepare : decision[p] = "yes" => accepts[from[p]] > 0
    /\ \A c \in Client : sessions[c] = "accepted" => accepts[c] > 0

LEMMA YesStep == TypeOK /\ ResponderOwn /\ YesSaid /\ [Next]_vars =>
                    YesSaid' /\ \A c \in Client : accepts[c] > 0 => accepts'[c] > 0
<1> SUFFICES ASSUME TypeOK, ResponderOwn, YesSaid, [Next]_vars
             PROVE  YesSaid' /\ \A c \in Client : accepts[c] > 0 => accepts'[c] > 0
  OBVIOUS
<1> USE DEF requestVars, coreVars, answerVars, bridgeVars, appVars
<1>1. \A c \in Client : accepts[c] \in Nat
  BY DEF TypeOK
<1>2. ASSUME NEW c \in Client PROVE accepts[c] > 0 => accepts'[c] > 0
  <2>1. ASSUME NEW b \in Client, Accept(b) PROVE accepts'[c] = accepts[c] \/ accepts'[c] = accepts[c] + 1
    BY <2>1 DEF Accept, TypeOK
  <2>2. ASSUME ~\E b \in Client : Accept(b) PROVE accepts' = accepts
    BY <2>2 DEF Next, PrepareStep, DownloadStep, List, Admit, Refuse, Enter, Ask, HangUp, Grant, Decline, Clear,
       Unanswered, CleanUp, Begin, AskContent, Serve, HangUpDownload, ForwardPrepare, ForwardDownload, Respond,
       Supply, OnPrepareDownload, OnFileDownload, Reject, vars
  <2> QED BY <1>1, <2>1, <2>2
<1>3. ASSUME NEW c \in Client, orders'[<<c, TRUE>>] > 0 PROVE accepts'[c] > 0
  <2>1. CASE Accept(c)
    BY <1>1, <2>1 DEF Accept, TypeOK
  <2>2. ASSUME NEW b \in Client, NEW yes \in BOOLEAN, Respond(b, yes) PROVE orders[<<c, TRUE>>] > 0
    <3>1. orders' = [orders EXCEPT ![<<b, yes>>] = @ - 1] /\ orders[<<b, yes>>] > 0
      BY <2>2 DEF Respond
    <3> QED BY <1>3, <3>1 DEF TypeOK
  <2>3. ASSUME NEW b \in Client, Reject(b) \/ (b # c /\ Accept(b)) PROVE orders'[<<c, TRUE>>] = orders[<<c, TRUE>>]
    <3>1. PICK yes \in BOOLEAN : orders' = [orders EXCEPT ![<<b, yes>>] = @ + 1] /\ <<b, yes>> # <<c, TRUE>>
      BY <2>3 DEF Reject, Accept
    <3> QED BY <3>1 DEF TypeOK
  <2>4. ASSUME ~\E b \in Client, yes \in BOOLEAN : Respond(b, yes), ~\E b \in Client : Accept(b) \/ Reject(b)
        PROVE  orders' = orders
    BY <2>4 DEF Next, PrepareStep, DownloadStep, List, Admit, Refuse, Enter, Ask, HangUp, Grant, Decline, Clear,
       Unanswered, CleanUp, Begin, AskContent, Serve, HangUpDownload, ForwardPrepare, ForwardDownload,
       Supply, OnPrepareDownload, OnFileDownload, vars
  <2>5. orders[<<c, TRUE>>] > 0 \/ Accept(c)
    BY <1>3, <2>2, <2>3, <2>4
  <2> QED BY <1>2, <2>1, <2>5 DEF YesSaid
<1>4. ASSUME NEW p \in Prepare, decision'[p] = "yes" PROVE accepts'[from[p]] > 0
  <2>1. ASSUME NEW b \in Client, NEW yes \in BOOLEAN, Respond(b, yes) PROVE accepts[from[p]] > 0
    <3>1. CASE decision[p] = "yes"
      BY <3>1 DEF YesSaid
    <3>2. CASE decision[p] # "yes"
      <4>1. responder[b] = p /\ yes
        BY <1>4, <2>1, <3>2 DEF Respond, Responder, TypeOK
      <4>2. p # None
        BY ConstantsAssumption
      <4>3. from[p] = b
        BY <4>1, <4>2 DEF ResponderOwn
      <4>4. orders[<<b, TRUE>>] > 0
        BY <2>1, <4>1 DEF Respond
      <4> QED BY <4>3, <4>4 DEF YesSaid
    <3> QED BY <3>1, <3>2
  <2>2. ASSUME ForwardPrepare PROVE accepts[from[p]] > 0
    <3>1. decision' = [q \in Prepare |-> IF q = responder[from[Head(queue).request]] THEN "dropped"
                                                                              ELSE decision[q]]
      BY <2>2 DEF ForwardPrepare
    <3>2. decision[p] = "yes"
      BY <1>4, <3>1
    <3> QED BY <3>2 DEF YesSaid
  <2>3. ASSUME ~ForwardPrepare, ~\E b \in Client, yes \in BOOLEAN : Respond(b, yes) PROVE decision' = decision
    BY <2>3 DEF Next, PrepareStep, DownloadStep, List, Admit, Refuse, Enter, Ask, HangUp, Grant, Decline, Clear,
       Unanswered, CleanUp, Begin, AskContent, Serve, HangUpDownload, ForwardDownload,
       Supply, OnPrepareDownload, OnFileDownload, Accept, Reject, vars
  <2>4. accepts[from[p]] > 0
    BY <1>4, <2>1, <2>2, <2>3 DEF YesSaid
  <2>5. from[p] \in Client
    BY FromClient
  <2> QED BY <1>2, <2>4, <2>5
<1>5. ASSUME NEW c \in Client, sessions'[c] = "accepted" PROVE accepts'[c] > 0
  <2>1. ASSUME NEW p \in Prepare, PrepareStep(p) PROVE accepts[c] > 0
    <3>1. CASE sessions[c] = "accepted"
      BY <3>1 DEF YesSaid
    <3>2. CASE sessions[c] # "accepted"
      <4>1. from[p] = c /\ decision[p] = "yes"
        BY <1>5, <2>1, <3>2 DEF PrepareStep, List, Admit, Refuse, Enter, Ask, HangUp, Grant, Decline, Clear,
           Unanswered, CleanUp, ClearPendingSession, TypeOK
      <4> QED BY <4>1 DEF YesSaid
    <3> QED BY <3>1, <3>2
  <2>2. ASSUME ~\E p \in Prepare : PrepareStep(p) PROVE sessions' = sessions
    BY <2>2 DEF Next, DownloadStep, Begin, AskContent, Serve, HangUpDownload, ForwardPrepare, ForwardDownload,
       Respond, Supply, OnPrepareDownload, OnFileDownload, Accept, Reject, vars
  <2>3. accepts[c] > 0
    BY <1>5, <2>1, <2>2 DEF YesSaid
  <2> QED BY <1>2, <2>3
<1> QED BY <1>2, <1>3, <1>4, <1>5, FromFixed DEF YesSaid

\* A file is asked for only on behalf of a client the user accepted.
THEOREM DownloadsAreConsented == Spec => []DownloadConsented
<1> DEFINE Consent == ResponderOwn /\ YesSaid /\ DownloadConsented
<1>1. Init => Consent
  <2> SUFFICES ASSUME Init PROVE Consent
    OBVIOUS
  <2>1. responder = [c \in Client |-> None] /\ dpc = [d \in Download |-> "idle"]
    BY DEF Init
  <2>2. ResponderOwn /\ DownloadConsented
    BY <2>1 DEF ResponderOwn, DownloadConsented
  <2>3. ASSUME NEW c \in Client PROVE ~(orders[<<c, TRUE>>] > 0)
    <3>1. orders = [k \in Client \X BOOLEAN |-> 0]
      BY DEF Init
    <3>2. orders[<<c, TRUE>>] = 0
      BY <3>1
    <3> QED BY <3>2
  <2>4. ASSUME NEW c \in Client PROVE sessions[c] # "accepted"
    BY DEF Init
  <2>5. ASSUME NEW p \in Prepare PROVE decision[p] # "yes"
    BY DEF Init
  <2> QED BY <2>2, <2>3, <2>4, <2>5 DEF YesSaid
<1>2. ASSUME TypeOK, Consent, [Next]_vars, NEW d \in Download, dpc'[d] \notin {"idle", "refused"}
      PROVE  accepts'[from[d]] > 0
  <2> USE DEF requestVars, coreVars, answerVars, bridgeVars, appVars
  <2>1. from[d] \in Client /\ dpc \in [Download -> DownloadStates]
    BY <1>2, FromClient DEF TypeOK
  <2>2. CASE dpc[d] \notin {"idle", "refused"}
    BY <1>2, <2>1, <2>2, YesStep DEF DownloadConsented
  <2>3. CASE dpc[d] \in {"idle", "refused"}
    <3>1. ASSUME NEW e \in Download, DownloadStep(e) PROVE Valid(from[d])
      <4>1. dpc'[d] = dpc[d] \/ (e = d /\ Begin(d))
        BY <2>1, <2>3, <3>1 DEF DownloadStep, Begin, AskContent, Serve, HangUpDownload
      <4>2. dpc' = [dpc EXCEPT ![d] = IF Valid(from[d]) THEN "valid" ELSE "refused"]
        BY <1>2, <2>3, <4>1 DEF Begin
      <4> QED BY <1>2, <2>1, <4>2
    <3>2. ASSUME ~\E e \in Download : DownloadStep(e) PROVE dpc' = dpc
      BY <1>2, <3>2 DEF Next, PrepareStep, List, Admit, Refuse, Enter, Ask, HangUp, Grant, Decline, Clear,
         Unanswered, CleanUp, ForwardPrepare, ForwardDownload, Respond, Supply, OnPrepareDownload,
         OnFileDownload, Accept, Reject, vars
    <3>3. sessions[from[d]] = "accepted"
      BY <1>2, <2>3, <3>1, <3>2 DEF Valid
    <3> QED BY <1>2, <2>1, <3>3, YesStep DEF YesSaid
  <2> QED BY <2>2, <2>3
<1>3. TypeOK /\ Consent /\ [Next]_vars => Consent'
  <2>1. TypeOK /\ Consent /\ [Next]_vars => DownloadConsented'
    BY <1>2, FromFixed DEF DownloadConsented
  <2> QED BY <2>1, OwnStep, YesStep
<1> QED BY <1>1, <1>3, TypeInit, TypeStep, PTL DEF Spec

\* The requests of c that were told yes.
LetIn(c) == {p \in Prepare : from[p] = c /\ (decision[p] = "yes" \/ ppc[p] = "accepted")}

\* Every yes that has arrived or is on its way was said by the user on its own.
YesCounted == \A c \in Client : Cardinality(LetIn(c)) + orders[<<c, TRUE>>] <= accepts[c]

\* Only a yes for c lets a request in, and that request is one of c.
LEMMA LetInStep ==
    ASSUME TypeOK, ResponderOwn, [Next]_vars, NEW c \in Client
    PROVE  /\ LetIn(c)' \subseteq LetIn(c) \cup {responder[c]}
           /\ ~Respond(c, TRUE) => LetIn(c)' \subseteq LetIn(c)
<1> USE DEF requestVars, coreVars, answerVars, bridgeVars, appVars
<1> SUFFICES ASSUME NEW p \in Prepare, from[p] = c, decision'[p] = "yes" \/ ppc'[p] = "accepted"
             PROVE  \/ decision[p] = "yes" \/ ppc[p] = "accepted"
                    \/ Respond(c, TRUE) /\ p = responder[c]
  BY FromFixed DEF LetIn
<1>1. ASSUME NEW q \in Prepare, PrepareStep(q) PROVE decision[p] = "yes" \/ ppc[p] = "accepted"
  <2>1. decision' = decision
    BY <1>1 DEF PrepareStep, List, Admit, Refuse, Enter, Ask, HangUp, Grant, Decline, Clear, Unanswered, CleanUp
  <2>2. ppc'[p] = "accepted" => ppc[p] = "accepted" \/ decision[p] = "yes"
    BY <1>1 DEF PrepareStep, List, Admit, Refuse, Enter, Ask, HangUp, Grant, Decline, Clear, Unanswered, CleanUp,
       Moved, TypeOK
  <2> QED BY <2>1, <2>2
<1>2. ASSUME ForwardPrepare PROVE decision[p] = "yes" \/ ppc[p] = "accepted"
  <2>1. ppc' = ppc
    BY <1>2 DEF ForwardPrepare
  <2>2. decision' = [q \in Prepare |-> IF q = responder[from[Head(queue).request]] THEN "dropped"
                                                                            ELSE decision[q]]
    BY <1>2 DEF ForwardPrepare
  <2> QED BY <2>1, <2>2
<1>3. ASSUME NEW b \in Client, NEW yes \in BOOLEAN, Respond(b, yes)
      PROVE  \/ decision[p] = "yes" \/ ppc[p] = "accepted"
             \/ Respond(c, TRUE) /\ p = responder[c]
  <2>1. ppc' = ppc
    BY <1>3 DEF Respond
  <2>2. decision' = [q \in Prepare |-> IF q = responder[b] THEN (IF yes THEN "yes" ELSE "no") ELSE decision[q]]
    BY <1>3 DEF Respond, Responder
  <2>3. \/ decision[p] = "yes" \/ ppc[p] = "accepted"
        \/ p = responder[b] /\ yes = TRUE
    BY <2>1, <2>2
  <2>4. p # None
    BY ConstantsAssumption
  <2>5. p = responder[b] => b = c
    BY <2>4 DEF ResponderOwn
  <2> QED BY <1>3, <2>3, <2>5
<1>4. ASSUME ~\E q \in Prepare : PrepareStep(q), ~ForwardPrepare,
             ~\E b \in Client, yes \in BOOLEAN : Respond(b, yes)
      PROVE  decision[p] = "yes" \/ ppc[p] = "accepted"
  <2>1. decision' = decision /\ ppc' = ppc
    BY <1>4 DEF Next, DownloadStep, Begin, AskContent, Serve, HangUpDownload, ForwardDownload, Supply,
       OnPrepareDownload, OnFileDownload, Accept, Reject, vars
  <2> QED BY <2>1
<1> QED BY <1>1, <1>2, <1>3, <1>4

LEMMA CountStep == TypeOK /\ ResponderOwn /\ YesCounted /\ [Next]_vars => YesCounted'
<1> SUFFICES ASSUME TypeOK, ResponderOwn, YesCounted, [Next]_vars, NEW c \in Client
             PROVE  Cardinality(LetIn(c)') + orders'[<<c, TRUE>>] <= accepts'[c]
  BY DEF YesCounted
<1> DEFINE old == LetIn(c)
           new == LetIn(c)'
           k == <<c, TRUE>>
<1>1. IsFiniteSet(old) /\ IsFiniteSet(new)
  <2>1. old \subseteq Prepare /\ new \subseteq Prepare
    BY DEF LetIn
  <2> QED BY <2>1, FS_Subset, ConstantsAssumption
<1>2. Cardinality(old) \in Nat /\ Cardinality(new) \in Nat
  BY <1>1, FS_CardinalityType
<1>3. orders \in [Client \X BOOLEAN -> Nat] /\ accepts \in [Client -> Nat] /\ k \in Client \X BOOLEAN
  BY DEF TypeOK
<1>4. Cardinality(old) + orders[k] <= accepts[c]
  BY DEF YesCounted
<1>5. new \subseteq old \cup {responder[c]} /\ (~Respond(c, TRUE) => new \subseteq old)
  BY LetInStep
<1> HIDE DEF old, new, k
<1>6. CASE Respond(c, TRUE)
  <2>1. orders[k] > 0 /\ orders' = [orders EXCEPT ![k] = @ - 1] /\ accepts' = accepts
    BY <1>6 DEF Respond, k, appVars
  <2>2. Cardinality(new) <= Cardinality(old) + 1
    <3>1. IsFiniteSet(old \cup {responder[c]}) /\ Cardinality(old \cup {responder[c]}) <= Cardinality(old) + 1
      <4>1. \A x : /\ IsFiniteSet(old \cup {x})
                  /\ Cardinality(old \cup {x}) = IF x \in old THEN Cardinality(old) ELSE Cardinality(old) + 1
        BY <1>1, FS_AddElement
      <4>2. \A n \in Nat : n <= n + 1 /\ n + 1 <= n + 1
        OBVIOUS
      <4>3. CASE responder[c] \in old
        BY <1>2, <4>1, <4>2, <4>3
      <4>4. CASE responder[c] \notin old
        BY <1>2, <4>1, <4>2, <4>4
      <4> QED BY <4>3, <4>4
    <3>2. Cardinality(new) <= Cardinality(old \cup {responder[c]}) /\ Cardinality(old \cup {responder[c]}) \in Nat
      BY <1>5, <3>1, FS_Subset, FS_CardinalityType
    <3> QED BY <1>2, <3>1, <3>2
  <2>3. orders'[k] = orders[k] - 1
    BY <1>3, <2>1
  <2>4. Cardinality(new) + orders'[k] <= accepts'[c]
    BY <1>2, <1>3, <1>4, <2>1, <2>2, <2>3
  <2> QED BY <2>4 DEF new, k
<1>7. CASE ~Respond(c, TRUE)
  <2>1. Cardinality(new) <= Cardinality(old)
    BY <1>1, <1>5, <1>7, FS_Subset
  <2>2. \/ orders'[k] <= orders[k] /\ orders'[k] \in Nat /\ accepts'[c] = accepts[c]
        \/ orders'[k] = orders[k] + 1 /\ accepts'[c] = accepts[c] + 1
    <3> USE DEF requestVars, coreVars, answerVars, bridgeVars, appVars
    <3>1. ASSUME NEW b \in Client, Accept(b)
          PROVE  \/ orders'[k] = orders[k] /\ accepts'[c] = accepts[c]
                 \/ orders'[k] = orders[k] + 1 /\ accepts'[c] = accepts[c] + 1
      <4>1. orders' = [orders EXCEPT ![<<b, TRUE>>] = @ + 1] /\ accepts' = [accepts EXCEPT ![b] = @ + 1]
        BY <3>1 DEF Accept
      <4>2. CASE b = c
        BY <1>3, <4>1, <4>2 DEF k
      <4>3. CASE b # c
        <5>1. <<b, TRUE>> # k
          BY <4>3 DEF k
        <5> QED BY <1>3, <4>1, <4>3, <5>1
      <4> QED BY <4>2, <4>3
    <3>2. ASSUME NEW b \in Client, Reject(b) PROVE orders'[k] = orders[k] /\ accepts' = accepts
      <4>1. orders' = [orders EXCEPT ![<<b, FALSE>>] = @ + 1] /\ <<b, FALSE>> # k
        BY <3>2 DEF Reject, k
      <4> QED BY <1>3, <3>2, <4>1 DEF Reject
    <3>3. ASSUME NEW b \in Client, NEW yes \in BOOLEAN, Respond(b, yes)
          PROVE  orders'[k] <= orders[k] /\ orders'[k] \in Nat /\ accepts' = accepts
      <4>1. orders' = [orders EXCEPT ![<<b, yes>>] = @ - 1] /\ orders[<<b, yes>>] > 0 /\ <<b, yes>> \in Client \X BOOLEAN
        BY <3>3 DEF Respond
      <4>2. <<b, yes>> # k
        <5>1. CASE b = c /\ yes = TRUE
          BY <1>7, <3>3, <5>1
        <5>2. CASE ~(b = c /\ yes = TRUE)
          BY <5>2 DEF k
        <5> QED BY <5>1, <5>2
      <4>3. orders'[k] = orders[k]
        BY <1>3, <4>1, <4>2
      <4> QED BY <1>3, <3>3, <4>3 DEF Respond
    <3>4. ASSUME ~\E b \in Client, yes \in BOOLEAN : Respond(b, yes), ~\E b \in Client : Accept(b) \/ Reject(b)
          PROVE  orders' = orders /\ accepts' = accepts
      BY <3>4 DEF Next, PrepareStep, DownloadStep, List, Admit, Refuse, Enter, Ask, HangUp, Grant, Decline, Clear,
         Unanswered, CleanUp, Begin, AskContent, Serve, HangUpDownload, ForwardPrepare, ForwardDownload,
         Supply, OnPrepareDownload, OnFileDownload, vars
    <3>5. orders[k] \in Nat
      BY <1>3
    <3> QED BY <3>1, <3>2, <3>3, <3>4, <3>5
  <2>3. orders[k] \in Nat /\ accepts[c] \in Nat
    BY <1>3
  <2>4. Cardinality(new) + orders'[k] <= accepts'[c]
    BY <1>2, <1>4, <2>1, <2>2, <2>3
  <2> QED BY <2>4 DEF new, k
<1> QED BY <1>6, <1>7

\* Each yes of the user lets in at most one request, and one of that client.
THEOREM OneYesOne == Spec => []OneYesOneRequest
<1>1. Init => ResponderOwn /\ YesCounted
  <2>1. ASSUME Init, NEW c \in Client PROVE Cardinality(LetIn(c)) + orders[<<c, TRUE>>] <= accepts[c]
    <3>1. LetIn(c) = {} /\ orders[<<c, TRUE>>] = 0 /\ accepts[c] = 0
      BY <2>1 DEF Init, LetIn
    <3> QED BY <3>1, FS_EmptySet
  <2> QED BY <2>1, ZenonT(60) DEF Init, ResponderOwn, YesCounted
<1>2. TypeOK /\ YesCounted => OneYesOneRequest
  <2> SUFFICES ASSUME TypeOK, YesCounted, NEW c \in Client
               PROVE  Cardinality({p \in Prepare : from[p] = c /\ ppc[p] = "accepted"}) <= accepts[c]
    BY DEF OneYesOneRequest
  <2> DEFINE in == {p \in Prepare : from[p] = c /\ ppc[p] = "accepted"}
  <2>1. in \subseteq LetIn(c) /\ LetIn(c) \subseteq Prepare
    BY DEF LetIn
  <2> HIDE DEF in
  <2>2. IsFiniteSet(LetIn(c)) /\ IsFiniteSet(in)
    BY <2>1, FS_Subset, ConstantsAssumption
  <2>3. Cardinality(in) <= Cardinality(LetIn(c)) /\ Cardinality(in) \in Nat /\ Cardinality(LetIn(c)) \in Nat
    BY <2>1, <2>2, FS_Subset, FS_CardinalityType
  <2>4. orders[<<c, TRUE>>] \in Nat /\ accepts[c] \in Nat
    BY DEF TypeOK
  <2>5. Cardinality(LetIn(c)) + orders[<<c, TRUE>>] <= accepts[c]
    BY DEF YesCounted
  <2>6. Cardinality(in) <= accepts[c]
    BY <2>3, <2>4, <2>5
  <2> QED BY <2>6 DEF in
<1> QED BY <1>1, <1>2, TypeInit, TypeStep, OwnStep, CountStep, PTL DEF Spec
=============================================================================
