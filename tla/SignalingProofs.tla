---------------------------- MODULE SignalingProofs ----------------------------
(***************************************************************************)
(* Theorems about SignalingServer, for any number of connections, groups   *)
(* and any limits, and about SignalingClient, for any number of calls.     *)
(***************************************************************************)
EXTENDS SignalingServer, SignalingClient, FiniteSetTheorems, SequenceTheorems, TLAPS

\* A receive task that relays has something to relay.
JobSet == \A c \in Conn : rt[c] \in {"counted", "sending"} => job[c] \in Jobs

LEMMA SendType ==
    ASSUME TypeOK, NEW d \in Conn, NEW m \in Messages, Send(d, m)
    PROVE  /\ outbox' \in [Conn -> Seq(Messages)]
           /\ \A c \in Conn : Len(outbox'[c]) <= Capacity
           /\ told' \in [Conn -> SUBSET Notices]
<1> USE ConstantsAssumption
<1>1. CASE open[d] /\ HasRoom(d)
  <2>1. /\ outbox' = [outbox EXCEPT ![d] = Append(@, m)]
        /\ told' = [told EXCEPT ![d] = @ \cup ({m} \cap Notices)]
    BY <1>1 DEF Send
  <2>2. Append(outbox[d], m) \in Seq(Messages) /\ Len(Append(outbox[d], m)) = Len(outbox[d]) + 1
    BY DEF TypeOK
  <2>3. Len(outbox[d]) + 1 <= Capacity
    BY <1>1 DEF HasRoom, TypeOK
  <2> QED BY <2>1, <2>2, <2>3 DEF TypeOK
<1>2. CASE UNCHANGED boxVars
  BY <1>2 DEF boxVars, TypeOK
<1> QED BY <1>1, <1>2 DEF Send

LEMMA CloseType ==
    ASSUME TypeOK, NEW d \in Conn, Close(d)
    PROVE  /\ outbox' \in [Conn -> Seq(Messages)]
           /\ \A c \in Conn : Len(outbox'[c]) <= Capacity
           /\ told' \in [Conn -> SUBSET Notices]
           /\ open' \in [Conn -> BOOLEAN]
BY ConstantsAssumption DEF Close, TypeOK

LEMMA TypeStep == TypeOK /\ JobSet /\ [Next]_vars => TypeOK' /\ JobSet'
<1> SUFFICES ASSUME TypeOK, JobSet, [Next]_vars PROVE TypeOK' /\ JobSet'
  OBVIOUS
<1> USE ConstantsAssumption DEF roomVars, handlerVars, boxVars, recvVars
<1>1. ASSUME NEW c \in Conn, Refuse(c) PROVE TypeOK' /\ JobSet'
  BY <1>1 DEF Refuse, TypeOK, HandlerStates, JobSet
<1>2. ASSUME NEW c \in Conn, Join(c) PROVE TypeOK' /\ JobSet'
  <2>1. group[c] \in Group /\ members[group[c]] \in SUBSET Conn
    BY DEF TypeOK
  <2>2. requests' \in [Group -> 0 .. MaxRequests]
    BY <1>2, <2>1 DEF Join, Exhausted, TypeOK
  <2>3. members' \in [Group -> SUBSET Conn] /\ tell' \in [Conn -> SUBSET Conn] /\ peers' \in [Conn -> SUBSET Conn]
    BY <1>2, <2>1 DEF Join, Found, TypeOK
  <2>4. pc' \in [Conn -> HandlerStates] /\ open' \in [Conn -> BOOLEAN]
    BY <1>2 DEF Join, HandlerStates, TypeOK
  <2> QED BY <1>2, <2>2, <2>3, <2>4 DEF Join, TypeOK, JobSet
<1>3. ASSUME NEW c \in Conn, NEW d \in Conn, TellJoin(c, d) PROVE TypeOK' /\ JobSet'
  <2>1. Message("Join", c) \in Messages
    BY DEF Message, Messages, Kinds
  <2> QED BY <1>3, <2>1, SendType DEF TellJoin, TypeOK, JobSet
<1>4. ASSUME NEW c \in Conn, SayHello(c) PROVE TypeOK' /\ JobSet'
  <2>1. Message("Hello", c) \in Messages
    BY DEF Message, Messages, Kinds
  <2>2. pc' \in [Conn -> HandlerStates] /\ rt' \in [Conn -> RecvStates]
    BY <1>4 DEF SayHello, HandlerStates, RecvStates, TypeOK
  <2> QED BY <1>4, <2>1, <2>2, SendType DEF SayHello, TypeOK, JobSet
<1>5. ASSUME NEW c \in Conn, TakeMessage(c) PROVE TypeOK' /\ JobSet'
  <2>1. CASE rt' = [rt EXCEPT ![c] = "failing"] /\ UNCHANGED <<requests, job>>
    BY <1>5, <2>1 DEF TakeMessage, TypeOK, JobSet, RecvStates
  <2>2. CASE /\ ~Exhausted(group[c])
             /\ requests' = [requests EXCEPT ![group[c]] = @ + 1]
             /\ rt' = [rt EXCEPT ![c] = "counted"]
             /\ \E k \in {"Update", "Sdp"}, to \in SUBSET Conn :
                    job' = [job EXCEPT ![c] = [kind |-> k, to |-> to]]
    <3>1. PICK k \in {"Update", "Sdp"}, to \in SUBSET Conn :
            job' = [job EXCEPT ![c] = [kind |-> k, to |-> to]]
      BY <2>2
    <3>2. [kind |-> k, to |-> to] \in Jobs
      BY DEF Jobs
    <3>3. requests' \in [Group -> 0 .. MaxRequests]
      BY <2>2 DEF Exhausted, TypeOK
    <3>4. rt' \in [Conn -> RecvStates]
      BY <2>2 DEF TypeOK, RecvStates
    <3> HIDE DEF Jobs
    <3>5. job' \in [Conn -> Jobs \cup {NoJob}] /\ JobSet'
      BY <2>2, <3>1, <3>2 DEF TypeOK, JobSet
    <3> QED BY <1>5, <3>3, <3>4, <3>5 DEF TakeMessage, TypeOK
  <2> QED
    <3>1. CASE Exhausted(group[c])
      BY <1>5, <2>1, <3>1 DEF TakeMessage
    <3>2. CASE ~Exhausted(group[c])
      <4>1. \A d \in Conn : {d} \in SUBSET Conn
        OBVIOUS
      <4>2. \E k \in {"Update", "Sdp"}, to \in SUBSET Conn :
                job' = [job EXCEPT ![c] = [kind |-> k, to |-> to]]
        <5>1. CASE job' = [job EXCEPT ![c] = [kind |-> "Update", to |-> {}]]
          BY <5>1
        <5>2. CASE \E d \in Conn : job' = [job EXCEPT ![c] = [kind |-> "Sdp", to |-> {d}]]
          BY <5>2, <4>1
        <5> QED BY <1>5, <3>2, <5>1, <5>2 DEF TakeMessage
      <4> QED BY <1>5, <2>2, <3>2, <4>2 DEF TakeMessage
    <3> QED BY <3>1, <3>2
<1>6. ASSUME NEW c \in Conn, LookUp(c) PROVE TypeOK' /\ JobSet'
  <2>1. job[c] \in Jobs
    BY <1>6 DEF LookUp, JobSet
  <2>2. Addressees(c) \in SUBSET Conn
    BY <2>1 DEF Addressees, TypeOK, Jobs
  <2>3. [job[c] EXCEPT !.to = Addressees(c)] \in Jobs
    BY <2>1, <2>2 DEF Jobs
  <2>4. job' \in [Conn -> Jobs \cup {NoJob}] /\ job'[c] \in Jobs
    BY <1>6, <2>3 DEF LookUp, TypeOK
  <2>5. rt' \in [Conn -> RecvStates]
    BY <1>6 DEF LookUp, TypeOK, RecvStates
  <2> QED BY <1>6, <2>4, <2>5 DEF LookUp, TypeOK, JobSet
<1>7. ASSUME NEW c \in Conn, NEW d \in Conn, Relay(c, d) PROVE TypeOK' /\ JobSet'
  <2>1. job[c] \in Jobs
    BY <1>7 DEF Relay, JobSet
  <2>2. Message(job[c].kind, c) \in Messages
    BY <2>1 DEF Message, Messages, Kinds, Jobs
  <2>3. [job[c] EXCEPT !.to = @ \ {d}] \in Jobs
    BY <2>1 DEF Jobs
  <2>4. job' \in [Conn -> Jobs \cup {NoJob}] /\ job'[c] \in Jobs
    BY <1>7, <2>3 DEF Relay, TypeOK
  <2> QED BY <1>7, <2>2, <2>4, SendType DEF Relay, TypeOK, JobSet
<1>8. ASSUME NEW c \in Conn, Relayed(c) PROVE TypeOK' /\ JobSet'
  BY <1>8 DEF Relayed, TypeOK, RecvStates, JobSet
<1>9. ASSUME NEW c \in Conn, Fail(c) PROVE TypeOK' /\ JobSet'
  <2>1. Message("Error", c) \in Messages
    BY DEF Message, Messages, Kinds
  <2>2. rt' \in [Conn -> RecvStates]
    BY <1>9 DEF Fail, TypeOK, RecvStates
  <2> QED BY <1>9, <2>1, <2>2, SendType DEF Fail, TypeOK, JobSet
<1>10. ASSUME NEW c \in Conn, SocketClosed(c) PROVE TypeOK' /\ JobSet'
  BY <1>10 DEF SocketClosed, TypeOK, RecvStates, JobSet
<1>11. ASSUME NEW c \in Conn, Stopped(c) PROVE TypeOK' /\ JobSet'
  BY <1>11 DEF Stopped, TypeOK, RecvStates, JobSet
<1>12. ASSUME NEW c \in Conn, Deliver(c) PROVE TypeOK' /\ JobSet'
  <2>1. Tail(outbox[c]) \in Seq(Messages) /\ Len(Tail(outbox[c])) <= Len(outbox[c])
    BY <1>12 DEF Deliver, TypeOK
  <2>2. outbox' \in [Conn -> Seq(Messages)] /\ \A e \in Conn : Len(outbox'[e]) <= Capacity
    BY <1>12, <2>1 DEF Deliver, TypeOK
  <2> QED BY <1>12, <2>2 DEF Deliver, TypeOK, JobSet
<1>13. ASSUME NEW c \in Conn, DeliveryFails(c) PROVE TypeOK' /\ JobSet'
  BY <1>13, CloseType DEF DeliveryFails, TypeOK, JobSet
<1>14. ASSUME NEW c \in Conn, Abort(c) PROVE TypeOK' /\ JobSet'
  BY <1>14, CloseType DEF Abort, HandlerStates, TypeOK, JobSet
<1>15. ASSUME NEW c \in Conn, Leave(c) PROVE TypeOK' /\ JobSet'
  BY <1>15 DEF Leave, Remaining, HandlerStates, TypeOK, JobSet
<1>16. ASSUME NEW c \in Conn, NEW d \in Conn, TellLeft(c, d) PROVE TypeOK' /\ JobSet'
  <2>1. Message("Left", c) \in Messages
    BY DEF Message, Messages, Kinds
  <2> QED BY <1>16, <2>1, SendType DEF TellLeft, TypeOK, JobSet
<1>17. ASSUME NEW c \in Conn, HangUp(c) PROVE TypeOK' /\ JobSet'
  BY <1>17 DEF HangUp, TypeOK, JobSet
<1>18. ASSUME ClearRequests PROVE TypeOK' /\ JobSet'
  BY <1>18 DEF ClearRequests, TypeOK, JobSet
<1>19. ASSUME UNCHANGED vars PROVE TypeOK' /\ JobSet'
  BY <1>19 DEF vars, TypeOK, JobSet
<1> QED BY <1>1, <1>2, <1>3, <1>4, <1>5, <1>6, <1>7, <1>8, <1>9, <1>10, <1>11, <1>12, <1>13, <1>14, <1>15, <1>16, <1>17, <1>18, <1>19 DEF Next

\* Every variable keeps its type, an outbox its capacity, the counter its limit.
THEOREM Typed == Spec => []TypeOK
<1>1. Init => TypeOK /\ JobSet
  BY ConstantsAssumption DEF Init, TypeOK, JobSet, HandlerStates, RecvStates, NoJob, Jobs
<1> QED BY <1>1, TypeStep, PTL DEF Spec
-----------------------------------------------------------------------------
(* The connection map.                                                     *)

\* What most steps leave alone: who is in which group's map.
LEMMA SameRooms ==
    ASSUME RoomExact, UNCHANGED <<group, members>>,
           \A c \in Conn : Joined(c)' <=> Joined(c)
    PROVE  RoomExact'
BY DEF RoomExact

LEMMA RoomStep == TypeOK /\ RoomExact /\ [Next]_vars => RoomExact'
<1> SUFFICES ASSUME TypeOK, RoomExact, [Next]_vars PROVE RoomExact'
  OBVIOUS
<1> USE ConstantsAssumption DEF roomVars, handlerVars
<1>1. ASSUME NEW c \in Conn, Join(c) PROVE RoomExact'
  <2> DEFINE g == group[c]
  <2>1. g \in Group /\ IsFiniteSet(members[g])
    BY FS_Subset DEF TypeOK
  <2>2. c \notin members[g]
    BY <1>1, <2>1 DEF RoomExact, Join, Joined
  <2>3. Cardinality(members[g] \cup {c}) <= MaxConnections
    <3>1. Cardinality(members[g]) \in Nat
      BY <2>1, FS_CardinalityType
    <3>2. ~(Cardinality(members[g]) >= MaxConnections)
      BY <1>1 DEF Join, LimitReached
    <3>3. Cardinality(members[g] \cup {c}) = Cardinality(members[g]) + 1
      BY <2>1, <2>2, FS_AddElement
    <3> QED BY <3>1, <3>2, <3>3
  <2>4. ASSUME NEW h \in Group
        PROVE  /\ members'[h] = {d \in Conn : Joined(d)' /\ group'[d] = h}
               /\ Cardinality(members'[h]) <= MaxConnections
    <3>1. \A d \in Conn : Joined(d)' <=> Joined(d) \/ d = c
      BY <1>1 DEF Join, Joined, TypeOK
    <3>2. members[h] = {d \in Conn : Joined(d) /\ group[d] = h} /\ Cardinality(members[h]) <= MaxConnections
      BY DEF RoomExact
    <3>3. members' = [members EXCEPT ![g] = @ \cup {c}] /\ group' = group
      BY <1>1 DEF Join
    <3>4. CASE h = g
      <4>1. members'[h] = members[g] \cup {c}
        BY <2>1, <3>3, <3>4 DEF TypeOK
      <4>2. members'[h] = {d \in Conn : Joined(d) /\ group[d] = h} \cup {c}
        BY <3>2, <3>4, <4>1
      <4>3. {d \in Conn : Joined(d)' /\ group'[d] = h} = {d \in Conn : Joined(d) /\ group[d] = h} \cup {c}
        BY <3>1, <3>3, <3>4
      <4> QED BY <2>3, <3>4, <4>1, <4>2, <4>3
    <3>5. CASE h # g
      <4>1. members'[h] = members[h]
        BY <3>3, <3>5 DEF TypeOK
      <4>2. {d \in Conn : Joined(d)' /\ group'[d] = h} = {d \in Conn : Joined(d) /\ group[d] = h}
        BY <3>1, <3>3, <3>5
      <4> QED BY <3>2, <4>1, <4>2
    <3> QED BY <3>4, <3>5
  <2> QED BY <2>4 DEF RoomExact
<1>2. ASSUME NEW c \in Conn, Leave(c) PROVE RoomExact'
  <2> DEFINE g == group[c]
  <2>1. ASSUME NEW h \in Group
        PROVE  /\ members'[h] = {d \in Conn : Joined(d)' /\ group'[d] = h}
               /\ Cardinality(members'[h]) <= MaxConnections
    <3>1. \A d \in Conn : Joined(d)' <=> Joined(d) /\ d # c
      BY <1>2 DEF Leave, Joined, TypeOK
    <3>2. members[h] = {d \in Conn : Joined(d) /\ group[d] = h} /\ Cardinality(members[h]) <= MaxConnections
      BY DEF RoomExact
    <3>3. members' = [members EXCEPT ![g] = @ \ {c}] /\ group' = group
      BY <1>2 DEF Leave
    <3>4. members'[h] = members[h] \ {c} \/ members'[h] = members[h]
      BY <3>3 DEF TypeOK
    <3>5. members'[h] = {d \in Conn : Joined(d)' /\ group'[d] = h}
      <4>1. CASE h = g
        BY <3>1, <3>2, <3>3, <4>1 DEF TypeOK
      <4>2. CASE h # g
        BY <3>1, <3>2, <3>3, <4>2 DEF TypeOK
      <4> QED BY <4>1, <4>2
    <3>6. IsFiniteSet(members[h])
      BY FS_Subset DEF TypeOK
    <3>7. Cardinality(members'[h]) <= Cardinality(members[h])
      BY <3>4, <3>6, FS_Subset, FS_CardinalityType
    <3>8. IsFiniteSet(members'[h])
      BY <3>4, <3>6, FS_Subset
    <3> QED BY <3>2, <3>5, <3>6, <3>7, <3>8, FS_CardinalityType
  <2> QED BY <2>1 DEF RoomExact
<1>3. ASSUME NEW c \in Conn,
             Refuse(c) \/ SayHello(c) \/ Abort(c) \/ Deliver(c) \/ DeliveryFails(c) \/ HangUp(c)
             \/ TakeMessage(c) \/ LookUp(c) \/ Relayed(c) \/ Fail(c) \/ SocketClosed(c) \/ Stopped(c)
      PROVE RoomExact'
  <2>1. UNCHANGED <<group, members>>
    BY <1>3 DEF Refuse, SayHello, Abort, Deliver, DeliveryFails, HangUp, TakeMessage, LookUp, Relayed, Fail, SocketClosed, Stopped
  <2>2. \A d \in Conn : Joined(d)' <=> Joined(d)
    BY <1>3 DEF Joined, TypeOK, Refuse, SayHello, Abort, Deliver, DeliveryFails, HangUp, TakeMessage, LookUp, Relayed, Fail, SocketClosed, Stopped
  <2> QED BY <2>1, <2>2, SameRooms
<1>4. ASSUME NEW c \in Conn, NEW d \in Conn, TellJoin(c, d) \/ Relay(c, d) \/ TellLeft(c, d) PROVE RoomExact'
  BY <1>4, SameRooms DEF TellJoin, Relay, TellLeft, Joined
<1>5. CASE ClearRequests \/ UNCHANGED vars
  BY <1>5, SameRooms DEF ClearRequests, vars, Joined
<1> QED BY <1>1, <1>2, <1>3, <1>4, <1>5 DEF Next

\* The connection map holds exactly the connections that are to leave it yet.
THEOREM RoomsExact == Spec => []RoomExact
<1>1. Init => RoomExact
  BY ConstantsAssumption, FS_EmptySet DEF Init, RoomExact, Joined
<1>2. Init => TypeOK /\ JobSet
  BY ConstantsAssumption DEF Init, TypeOK, JobSet, HandlerStates, RecvStates, NoJob, Jobs
<1> QED BY <1>1, <1>2, TypeStep, RoomStep, PTL DEF Spec
-----------------------------------------------------------------------------
(* Jams.                                                                   *)

LEMMA JamStep == TypeOK /\ [Next]_vars => \A d \in Conn : Jammed(d) => Jammed(d)'
<1> SUFFICES ASSUME TypeOK, [Next]_vars, NEW d \in Conn, Jammed(d) PROVE Jammed(d)'
  OBVIOUS
<1> USE DEF handlerVars, boxVars, recvVars, roomVars
<1>0. pc[d] = "joining" /\ open[d] /\ ~(Len(outbox[d]) < Capacity)
  BY DEF Jammed, HasRoom
<1>1. ASSUME NEW e \in Conn, NEW m, Send(e, m) PROVE outbox'[d] = outbox[d]
  BY <1>0, <1>1 DEF Send, HasRoom, TypeOK
<1>2. ASSUME pc'[d] = pc[d], open'[d] = open[d], outbox'[d] = outbox[d] PROVE Jammed(d)'
  BY <1>0, <1>2 DEF Jammed, HasRoom
<1>3. ASSUME NEW c \in Conn, Refuse(c) \/ Join(c) \/ Leave(c) \/ HangUp(c) \/ TakeMessage(c)
             \/ LookUp(c) \/ Relayed(c) \/ SocketClosed(c) \/ Stopped(c)
      PROVE Jammed(d)'
  BY <1>0, <1>2, <1>3 DEF Refuse, Join, Leave, HangUp, TakeMessage, LookUp, Relayed, SocketClosed, Stopped, TypeOK
<1>4. ASSUME NEW c \in Conn, SayHello(c) PROVE Jammed(d)'
  <2>1. Send(c, Message("Hello", c))
    BY <1>4 DEF SayHello
  <2>2. c # d
    BY <1>0, <2>1 DEF Send, HasRoom
  <2>3. outbox'[d] = outbox[d]
    BY <1>1, <2>1
  <2> QED BY <1>2, <1>4, <2>2, <2>3 DEF SayHello, TypeOK
<1>5. ASSUME NEW c \in Conn, Fail(c) PROVE Jammed(d)'
  <2>1. outbox'[d] = outbox[d]
    BY <1>1, <1>5 DEF Fail
  <2> QED BY <1>2, <1>5, <2>1 DEF Fail
<1>6. ASSUME NEW c \in Conn, NEW e \in Conn, TellJoin(c, e) \/ Relay(c, e) \/ TellLeft(c, e) PROVE Jammed(d)'
  <2>1. outbox'[d] = outbox[d]
    BY <1>1, <1>6 DEF TellJoin, Relay, TellLeft
  <2> QED BY <1>2, <1>6, <2>1 DEF TellJoin, Relay, TellLeft
<1>7. ASSUME NEW c \in Conn, Deliver(c) \/ DeliveryFails(c) \/ Abort(c) PROVE Jammed(d)'
  BY <1>0, <1>2, <1>7 DEF Deliver, DeliveryFails, Abort, Close, TypeOK
<1>8. CASE ClearRequests \/ UNCHANGED vars
  BY <1>2, <1>8 DEF ClearRequests, vars
<1> QED BY <1>3, <1>4, <1>5, <1>6, <1>7, <1>8 DEF Next

\* A connection whose outbox was filled before its Hello never gets the Hello.
THEOREM JamLasts == Spec => JammedForEver
<1>1. TypeOK /\ [Next]_vars => [\A d \in Conn : Jammed(d) => Jammed(d)']_vars
  BY JamStep
<1> QED BY <1>1, Typed, PTL DEF Spec, JammedForEver
-----------------------------------------------------------------------------
(* Who knows of whom.                                                      *)

\* An outbox exists while its connection is served; a closed one is empty,
\* and a receive task exists once the peers were told.
Served ==
    \A d \in Conn :
        /\ open[d] => pc[d] \in {"joining", "running"}
        /\ ~open[d] => outbox[d] = <<>> /\ told[d] = {}
        /\ pc[d] = "idle" => peers[d] = {}
        /\ rt[d] # "none" => pc[d] \in {"running", "leaving", "parting"}

\* Introductions stay within a group and are about connections that joined.
Neighbours ==
    \A c, d \in Conn :
        /\ Introduced(c, d) => group[c] = group[d] /\ pc[c] # "idle"
        /\ d \in tell[c] => group[c] = group[d]

\* Of two members one found the other on joining, or is still to tell it.
Acquainted ==
    \A c, d \in Conn :
        c # d /\ group[c] = group[d] /\ Joined(c) /\ open[d]
            => Introduced(c, d) \/ (pc[c] = "joining" /\ d \in tell[c])

\* Whom a receive task addresses, its connection was introduced to.
Addressed ==
    \A c, d \in Conn :
        rt[c] \in {"counted", "sending"} /\ d \in job[c].to =>
            pc[d] # "idle" /\ (open[d] /\ c # d => Introduced(c, d))

\* Who knows of a connection that left was sent a Left, or is about to be.
Announced ==
    \A c, d \in Conn :
        c # d /\ pc[c] = "parting" /\ open[d] /\ Introduced(c, d)
            => Message("Left", c) \in told[d] \/ d \in tell[c]

LEMMA ServedStep == TypeOK /\ Served /\ [Next]_vars => Served'
<1> SUFFICES ASSUME TypeOK, Served, [Next]_vars PROVE Served'
  OBVIOUS
<1> USE DEF handlerVars, boxVars, recvVars, roomVars
<1>1. ASSUME NEW c \in Conn, NEW m, Send(c, m), UNCHANGED open
      PROVE  \A d \in Conn : ~open'[d] => outbox'[d] = <<>> /\ told'[d] = {}
  BY <1>1 DEF Send, Served, TypeOK
<1>2. ASSUME NEW c \in Conn, Close(c)
      PROVE  \A d \in Conn : (~open'[d] => outbox'[d] = <<>> /\ told'[d] = {}) /\ (open'[d] => open[d] /\ d # c)
  BY <1>2 DEF Close, Served, TypeOK
<1>3. ASSUME NEW c \in Conn, Join(c) PROVE Served'
  BY <1>3 DEF Join, Served, TypeOK
<1>4. ASSUME NEW c \in Conn, SayHello(c) PROVE Served'
  BY <1>1, <1>4 DEF SayHello, Served, TypeOK
<1>5. ASSUME NEW c \in Conn, Fail(c) PROVE Served'
  BY <1>1, <1>5 DEF Fail, Served, TypeOK
<1>6. ASSUME NEW c \in Conn, NEW e \in Conn, TellJoin(c, e) \/ Relay(c, e) \/ TellLeft(c, e) PROVE Served'
  BY <1>1, <1>6 DEF TellJoin, Relay, TellLeft, Served, TypeOK
<1>7. ASSUME NEW c \in Conn, Deliver(c) PROVE Served'
  BY <1>7 DEF Deliver, Served, TypeOK
<1>8. ASSUME NEW c \in Conn, DeliveryFails(c) PROVE Served'
  BY <1>2, <1>8 DEF DeliveryFails, Served, TypeOK
<1>9. ASSUME NEW c \in Conn, Abort(c) PROVE Served'
  BY <1>2, <1>9 DEF Abort, Served, TypeOK
<1>10. ASSUME NEW c \in Conn, Refuse(c) \/ Leave(c) \/ HangUp(c) \/ TakeMessage(c) \/ LookUp(c)
             \/ Relayed(c) \/ SocketClosed(c) \/ Stopped(c)
       PROVE Served'
  BY <1>10 DEF Refuse, Leave, HangUp, TakeMessage, LookUp, Relayed, SocketClosed, Stopped, Served, TypeOK
<1>11. CASE ClearRequests \/ UNCHANGED vars
  BY <1>11 DEF ClearRequests, vars, Served
<1> QED BY <1>3, <1>4, <1>5, <1>6, <1>7, <1>8, <1>9, <1>10, <1>11 DEF Next

\* What a step can do to an outbox and to what was told there.
LEMMA BoxStep ==
    ASSUME TypeOK, Served, [Next]_vars, NEW d \in Conn
    PROVE  /\ open'[d] => open[d] \/ Join(d)
           /\ open[d] /\ open'[d] => peers'[d] = peers[d] /\ told[d] \subseteq told'[d]
           /\ peers'[d] \subseteq peers[d] \/ (Join(d) /\ peers'[d] = members[group[d]])
           /\ \A m \in told'[d] \ told[d] :
                  \E c \in Conn : \/ TellJoin(c, d) /\ m = Message("Join", c)
                                  \/ TellLeft(c, d) /\ m = Message("Left", c)
<1> DEFINE Goal == /\ open'[d] => open[d] \/ Join(d)
                   /\ open[d] /\ open'[d] => peers'[d] = peers[d] /\ told[d] \subseteq told'[d]
                   /\ peers'[d] \subseteq peers[d] \/ (Join(d) /\ peers'[d] = members[group[d]])
                   /\ \A m \in told'[d] \ told[d] :
                          \E c \in Conn : \/ TellJoin(c, d) /\ m = Message("Join", c)
                                          \/ TellLeft(c, d) /\ m = Message("Left", c)
<1> USE DEF handlerVars, boxVars, recvVars, roomVars
<1>1. ASSUME NEW e \in Conn, NEW m, Send(e, m)
      PROVE  /\ told[d] \subseteq told'[d]
             /\ \A n \in told'[d] \ told[d] : d = e /\ n = m /\ m \in Notices
  BY <1>1 DEF Send, TypeOK
<1>2. ASSUME NEW e \in Conn, Close(e)
      PROVE  /\ open'[d] => open[d] /\ d # e
             /\ d # e => told'[d] = told[d]
             /\ told'[d] \subseteq told[d]
  BY <1>2 DEF Close, TypeOK
<1>3. ASSUME UNCHANGED <<open, peers, told>> PROVE Goal
  BY <1>3
<1>4. ASSUME NEW c \in Conn, Join(c) PROVE Goal
  <2>1. told' = told
    BY <1>4 DEF Join
  <2>2. open'[d] => open[d] \/ d = c
    BY <1>4 DEF Join, TypeOK
  <2>3. d # c => peers'[d] = peers[d]
    BY <1>4 DEF Join, TypeOK
  <2>4. d = c => peers'[d] = members[group[d]]
    BY <1>4 DEF Join, Found, TypeOK
  <2>5. open[d] => d # c
    BY <1>4 DEF Join, Served
  <2> QED BY <1>4, <2>1, <2>2, <2>3, <2>4, <2>5
<1>5. ASSUME NEW c \in Conn, SayHello(c) \/ Fail(c) PROVE Goal
  <2>1. PICK m : Send(c, m) /\ m.kind \in {"Hello", "Error"}
    BY <1>5 DEF SayHello, Fail, Message
  <2>2. m \notin Notices
    BY <2>1 DEF Notices
  <2>3. UNCHANGED <<open, peers>>
    BY <1>5 DEF SayHello, Fail
  <2> QED BY <1>1, <2>1, <2>2, <2>3
<1>6. ASSUME NEW c \in Conn, NEW e \in Conn, Relay(c, e) PROVE Goal
  <2>1. Send(e, Message(job[c].kind, c)) /\ UNCHANGED <<open, peers>>
    BY <1>6 DEF Relay
  <2>2. job[c] \in Jobs \/ job[c] = NoJob
    BY DEF TypeOK
  <2>3. Message(job[c].kind, c) \notin Notices
    BY <2>2 DEF Jobs, NoJob, Message, Notices
  <2> QED BY <1>1, <2>1, <2>3
<1>7. ASSUME NEW c \in Conn, NEW e \in Conn, TellJoin(c, e) PROVE Goal
  <2>1. Send(e, Message("Join", c)) /\ UNCHANGED <<open, peers>>
    BY <1>7 DEF TellJoin
  <2> QED BY <1>1, <1>7, <2>1
<1>8. ASSUME NEW c \in Conn, NEW e \in Conn, TellLeft(c, e) PROVE Goal
  <2>1. Send(e, Message("Left", c)) /\ UNCHANGED <<open, peers>>
    BY <1>8 DEF TellLeft
  <2> QED BY <1>1, <1>8, <2>1
<1>9. ASSUME NEW c \in Conn, DeliveryFails(c) PROVE Goal
  <2>1. Close(c) /\ UNCHANGED peers
    BY <1>9 DEF DeliveryFails
  <2> QED BY <1>2, <2>1
<1>10. ASSUME NEW c \in Conn, Abort(c) PROVE Goal
  <2>1. Close(c) /\ peers'[d] \subseteq peers[d] /\ (d # c => peers'[d] = peers[d])
    BY <1>10 DEF Abort, TypeOK
  <2> QED BY <1>2, <2>1
<1>11. ASSUME NEW c \in Conn,
              Refuse(c) \/ Leave(c) \/ HangUp(c) \/ TakeMessage(c) \/ LookUp(c)
              \/ Relayed(c) \/ SocketClosed(c) \/ Stopped(c) \/ Deliver(c)
       PROVE Goal
  BY <1>3, <1>11 DEF Refuse, Leave, HangUp, TakeMessage, LookUp, Relayed, SocketClosed, Stopped, Deliver
<1>12. CASE ClearRequests \/ UNCHANGED vars
  BY <1>3, <1>12 DEF ClearRequests, vars
<1> QED BY <1>4, <1>5, <1>6, <1>7, <1>8, <1>9, <1>10, <1>11, <1>12 DEF Next

\* An introduction lasts while the outbox does, and there are two ways to make one.
LEMMA IntroductionStep ==
    ASSUME TypeOK, Served, [Next]_vars, NEW c \in Conn, NEW d \in Conn
    PROVE  /\ open[d] /\ open'[d] /\ Introduced(c, d) => Introduced(c, d)'
           /\ Introduced(c, d)' =>
                \/ Introduced(c, d)
                \/ Join(d) /\ c \in members[group[d]]
                \/ TellJoin(c, d)
<1> DEFINE J == Message("Join", c)
<1>1. J \in told'[d] /\ J \notin told[d] => TellJoin(c, d)
  <2> SUFFICES ASSUME J \in told'[d] \ told[d] PROVE TellJoin(c, d)
    OBVIOUS
  <2>1. PICK e \in Conn : \/ TellJoin(e, d) /\ J = Message("Join", e)
                          \/ TellLeft(e, d) /\ J = Message("Left", e)
    BY BoxStep
  <2>2. J.kind = "Join" /\ J.peer = c
    BY DEF Message
  <2>3. J # Message("Left", e) /\ (J = Message("Join", e) => e = c)
    BY <2>2 DEF Message
  <2> QED BY <2>1, <2>3
<1>2. Introduced(c, d) <=> c \in peers[d] \/ J \in told[d]
  BY DEF Introduced
<1>3. Introduced(c, d)' <=> c \in peers'[d] \/ J \in told'[d]
  BY DEF Introduced, Message
<1> HIDE DEF J
<1> QED BY <1>1, <1>2, <1>3, BoxStep

\* What a step can do to a handler and to the list of those it has to tell.
LEMMA HandlerStep ==
    ASSUME TypeOK, [Next]_vars, NEW c \in Conn
    PROVE  /\ group' = group
           /\ pc'[c] = "idle" => pc[c] = "idle"
           /\ Joined(c)' => Joined(c) \/ Join(c)
           /\ pc'[c] = "parting" => pc[c] = "parting" \/ Leave(c)
           /\ tell'[c] \subseteq tell[c] \/ tell'[c] \subseteq members[group[c]]
           /\ \A d \in tell[c] :
                /\ pc[c] = "joining" => (pc'[c] = "joining" /\ d \in tell'[c]) \/ TellJoin(c, d)
                /\ pc[c] = "parting" => (pc'[c] = "parting" /\ d \in tell'[c]) \/ TellLeft(c, d)
<1> DEFINE Goal == /\ group' = group
                   /\ pc'[c] = "idle" => pc[c] = "idle"
                   /\ Joined(c)' => Joined(c) \/ Join(c)
                   /\ pc'[c] = "parting" => pc[c] = "parting" \/ Leave(c)
                   /\ tell'[c] \subseteq tell[c] \/ tell'[c] \subseteq members[group[c]]
                   /\ \A d \in tell[c] :
                        /\ pc[c] = "joining" => (pc'[c] = "joining" /\ d \in tell'[c]) \/ TellJoin(c, d)
                        /\ pc[c] = "parting" => (pc'[c] = "parting" /\ d \in tell'[c]) \/ TellLeft(c, d)
<1> USE DEF handlerVars, boxVars, recvVars, roomVars
<1>1. ASSUME group' = group, pc'[c] = pc[c], tell'[c] = tell[c] PROVE Goal
  BY <1>1 DEF Joined
<1>2. ASSUME NEW e \in Conn, Refuse(e) PROVE Goal
  BY <1>2 DEF Refuse, TypeOK, Joined
<1>3. ASSUME NEW e \in Conn, Join(e) PROVE Goal
  <2>1. CASE c = e
    BY <1>3, <2>1 DEF Join, Found, TypeOK, Joined
  <2>2. CASE c # e
    BY <1>1, <1>3, <2>2 DEF Join, TypeOK
  <2> QED BY <2>1, <2>2
<1>4. ASSUME NEW e \in Conn, SayHello(e) PROVE Goal
  BY <1>4 DEF SayHello, AllTold, TypeOK, Joined
<1>5. ASSUME NEW e \in Conn, Abort(e) PROVE Goal
  BY <1>5 DEF Abort, TypeOK, Joined
<1>6. ASSUME NEW e \in Conn, Leave(e) PROVE Goal
  <2>1. CASE c = e
    BY <1>6, <2>1 DEF Leave, Remaining, TypeOK, Joined
  <2>2. CASE c # e
    BY <1>1, <1>6, <2>2 DEF Leave, TypeOK
  <2> QED BY <2>1, <2>2
<1>7. ASSUME NEW e \in Conn, NEW d \in Conn, TellJoin(e, d) PROVE Goal
  <2>1. group' = group /\ pc' = pc /\ pc[e] = "joining" /\ tell' = [tell EXCEPT ![e] = @ \ {d}]
    BY <1>7 DEF TellJoin
  <2>2. CASE c = e
    BY <1>7, <2>1, <2>2 DEF TypeOK, Joined
  <2>3. CASE c # e
    BY <1>1, <2>1, <2>3 DEF TypeOK
  <2> QED BY <2>2, <2>3
<1>8. ASSUME NEW e \in Conn, NEW d \in Conn, TellLeft(e, d) PROVE Goal
  <2>1. group' = group /\ pc' = pc /\ pc[e] = "parting" /\ tell' = [tell EXCEPT ![e] = @ \ {d}]
    BY <1>8 DEF TellLeft
  <2>2. CASE c = e
    BY <1>8, <2>1, <2>2 DEF TypeOK, Joined
  <2>3. CASE c # e
    BY <1>1, <2>1, <2>3 DEF TypeOK
  <2> QED BY <2>2, <2>3
<1>9. ASSUME NEW e \in Conn,
             Deliver(e) \/ DeliveryFails(e) \/ HangUp(e) \/ TakeMessage(e) \/ LookUp(e)
             \/ Relayed(e) \/ Fail(e) \/ SocketClosed(e) \/ Stopped(e)
      PROVE Goal
  BY <1>1, <1>9 DEF Deliver, DeliveryFails, HangUp, TakeMessage, LookUp, Relayed, Fail, SocketClosed, Stopped
<1>10. ASSUME NEW e \in Conn, NEW d \in Conn, Relay(e, d) PROVE Goal
  BY <1>1, <1>10 DEF Relay
<1>11. CASE ClearRequests \/ UNCHANGED vars
  BY <1>1, <1>11 DEF ClearRequests, vars
<1> QED BY <1>2, <1>3, <1>4, <1>5, <1>6, <1>7, <1>8, <1>9, <1>10, <1>11 DEF Next

\* Who is in the map of a group.
LEMMA Member ==
    ASSUME TypeOK, RoomExact, NEW c \in Conn, NEW d \in Conn
    PROVE  c \in members[group[d]] <=> Joined(c) /\ group[c] = group[d]
BY DEF RoomExact, TypeOK

LEMMA NeighboursStep ==
    TypeOK /\ Served /\ RoomExact /\ Neighbours /\ [Next]_vars => Neighbours'
<1> SUFFICES ASSUME TypeOK, Served, RoomExact, Neighbours, [Next]_vars, NEW c \in Conn, NEW d \in Conn
             PROVE  /\ Introduced(c, d)' => group'[c] = group'[d] /\ pc'[c] # "idle"
                    /\ d \in tell'[c] => group'[c] = group'[d]
  BY DEF Neighbours
<1>1. group' = group /\ (pc'[c] = "idle" => pc[c] = "idle")
  BY HandlerStep
<1>2. d \in tell'[c] => group[c] = group[d]
  BY HandlerStep, Member DEF Neighbours
<1>3. ASSUME Introduced(c, d)' PROVE group[c] = group[d] /\ pc[c] # "idle"
  <2>1. CASE Introduced(c, d)
    BY <2>1 DEF Neighbours
  <2>2. CASE c \in members[group[d]]
    BY <2>2, Member DEF Joined
  <2>3. CASE TellJoin(c, d)
    BY <2>3 DEF TellJoin, Neighbours
  <2> QED BY <1>3, <2>1, <2>2, <2>3, IntroductionStep
<1> QED BY <1>1, <1>2, <1>3

LEMMA AcquaintedStep ==
    TypeOK /\ Served /\ RoomExact /\ Acquainted /\ [Next]_vars => Acquainted'
<1> SUFFICES ASSUME TypeOK, Served, RoomExact, Acquainted, [Next]_vars, NEW c \in Conn, NEW d \in Conn,
                    c # d, (group[c] = group[d])', Joined(c)', open'[d]
             PROVE  Introduced(c, d)' \/ (pc'[c] = "joining" /\ d \in tell'[c])
  BY DEF Acquainted
<1>0. group[c] = group[d] /\ group' = group
  BY HandlerStep
<1>1. CASE Join(c)
  <2>1. open[d]
    BY <1>1 DEF Join, TypeOK
  <2>2. d \in members[group[c]]
    BY <1>0, <2>1, Member DEF Served, Joined
  <2>3. pc'[c] = "joining" /\ tell'[c] = members[group[c]]
    BY <1>1 DEF Join, Found, TypeOK
  <2> QED BY <2>2, <2>3
<1>2. CASE Join(d)
  <2>1. Joined(c)
    BY <1>2 DEF Join, Joined, TypeOK
  <2>2. c \in members[group[d]]
    BY <1>0, <2>1, Member
  <2>3. peers'[d] = members[group[d]]
    BY <1>2 DEF Join, Found, TypeOK
  <2> QED BY <2>2, <2>3 DEF Introduced
<1>3. CASE TellJoin(c, d)
  <2>1. open[d]
    BY <1>3 DEF TellJoin
  <2>2. told' = [told EXCEPT ![d] = @ \cup ({Message("Join", c)} \cap Notices)]
    BY <1>3, <2>1 DEF TellJoin, Send
  <2>3. Message("Join", c) \in Notices
    BY DEF Message, Notices
  <2>4. Message("Join", c) \in told'[d]
    BY <2>2, <2>3 DEF TypeOK
  <2> QED BY <2>4 DEF Introduced, Message
<1>4. CASE ~Join(c) /\ ~Join(d) /\ ~TellJoin(c, d)
  <2>1. Joined(c)
    BY <1>4, HandlerStep
  <2>2. open[d]
    BY <1>4, BoxStep
  <2>3. Introduced(c, d) \/ (pc[c] = "joining" /\ d \in tell[c])
    BY <1>0, <2>1, <2>2 DEF Acquainted
  <2>4. Introduced(c, d) => Introduced(c, d)'
    BY <2>2, IntroductionStep
  <2>5. pc[c] = "joining" /\ d \in tell[c] => pc'[c] = "joining" /\ d \in tell'[c]
    BY <1>4, HandlerStep
  <2> QED BY <2>3, <2>4, <2>5
<1> QED BY <1>1, <1>2, <1>3, <1>4

LEMMA AnnouncedStep ==
    TypeOK /\ Served /\ RoomExact /\ Neighbours /\ Announced /\ [Next]_vars => Announced'
<1> SUFFICES ASSUME TypeOK, Served, RoomExact, Neighbours, Announced, [Next]_vars,
                    NEW c \in Conn, NEW d \in Conn,
                    c # d, pc'[c] = "parting", open'[d], Introduced(c, d)'
             PROVE  Message("Left", c) \in told'[d] \/ d \in tell'[c]
  BY DEF Announced, Message
<1>1. CASE Leave(c)
  <2>1. open[d] /\ Introduced(c, d)
    BY <1>1 DEF Leave, Introduced, boxVars, Message
  <2>2. Joined(d) /\ group[d] = group[c]
    BY <2>1 DEF Served, Joined, Neighbours
  <2>3. d \in Remaining(c)
    BY <2>2, Member DEF Remaining
  <2>4. tell'[c] = Remaining(c)
    BY <1>1 DEF Leave, TypeOK
  <2> QED BY <2>3, <2>4
<1>2. CASE Join(d)
  <2>1. ~Joined(c)
    BY <1>2 DEF Join, Joined, TypeOK
  <2>2. ~open[d] /\ peers[d] = {} /\ told[d] = {}
    BY <1>2 DEF Join, Served
  <2>3. ~Introduced(c, d)
    BY <2>2 DEF Introduced
  <2>4. c \notin members[group[d]]
    BY <2>1, Member
  <2>5. ~TellJoin(c, d)
    BY <2>1 DEF TellJoin, Joined
  <2> QED BY <2>3, <2>4, <2>5, IntroductionStep
<1>3. CASE TellLeft(c, d)
  <2>1. open[d]
    BY <1>3 DEF TellLeft
  <2>2. told' = [told EXCEPT ![d] = @ \cup ({Message("Left", c)} \cap Notices)]
    BY <1>3, <2>1 DEF TellLeft, Send
  <2>3. Message("Left", c) \in Notices
    BY DEF Message, Notices
  <2> QED BY <2>2, <2>3 DEF TypeOK
<1>4. CASE ~Leave(c) /\ ~Join(d) /\ ~TellLeft(c, d)
  <2>1. pc[c] = "parting"
    BY <1>4, HandlerStep
  <2>2. open[d]
    BY <1>4, BoxStep
  <2>3. ~TellJoin(c, d)
    BY <2>1 DEF TellJoin
  <2>4. Introduced(c, d)
    BY <1>4, <2>3, IntroductionStep
  <2>5. Message("Left", c) \in told[d] \/ d \in tell[c]
    BY <2>1, <2>2, <2>4 DEF Announced
  <2>6. told[d] \subseteq told'[d]
    BY <2>2, BoxStep
  <2>7. d \in tell[c] => d \in tell'[c]
    BY <1>4, <2>1, HandlerStep
  <2> QED BY <2>5, <2>6, <2>7
<1> QED BY <1>1, <1>2, <1>3, <1>4

\* What a step can do to what a receive task relays.
LEMMA JobStep ==
    ASSUME TypeOK, JobSet, [Next]_vars, NEW c \in Conn, rt'[c] \in {"counted", "sending"},
           ~TakeMessage(c), ~LookUp(c)
    PROVE  rt[c] \in {"counted", "sending"} /\ job'[c].to \subseteq job[c].to
<1> DEFINE Goal == rt[c] \in {"counted", "sending"} /\ job'[c].to \subseteq job[c].to
<1> USE DEF handlerVars, boxVars, recvVars, roomVars
<1>1. ASSUME rt'[c] = rt[c], job'[c] = job[c] PROVE Goal
  BY <1>1
<1>2. ASSUME NEW e \in Conn, SayHello(e) \/ Fail(e) \/ SocketClosed(e) \/ Relayed(e) \/ Stopped(e) PROVE Goal
  <2>1. e # c
    BY <1>2 DEF SayHello, Fail, SocketClosed, Relayed, Stopped, TypeOK
  <2> QED BY <1>1, <1>2, <2>1 DEF SayHello, Fail, SocketClosed, Relayed, Stopped, TypeOK
<1>3. ASSUME NEW e \in Conn, TakeMessage(e) \/ LookUp(e) PROVE Goal
  <2>1. e # c
    BY <1>3
  <2>2. rt'[c] = rt[c]
    BY <1>3, <2>1 DEF TakeMessage, LookUp, TypeOK
  <2>3. job'[c] = job[c]
    BY <1>3, <2>1 DEF TakeMessage, LookUp, TypeOK
  <2> QED BY <1>1, <2>2, <2>3
<1>4. ASSUME NEW e \in Conn, NEW d \in Conn, Relay(e, d) PROVE Goal
  <2>1. rt' = rt /\ job' = [job EXCEPT ![e].to = @ \ {d}] /\ rt[e] = "sending"
    BY <1>4 DEF Relay
  <2>2. CASE e = c
    <3>1. job'[c] = [job[c] EXCEPT !.to = @ \ {d}]
      BY <2>1, <2>2 DEF TypeOK
    <3>2. job[c] \in Jobs
      BY <2>1, <2>2 DEF JobSet
    <3>3. job'[c].to = job[c].to \ {d}
      BY <3>1, <3>2 DEF Jobs
    <3> QED BY <2>1, <2>2, <3>3
  <2>3. CASE e # c
    <3>1. job'[c] = job[c]
      BY <2>1, <2>3 DEF TypeOK
    <3> QED BY <1>1, <2>1, <3>1
  <2> QED BY <2>2, <2>3
<1>5. ASSUME NEW e \in Conn,
             Refuse(e) \/ Join(e) \/ Leave(e) \/ HangUp(e) \/ Abort(e) \/ Deliver(e) \/ DeliveryFails(e)
      PROVE Goal
  BY <1>1, <1>5 DEF Refuse, Join, Leave, HangUp, Abort, Deliver, DeliveryFails
<1>6. ASSUME NEW e \in Conn, NEW d \in Conn, TellJoin(e, d) \/ TellLeft(e, d) PROVE Goal
  BY <1>1, <1>6 DEF TellJoin, TellLeft
<1>7. CASE ClearRequests \/ UNCHANGED vars
  BY <1>1, <1>7 DEF ClearRequests, vars
<1> QED BY <1>2, <1>3, <1>4, <1>5, <1>6, <1>7 DEF Next

LEMMA AddressedStep ==
    /\ TypeOK /\ JobSet /\ Served /\ RoomExact /\ Neighbours /\ Acquainted /\ Addressed
    /\ [Next]_vars
    => Addressed'
<1> SUFFICES ASSUME TypeOK, JobSet, Served, RoomExact, Neighbours, Acquainted, Addressed, [Next]_vars,
                    NEW c \in Conn, NEW d \in Conn, rt'[c] \in {"counted", "sending"}, d \in job'[c].to
             PROVE  pc'[d] # "idle" /\ (open'[d] /\ c # d => Introduced(c, d)')
  BY DEF Addressed
\* It is enough that d is known, and c known to it, before the step.
<1>1. ASSUME pc[d] # "idle", open[d] /\ c # d => Introduced(c, d)
      PROVE  pc'[d] # "idle" /\ (open'[d] /\ c # d => Introduced(c, d)')
  <2>1. pc'[d] # "idle"
    BY <1>1, HandlerStep
  <2>2. ~Join(d)
    BY <1>1 DEF Join
  <2>3. open'[d] => open[d]
    BY <2>2, BoxStep
  <2> QED BY <1>1, <2>1, <2>3, IntroductionStep
<1>2. CASE TakeMessage(c)
  <2>1. pc[c] = "running"
    BY <1>2 DEF TakeMessage
  <2>2. Introduced(d, c)
    <3>1. rt'[c] = "counted" /\ rt'[c] # "failing"
      BY <1>2 DEF TakeMessage, TypeOK
    <3>2. PICK k \in {"Update", "Sdp"}, to \in SUBSET {e \in Conn : Introduced(e, c)} :
            job' = [job EXCEPT ![c] = [kind |-> k, to |-> to]]
      <4>1. CASE job' = [job EXCEPT ![c] = [kind |-> "Update", to |-> {}]]
        BY <4>1
      <4>2. CASE \E e \in Conn : Introduced(e, c) /\ job' = [job EXCEPT ![c] = [kind |-> "Sdp", to |-> {e}]]
        <5>1. PICK e \in Conn : Introduced(e, c) /\ job' = [job EXCEPT ![c] = [kind |-> "Sdp", to |-> {e}]]
          BY <4>2
        <5>2. {e} \in SUBSET {f \in Conn : Introduced(f, c)}
          BY <5>1
        <5> QED BY <5>1, <5>2
      <4>3. ~(rt' = [rt EXCEPT ![c] = "failing"])
        BY <3>1 DEF TypeOK
      <4> QED BY <1>2, <4>1, <4>2, <4>3 DEF TakeMessage
    <3>3. job'[c].to = to
      BY <3>2 DEF TypeOK
    <3> QED BY <3>2, <3>3
  <2>3. group[d] = group[c] /\ pc[d] # "idle"
    BY <2>2 DEF Neighbours
  <2>4. open[d] /\ c # d => Introduced(c, d)
    BY <2>1, <2>3 DEF Acquainted, Joined
  <2> QED BY <1>1, <2>3, <2>4
<1>3. CASE LookUp(c)
  <2>1. rt[c] = "counted" /\ job[c] \in Jobs
    BY <1>3 DEF LookUp, JobSet
  <2>2. job'[c] = [job[c] EXCEPT !.to = Addressees(c)]
    BY <1>3 DEF LookUp, TypeOK
  <2>3. d \in Addressees(c)
    BY <2>1, <2>2 DEF Jobs
  <2>4. CASE job[c].kind = "Sdp"
    <3>1. d \in job[c].to
      BY <2>3, <2>4 DEF Addressees
    <3> QED BY <1>1, <2>1, <3>1 DEF Addressed
  <2>5. CASE job[c].kind # "Sdp"
    <3>1. c \in members[group[c]] /\ d \in members[group[c]]
      BY <2>3, <2>5 DEF Addressees
    <3>2. Joined(c) /\ Joined(d) /\ group[d] = group[c]
      BY <3>1, Member
    <3>3. pc[c] # "joining"
      BY <2>1 DEF Served
    <3>4. open[d] /\ c # d => Introduced(c, d)
      BY <3>2, <3>3 DEF Acquainted
    <3>5. pc[d] # "idle"
      BY <3>2 DEF Joined
    <3> QED BY <1>1, <3>4, <3>5
  <2> QED BY <2>4, <2>5
<1>4. CASE ~TakeMessage(c) /\ ~LookUp(c)
  <2>1. rt[c] \in {"counted", "sending"} /\ d \in job[c].to
    BY <1>4, JobStep
  <2> QED BY <1>1, <2>1 DEF Addressed
<1> QED BY <1>2, <1>3, <1>4

\* Where an update or an offer in an outbox comes from.
LEMMA OutboxStep ==
    ASSUME TypeOK, [Next]_vars, NEW d \in Conn, NEW i \in 1 .. Len(outbox'[d]),
           outbox'[d][i].kind \in {"Update", "Sdp"}
    PROVE  \/ \E j \in 1 .. Len(outbox[d]) : outbox'[d][i] = outbox[d][j]
           \/ \E c \in Conn : Relay(c, d) /\ outbox'[d][i].peer = c
<1> DEFINE Old == \E j \in 1 .. Len(outbox[d]) : outbox'[d][i] = outbox[d][j]
<1> USE DEF handlerVars, boxVars, recvVars, roomVars
<1>0. outbox[d] \in Seq(Messages) /\ Len(outbox[d]) \in Nat
  BY DEF TypeOK
<1>1. ASSUME outbox'[d] = outbox[d] PROVE Old
  BY <1>1
<1>2. ASSUME NEW e \in Conn, NEW m \in Messages, Send(e, m)
      PROVE  Old \/ (e = d /\ outbox'[d][i] = m)
  <2>1. CASE outbox'[d] = outbox[d]
    BY <1>1, <2>1
  <2>2. CASE e = d /\ outbox'[d] = Append(outbox[d], m)
    <3>1. i \in 1 .. Len(outbox[d]) + 1
      BY <1>0, <2>2
    <3>2. CASE i \in 1 .. Len(outbox[d])
      BY <1>0, <2>2, <3>2
    <3>3. CASE i = Len(outbox[d]) + 1
      BY <1>0, <2>2, <3>3
    <3> QED BY <1>0, <3>1, <3>2, <3>3
  <2> QED BY <1>2, <2>1, <2>2 DEF Send, TypeOK
<1>3. ASSUME NEW c \in Conn, SayHello(c) PROVE Old
  <2>1. Message("Hello", c) \in Messages /\ Message("Hello", c).kind = "Hello"
    BY DEF Message, Messages, Kinds
  <2>2. Send(c, Message("Hello", c))
    BY <1>3 DEF SayHello
  <2> QED BY <1>2, <2>1, <2>2
<1>4. ASSUME NEW c \in Conn, Fail(c) PROVE Old
  <2>1. Message("Error", c) \in Messages /\ Message("Error", c).kind = "Error"
    BY DEF Message, Messages, Kinds
  <2>2. Send(c, Message("Error", c))
    BY <1>4 DEF Fail
  <2> QED BY <1>2, <2>1, <2>2
<1>5. ASSUME NEW c \in Conn, NEW e \in Conn, TellJoin(c, e) PROVE Old
  <2>1. Message("Join", c) \in Messages /\ Message("Join", c).kind = "Join"
    BY DEF Message, Messages, Kinds
  <2>2. Send(e, Message("Join", c))
    BY <1>5 DEF TellJoin
  <2> QED BY <1>2, <2>1, <2>2
<1>6. ASSUME NEW c \in Conn, NEW e \in Conn, TellLeft(c, e) PROVE Old
  <2>1. Message("Left", c) \in Messages /\ Message("Left", c).kind = "Left"
    BY DEF Message, Messages, Kinds
  <2>2. Send(e, Message("Left", c))
    BY <1>6 DEF TellLeft
  <2> QED BY <1>2, <2>1, <2>2
<1>7. ASSUME NEW c \in Conn, NEW e \in Conn, Relay(c, e)
      PROVE  Old \/ (Relay(c, d) /\ outbox'[d][i].peer = c)
  <2>1. CASE outbox'[d] = outbox[d]
    BY <1>1, <2>1
  <2>2. CASE e = d /\ outbox'[d] = Append(outbox[d], Message(job[c].kind, c))
    <3>1. i \in 1 .. Len(outbox[d]) + 1
      BY <1>0, <2>2
    <3>2. CASE i \in 1 .. Len(outbox[d])
      BY <1>0, <2>2, <3>2
    <3>3. CASE i = Len(outbox[d]) + 1
      <4>1. outbox'[d][i] = Message(job[c].kind, c)
        BY <1>0, <2>2, <3>3
      <4> QED BY <1>7, <2>2, <4>1 DEF Message
    <3> QED BY <1>0, <3>1, <3>2, <3>3
  <2>3. Send(e, Message(job[c].kind, c))
    BY <1>7 DEF Relay
  <2> QED BY <2>1, <2>2, <2>3 DEF Send, TypeOK
<1>8. ASSUME NEW c \in Conn, Deliver(c) PROVE Old
  <2>1. CASE c = d
    <3>1. outbox'[d] = Tail(outbox[d]) /\ outbox[d] # <<>>
      BY <1>8, <2>1 DEF Deliver, TypeOK
    <3>2. Len(Tail(outbox[d])) = Len(outbox[d]) - 1 /\ i \in 1 .. Len(outbox[d]) - 1
      BY <1>0, <3>1
    <3>3. outbox'[d][i] = outbox[d][i + 1] /\ i + 1 \in 1 .. Len(outbox[d])
      BY <1>0, <3>1, <3>2
    <3> QED BY <3>3
  <2>2. CASE c # d
    BY <1>1, <1>8, <2>2 DEF Deliver, TypeOK
  <2> QED BY <2>1, <2>2
<1>9. ASSUME NEW c \in Conn, DeliveryFails(c) \/ Abort(c) PROVE Old
  <2>1. CASE c = d
    <3>1. outbox'[d] = <<>>
      BY <1>9, <2>1 DEF DeliveryFails, Abort, Close, TypeOK
    <3> QED BY <3>1
  <2>2. CASE c # d
    BY <1>1, <1>9, <2>2 DEF DeliveryFails, Abort, Close, TypeOK
  <2> QED BY <2>1, <2>2
<1>10. ASSUME NEW c \in Conn,
              Refuse(c) \/ Join(c) \/ Leave(c) \/ HangUp(c) \/ TakeMessage(c) \/ LookUp(c)
              \/ Relayed(c) \/ SocketClosed(c) \/ Stopped(c)
       PROVE Old
  BY <1>1, <1>10 DEF Refuse, Join, Leave, HangUp, TakeMessage, LookUp, Relayed, SocketClosed, Stopped
<1>11. CASE ClearRequests \/ UNCHANGED vars
  BY <1>1, <1>11 DEF ClearRequests, vars
<1> QED BY <1>3, <1>4, <1>5, <1>6, <1>7, <1>8, <1>9, <1>10, <1>11 DEF Next

LEMMA KnownSenderStep ==
    /\ TypeOK /\ JobSet /\ Served /\ Addressed /\ KnownSender
    /\ [Next]_vars /\ Served'
    => KnownSender'
<1> SUFFICES ASSUME TypeOK, JobSet, Served, Addressed, KnownSender, [Next]_vars, Served',
                    NEW d \in Conn, NEW i \in 1 .. Len(outbox'[d]),
                    outbox'[d][i].kind \in {"Update", "Sdp"},
                    NEW c, c = outbox'[d][i].peer
             PROVE  c = d \/ Introduced(c, d)'
  BY DEF KnownSender, Introduced, Message
<1>1. open'[d]
  BY DEF Served
<1>2. ASSUME NEW j \in 1 .. Len(outbox[d]), outbox'[d][i] = outbox[d][j]
      PROVE  c = d \/ Introduced(c, d)'
  <2>1. open[d]
    BY DEF Served
  <2>2. c = outbox[d][j].peer /\ outbox[d][j].kind \in {"Update", "Sdp"}
    BY <1>2
  <2>3. c \in Conn
    <3>1. outbox[d][j] \in Messages
      BY DEF TypeOK
    <3> QED BY <2>2, <3>1 DEF Messages
  <2>4. c = d \/ Introduced(c, d)
    BY <2>2 DEF KnownSender, Introduced, Message
  <2> QED BY <1>1, <2>1, <2>3, <2>4, IntroductionStep
<1>3. ASSUME NEW e \in Conn, Relay(e, d), e = c
      PROVE  c = d \/ Introduced(c, d)'
  <2>1. Relay(c, d) /\ c \in Conn
    BY <1>3
  <2>2. pc[d] # "idle" /\ (open[d] /\ c # d => Introduced(c, d))
    BY <2>1 DEF Relay, Addressed
  <2>3. open[d]
    BY <1>1, <2>2, BoxStep DEF Join
  <2> QED BY <1>1, <2>1, <2>2, <2>3, IntroductionStep
<1> QED BY <1>2, <1>3, OutboxStep
-----------------------------------------------------------------------------
(* The inductive invariant.                                                *)

IInv ==
    /\ TypeOK /\ JobSet
    /\ Served /\ RoomExact
    /\ Neighbours /\ Acquainted /\ Addressed /\ Announced
    /\ KnownSender

LEMMA Inductive == Spec => []IInv
<1>1. Init => IInv
  <2> SUFFICES ASSUME Init PROVE IInv
    OBVIOUS
  <2>1. TypeOK /\ JobSet
    BY ConstantsAssumption DEF Init, TypeOK, JobSet, HandlerStates, RecvStates, NoJob, Jobs
  <2>2. RoomExact
    BY ConstantsAssumption, FS_EmptySet DEF Init, RoomExact, Joined
  <2>3. Served
    BY DEF Init, Served
  <2>4. \A c, d \in Conn : ~Introduced(c, d)
    BY DEF Init, Introduced
  <2>5. Neighbours /\ Acquainted /\ Addressed /\ Announced
    BY <2>4 DEF Init, Neighbours, Acquainted, Addressed, Announced, Joined
  <2>6. KnownSender
    BY DEF Init, KnownSender
  <2> QED BY <2>1, <2>2, <2>3, <2>5, <2>6 DEF IInv
<1>2. IInv /\ [Next]_vars => IInv'
  BY TypeStep, ServedStep, RoomStep, NeighboursStep, AcquaintedStep, AddressedStep, AnnouncedStep,
     KnownSenderStep
  DEF IInv
<1> QED BY <1>1, <1>2, PTL DEF Spec

\* Two connections of a group that both got through joining know of each other.
THEOREM NobodyIsMissing == Spec => []NobodyMissing
<1>1. IInv => NobodyMissing
  BY DEF IInv, Acquainted, NobodyMissing, Joined
<1> QED BY <1>1, Inductive, PTL

\* Updates and offers reach only peers their sender was introduced to before.
THEOREM SendersAreKnown == Spec => []KnownSender
<1>1. IInv => KnownSender
  BY DEF IInv
<1> QED BY <1>1, Inductive, PTL

\* Every peer that knows of a connection is sent its Left when it goes.
THEOREM LeavesAreAnnounced == Spec => []LeaveAnnounced
<1>1. IInv => LeaveAnnounced
  BY DEF IInv, Announced, LeaveAnnounced
<1> QED BY <1>1, Inductive, PTL

-----------------------------------------------------------------------------
(* SignalingClient.                                                        *)


-----------------------------------------------------------------------------
(* Sequences, as the queues between the server and the application use     *)
(* them.                                                                   *)

\* What is put at the end of the last queue is put at the end of the way.
LEMMA PushAtEnd ==
    ASSUME NEW S, NEW p \in Seq(S), NEW q \in Seq(S), NEW e \in S
    PROVE  p \o Append(q, e) = Append(p \o q, e)
<1>1. Append(q, e) = q \o <<e>> /\ Append(p \o q, e) = (p \o q) \o <<e>> /\ <<e>> \in Seq(S)
  BY ConcatProperties
<1> QED BY <1>1, ConcatAssociative

\* A queue that hands its first element to the one before it.
LEMMA HandOver ==
    ASSUME NEW S, NEW p \in Seq(S), NEW q \in Seq(S), q # <<>>
    PROVE  Append(p, Head(q)) \o Tail(q) = p \o q
<1>1. /\ <<Head(q)>> \in Seq(S) /\ Tail(q) \in Seq(S) /\ Append(p, Head(q)) = p \o <<Head(q)>>
  BY HeadTailProperties
<1>2. <<Head(q)>> \o Tail(q) = q
  <2>1. Len(<<Head(q)>> \o Tail(q)) = Len(q)
    BY <1>1, ConcatProperties, HeadTailProperties
  <2>2. \A i \in 1..Len(q) : (<<Head(q)>> \o Tail(q))[i] = q[i]
    BY <1>1, ConcatProperties, HeadTailProperties
  <2> QED BY <1>1, <2>1, <2>2, ConcatProperties, SeqEqual
<1> QED BY <1>1, <1>2, ConcatAssociative

\* Elements of the parts are elements of the whole.
LEMMA PartOfWhole ==
    ASSUME NEW S, NEW p \in Seq(S), NEW q \in Seq(S), NEW P, p \o q \in Seq(P)
    PROVE  p \in Seq(P) /\ q \in Seq(P)
<1>1. \A i \in 1..Len(p) : p[i] = (p \o q)[i]
  BY ConcatProperties
<1>2. \A i \in 1..Len(q) : q[i] = (p \o q)[Len(p) + i]
  BY ConcatProperties
<1>3. Len(p) \in Nat /\ Len(q) \in Nat /\ Len(p \o q) = Len(p) + Len(q)
  BY ConcatProperties
<1>4. \A i \in 1..Len(p) : p[i] \in P
  BY <1>1, <1>3
<1>5. \A i \in 1..Len(q) : q[i] \in P
  <2> SUFFICES ASSUME NEW i \in 1..Len(q) PROVE q[i] \in P
    OBVIOUS
  <2>1. Len(p) + i \in 1..Len(p \o q)
    BY <1>3
  <2> QED BY <1>2, <2>1
<1> QED BY <1>4, <1>5

\* What is left of a sequence when its end is lost.
LEMMA Beginning ==
    ASSUME NEW S, NEW p \in Seq(S), NEW q \in Seq(S)
    PROVE  Len(p) <= Len(p \o q) /\ p = SubSeq(p \o q, 1, Len(p))
<1>1. Len(p) <= Len(p \o q)
  BY ConcatProperties
<1>2. \A i \in 1..Len(p) : (p \o q)[i] = p[i] /\ p[i] \in S
  BY ConcatProperties
<1>3. /\ SubSeq(p \o q, 1, Len(p)) \in Seq(S)
      /\ Len(SubSeq(p \o q, 1, Len(p))) = Len(p)
      /\ \A i \in 1..Len(p) : SubSeq(p \o q, 1, Len(p))[i] = p[i]
  BY <1>2, SubSeqProperties
<1> QED BY <1>1, <1>3, SeqEqual

-----------------------------------------------------------------------------
(* The inductive invariant.                                                *)

\* What is on its way from the server to the application.
Way == heard \o events \o relay \o received \o hand \o socket

\* It is what the server said, up to what was lost with the socket.
InOrder ==
    IF ws = "down" THEN Len(Way) <= Len(said) /\ Way = SubSeq(said, 1, Len(Way))
                   ELSE Way = said

\* A socket that is lost is not read from.
NothingUnread == ws = "down" => socket = <<>>

Said(m) == \E k \in DOMAIN said : said[k] = m

AnswersSaid == \A s \in Session : call[s] = "answered" => Said(MessageOf("answer", s))

ClientInv == ClientTypeOK /\ InOrder /\ NothingUnread /\ AnswersSaid

\* The queues are sequences of what the server sends.
Queues == {heard, events, relay, received, hand, socket, said}

LEMMA QueuesAreSeqs == ASSUME ClientTypeOK PROVE \A q \in Queues : q \in Seq(ServerMessages)
  BY DEF ClientTypeOK, Queues

\* Whatever queue a message is in, the server said it.
LEMMA OnTheWayIsSaid ==
    ASSUME ClientInv, NEW q \in {received, events}, NEW i \in DOMAIN q PROVE Said(q[i])
<1> DEFINE a == heard \o events
           b == a \o relay
           c == b \o received
           d == c \o hand
<1>1. heard \in Seq(ServerMessages) /\ events \in Seq(ServerMessages)
      /\ relay \in Seq(ServerMessages) /\ received \in Seq(ServerMessages)
      /\ hand \in Seq(ServerMessages) /\ socket \in Seq(ServerMessages) /\ said \in Seq(ServerMessages)
  BY DEF ClientInv, ClientTypeOK
<1>2. a \in Seq(ServerMessages) /\ b \in Seq(ServerMessages) /\ c \in Seq(ServerMessages)
      /\ d \in Seq(ServerMessages) /\ Way \in Seq(ServerMessages) /\ Way = d \o socket
  BY <1>1, ConcatProperties DEF Way
<1> DEFINE P == {said[k] : k \in DOMAIN said}
<1>3. Way \in Seq(P)
  <2>1. CASE ws # "down"
    <3>1. said \in Seq(P)
      BY <1>1
    <3> QED BY <2>1, <3>1 DEF ClientInv, InOrder
  <2>2. CASE ws = "down"
    <3>1. Len(Way) <= Len(said) /\ Way = SubSeq(said, 1, Len(Way)) /\ Len(Way) \in Nat
      BY <1>2, <2>2, SMTT(30) DEF ClientInv, InOrder
    <3>2. \A j \in 1..Len(Way) : said[j] \in P
      BY <1>1, <3>1
    <3> HIDE DEF P
    <3> QED BY <3>1, <3>2, SubSeqProperties
  <2> QED BY <2>1, <2>2
<1> HIDE DEF P
<1>4. c \in Seq(P)
  <2>1. d \in Seq(P)
    <3> HIDE DEF d
    <3>1. d \o socket \in Seq(P)
      BY <1>2, <1>3
    <3> QED BY <1>1, <1>2, <3>1, PartOfWhole
  <2> HIDE DEF c
  <2> QED BY <1>1, <1>2, <2>1, PartOfWhole
<1>5. b \in Seq(P) /\ received \in Seq(P)
  <2> HIDE DEF b
  <2> QED BY <1>1, <1>2, <1>4, PartOfWhole
<1>6. a \in Seq(P)
  <2> HIDE DEF a
  <2> QED BY <1>1, <1>2, <1>5, PartOfWhole
<1>7. events \in Seq(P)
  BY <1>1, <1>6, PartOfWhole
<1>8. q[i] \in P
  BY <1>5, <1>7
<1> QED BY <1>8 DEF P, Said

-----------------------------------------------------------------------------
(* The steps.                                                              *)

LEMMA ClientInitInv == ClientInit => ClientInv
<1> SUFFICES ASSUME ClientInit PROVE ClientInv
  OBVIOUS
<1>1. ClientTypeOK
  <2>1. <<>> \in Seq(ServerMessages) /\ <<>> \in Seq(ClientMessages) /\ Len(<<>>) = 0
    OBVIOUS
  <2>2. 0 <= EventCapacity
    BY ClientAssumption
  <2> QED BY <2>1, <2>2 DEF ClientInit, ClientTypeOK
<1>2. Way = <<>>
  BY DEF ClientInit, Way
<1> QED BY <1>1, <1>2 DEF ClientInit, ClientInv, InOrder, NothingUnread, AnswersSaid

\* A message of the server goes to the end of the way.
LEMMA ServerSendsInv ==
    ASSUME ClientInv, NEW m \in ServerMessages, ServerSends(m)
    PROVE  ClientInv'
<1> DEFINE p == heard \o events \o relay \o received \o hand
<1>1. /\ ws # "down" /\ ws' = ws /\ said' = Append(said, m) /\ socket' = Append(socket, m)
      /\ UNCHANGED <<connected, sendVars, hand, received, relay, events, heard, callVars>>
  BY DEF ServerSends
<1>2. ClientTypeOK'
  <2>1. said' \in Seq(ServerMessages) /\ socket' \in Seq(ServerMessages)
    BY <1>1 DEF ClientInv, ClientTypeOK
  <2> QED BY <1>1, <2>1 DEF ClientInv, ClientTypeOK, sendVars, callVars
<1>3. Way' = Append(Way, m)
  <2>1. p \in Seq(ServerMessages) /\ socket \in Seq(ServerMessages)
    BY ConcatProperties DEF ClientInv, ClientTypeOK
  <2>2. Way = p \o socket /\ Way' = p \o Append(socket, m)
    BY <1>1 DEF Way
  <2> HIDE DEF p
  <2> QED BY <2>1, <2>2, PushAtEnd
<1>4. InOrder' /\ NothingUnread'
  BY <1>1, <1>3 DEF ClientInv, InOrder, NothingUnread
<1>5. AnswersSaid'
  <2>1. ASSUME NEW n, Said(n) PROVE Said(n)'
    <3> PICK k \in DOMAIN said : said[k] = n
      BY <2>1 DEF Said
    <3>1. k \in DOMAIN Append(said, m) /\ Append(said, m)[k] = n
      BY DEF ClientInv, ClientTypeOK
    <3> QED BY <1>1, <3>1 DEF Said
  <2> QED BY <1>1, <2>1 DEF ClientInv, AnswersSaid, callVars
<1> QED BY <1>2, <1>4, <1>5 DEF ClientInv

\* What is not read is cut off.
LEMMA LoseInv == ASSUME ClientInv, Lose PROVE ClientInv'
<1> DEFINE p == heard \o events \o relay \o received \o hand
<1>1. /\ ws # "down" /\ ws' = "down" /\ socket' = <<>>
      /\ UNCHANGED <<connected, sendVars, hand, received, relay, events, said, heard, callVars>>
  BY DEF Lose
<1>2. ClientTypeOK'
  <2>1. socket' \in Seq(ServerMessages)
    BY <1>1
  <2> QED BY <1>1, <2>1 DEF ClientInv, ClientTypeOK, sendVars, callVars
<1>3. p \in Seq(ServerMessages) /\ socket \in Seq(ServerMessages)
  BY ConcatProperties DEF ClientInv, ClientTypeOK
<1>4. said = p \o socket
  BY <1>1 DEF ClientInv, InOrder, Way
<1>5. Way' = p
  <2>1. Way' = p \o <<>>
    BY <1>1 DEF Way
  <2> HIDE DEF p
  <2> QED BY <1>3, <2>1, ConcatEmptySeq
<1>6. Len(p) <= Len(said) /\ p = SubSeq(said, 1, Len(p))
  <2> HIDE DEF p
  <2> QED BY <1>3, <1>4, Beginning
<1>7. InOrder'
  BY <1>1, <1>5, <1>6 DEF InOrder
<1> QED BY <1>1, <1>2, <1>7 DEF ClientInv, NothingUnread, AnswersSaid, Said, callVars

\* The way is the same after a message has gone from one queue to the next.
LEMMA SameWay ==
    ASSUME ClientInv, UNCHANGED said, Way' = Way, ws' = ws \/ (ws # "down" /\ ws' # "down")
    PROVE  InOrder'
  BY DEF ClientInv, InOrder

LEMMA ReadInv == ASSUME ClientInv, Read PROVE ClientInv'
<1> DEFINE p == heard \o events \o relay \o received
<1>1. /\ socket # <<>> /\ hand = <<>> /\ hand' = <<Head(socket)>> /\ socket' = Tail(socket)
      /\ ws' = IF Head(socket).kind = "hello" THEN "up" ELSE ws
      /\ UNCHANGED <<connected, sendVars, received, relay, events, said, heard, callVars>>
  BY DEF Read
<1>2. ws # "down" /\ ws' # "down"
  BY <1>1 DEF ClientInv, NothingUnread
<1>3. socket \in Seq(ServerMessages) /\ Head(socket) \in ServerMessages
  BY <1>1, HeadTailProperties DEF ClientInv, ClientTypeOK
<1>4. ClientTypeOK'
  <2>1. socket' \in Seq(ServerMessages) /\ hand' \in Seq(ServerMessages) /\ Len(hand') <= 1
    BY <1>1, <1>3
  <2> QED BY <1>1, <2>1 DEF ClientInv, ClientTypeOK, sendVars, callVars
<1>5. p \in Seq(ServerMessages)
  BY ConcatProperties DEF ClientInv, ClientTypeOK
<1>6. Way' = Way
  <2>1. Way = (p \o <<>>) \o socket /\ Way' = Append(p, Head(socket)) \o Tail(socket)
    <3>1. Append(p, Head(socket)) = p \o <<Head(socket)>>
      <4> HIDE DEF p
      <4> QED BY <1>3, <1>5
    <3> QED BY <1>1, <3>1 DEF Way
  <2> HIDE DEF p
  <2> QED BY <1>1, <1>3, <1>5, <2>1, HandOver, ConcatEmptySeq
<1>7. InOrder' /\ NothingUnread'
  BY <1>1, <1>2, <1>6, SameWay DEF NothingUnread
<1> QED BY <1>1, <1>4, <1>7 DEF ClientInv, AnswersSaid, Said, callVars

LEMMA ReceiveInv == ASSUME ClientInv, Receive PROVE ClientInv'
<1> DEFINE p == heard \o events \o relay
<1>1. /\ received = <<>> /\ received' = hand /\ hand' = <<>>
      /\ UNCHANGED <<ws, connected, sendVars, socket, relay, events, said, heard, callVars>>
  BY DEF Receive
<1>2. p \in Seq(ServerMessages) /\ hand \in Seq(ServerMessages) /\ socket \in Seq(ServerMessages)
  BY ConcatProperties DEF ClientInv, ClientTypeOK
<1>3. ClientTypeOK'
  <2>1. hand' \in Seq(ServerMessages) /\ Len(hand') <= 1
    BY <1>1
  <2> QED BY <1>1, <2>1 DEF ClientInv, ClientTypeOK, sendVars, callVars
<1>4. Way' = Way
  <2>1. Way = ((p \o <<>>) \o hand) \o socket /\ Way' = ((p \o hand) \o <<>>) \o socket
    BY <1>1 DEF Way
  <2> HIDE DEF p
  <2>2. p \o hand \in Seq(ServerMessages)
    BY <1>2, ConcatProperties
  <2> QED BY <1>2, <2>1, <2>2, ConcatEmptySeq
<1> QED BY <1>1, <1>3, <1>4, SameWay DEF ClientInv, NothingUnread, AnswersSaid, Said, callVars

\* A call goes on with what is received, which the server said.
LEMMA ListenInv == ASSUME ClientInv, Listen PROVE ClientInv'
<1> DEFINE p == heard \o events
           m == Head(received)
<1>1. /\ received # <<>> /\ relay = <<>> /\ relay' = received /\ received' = <<>>
      /\ callbacks' = callbacks \ CallbackOf(m)
      /\ call' = [s \in Session |-> IF s \in CallbackOf(m) THEN "answered" ELSE call[s]]
      /\ UNCHANGED <<ws, connected, sendVars, socket, hand, events, said, heard, taken>>
  BY DEF Listen
<1>2. ClientTypeOK'
  <2>1. received' \in Seq(ServerMessages) /\ Len(received') <= 1
    BY <1>1
  <2>2. call' \in [Session -> {"idle", "offered", "waiting", "answered", "failed"}]
    BY <1>1 DEF ClientInv, ClientTypeOK
  <2>3. callbacks' \subseteq Session
    BY <1>1 DEF ClientInv, ClientTypeOK
  <2> HIDE DEF m
  <2> QED BY <1>1, <2>1, <2>2, <2>3 DEF ClientInv, ClientTypeOK, sendVars
<1>3. p \in Seq(ServerMessages) /\ received \in Seq(ServerMessages) /\ socket \in Seq(ServerMessages)
  BY ConcatProperties DEF ClientInv, ClientTypeOK
<1>4. Way' = Way
  <2>1. /\ Way = (((p \o <<>>) \o received) \o hand) \o socket
        /\ Way' = (((p \o received) \o <<>>) \o hand) \o socket
    BY <1>1 DEF Way
  <2> HIDE DEF p
  <2>2. p \o received \in Seq(ServerMessages)
    BY <1>3, ConcatProperties
  <2> QED BY <1>3, <2>1, <2>2, ConcatEmptySeq
<1>5. Said(m)
  <2>1. 1 \in DOMAIN received /\ received[1] = m
    BY <1>1, <1>3
  <2> QED BY <2>1, OnTheWayIsSaid
<1>6. AnswersSaid'
  <2> SUFFICES ASSUME NEW s \in Session, call'[s] = "answered" PROVE Said(MessageOf("answer", s))'
    BY DEF AnswersSaid
  <2>1. CASE s \in CallbackOf(m)
    <3>1. m.kind = "answer" /\ m.id = s
      BY <2>1 DEF CallbackOf
    <3>2. m \in ServerMessages
      BY <1>1, <1>3, HeadTailProperties
    <3>3. m = MessageOf("answer", s)
      <4> HIDE DEF m
      <4> QED BY <3>1, <3>2 DEF ServerMessages, MessageOf
    <3> QED BY <1>1, <1>5, <3>3 DEF Said
  <2>2. CASE s \notin CallbackOf(m)
    <3>1. call[s] = "answered"
      BY <1>1, <2>2
    <3> QED BY <1>1, <3>1 DEF ClientInv, AnswersSaid, Said
  <2> QED BY <2>1, <2>2
<1> QED BY <1>1, <1>2, <1>4, <1>6, SameWay DEF ClientInv, NothingUnread

LEMMA RelayInv == ASSUME ClientInv, PassOn PROVE ClientInv'
<1> DEFINE a == heard \o events
<1>1. /\ relay' = <<>> /\ Len(events) < EventCapacity /\ events' = events \o relay
      /\ UNCHANGED <<ws, connected, sendVars, socket, hand, received, said, heard, callVars>>
  BY DEF PassOn, SendOn
<1>2. /\ heard \in Seq(ServerMessages) /\ events \in Seq(ServerMessages)
      /\ relay \in Seq(ServerMessages) /\ a \in Seq(ServerMessages)
  BY ConcatProperties DEF ClientInv, ClientTypeOK
<1>3. ClientTypeOK'
  <2>1. events' \in Seq(ServerMessages) /\ Len(events') = Len(events) + Len(relay)
    BY <1>1, <1>2, ConcatProperties
  <2>2. Len(events) \in Nat /\ Len(relay) \in Nat /\ Len(relay) <= 1
    BY <1>2 DEF ClientInv, ClientTypeOK
  <2>3. Len(events') <= EventCapacity
    BY <1>1, <2>1, <2>2, ClientAssumption
  <2>4. relay' \in Seq(ServerMessages) /\ Len(relay') <= 1
    BY <1>1
  <2> QED BY <1>1, <2>1, <2>3, <2>4 DEF ClientInv, ClientTypeOK, sendVars, callVars
<1>4. Way' = Way
  <2>1. Way = ((((heard \o events) \o relay) \o received) \o hand) \o socket
        /\ Way' = ((((heard \o (events \o relay)) \o <<>>) \o received) \o hand) \o socket
    BY <1>1 DEF Way
  <2>2. heard \o (events \o relay) = (heard \o events) \o relay
    BY <1>2, ConcatAssociative
  <2>3. heard \o (events \o relay) \in Seq(ServerMessages)
    BY <1>2, ConcatProperties
  <2> QED BY <2>1, <2>2, <2>3, ConcatEmptySeq
<1> QED BY <1>1, <1>3, <1>4, SameWay DEF ClientInv, NothingUnread, AnswersSaid, Said, callVars

LEMMA HearInv == ASSUME ClientInv, Hear PROVE ClientInv'
<1> DEFINE m == Head(events)
<1>1. /\ events # <<>> /\ events' = Tail(events) /\ heard' = Append(heard, m)
      /\ taken' = IF m.kind = "offer" THEN [taken EXCEPT ![m.id] = "accepted"] ELSE taken
      /\ UNCHANGED <<ws, connected, sendVars, socket, hand, received, relay, said, callbacks, call>>
  BY DEF Hear
<1>2. heard \in Seq(ServerMessages) /\ events \in Seq(ServerMessages) /\ m \in ServerMessages
  BY <1>1, HeadTailProperties DEF ClientInv, ClientTypeOK
<1>3. ClientTypeOK'
  <2>1. /\ events' \in Seq(ServerMessages) /\ Len(events') = Len(events) - 1
    BY <1>1, <1>2, HeadTailProperties
  <2>2. Len(events') <= EventCapacity
    <3>1. Len(events) \in Nat /\ Len(events) <= EventCapacity
      BY <1>2 DEF ClientInv, ClientTypeOK
    <3> QED BY <2>1, <3>1, ClientAssumption
  <2>3. heard' \in Seq(ServerMessages)
    <3> HIDE DEF m
    <3> QED BY <1>1, <1>2
  <2>4. taken' \in [Incoming -> {"idle", "accepted", "answered", "failed"}]
    <3> HIDE DEF m
    <3> QED BY <1>1 DEF ClientInv, ClientTypeOK
  <2> HIDE DEF m
  <2> QED BY <1>1, <2>1, <2>2, <2>3, <2>4 DEF ClientInv, ClientTypeOK, sendVars
<1>4. heard' \o events' = heard \o events
  BY <1>1, <1>2, HandOver
<1>5. Way' = Way
  BY <1>1, <1>4 DEF Way
<1> QED BY <1>1, <1>3, <1>5, SameWay DEF ClientInv, NothingUnread, AnswersSaid, Said

\* The other steps leave the way alone, and answer no call.
LEMMA OtherInv ==
    ASSUME ClientInv,
           \/ Write \/ Connect \/ Disconnected
           \/ \E s \in Session : Offer(s) \/ Register(s)
           \/ \E i \in Incoming : Answer(i)
    PROVE  ClientInv'
<1>1. UNCHANGED <<ws, readVars>>
  BY DEF Write, Connect, Disconnected, Offer, Register, Answer, readVars
<1>2. \A s \in Session : call'[s] = "answered" => call[s] = "answered"
  BY DEF ClientInv, ClientTypeOK, Write, Connect, Disconnected,
        Offer, Register, Answer, callVars
<1>3. /\ sends' \in Seq(ClientMessages) /\ Len(sends') <= 1
  <2>1. CASE Write
    <3>1. sends' = <<>> \/ sends' = sends
      BY <2>1 DEF Write
    <3>2. <<>> \in Seq(ClientMessages) /\ Len(<<>>) <= 1
      OBVIOUS
    <3>3. sends \in Seq(ClientMessages) /\ Len(sends) <= 1
      BY DEF ClientInv, ClientTypeOK
    <3> QED BY <3>1, <3>2, <3>3
  <2>2. CASE Connect \/ Disconnected \/ \E s \in Session : Register(s)
    BY <2>2 DEF Connect, Disconnected, Register, ClientInv, ClientTypeOK, sendVars
  <2>3. ASSUME NEW m \in ClientMessages, NEW ok \in BOOLEAN, Sent(m, ok)
        PROVE  sends' \in Seq(ClientMessages) /\ Len(sends') <= 1
    <3>1. sends' = <<m>> \/ sends' = sends
      BY <2>3 DEF Sent
    <3>2. <<m>> \in Seq(ClientMessages) /\ Len(<<m>>) <= 1
      OBVIOUS
    <3>3. sends \in Seq(ClientMessages) /\ Len(sends) <= 1
      BY DEF ClientInv, ClientTypeOK
    <3> QED BY <3>1, <3>2, <3>3
  <2>4. CASE \E s \in Session : Offer(s)
    <3> PICK s \in Session, ok \in BOOLEAN : Sent(MessageOf("offer", s), ok)
      BY <2>4 DEF Offer
    <3>1. MessageOf("offer", s) \in ClientMessages
      BY DEF ClientMessages
    <3> QED BY <2>3, <3>1
  <2>5. CASE \E i \in Incoming : Answer(i)
    <3> PICK i \in Incoming, ok \in BOOLEAN : Sent(MessageOf("answer", i), ok)
      BY <2>5 DEF Answer
    <3>1. MessageOf("answer", i) \in ClientMessages
      BY DEF ClientMessages
    <3> QED BY <2>3, <3>1
  <2> QED BY <2>1, <2>2, <2>4, <2>5
<1>4. asked' \subseteq Session /\ writer' \in BOOLEAN
      /\ connected' \in {"no", "yes", "ended", "panicked"}
  <2>1. CASE Write
    <3>1. {n.id : n \in {Head(sends)} \cap {MessageOf("offer", s) : s \in Session}} \subseteq Session
      BY DEF MessageOf
    <3> QED BY <2>1, <3>1 DEF Write, ClientInv, ClientTypeOK
  <2> QED BY <2>1 DEF Connect, Disconnected, Offer, Register, Answer,
                      ClientInv, ClientTypeOK, sendVars
<1>5. callbacks' \subseteq Session
      /\ call' \in [Session -> {"idle", "offered", "waiting", "answered", "failed"}]
      /\ taken' \in [Incoming -> {"idle", "accepted", "answered", "failed"}]
  BY DEF Write, Connect, Disconnected, Offer, Register, Answer,
        ClientInv, ClientTypeOK, callVars
<1>6. ClientTypeOK'
  BY <1>1, <1>3, <1>4, <1>5 DEF ClientInv, ClientTypeOK, readVars
<1>7. Way' = Way
  BY <1>1 DEF Way, readVars
<1> QED BY <1>1, <1>2, <1>6, <1>7, SameWay DEF ClientInv, NothingUnread, AnswersSaid, Said, readVars

LEMMA StutterInv == ASSUME ClientInv, UNCHANGED clientVars PROVE ClientInv'
<1>1. Way' = Way
  BY DEF Way, clientVars, readVars
<1>2. ClientTypeOK'
  BY DEF ClientInv, ClientTypeOK, clientVars, sendVars, readVars, callVars
<1> QED BY <1>1, <1>2, SameWay
        DEF ClientInv, NothingUnread, AnswersSaid, Said, clientVars, sendVars, readVars, callVars

LEMMA ClientInvStep == ClientInv /\ [ClientNext]_clientVars => ClientInv'
  BY ServerSendsInv, LoseInv, ReadInv, ReceiveInv, ListenInv, RelayInv, HearInv, OtherInv, StutterInv DEF ClientNext

LEMMA ClientInvariant == ClientSpec => []ClientInv
<1> QED BY ClientInitInv, ClientInvStep, PTL DEF ClientSpec

-----------------------------------------------------------------------------
\* HeardInOrder: each queue hands its first message to the end of the next one,
\* so that the queues together hold what the server said, in its order; the
\* socket, which is lost as a whole, is the last of them.
THEOREM HeardAsSaid == ClientSpec => []HeardInOrder
<1>1. ClientInv => HeardInOrder
  BY DEF ClientInv, HeardInOrder, InOrder, Way, AnswersSaid, Said
<1> QED BY <1>1, ClientInvariant, PTL
=============================================================================
