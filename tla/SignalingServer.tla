--------------------------- MODULE SignalingServer ---------------------------
(***************************************************************************)
(* The signalling server (server/src/controller/ws_controller.rs with      *)
(* config/state.rs, config/scheduler.rs).                                  *)
(*                                                                         *)
(* One value of Conn is one websocket connection and the peer id it draws. *)
(* A connection is served by three tasks: its handler (handle_socket), and *)
(* the send task and the receive task the handler spawns once the new peer *)
(* was announced.  Each connection has an outbox, a bounded channel that   *)
(* its send task drains; every other task writes to it and waits while it  *)
(* is full.  A step runs from one await point to the next; what happens    *)
(* under the lock of the connection map is one step.                       *)
(***************************************************************************)
EXTENDS Naturals, Sequences, FiniteSets

CONSTANTS
    Conn,            \* websocket connections
    Group,           \* IP groups; peers see each other within a group only
    MaxConnections,  \* MAX_CONNECTIONS, per group
    MaxRequests,     \* MAX_REQUESTS, per group and hour
    Capacity,        \* of an outbox (mpsc::channel(4))
    ClientKinds      \* what clients send: "Update", "Sdp" or both

ASSUME ConstantsAssumption ==
    /\ IsFiniteSet(Conn)
    /\ MaxConnections \in Nat
    /\ MaxRequests \in Nat
    /\ Capacity \in Nat \ {0}
    /\ ClientKinds \subseteq {"Update", "Sdp"}

VARIABLES
    group,     \* the group each connection comes from (chosen once)
    members,   \* tx_map: the connections of each group (no entry: none)
    requests,  \* request_count_map
    alive,     \* whether the client still holds its end of the socket
    pc,        \* where each handler is
    tell,      \* whom the handler still has to send its Join or Left to
    peers,     \* the peers a connection found on joining, sent in its Hello
    outbox,    \* the channel tx / rx of each connection
    open,      \* whether rx still exists
    rt,        \* where each receive task is
    job,       \* what the receive task relays, and to whom
    told       \* history: the Joins and Lefts put into each outbox while it is open

roomVars    == <<members, requests>>
handlerVars == <<pc, tell, peers>>
boxVars     == <<outbox, told>>
recvVars    == <<rt, job>>
vars == <<group, roomVars, alive, handlerVars, boxVars, open, recvVars>>
-----------------------------------------------------------------------------
(* Data.                                                                   *)

Message(kind, c) == [kind |-> kind, peer |-> c]

\* WsServerMessage; Offer and Answer differ in their wording only.
Kinds    == {"Hello", "Join", "Update", "Left", "Sdp", "Error"}
Messages == [kind : Kinds, peer : Conn]
Notices  == [kind : {"Join", "Left"}, peer : Conn]

Jobs  == [kind : {"Update", "Sdp"}, to : SUBSET Conn]
NoJob == [kind |-> "None", to |-> {}]

HandlerStates == {"idle", "joining", "running", "leaving", "parting", "refused"}
RecvStates    == {"none", "listening", "counted", "sending", "failing", "ended"}

Joined(c) == pc[c] \in {"joining", "running", "leaving"}

Init ==
    /\ group \in [Conn -> Group]
    /\ members = [g \in Group |-> {}]
    /\ requests = [g \in Group |-> 0]
    /\ alive = [c \in Conn |-> TRUE]
    /\ pc = [c \in Conn |-> "idle"]
    /\ tell = [c \in Conn |-> {}]
    /\ peers = [c \in Conn |-> {}]
    /\ outbox = [c \in Conn |-> <<>>]
    /\ open = [c \in Conn |-> FALSE]
    /\ rt = [c \in Conn |-> "none"]
    /\ job = [c \in Conn |-> NoJob]
    /\ told = [c \in Conn |-> {}]
-----------------------------------------------------------------------------
(* Outboxes.                                                               *)

HasRoom(d) == Len(outbox[d]) < Capacity

\* d was, or with its Hello will be, told that c is there.
Introduced(c, d) == c \in peers[d] \/ Message("Join", c) \in told[d]

\* Mutant: a send to an outbox nobody reads any more waits as if it was full.
SendForever(d, m) ==
    /\ open[d]
    /\ HasRoom(d)
    /\ outbox' = [outbox EXCEPT ![d] = Append(@, m)]
    /\ told' = [told EXCEPT ![d] = @ \cup ({m} \cap Notices)]

\* `let _ = tx.send(..).await`: waits for room; an outbox nobody will read
\* again fails the send at once, and the failure is ignored.
Send(d, m) ==
    \/ /\ open[d]
       /\ HasRoom(d)
       /\ outbox' = [outbox EXCEPT ![d] = Append(@, m)]
       /\ told' = [told EXCEPT ![d] = @ \cup ({m} \cap Notices)]
    \/ /\ ~open[d]
       /\ UNCHANGED boxVars

\* The send task writes the oldest message to the socket, which may also
\* succeed for a while after the client has gone.
Deliver(d) ==
    /\ pc[d] = "running"
    /\ open[d]
    /\ outbox[d] # <<>>
    /\ outbox' = [outbox EXCEPT ![d] = Tail(@)]
    /\ UNCHANGED <<group, roomVars, alive, handlerVars, open, told, recvVars>>

\* The send task ends, and rx with it: what is still in the outbox is lost.
Close(d) ==
    /\ open' = [open EXCEPT ![d] = FALSE]
    /\ outbox' = [outbox EXCEPT ![d] = <<>>]
    /\ told' = [told EXCEPT ![d] = {}]

\* The socket is gone.
DeliveryFails(d) ==
    /\ pc[d] = "running"
    /\ open[d]
    /\ ~alive[d]
    /\ outbox[d] # <<>>
    /\ Close(d)
    /\ UNCHANGED <<group, roomVars, alive, handlerVars, recvVars>>
-----------------------------------------------------------------------------
(* The handler: joining.                                                   *)

\* Mutant: one request more than allowed.
ExhaustedLate(g) == requests[g] > MaxRequests

\* protect_ddos_request_count
Exhausted(g) == requests[g] >= MaxRequests

\* Mutant: one connection more than allowed.
LimitReachedLate(g) == Cardinality(members[g]) > MaxConnections

LimitReached(g) == Cardinality(members[g]) >= MaxConnections

\* The client is told "Limit reached" and disconnected.
Refuse(c) ==
    /\ pc[c] = "idle"
    /\ LimitReached(group[c]) \/ Exhausted(group[c])
    /\ pc' = [pc EXCEPT ![c] = "refused"]
    /\ UNCHANGED <<group, roomVars, alive, tell, peers, boxVars, open, recvVars>>

\* Mutant: peers that are still joining are left out.
FoundRunning(g) == {d \in members[g] : pc[d] = "running"}

\* The peers a new connection finds are those it will announce itself to.
Found(g) == members[g]

Join(c) ==
    /\ pc[c] = "idle"
    /\ ~LimitReached(group[c])
    /\ ~Exhausted(group[c])
    /\ requests' = [requests EXCEPT ![group[c]] = @ + 1]
    /\ members' = [members EXCEPT ![group[c]] = @ \cup {c}]
    /\ tell' = [tell EXCEPT ![c] = Found(group[c])]
    /\ peers' = [peers EXCEPT ![c] = Found(group[c])]
    /\ open' = [open EXCEPT ![c] = TRUE]
    /\ pc' = [pc EXCEPT ![c] = "joining"]
    /\ UNCHANGED <<group, alive, boxVars, recvVars>>

\* The peers are told one after the other, outside the lock.
TellJoin(c, d) ==
    /\ pc[c] = "joining"
    /\ d \in tell[c]
    /\ Send(d, Message("Join", c))
    /\ tell' = [tell EXCEPT ![c] = @ \ {d}]
    /\ UNCHANGED <<group, roomVars, alive, pc, peers, open, recvVars>>

AllTold(c) == tell[c] = {}

\* Hello goes through the connection's own outbox; only then are the send
\* and the receive task spawned.
SayHello(c) ==
    /\ pc[c] = "joining"
    /\ AllTold(c)
    /\ Send(c, Message("Hello", c))
    /\ pc' = [pc EXCEPT ![c] = "running"]
    /\ rt' = [rt EXCEPT ![c] = "listening"]
    /\ UNCHANGED <<group, roomVars, alive, tell, peers, open, job>>
-----------------------------------------------------------------------------
(* The receive task.                                                       *)

\* A task that was aborted takes no new message from the socket.  A client can
\* address only peers it was told of: their ids are drawn at random.
TakeMessage(c) ==
    /\ rt[c] = "listening"
    /\ pc[c] = "running"
    /\ alive[c]
    /\ \/ /\ Exhausted(group[c])
          /\ rt' = [rt EXCEPT ![c] = "failing"]
          /\ UNCHANGED <<requests, job>>
       \/ /\ ~Exhausted(group[c])
          /\ requests' = [requests EXCEPT ![group[c]] = @ + 1]
          /\ rt' = [rt EXCEPT ![c] = "counted"]
          /\ \/ /\ "Update" \in ClientKinds
                /\ job' = [job EXCEPT ![c] = [kind |-> "Update", to |-> {}]]
             \/ /\ "Sdp" \in ClientKinds
                /\ \E d \in Conn :
                    /\ Introduced(d, c)
                    /\ job' = [job EXCEPT ![c] = [kind |-> "Sdp", to |-> {d}]]
    /\ UNCHANGED <<group, members, alive, handlerVars, boxVars, open>>

\* send_update_to_other_peers_with_lock, send_to_peer_with_lock: the map is
\* read under the lock, the senders are used after it.  A peer that is no
\* longer a member updates nobody; a target is looked up in the sender's
\* own group.
Addressees(c) ==
    LET room == members[group[c]] IN
    IF job[c].kind = "Sdp" THEN job[c].to \cap room
    ELSE IF c \in room THEN room \ {c} ELSE {}

LookUp(c) ==
    /\ rt[c] = "counted"
    /\ job' = [job EXCEPT ![c].to = Addressees(c)]
    /\ rt' = [rt EXCEPT ![c] = "sending"]
    /\ UNCHANGED <<group, roomVars, alive, handlerVars, boxVars, open>>

Relay(c, d) ==
    /\ rt[c] = "sending"
    /\ d \in job[c].to
    /\ Send(d, Message(job[c].kind, c))
    /\ job' = [job EXCEPT ![c].to = @ \ {d}]
    /\ UNCHANGED <<group, roomVars, alive, handlerVars, open, rt>>

Relayed(c) ==
    /\ rt[c] = "sending"
    /\ job[c].to = {}
    /\ rt' = [rt EXCEPT ![c] = "listening"]
    /\ job' = [job EXCEPT ![c] = NoJob]
    /\ UNCHANGED <<group, roomVars, alive, handlerVars, boxVars, open>>

\* Too many requests: the client is told, and the task ends.
Fail(c) ==
    /\ rt[c] = "failing"
    /\ Send(c, Message("Error", c))
    /\ rt' = [rt EXCEPT ![c] = "ended"]
    /\ UNCHANGED <<group, roomVars, alive, handlerVars, open, job>>

\* receiver.next() yields no further message.
SocketClosed(c) ==
    /\ rt[c] = "listening"
    /\ ~alive[c]
    /\ rt' = [rt EXCEPT ![c] = "ended"]
    /\ UNCHANGED <<group, roomVars, alive, handlerVars, boxVars, open, job>>

\* An aborted task runs on until its next await that has to wait.
Stopped(c) ==
    /\ pc[c] \in {"leaving", "parting"}
    /\ rt[c] # "ended"
    /\ rt' = [rt EXCEPT ![c] = "ended"]
    /\ job' = [job EXCEPT ![c] = NoJob]
    /\ UNCHANGED <<group, roomVars, alive, handlerVars, boxVars, open>>
-----------------------------------------------------------------------------
(* The handler: leaving.                                                   *)

\* tokio::select!: one task has ended, the other is aborted; the socket goes
\* with them.
Abort(c) ==
    /\ pc[c] = "running"
    /\ rt[c] = "ended" \/ ~open[c]
    /\ pc' = [pc EXCEPT ![c] = "leaving"]
    /\ Close(c)
    /\ alive' = [alive EXCEPT ![c] = FALSE]
    /\ peers' = [peers EXCEPT ![c] = {}]
    /\ UNCHANGED <<group, roomVars, tell, recvVars>>

\* Mutant: only peers that are not joining are told of a leave.
RemainingRunning(c) == {d \in members[group[c]] \ {c} : pc[d] = "running"}

\* The peers to be told of a leave: those that remain in the map.
Remaining(c) == members[group[c]] \ {c}

Leave(c) ==
    /\ pc[c] = "leaving"
    /\ members' = [members EXCEPT ![group[c]] = @ \ {c}]
    /\ tell' = [tell EXCEPT ![c] = Remaining(c)]
    /\ pc' = [pc EXCEPT ![c] = "parting"]
    /\ UNCHANGED <<group, requests, alive, peers, boxVars, open, recvVars>>

TellLeft(c, d) ==
    /\ pc[c] = "parting"
    /\ d \in tell[c]
    /\ Send(d, Message("Left", c))
    /\ tell' = [tell EXCEPT ![c] = @ \ {d}]
    /\ UNCHANGED <<group, roomVars, alive, pc, peers, open, recvVars>>
-----------------------------------------------------------------------------
(* The environment.                                                        *)

HangUp(c) ==
    /\ Joined(c)
    /\ alive[c]
    /\ alive' = [alive EXCEPT ![c] = FALSE]
    /\ UNCHANGED <<group, roomVars, handlerVars, boxVars, open, recvVars>>

\* Every full hour (config/scheduler.rs).
ClearRequests ==
    /\ \E g \in Group : requests[g] # 0
    /\ requests' = [g \in Group |-> 0]
    /\ UNCHANGED <<group, members, alive, handlerVars, boxVars, open, recvVars>>

Next ==
    \/ \E c \in Conn :
        \/ Refuse(c) \/ Join(c) \/ SayHello(c) \/ Abort(c) \/ Leave(c)
        \/ Deliver(c) \/ DeliveryFails(c) \/ HangUp(c)
        \/ TakeMessage(c) \/ LookUp(c) \/ Relayed(c) \/ Fail(c)
        \/ SocketClosed(c) \/ Stopped(c)
        \/ \E d \in Conn : TellJoin(c, d) \/ Relay(c, d) \/ TellLeft(c, d)
    \/ ClearRequests

Spec == Init /\ [][Next]_vars

Tell(c) == \E d \in Conn : TellJoin(c, d) \/ TellLeft(c, d)
Pass(c) == Fail(c) \/ \E d \in Conn : Relay(c, d)

\* Senders wait for room in the order they came (the channel's semaphore is a
\* FIFO), so whoever waits gets its turn if there is room again and again; a
\* task that can go on does.  Clients read what they are sent, but owe no
\* message and no hang-up; the hourly reset is not relied on.
ServerFairness ==
    \A c \in Conn :
        /\ SF_vars(Tell(c))
        /\ SF_vars(Pass(c))
        /\ WF_vars(Deliver(c))
        /\ WF_vars(SayHello(c) \/ Abort(c) \/ Leave(c))
        /\ WF_vars(LookUp(c) \/ Relayed(c) \/ SocketClosed(c))

FairSpec == Spec /\ ServerFairness
-----------------------------------------------------------------------------
(* Properties.                                                             *)

\* Every variable keeps its type, an outbox its capacity, the counter its limit.
TypeOK ==
    /\ group \in [Conn -> Group]
    /\ members \in [Group -> SUBSET Conn]
    /\ requests \in [Group -> 0 .. MaxRequests]
    /\ alive \in [Conn -> BOOLEAN]
    /\ pc \in [Conn -> HandlerStates]
    /\ tell \in [Conn -> SUBSET Conn]
    /\ peers \in [Conn -> SUBSET Conn]
    /\ outbox \in [Conn -> Seq(Messages)]
    /\ \A c \in Conn : Len(outbox[c]) <= Capacity
    /\ open \in [Conn -> BOOLEAN]
    /\ rt \in [Conn -> RecvStates]
    /\ job \in [Conn -> Jobs \cup {NoJob}]
    /\ told \in [Conn -> SUBSET Notices]

\* The connection map holds exactly the connections whose handlers have yet
\* to take them out, each in its own group and never more than the limit:
\* nobody stays behind when a task was aborted, and nobody is lost.
RoomExact ==
    \A g \in Group :
        /\ members[g] = {c \in Conn : Joined(c) /\ group[c] = g}
        /\ Cardinality(members[g]) <= MaxConnections

\* Two connections of a group that both got through joining know of each
\* other, whatever the order in which their handlers took the lock, sent
\* their Joins and were held up by full outboxes.
NobodyMissing ==
    \A c, d \in Conn :
        /\ c # d
        /\ group[c] = group[d]
        /\ pc[c] = "running"
        /\ pc[d] = "running" /\ open[d]
        => Introduced(c, d)

\* An update or an offer is put only into the outbox of a peer to whom its
\* sender was introduced: signalling never crosses groups, and never
\* overtakes the sender's own Join.
KnownSender ==
    \A d \in Conn : \A i \in 1 .. Len(outbox[d]) :
        outbox[d][i].kind \in {"Update", "Sdp"} =>
            outbox[d][i].peer = d \/ Introduced(outbox[d][i].peer, d)

\* When a handler is done, every peer still there that knows of the
\* connection has been sent its Left.
LeaveAnnounced ==
    \A c, d \in Conn :
        /\ c # d
        /\ pc[c] = "parting" /\ tell[c] = {}
        /\ open[d]
        /\ Introduced(c, d)
        => Message("Left", c) \in told[d]

\* Others have filled the outbox of a connection that is not greeted yet.
Jammed(d) == pc[d] = "joining" /\ open[d] /\ ~HasRoom(d)

\* There is no way out of that: the Hello waits for room in an outbox that
\* nobody drains before the Hello is in it.
JammedForEver == [][\A d \in Conn : Jammed(d) => Jammed(d)']_vars

\* ... and nothing else holds up a join: with clients that read, every
\* handler gets to its Hello, or somebody is jammed.
GreetedUnlessJammed ==
    \A c \in Conn : pc[c] = "joining" ~> pc[c] = "running" \/ \E d \in Conn : Jammed(d)

\* The handler of a peer that hung up, or one of whose tasks has ended or is
\* to end after its Error, takes the peer out of the map, whatever its tasks
\* are waiting for and wherever the other one is aborted, unless somebody is
\* jammed.
Parting(c) ==
    \/ pc[c] = "running" /\ (~alive[c] \/ ~open[c] \/ rt[c] \in {"failing", "ended"})
    \/ pc[c] = "leaving"

LeaverLeaves ==
    \A c \in Conn : Parting(c) ~> ~Joined(c) \/ \E d \in Conn : Jammed(d)

\* Stated by the comment on WsServerMessage::Hello (signaling.rs:22): it is
\* the initial message sent to a client that has just connected.
HelloFirst == \A d \in Conn : pc[d] = "joining" => outbox[d] = <<>>

\* Stated by the same comment: a client that has connected, and stays, is sent a Hello.
Greeted == \A c \in Conn : pc[c] = "joining" ~> pc[c] = "running" \/ ~alive[c]
=============================================================================
