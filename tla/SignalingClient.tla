--------------------------- MODULE SignalingClient ---------------------------
(***************************************************************************)
(* A device's connection to the signalling server                          *)
(* (packages/core/src/webrtc/signaling.rs) and the calls made over it: the *)
(* offers of send_offer and the answers of accept_offer (webrtc.rs), as    *)
(* the bridge starts them (doorstep_isolates/rust/src/api/webrtc.rs).      *)
(* The server and the other devices are the environment.                   *)
(***************************************************************************)
EXTENDS Naturals, Sequences, FiniteSets

CONSTANTS
    Session,    \* offers this device makes, by session_id
    Incoming,   \* offers it gets
    MaxEvents,  \* bound: messages about peers the server sends
    EventCapacity,  \* of the listener's channel (16)
    None

ASSUME ClientAssumption ==
    /\ IsFiniteSet(Session) /\ IsFiniteSet(Incoming)
    /\ Session \cap Incoming = {}
    /\ None \notin Session \cup Incoming
    /\ MaxEvents \in Nat
    /\ EventCapacity \in Nat \ {0}

VARIABLES
    ws,         \* the socket: hello (no greeting yet), up, down
    connected,  \* connect() in the bridge: no, yes, ended, panicked
    writer,     \* whether the task that writes still runs
    sends,      \* tx: the message for that task, if any
    asked,      \* offers the server has passed on to their targets
    socket,     \* what the server sent and the read task has not read
    hand,       \* the message the read task has for receive_tx
    received,   \* receive_tx: one message
    relay,      \* the message the listener holds, after its callback
    events,     \* the listener's channel to the bridge
    callbacks,  \* on_answer
    call,       \* send_offer of each session
    taken,      \* accept_offer of each incoming offer
    \* History.
    said,       \* all the server has sent
    heard       \* all the application has got

sendVars == <<writer, sends, asked>>
readVars == <<socket, hand, received, relay, events, said, heard>>
callVars == <<callbacks, call, taken>>
clientVars == <<ws, connected, sendVars, readVars, callVars>>
-----------------------------------------------------------------------------
MessageOf(kind, id) == [kind |-> kind, id |-> id]

ServerMessages ==
    {MessageOf("hello", None), MessageOf("peer", None)}
    \cup {MessageOf("offer", i) : i \in Incoming} \cup {MessageOf("answer", s) : s \in Session}
ClientMessages ==
    {MessageOf("offer", s) : s \in Session} \cup {MessageOf("answer", i) : i \in Incoming}

ClientInit ==
    /\ ws = "hello"
    /\ connected = "no"
    /\ writer = TRUE
    /\ sends = <<>>
    /\ asked = {}
    /\ socket = <<>>
    /\ hand = <<>>
    /\ received = <<>>
    /\ relay = <<>>
    /\ events = <<>>
    /\ callbacks = {}
    /\ call = [s \in Session |-> "idle"]
    /\ taken = [i \in Incoming |-> "idle"]
    /\ said = <<>>
    /\ heard = <<>>
-----------------------------------------------------------------------------
(* The server, and the network.                                            *)

Times(m) == Cardinality({k \in DOMAIN said : said[k] = m})

\* An offer is answered once. Whoever the server tells of this device before
\* it sends its Hello may have a message in front of it (HelloFirst in
\* SignalingServer).
ServerSends(m) ==
    /\ ws # "down"
    /\ Times(m) < (IF m.kind = "peer" THEN MaxEvents ELSE 1)
    /\ m.kind = "answer" => m.id \in asked
    /\ said' = Append(said, m)
    /\ socket' = Append(socket, m)
    /\ UNCHANGED <<ws, connected, sendVars, hand, received, relay, events, heard, callVars>>

\* What was not read is gone; the read task ends.
Lose ==
    /\ ws # "down"
    /\ ws' = "down"
    /\ socket' = <<>>
    /\ UNCHANGED <<connected, sendVars, hand, received, relay, events, said, heard, callVars>>
-----------------------------------------------------------------------------
(* The connection: the task that writes, the task that reads, connect().   *)

\* A failed write ends the task, and the message is lost.  The 120 s without
\* a message bring a ping, which ends the task if it fails.
Write ==
    /\ writer
    /\ IF ws = "down"
       THEN /\ writer' = FALSE
            /\ sends' = <<>>
            /\ UNCHANGED asked
       ELSE /\ sends # <<>>
            /\ sends' = <<>>
            /\ asked' = asked \cup {m.id : m \in {Head(sends)} \cap {MessageOf("offer", s) : s \in Session}}
            /\ UNCHANGED writer
    /\ UNCHANGED <<ws, connected, readVars, callVars>>

Read ==
    /\ socket # <<>> /\ hand = <<>>
    /\ hand' = <<Head(socket)>>
    /\ socket' = Tail(socket)
    /\ ws' = IF Head(socket).kind = "hello" THEN "up" ELSE ws
    /\ UNCHANGED <<connected, sendVars, received, relay, events, said, heard, callVars>>

\* The read task waits for room, also with what came before Hello.
Receive ==
    /\ hand # <<>> /\ received = <<>>
    /\ received' = hand
    /\ hand' = <<>>
    /\ UNCHANGED <<ws, connected, sendVars, socket, relay, events, said, heard, callVars>>

\* client_tx has the Hello as soon as it is read.
HelloRead == \E q \in {hand, received} : \E k \in DOMAIN q : q[k].kind = "hello"

\* connect() waits for Hello, and panics when the read task ends without it.
Connect ==
    /\ connected = "no"
    /\ \/ HelloRead /\ connected' = "yes"
       \/ ~HelloRead /\ ws = "down" /\ hand = <<>> /\ connected' = "panicked"
    /\ UNCHANGED <<ws, sendVars, readVars, callVars>>
-----------------------------------------------------------------------------
(* start_listener, and the loop of the bridge.                             *)

\* Mutant: the wrong kind of message is looked at.
CallbackOfOffer(m) == IF m.kind = "offer" THEN {m.id} \cap callbacks ELSE {}

CallbackOf(m) == IF m.kind = "answer" THEN {m.id} \cap callbacks ELSE {}

Listen ==
    /\ connected = "yes"
    /\ received # <<>> /\ relay = <<>>
    /\ relay' = received
    /\ received' = <<>>
    /\ LET woken == CallbackOf(Head(received))
       IN  /\ callbacks' = callbacks \ woken
           /\ call' = [s \in Session |-> IF s \in woken THEN "answered" ELSE call[s]]
    /\ UNCHANGED <<ws, connected, sendVars, socket, hand, events, said, heard, taken>>

\* Mutant: a full channel drops the message.
TryPassOn == events' = IF Len(events) < EventCapacity THEN events \o relay ELSE events

SendOn == Len(events) < EventCapacity /\ events' = events \o relay

PassOn ==
    /\ relay # <<>>
    /\ SendOn
    /\ relay' = <<>>
    /\ UNCHANGED <<ws, connected, sendVars, socket, hand, received, said, heard, callVars>>

\* The application hears of everything, and accepts each offer it hears of.
Hear ==
    /\ events # <<>>
    /\ LET m == Head(events)
       IN  /\ heard' = Append(heard, m)
           /\ taken' = IF m.kind = "offer" THEN [taken EXCEPT ![m.id] = "accepted"] ELSE taken
    /\ events' = Tail(events)
    /\ UNCHANGED <<ws, connected, sendVars, socket, hand, received, relay, said, callbacks, call>>

\* The channels end one after the other, and connect() of the bridge returns.
Disconnected ==
    /\ connected = "yes" /\ ws = "down"
    /\ hand = <<>> /\ received = <<>> /\ relay = <<>> /\ events = <<>>
    /\ connected' = "ended"
    /\ UNCHANGED <<ws, sendVars, readVars, callVars>>
-----------------------------------------------------------------------------
(* Calls.                                                                  *)

CanSend == connected \in {"yes", "ended"}

\* tx.send: waits for room, fails when the task that writes has ended.
Sent(m, ok) ==
    IF writer THEN ok /\ sends = <<>> /\ sends' = <<m>> ELSE ~ok /\ UNCHANGED sends

\* send_offer: the offer goes out first,
Offer(s) ==
    /\ CanSend
    /\ call[s] = "idle"
    /\ \E ok \in BOOLEAN :
           /\ Sent(MessageOf("offer", s), ok)
           /\ call' = [call EXCEPT ![s] = IF ok THEN "offered" ELSE "failed"]
    /\ UNCHANGED <<ws, connected, writer, asked, readVars, callbacks, taken>>

\* then the callback is registered.
Register(s) ==
    /\ call[s] = "offered"
    /\ call' = [call EXCEPT ![s] = "waiting"]
    /\ callbacks' = callbacks \cup {s}
    /\ UNCHANGED <<ws, connected, sendVars, readVars, taken>>

\* accept_offer: set the remote description, gather, send the answer.
Answer(i) ==
    /\ CanSend
    /\ taken[i] = "accepted"
    /\ \E ok \in BOOLEAN :
           /\ Sent(MessageOf("answer", i), ok)
           /\ taken' = [taken EXCEPT ![i] = IF ok THEN "answered" ELSE "failed"]
    /\ UNCHANGED <<ws, connected, writer, asked, readVars, callbacks, call>>

ClientNext ==
    \/ \E m \in ServerMessages : ServerSends(m)
    \/ Lose \/ Write \/ Read \/ Receive \/ Connect \/ Listen \/ PassOn \/ Hear \/ Disconnected
    \/ \E s \in Session : Offer(s) \/ Register(s)
    \/ \E i \in Incoming : Answer(i)

ClientSpec == ClientInit /\ [][ClientNext]_clientVars

\* Every task is scheduled and the application takes what it is given.
ClientFairSpec ==
    /\ ClientSpec
    /\ WF_clientVars(Write) /\ WF_clientVars(Read) /\ WF_clientVars(Receive)
    /\ WF_clientVars(Connect) /\ WF_clientVars(Listen) /\ WF_clientVars(PassOn)
    /\ WF_clientVars(Hear) /\ WF_clientVars(Disconnected)
    /\ \A s \in Session : WF_clientVars(Register(s))
    /\ \A i \in Incoming : SF_clientVars(Answer(i))
-----------------------------------------------------------------------------
(* Properties.                                                             *)

ClientTypeOK ==
    /\ ws \in {"hello", "up", "down"}
    /\ connected \in {"no", "yes", "ended", "panicked"}
    /\ writer \in BOOLEAN
    /\ sends \in Seq(ClientMessages) /\ Len(sends) <= 1
    /\ asked \subseteq Session
    /\ socket \in Seq(ServerMessages)
    /\ hand \in Seq(ServerMessages) /\ Len(hand) <= 1
    /\ received \in Seq(ServerMessages) /\ Len(received) <= 1
    /\ relay \in Seq(ServerMessages) /\ Len(relay) <= 1
    /\ events \in Seq(ServerMessages) /\ Len(events) <= EventCapacity
    /\ callbacks \subseteq Session
    /\ call \in [Session -> {"idle", "offered", "waiting", "answered", "failed"}]
    /\ taken \in [Incoming -> {"idle", "accepted", "answered", "failed"}]
    /\ said \in Seq(ServerMessages)
    /\ heard \in Seq(ServerMessages)

\* The application hears what the server said in the order it was said, nothing
\* twice and, as long as the socket is up, nothing left out, although four
\* queues of different lengths and a callback lie between the two. A call goes
\* on only with an answer to its own offer.
HeardInOrder ==
    /\ ClientTypeOK
    /\ LET way == heard \o events \o relay \o received \o hand \o socket
       IN  IF ws = "down" THEN Len(way) <= Len(said) /\ way = SubSeq(said, 1, Len(way))
                          ELSE way = said
    /\ \A s \in Session :
          call[s] = "answered" => MessageOf("answer", s) \in {said[k] : k \in DOMAIN said}

\* An answer on its way to a call that waits gets there, or the socket is lost.
WaitingIsAnswered ==
    \A s \in Session :
        (call[s] = "waiting" /\ MessageOf("answer", s) \in {socket[k] : k \in DOMAIN socket})
            ~> (call[s] = "answered" \/ ws = "down")

\* on_answer in signaling.rs: "Adds a callback to be called when an answer
\* having a specific `session_id` is received."
AnswerCallsBack ==
    \A s \in Session :
        MessageOf("answer", s) \in {heard[k] : k \in DOMAIN heard} => call[s] = "answered"

\* signaling.rs:203, "Waiting for hello...": the wait ends when the server has
\* said Hello, or the socket is lost.
HelloConnects ==
    (\E k \in DOMAIN said : said[k].kind = "hello") ~> connected # "no"
=============================================================================
