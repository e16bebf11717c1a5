-------------------------- MODULE MulticastDiscovery --------------------------
(***************************************************************************)
(* How the app finds devices by multicast: the listener of the discovery   *)
(* isolate (doorstep_isolates, multicast_discovery.dart), the instance of  *)
(* the core's discovery it starts and restarts (core/src/multicast) and    *)
(* the bridge between them (doorstep_isolates/rust/src/api/multicast.rs).  *)
(* The network, the peers and the user are the environment.                *)
(***************************************************************************)
EXTENDS InterfaceFilter

CONSTANTS
    Entries,     \* what the system lists, see InterfaceFilter
    Filter,      \* the filter of each version of the settings
    Peer,        \* the other devices, by fingerprint
    Self,        \* this device, whose messages come back
    MaxSettings, \* bound: changes of the settings
    MaxHeard,    \* bound: messages of one device that are received
    MaxErrors,   \* receive errors in a row before an interface is given up (10)
    MaxBursts,   \* bound: announcements being sent at a time
    QueueSize    \* of the channel to the bridge (16)

Device == Peer \cup {Self}

NoFilter == [whitelist |-> None, blacklist |-> None]

\* What a socket can be bound to: an address of an interface, or an interface.
Interface == LocalInterfaces(Entries, NoFilter)

ASSUME ConstantsAssumption ==
    /\ IsFiniteSet(Interface) /\ Interface # {}
    /\ IsFiniteSet(Peer) /\ Self \notin Peer /\ None \notin Device
    /\ {MaxSettings, MaxHeard} \subseteq Nat
    /\ DOMAIN Filter = 0..MaxSettings
    /\ \A e \in Entries : Len(e.address) \in Nat
    /\ \A v \in 0..MaxSettings : \A patterns \in {Filter[v].whitelist, Filter[v].blacklist} \ {None} :
          \A p \in patterns : Len(p) \in Nat
    /\ {MaxErrors, MaxBursts, QueueSize} \subseteq Nat \ {0}

VARIABLES
    \* The isolate.
    settings,   \* version of the settings it was last sent
    serving,    \* serverRunning
    listener,   \* _runListener: starting, started (and the await has not
                \* returned), waiting (to be told to retry), listening
    retry,      \* whether _retryCompleter is completed
    used,       \* settings of the latest start
    asking,     \* register requests on their way, by device
    found,      \* devices shown to the app
    \* The instance.
    task,       \* its supervisor: none, running, cancelled, over
    loop,       \* receive loop of an interface: off, receive, deliver, over
    hand,       \* device whose message the loop is delivering
    errors,     \* its consecutive errors
    queue,      \* events for the bridge
    listed,     \* whether the sockets for sending are still in the list
    stop,       \* stop(): no, sent, returned
    delayed,    \* announcements waiting for their next delay
    sending,    \* announcements that hold a copy of the list
    stale,      \* the same, of instances that are over
    \* History.
    asked,      \* settings at the latest restart request
    heeded,     \* settings at the latest one that found something to restart
    heard,      \* messages queued, by device
    answered,   \* register requests that ended
    ignored     \* messages dropped as the server does not run

loopVars == <<loop, hand, errors, queue, heard>>
sendVars == <<listed, delayed, sending, stale>>
requests == <<asked, heeded>>
answers == <<asking, found, answered, ignored>>
world == <<settings, serving>>
vars == <<world, listener, retry, used, answers, task, loopVars, stop, sendVars, requests>>
-----------------------------------------------------------------------------
Zero == [d \in Device |-> 0]
Closed == \A i \in Interface : loop[i] \in {"off", "over"}

Init ==
    /\ settings = 0 /\ serving = TRUE
    /\ listener = "starting" /\ retry = FALSE /\ used = 0
    /\ task = "none" /\ stop = "no"
    /\ loop = [i \in Interface |-> "off"]
    /\ hand = [i \in Interface |-> None]
    /\ errors = [i \in Interface |-> 0]
    /\ queue = <<>>
    /\ listed = FALSE
    /\ delayed = 0 /\ sending = 0 /\ stale = 0
    /\ asking = Zero /\ answered = Zero /\ ignored = Zero /\ heard = Zero
    /\ found = {}
    /\ asked = 0 /\ heeded = 0
-----------------------------------------------------------------------------
(* The environment: settings sent to the isolate, messages, errors.        *)

ChangeSettings ==
    /\ settings < MaxSettings
    /\ settings' = settings + 1
    /\ UNCHANGED <<serving, listener, retry, used, answers, task, loopVars, stop, sendVars, requests>>

ServerTurns ==
    /\ serving' = ~serving
    /\ UNCHANGED <<settings, listener, retry, used, answers, task, loopVars, stop, sendVars, requests>>

\* A message arrives. One that is the device's own, or that cannot be parsed
\* (d = None), is dropped.
Receive(i, d) ==
    /\ loop[i] = "receive"
    /\ d # None => heard[d] + Cardinality({j \in Interface : hand[j] = d}) < MaxHeard
    /\ errors' = [errors EXCEPT ![i] = 0]
    /\ IF d \in Peer
       THEN /\ loop' = [loop EXCEPT ![i] = "deliver"]
            /\ hand' = [hand EXCEPT ![i] = d]
       ELSE UNCHANGED <<loop, hand>>
    /\ UNCHANGED <<world, listener, retry, used, answers, task, queue, heard, stop, sendVars, requests>>

ReceiveFails(i) ==
    /\ loop[i] = "receive"
    /\ errors' = [errors EXCEPT ![i] = @ + 1]
    /\ loop' = IF errors'[i] >= MaxErrors THEN [loop EXCEPT ![i] = "over"] ELSE loop
    /\ UNCHANGED <<world, listener, retry, used, answers, task, hand, queue, heard, stop, sendVars, requests>>
-----------------------------------------------------------------------------
(* The instance.                                                           *)

\* A socket that cannot be bound, or cannot join, is left out.
Joined(interfaces) == SUBSET interfaces

\* bind_multicast_sockets, with the filter of each version of the settings.
BindSockets == [v \in 0..MaxSettings |-> Joined(LocalInterfaces(Entries, Filter[v]))]

\* start(): it fails when no interface is left.
Bind(bound) ==
    /\ listener = "starting"
    /\ bound # {}
    /\ listener' = "started"
    /\ task' = "running"
    /\ loop' = [i \in Interface |-> IF i \in bound THEN "receive" ELSE "off"]
    /\ hand' = [i \in Interface |-> None]
    /\ errors' = [i \in Interface |-> 0]
    /\ queue' = <<>>
    /\ listed' = TRUE
    /\ stop' = "no"
    /\ UNCHANGED <<world, retry, used, answers, heard, delayed, sending, stale, requests>>

\* event_tx.send waits for room.
Deliver(i) ==
    /\ loop[i] = "deliver"
    /\ Len(queue) < QueueSize
    /\ queue' = Append(queue, hand[i])
    /\ heard' = [heard EXCEPT ![hand[i]] = @ + 1]
    /\ loop' = [loop EXCEPT ![i] = "receive"]
    /\ hand' = [hand EXCEPT ![i] = None]
    /\ UNCHANGED <<world, listener, retry, used, answers, task, errors, stop, sendVars, requests>>

\* The supervisor goes on when all loops have given up or a stop is requested.
Cancel ==
    /\ task = "running"
    /\ Closed \/ stop = "sent"
    /\ task' = "cancelled"
    /\ UNCHANGED <<world, listener, retry, used, answers, loopVars, stop, sendVars, requests>>

\* shutdown() aborts a loop where it waits, its message is lost.
Abort(i) ==
    /\ task = "cancelled"
    /\ loop[i] \in {"receive", "deliver"}
    /\ loop' = [loop EXCEPT ![i] = "over"]
    /\ hand' = [hand EXCEPT ![i] = None]
    /\ UNCHANGED <<world, listener, retry, used, answers, task, errors, queue, heard, stop, sendVars, requests>>

\* Mutant: the loops are aborted and not awaited.
AbortedOnly == TRUE

AllJoined == Closed

\* It empties the list, drops its end of the channel and wakes stop(). An
\* announcement that slept finds itself cancelled; one that is being sent has
\* its own copy of the list.
Finish ==
    /\ task = "cancelled"
    /\ AllJoined
    /\ task' = "over"
    /\ listed' = FALSE
    /\ stop' = IF stop = "sent" THEN "returned" ELSE stop
    /\ delayed' = 0
    /\ stale' = stale + sending
    /\ sending' = 0
    /\ UNCHANGED <<world, listener, retry, used, answers, loopVars, requests>>

\* One message of a burst: a copy of the list is taken,
Send ==
    /\ delayed > 0
    /\ sending + stale < MaxBursts
    /\ delayed' = delayed - 1
    /\ sending' = sending + 1
    /\ UNCHANGED <<world, listener, retry, used, answers, task, loopVars, stop, listed, stale, requests>>

\* and when it is sent on all of them the burst goes on, or was cancelled or at
\* its last message.
Sent(more) ==
    /\ sending > 0
    /\ more => delayed < MaxBursts
    /\ sending' = sending - 1
    /\ delayed' = IF more THEN delayed + 1 ELSE delayed
    /\ UNCHANGED <<world, listener, retry, used, answers, task, loopVars, stop, listed, stale, requests>>

StaleSent ==
    /\ stale > 0
    /\ stale' = stale - 1
    /\ UNCHANGED <<world, listener, retry, used, answers, task, loopVars, stop, listed, delayed, sending, requests>>
-----------------------------------------------------------------------------
(* The listener of the isolate.                                            *)

\* A new round reads the settings and calls startMulticast with them.
NewRound ==
    /\ listener' = "starting"
    /\ used' = settings

\* Mutant: the settings are read once, before the loop.
SameRound ==
    /\ listener' = "starting"
    /\ used' = used

StartAgain == NewRound

\* The await of startMulticast returns: announce, and listen to the events.
Started ==
    /\ listener = "started"
    /\ listener' = "listening"
    /\ delayed' = IF task = "running" THEN delayed + 1 ELSE delayed
    /\ UNCHANGED <<world, retry, used, answers, task, loopVars, stop, listed, sending, stale, requests>>

StartFails ==
    /\ listener = "starting"
    /\ listener' = "waiting"
    /\ retry' = FALSE
    /\ UNCHANGED <<world, used, answers, task, loopVars, stop, sendVars, requests>>

Retry ==
    /\ listener = "waiting"
    /\ retry
    /\ StartAgain
    /\ UNCHANGED <<world, retry, answers, task, loopVars, stop, sendVars, requests>>

\* Each event is answered on its own, if the server runs.
Handle ==
    /\ listener = "listening"
    /\ queue # <<>>
    /\ queue' = Tail(queue)
    /\ LET d == Head(queue)
       IN  IF serving
           THEN asking' = [asking EXCEPT ![d] = @ + 1] /\ UNCHANGED ignored
           ELSE ignored' = [ignored EXCEPT ![d] = @ + 1] /\ UNCHANGED asking
    /\ UNCHANGED <<world, listener, retry, used, found, answered, task, loop, hand, errors, heard, stop, sendVars, requests>>

\* _answerAnnouncement: register with the device, pinned to the fingerprint of
\* its message. Only one that answers is shown.
Answer(d, ok) ==
    /\ asking[d] > 0
    /\ asking' = [asking EXCEPT ![d] = @ - 1]
    /\ answered' = [answered EXCEPT ![d] = @ + 1]
    /\ found' = IF ok THEN found \cup {d} ELSE found
    /\ UNCHANGED <<world, listener, retry, used, ignored, task, loopVars, stop, sendVars, requests>>

\* Mutant: the bridge ends with the instance, whatever the channel still holds.
Ended == task = "over"

Drained == task = "over" /\ queue = <<>>

\* The stream ends: the next round.
StreamEnds ==
    /\ listener = "listening"
    /\ Drained
    /\ StartAgain
    /\ UNCHANGED <<world, retry, answers, task, loopVars, stop, sendVars, requests>>

\* RsMulticast::stop: the signal is sent once, and waits for the supervisor.
StopInstance ==
    stop' = IF stop # "no" THEN stop ELSE IF task = "over" THEN "returned" ELSE "sent"

\* restartListener: stop() what runs, or wake the wait for a retry. A second
\* stop() finds nothing left to do. (In between, when startMulticast is
\* awaited, it completes a completer nobody waits for.)
Restart ==
    /\ asked' = settings
    /\ IF listener = "listening"
       THEN StopInstance /\ UNCHANGED retry
       ELSE retry' = TRUE /\ UNCHANGED stop
    /\ heeded' = IF listener \in {"starting", "started"} THEN heeded ELSE settings
    /\ UNCHANGED <<world, listener, used, answers, task, loopVars, sendVars>>

\* sendAnnouncement.
Announce ==
    /\ listener = "listening" /\ task = "running"
    /\ delayed + sending < MaxBursts
    /\ delayed' = delayed + 1
    /\ UNCHANGED <<world, listener, retry, used, answers, task, loopVars, stop, listed, sending, stale, requests>>

Next ==
    \/ ChangeSettings \/ ServerTurns \/ Restart \/ Announce
    \/ \E i \in Interface, d \in Device \cup {None} : Receive(i, d)
    \/ \E i \in Interface : ReceiveFails(i) \/ Deliver(i) \/ Abort(i)
    \/ \E bound \in BindSockets[used] : Bind(bound)
    \/ Cancel \/ Finish \/ Send \/ \E more \in BOOLEAN : Sent(more)
    \/ StaleSent \/ Started \/ StartFails \/ Retry \/ Handle \/ StreamEnds
    \/ \E d \in Device, ok \in BOOLEAN : Answer(d, ok)

Spec == Init /\ [][Next]_vars

\* The runtime schedules its tasks and the isolate its events; a start returns.
FairSpec ==
    /\ Spec
    /\ WF_vars(Cancel) /\ WF_vars(Finish) /\ WF_vars(Handle) /\ WF_vars(StreamEnds)
    /\ WF_vars(StartFails \/ \E bound \in BindSockets[used] : Bind(bound))
    /\ WF_vars(Started) /\ WF_vars(Retry)
    /\ \A i \in Interface : WF_vars(Deliver(i)) /\ WF_vars(Abort(i))
-----------------------------------------------------------------------------
(* Properties.                                                             *)

TypeOK ==
    /\ {settings, used, asked, heeded} \subseteq 0..MaxSettings
    /\ {serving, retry, listed} \subseteq BOOLEAN
    /\ listener \in {"starting", "started", "waiting", "listening"}
    /\ task \in {"none", "running", "cancelled", "over"}
    /\ loop \in [Interface -> {"off", "receive", "deliver", "over"}]
    /\ \A i \in Interface : hand[i] \in IF loop[i] = "deliver" THEN Device ELSE {None}
    /\ errors \in [Interface -> 0..MaxErrors]
    /\ queue \in Seq(Device) /\ Len(queue) <= QueueSize
    /\ stop \in {"no", "sent", "returned"}
    /\ {delayed, sending, stale} \subseteq Nat
    /\ {asking, answered, ignored, heard} \subseteq [Device -> Nat]
    /\ found \subseteq Device

\* Once stop() has returned nothing of the instance receives and its list of
\* sockets is empty, so that no announcement begins to be sent; and a listener
\* that waits for a retry left nothing running behind.
StoppedIsClosed ==
    /\ TypeOK
    /\ stop = "returned" \/ listener = "waiting" =>
          Closed /\ ~listed /\ delayed = 0 /\ sending = 0

\* The interfaces the documentation of the filter excludes: those that have, at
\* any of their addresses, what the blacklist names, or at none of them what the
\* whitelist names.
Excluded == [v \in 0..MaxSettings |->
    {i \in Interface :
        LET addresses == Addresses(ByName(Entries, i.name))
            Names(patterns) == \E a \in addresses, p \in patterns : Documented(p, a)
        IN  \/ Filter[v].whitelist # None /\ ~Names(Filter[v].whitelist)
            \/ Filter[v].blacklist # None /\ Names(Filter[v].blacklist)}]

\* Nothing is received on an interface that the settings the listener was last
\* started with exclude, also after changes of the settings and retries.
ExcludedIsSilent ==
    \A i \in Excluded[used] : loop[i] \notin {"receive", "deliver"}

\* Restarts lose no message that reached the channel: each is in the channel,
\* being answered, answered, or was dropped while the server did not run; none
\* is handled twice, and the device never answers itself.
QueuedIsHandled ==
    /\ \A d \in Device :
          heard[d] = Cardinality({k \in DOMAIN queue : queue[k] = d})
                        + asking[d] + answered[d] + ignored[d]
    /\ heard[Self] = 0

\* A restart that finds the listener at work, or waiting to be told to retry,
\* leads to a start with the settings of that moment or later ones; and when
\* all interfaces are given up the listener starts again by itself.
RestartTakesEffect ==
    /\ \A v \in 1..MaxSettings : (heeded = v) ~> (used >= v)
    /\ (task = "running" /\ Closed) ~> (listener # "listening")

\* restartListener: "Restarts the listener, e.g. after the port or the network
\* settings changed."
EveryRestartTakesEffect ==
    \A v \in 1..MaxSettings : (asked = v) ~> (used >= v)

\* stop(): "Returns after all sockets are closed, so the port can be bound again."
StoppedFreesPort ==
    stop = "returned" => stale = 0
=============================================================================
