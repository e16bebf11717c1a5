# Doorstep in TLA+

Doorstep sends files between devices of one network. A Rust core serves and
calls a small HTTP protocol (v2), a Flutter app drives it through a bridge and a
few isolates, a command-line client drives it directly, and a signalling server
helps browsers and remote devices to find each other.

This directory holds TLA+ models of the parts whose correctness depends on the
order of events, TLC runs that check them on small instances, and proofs that
hold for every instance.

## Inventory

| part | state | operations | hard because |
| --- | --- | --- | --- |
| v2 upload server (`core/http/server/v2.rs`, `common/session.rs`, `common/pin.rs`) | the one session slot, wrong PINs per address, event channel | prepare-upload, upload, cancel, `cancel_v2_session`, drop guards | every handler can be dropped at an `await`; guards hand the clean-up to spawned tasks |
| file transfer (`common/save.rs`, `model/transfer.rs`, `http/client`) | three bounded channels, a file, two result channels | read, send, `save_req_to_target`, `write_file_from_receiver`, retry | five tasks and a network, each of which can end first |
| HTTP server and client (`http/server/mod.rs`, `http/client`) | listeners, connections, certificates | start, serve, stop; register, info, prepare | a stop meets connections, handlers and callers that wait |
| web send (`web.rs`) | download sessions per client address | prepare-download, download, guard | a second request of a client replaces the first one's session |
| server bridge (`doorstep_isolates/rust/src/api/server.rs`) | `pending_decision`, `pending_uploads`, `pending_download_decisions`, `pending_downloads` | `listen`, `respond_*`, `fail_*`, `cancel_session` | one slot for what several requests wait for |
| server isolate and provider (`server_isolate.dart`, `http_server.dart`, `server_provider.dart`) | the running server, its subscription, a queue per file | start, stop, restart, answer tasks | checks before an `await` and acts after it; acts on its own between two messages |
| receive controller (`receive_controller.dart`) | the session the user sees | `onPrepareUpload` ... `closeSession` | state is read before an `await` and used after it |
| send sessions (`send_provider.dart`, `upload_isolate.dart`) | a map of sessions, cancel tokens | `startSession`, `sendFile`, cancel, close | the user closes a session while a request is under way |
| transfer queue and watcher (`doorstep_transfer_provider.dart`, `doorstep_watcher_provider.dart`) | pending groups, batches, activity rows, pollers | `startTrackedTransfer`, flush, drain, poll | the outcome of a session is guessed from what a poller sees |
| pairing (`doorstep_pairing_provider.dart`, `doorstep_connection_request_provider.dart`) | paired devices in memory and on disk, requests, declined peers | pair, handshake, accept, decline, revoke | every save writes the whole list |
| signalling server (`server/src/controller/ws_controller.rs`) | outbox per connection, request counts | join, relay, update, leave | bounded outboxes, and tasks that send to each other |
| signalling client (`core/webrtc/signaling.rs`, `api/webrtc.rs`) | four queues, answer callbacks | connect, listen, `send_offer`, `accept_offer` | a callback is registered after the offer is sent |
| WebRTC transfer (`core/webrtc/webrtc.rs`) | nonces, PIN tries, the file that is streamed | handshake, PIN, file list, files | a long protocol in both directions over one channel |
| multicast discovery (`core/multicast`, `multicast_discovery.dart`) | receive loops, sockets, the event queue, the retry | start, restart, stop, announce, answer | restarts overlap messages, answers and announcements |
| command line: receive (`cli/src/app/receive.rs`, `storage`) | waiting request, session, files in progress | prompt, session start and end, results, Ctrl-C | results race with the end of the session |
| command line: send (`cli/src/app/sending.rs`, `send_task.rs`, `picker.rs`, `devices.rs`) | devices, picker, the send, its token | pick, send, upload, cancel | two can cancel, at any moment of a request |
| v3, crypto, nearby devices, settings, UI | | | see [Not modelled](#not-modelled) |

How they interact: a sender's prepare-upload claims the slot of the receiver's
server, which sends an event to the bridge; the bridge parks the reply channel and
forwards the event to the server isolate, which forwards it to the receive
controller; the user's answer takes the same way back. The command-line client takes
the events of its server itself. An accepted file is written by the server once the
application has named a path. Devices learn of each other by multicast, and answer with a
`register` request to the server of the other; devices of different networks would use the
signalling server and a WebRTC channel.

What makes each part correct:

* upload server: the slot holds at most one session, it is freed by whoever owes it, a file
  in progress has one upload, attempts are bounded, a session ends once;
* file transfer: what is reported as sent is on the other disk, both sides agree, all ends;
* HTTP server: a stop leaves nothing behind, the app knows what runs, a pinned certificate
  is the one that is served;
* web send: content is served only with the user's consent, one yes lets in one
  request, nobody waits for an answer that cannot come;
* bridge, isolate and receive controller: a decision reaches the request it was made
  for, the session the user sees is the one the server has;
* send sessions, transfer queue, watcher: every file of a batch ends in one final
  state, a cancel is final, one session at a time per queue;
* pairing: a revoked device stays revoked, also on disk;
* signalling server: the map is exact, peers that are there know of each other;
* signalling client: messages keep their order, an answer reaches its call;
* WebRTC transfer: nothing is listed before both have proved who they are, a verdict
  belongs to its file;
* multicast: a restart takes effect and loses no message, a stopped instance is silent;
* command line: the closing line is true, who asks is asked about, no session is left.

## Plan

Done, in this order:

1. `UploadServer`, with `SessionSlot`, what it promises about sessions, and
   `UploadProofs`.
2. `SignalingServer`, `SignalingProofs`: joins, outboxes, the tasks of a
   connection.
3. `WebSend`, `WebSendProofs`: browsers, endpoints, bridge, isolate queues and
   controller of web send in one module.
4. `FileUpload`: the way of one file from disk to disk, which is the free choice of
   `Saved` in `UploadServer`.
5. `RtcTransfer`, `SignalingClient`: the two ends of a WebRTC transfer, and how they find
   each other.
6. `CliReceive`, `CliSend` with `Picker`: the command-line client over the v2 server.
7. `MulticastDiscovery` with `InterfaceFilter`; `HttpPeers`.
8. `UploadProofs` (which also has `FileUpload`), `SignalingProofs` (which also has
   `SignalingClient`), `WebSendProofs`, `RtcTransferProofs`, `CliReceiveProofs`,
   `CliSendProofs`, `MulticastDiscoveryProofs`, `HttpPeersProofs`: every invariant and every
   action property that a run checks, and the refinements.

Left:

1. `ReceiveApp`: bridge, isolate and receive controller for uploads, in place of the "any
   application" of `UploadServer`. Theorem: a decision is given to the request it was made
   for, if TLC agrees.
2. `TransferQueue` and `SendSession`: batches, rows, cancel, and an abstract `Batch`
   (waiting, running, over) for the queue to implement.
3. `Pairing`.

Every safety and action property that a run checks is proved for all values of the constants
that satisfy the assumptions in the modules. Left to TLC is what the prover cannot do: liveness
under fairness and `ENABLED`. Where a liveness property has a core that is safety (nobody waits
for what cannot come), that core is a theorem: `NobodyWaits`, `EndsAreComing`, `UploadsGoOn`,
`SendsGoOn`.

The two matches that search a name or an address, in `Picker` and `InterfaceFilter`, are
recursive functions over the positions. That such a function exists and is unique is proved
in their proof modules by looking at the least position where something would differ
(`LeastNat`), which needs no induction theorem.

## Reading the modules

Each module has the state and `Init` first, then one action per step of the code,
`Next`, the fairness, and the properties with a comment each. `MC<module>` holds the
sets a `.cfg` cannot name and the symmetry. An operator that stands before a definition
with the comment `Mutant:` or `Slip:` is that definition with a plausible mistake in it; it
is used by no action, and PROJECT.json says which property notices if it were.

Requests, sessions, connections and operations are used once, so all orders of a few of them are
explored and a run ends when all are used up: that is why every `.cfg` says
`CHECK_DEADLOCK FALSE`. That nobody waits for ever is what the liveness properties say.

Where a property a doc or a comment states is broken by the code, its definition is kept at
the end of the module, and [Known defects](#known-defects) tells what TLC finds. What the runs check
is what holds.

## UploadServer

One `Request` is one POST `/prepare-upload` and the session id it draws; one
`Upload`, one `Cancel` are one such request each. A step runs from one await point
to the next: what happens under one `session.lock().await` is one step, and a
handler can be dropped exactly where it awaits.

| variables | code |
| --- | --- |
| `slot` | `V2State.session`: free, pending (id, address), active (id, address, files) |
| `pinAttempts` | `V2State.pin_attempts` |
| `req`, `ppc`, `cancelled`, `decision` | a prepare-upload: its payload, where its handler is, its `CancellationToken`, its one-shot decision channel |
| `upc`, `guard`, `target`, `result` | an upload: where it is, its `UploadGuard`, its one-shot target channel, the `SaveResult` |
| `writing` | uploads whose target a task of `save.rs` still holds; it lives on when the handler is dropped |
| `cpc`, `cancelling` | a cancel: where it is, what it carries to its second lock |
| `queue`, `open`, `told` | the event channel, whether the receiver is alive, and (history) what was sent per session |
| `reply` | the status code answered |

Handlers become actions in the order of the code: `PinAccepted`/`PinRefused`,
`Claim`/`ClaimRefused`, `Ask`/`AskFails`, `Decided`/`CancelledBySender`, `Clear`,
`Activate`; `DropPrepare` is the request future being dropped, `CleanUp` and
`TellAborted` the task the guard spawns. `clear()` disarms before it waits, so a
drop there leads to the state `lost`, where nothing is left to run. Uploads:
`UploadAdmitted`/`UploadRefused`, `Announce`/`NoTarget`, `StartSaving`, `WriterStops`,
`Saved`, `Finish`, `TellFinished`, and `DropUpload`, `FailDropped`, `TellFailed` for the
guard. A target that is a path or a descriptor is written by a task of its own
(`save.rs:233`): `DropUpload` leaves it in `writing`, and only `WriterStops` takes it out.
Cancels: `CancelPending`, `CancelOther`, `CancelActive`, `TellCancelled`. The
application takes events in order and answers every channel at most once, in any
order: more than the bridge does, so what holds here holds with the bridge.
`AppCancel` is `cancel_v2_session`, `AppClose` the end of `listen`. A stopped
server drops its handlers one by one, which `DropPrepare`, `DropUpload` and
`DropCancel` cover.

Left out: the dto, the token (an upload has the right one or not), the eviction of
the 200 least recently used addresses from the PIN map, `/info` and `/register`.

### Runs

Symmetry (permuting requests, uploads, peers and files, which the model only compares) is
used for `us_upload` and not for `us_slot`, which checks liveness.

| run | instance | checks |
| --- | --- | --- |
| `us_slot` | 2 prepare-uploads, 1 cancel, 1 peer, a PIN that locks after one wrong try, some empty offers, fair | `SlotOwned`, `ImplementsSlot`, `GivenUpIsReleased` |
| `us_upload` | 2 prepare-uploads, 3 uploads, 2 files, 2 attempts | `FilesInOrder` (`FileOwned`, `AttemptsBounded`, `OneWriter`), `FinishedIsQuiet`, `EndedOnce` |

Why the bounds are enough: interference over the slot needs two claimants, of which the
second gets in while the clean-up task of the first is still to run; two
attempts suffice to tell "one more" from "none left"; three uploads give a file two
attempts and leave one for the other file, or outlive their session while a second one
runs. The proofs below remove the bounds for
everything but `GivenUpIsReleased`.

What three of them say, and what not:

* `GivenUpIsReleased`: a pending session whose sender hung up, or cancelled, is taken out of
  the slot while the user does nothing. The two ways out are named in the property: the
  sender also hangs up while `guard.clear()` waits (`SlotNotLeaked` below), or the user's yes
  wins the race in `select!` and the session starts, its sender answered 200
  (`CancelledNeverActive` below). That the session merely becomes active does not count as
  given back.
* `FinishedIsQuiet` is about who reports: after `SessionEnd(Finished)` no handler and no clean-up
  task of the session has anything left to say about a file. It does not say that nothing is
  written then: the writer of a dropped upload may be (its file was settled as failed by the
  guard, and its sender got no answer), and the property says that only such a one may. That it
  never meets another writer is `OneWriter`: nobody else has the file, which is in progress or
  failed for good, so no retry opens the same target.
* `EndedOnce` counts ends. That the end of a session is sent without the lock, so that the
  event of the next prepare-upload may come first, is no part of it.

Fairness (`ServerFairness`): the runtime polls a task that can go on, and the
bridge's loop takes events. Clients owe nothing (no fairness of a request, of the end of a
body, a hang-up or a cancel; the server waits for a body without a limit, so `Transfer` has
none either), and the user owes no decision.

### Proofs

`UploadProofs` proves, for every value of the constants that satisfies
`ConstantsAssumption`:

* `Typed`: `TypeOK`. It needs `Carried`: a guard is set before anything reads it.
* `SlotOwnership`: `SlotOwned` is inductive relative to `TypeOK`. All who owe the slot
  hold it, hence there is at most one, hence nobody owes it while a session is
  active; claiming needs a free slot, and every release is by the one who owes.
* `FileOwnership`: `FilesInv` adds `SessionsOver`: an active session, or one that has an
  upload, belongs to a handler that is done, so no later step makes that session id
  active again and a guard that outlived its session never matches the slot.
* `BoundedAttempts`: a file out of attempts is pending no more.
* `OneWriterEach`: who has a writer is saving, or was dropped unanswered and its file is, or
  will be, failed for good (`Unanswered`, `WritersInv`); a failed file is never admitted again.
* `FilesKeepOrder`: the three together, as the run checks them.
* `QuietFinish`: a session is over for good when its last file is settled, and by
  `FileOwned` whoever still reports has a file in progress. A writer that goes on has
  lost its handler before that was answered.
* `Refinement`: every step is a step of `SessionSlot` or none. Beside the above it
  needs `DecisionInv`: a decision is asked once and given once, so the accepted files a
  handler has seen are still those it makes active.

* `EndsAreToldOnce`: `OnceInv` says that whoever is to announce the end of a session is
  alone with it, that nobody did so before, and that the session is `Gone`: its handler is
  done and it is not the active one. Uploads and cancels take the end under the lock, from the
  active slot (`TakenNow`), so nobody who takes it finds the session `Gone`.

Model-checked only: `GivenUpIsReleased` (liveness is out of the prover's reach).

## SignalingServer

One `Conn` is one websocket connection with the peer id it draws. Three tasks serve it:
the handler (`handle_socket`), and the send and the receive task which the handler
spawns once it has told the others of the new peer. Every connection has an outbox, a
bounded channel its send task drains; all others wait while it is full.

| variables | code |
| --- | --- |
| `members` | `tx_map`, ip group to connections (a group without entry and one with an empty entry are the same) |
| `requests` | `request_count_map` |
| `pc`, `tell`, `peers` | where the handler is, `peers_tx` / `remaining_tx` not yet served, the `peers` of the Hello |
| `outbox`, `open` | the channel, whether `rx` still exists |
| `rt`, `job` | where the receive task is, what it relays and to whom |
| `alive` | the client's end of the socket |
| `told` | history: Joins and Lefts put into the outbox while it is open |

`Join` is all that happens under the first lock: both limits, the peers found, the insert.
`TellJoin` is one turn of the loop that tells them, outside the lock; `SayHello` sends
the Hello and spawns the tasks. `TakeMessage` counts a message of the client,
`LookUp` reads the map, `Relay` sends to one addressee, `Fail` answers
429. `Abort` is the end of `select!`, `Leave` the last lock, `TellLeft` the loop after it.
`Stopped` is the aborted receive task coming to rest: the runtime has several threads, so
it may still run up to the next await that has to wait. The order in which a hash map
lists its entries is a free choice.

Left out: what a peer says about itself (no decision depends on it), the text of offers and
answers, ping frames. `group` stands for `util/ip.rs` and the address header: an input.
A client addresses only peers it was told of; ids are random, so it has no others.
An aborted send task may take a message or two more before it drops `rx`; they are lost
either way, so the model closes the outbox at once.

### Runs

| run | instance | checks |
| --- | --- | --- |
| `ss_room` | 3 connections over 2 groups, 2 fit in one, 1 request each, outbox of 1 | `RoomExact`, `NobodyMissing`, `LeaveAnnounced` |
| `ss_live` | 2 connections, outbox of 2, fair | `GreetedUnlessJammed`, `LeaverLeaves` |

`LeaverLeaves` is about every connection that is `Parting`: its client hung up, its send task
or its receive task has ended or is about to, or it is leaving already. Neither it nor
`LeaveAnnounced` is about the order of what others hear: a Left may come before the Hello
that still lists the peer, and an Update after the Left.

A connection may be refused for either limit; an outbox of one message makes every
sender wait; a third connection comes while one of two leaves. The proofs remove
these bounds for all safety properties.

Fairness: tokio's channel hands out room in the order of asking, hence strong fairness of
a waiting send; everything else needs only to be polled. Clients are assumed to
read (`Deliver` is fair); they owe no message and no hang-up, and the hourly
reset of the counts is not relied on.

### Proofs

`SignalingProofs` proves all safety properties of the runs for any number of
connections and groups, and two more: `KnownSender` (no message reaches a peer its sender was
not introduced to) and `JammedForEver` (once a connection's outbox is full before its Hello,
there is no way out). `TypeOK` needs that a relaying task has a job. `RoomExact` is
inductive with it. `NobodyMissing`, `KnownSender` and `LeaveAnnounced` follow from
`IInv`, whose parts say: of two members of a group one found the other or is still to
tell it (`Acquainted`, which lets `NobodyMissing` through whatever the order of the
sends); whom a receive task addresses, its connection was introduced to
(`Addressed`: tasks start only after the last Join was sent); whoever knows of a
connection that left was sent its Left or is on the list (`Announced`); introductions stay
within a group (`Neighbours`). Three lemmas say what a step can do to an outbox, to an
introduction and to a handler, so the proof of each part splits only on the steps
that matter to it. The liveness properties are model-checked only.

## WebSend

A browser asks for the file list (prepare-download), the user accepts it, and its
downloads are served from then on. All requests of one address share an entry of
the sessions map, a responder in the bridge and a row on the screen, and each of
the three is replaced at a different time: that is what the module is about. It
composes the endpoints, the bridge, the two isolate queues and the controller, as
none of them can be right alone.

| variables | code |
| --- | --- |
| `sessions`, `pinAttempts` | `WebPageState.sessions`, `.pin_attempts` |
| `from`, `wanted` | inputs: the address of each request, the file of each download |
| `ppc`, `decision` | where each prepare-download is, its `decision_tx` |
| `dpc`, `content` | the same of a download, its `content_tx` |
| `queue` | the event channel between endpoints and bridge |
| `responder`, `supplier` | `pending_download_decisions`, `pending_downloads` of the bridge |
| `stream` | events between the bridge and the main isolate, in order |
| `shown` | `webSendState.sessions` of the app |
| `orders`, `fetches` | answers between the main isolate and the bridge, in any order |
| `accepts` | history: how often the user accepted an address |

`Admit`/`Refuse` are `check_pin`, `Enter` the insert, `Ask` the event, `Grant`,
`Decline`, `Unanswered` what follows the decision, `Clear` the second half of
`clear()`, `CleanUp` the task the guard spawns; `HangUp` drops the request where it
awaits. `lost` is a request dropped in `clear()` after the guard was
disarmed. `ForwardPrepare`/`ForwardDownload` are `handle_web_event`, where the insert drops
the older responder; `Respond` and `Supply` the three `respond_*`/`fail_*` calls. The
isolate starts each task without awaiting the one before
(`_handleMessage`), so answers are counted and not queued: they overtake each other.
The rest is `send_controller.dart`; auto-accept is an `Accept` right after the row is made.

Left out: the page with its script and translations, the bytes of a download,
a missing or unknown file id (answered without any state), the eviction of the 200 least
recently used addresses from the PIN map, and the stop of the server, which drops the whole
state. An order that leads to nothing is consumed with no effect but an error in the log.

### Runs

| run | instance | checks |
| --- | --- | --- |
| `ws_web` | 2 addresses, 2 prepare-downloads, 2 downloads, 1 file, PIN limit 1, channel of 1, fair | `NobodyForgotten`, `OneYesOneRequest`, `DownloadConsented`, `AcceptedStays`, `WaitingEnds` (`DownloadEnds` and `AbandonedGoes`) |

Addresses are chosen in `Init`, so the run has both requests of one browser and of two;
two requests are what one responder, one row and one entry can be fought over by, and two
downloads of one file share one supplier. The proofs remove the bounds for the
safety properties. Symmetry is not used, as the run has liveness properties.

Fairness: tasks that can go on are polled, events and answers travel, and every
file is resolved or failed. Browsers owe nothing and the user owes no answer, so
`AbandonedGoes` excepts a request that still waits for him, and the one that is `lost`.

### Proofs

`WebSendProofs` proves all safety properties of `ws_web` for any number of addresses,
requests and files.

* `Typed`, `AcceptedLasts`, `PendingIsOwned` are inductive (with `TypeOK`). `PendingOwned`,
  which no run checks, says that a pending entry has somebody who is to settle it, or is `lost`.
* `NobodyIsForgotten`: `NobodyForgotten` is inductive. `QueueKeeps` and `StreamKeeps` say
  that an event leaves a queue only through the step that handles it; then either the
  responder is in the bridge, or the row is pending.
* `DownloadsAreConsented`: a yes in an order, in a decision channel and in the sessions
  map each imply that the user said it (`YesSaid`). A decision lands at a request of the
  right address because the bridge keeps a responder under its own (`ResponderOwn`).
* `OneYesOne`: `YesCounted`, the requests told yes plus the yeses on their way are at most
  the yeses said. Only `Respond` moves one from the second to the first.

`WaitingEnds` is liveness, and model-checked only.

## FileUpload

One file on its way from the source on one device to the target on the other: the task
that reads the source, the body and its client, the upload handler, the task that writes
the target, and the application which names the target and is told the result; then the
next attempt of the sender. The file passes three queues and a network that all keep its
order, so the content is one sequence of blocks (`read`), and each queue is what lies
between two positions in it.

| variables | code |
| --- | --- |
| `size`, `checksum`, `source`, `fileTarget` | the offer and both ends, chosen in `Init` |
| `reader`, `read` | `model/transfer.rs`: the task of a path or stream, the blocks it has read |
| `sent`, `eof`, `link` | the body on the wire and the connection |
| `shown` | the progress, which leaves out what comes within 20 ms of the last |
| `answer`, `attempt` | what `upload()` returned, the loop of the upload isolate |
| `handler`, `got`, `txOpen`, `stopped`, `outcome` | `save_req_to_target`, with `binary_tx`, `stream_error` |
| `writer`, `written`, `fileResult`, `disk`, `trimmed` | `write_file_from_receiver` and the target |
| `fileTold` | what `respond_file_upload` has returned to the application |

A block is as it was offered or is not (`good`, `bad`); a checksum is right when all are
good. `ReadBlock` may read what was not offered, more or less of it, as files change
after they were offered. `Break` and `CancelSending` can come at any moment, `DropHandler` drops the handler
where it awaits, and the writer goes on without it.

Run `fu_pipe` (`SuccessIsTheFile`, `PeersAgree`, `SavedStays`, `Concludes`): sizes 0 and
2, sources and older targets of up to 3 blocks, queues of 1, 2 attempts. A source can be
too short, right or too long, an older target leaves a tail or none, each queue is full
with one block under way; the second attempt meets what the first left on disk. The size
limit is checked for every block, so a third block more would be dropped as the first is.
Fairness: each task runs on, a reader comes to the end of its file, the application
answers; nothing is assumed of `Break` and `CancelSending`.

`SuccessIsTheFile` says of a 200 that the body was read to its end, the target holds the blocks
of the offer, and its writer has ended. The writer flushes and does not sync, so it says nothing
of what a power failure leaves.

`UploadProofs` proves the three safety properties for any size, content, queue and number
of attempts (`SuccessIsSaved`, `PeersDoAgree`, `SavedFilesStay`). None is inductive: that a 200
means a file on the disk rests on what four tasks did before. The invariant follows the file
back: the answer is the handler's outcome, and the application is told no other
(`OneVerdict`); the outcome is ok only for a body that has ended and whose writer said ok
(`HandlerInOrder`, `BodyEnded`); the writer says ok only when all that was put into its channel
is written, and its first `written` blocks on the disk are those that were read
(`WriterInOrder`); and the channel closes only when the handler leaves the body
(`ChannelHeld`). `SavedStays` follows: when the application knows, the writer has ended and the
sender does not retry. `Concludes` is model-checked only; what it needs besides fairness is
`UploadsGoOn`: until all tasks have ended, one of them has what it waits for (`NobodyStuck`).
Bounded queues and two result channels form no circle, because whoever gives up takes the
connection down and whoever is done with a target has told its application (`PartingInv`).

## RtcTransfer

The tasks of `send_offer` (S) and `accept_offer` (R) once the data channel is open, and the
controllers which the bridge gives to the two applications. A string sent in chunks is one
binary frame and the text that ends it.

| variables | code |
| --- | --- |
| `pin`, `trusts` | `PinConfig` of each peer; whether the other's token has the expected key |
| `pos` | where each task is (`nonce`, `token`, `prompt`, `verify`, `choose`, `receive`, ...) |
| `out`, `inbox`, `link`, `open` | the frames under way in each direction, the network, the peer connections |
| `outcome` | what the function of each peer came to |
| `slot`, `tries` | the one-shot of `handle_pin`, `pin_try` |
| `picked`, `handed`, `queued`, `sending`, `sent`, `finished` | the selection, and the sender's files on their way from the application to the channel |
| `current`, `settling`, `got`, `stream`, `results` | `file_state`, `last_file_id`, `binary_rx` of each file, `user_error_tx` of the receiver |
| `typed`, `verdict` | history: PINs sent, what R's application said of each file |

The handshake is `ReceiveNonce`, `SendToken`, `ReceiveToken`, `Reject`, `ReceiveReply`; PINs
are `Prompt`, `Forward`, `SendPin`, `VerifyPin`, `Expel` in both directions; then
`ReceiveChoice`, `BeginFile`, `SendFrame`, `EndFile`, `EndFiles` meet `ReceiveHeader`,
`ReceiveData`, `Settle`. An application that has gone makes its task fail, at the choice
(`ReceiveChoice`) and at a file's stream (`StreamRefused`). Each function ends by its task or by
`PeerGone`. Signatures are perfect. Left out: the branch that pairs two devices, which ends
before a transfer, and the set-up of the peer connection; a receiver without a channel for
results (`webrtc.rs:900`), as an application that has chosen keeps its controller; and a PIN
request dropped unanswered (`:1148`), as the bridge has a task that keeps each of them.

Run `rt_files` (`ListAfterProofs`, `EachOfItsFile`, `Concludes`): two files of one frame,
of each of which the application may send up to two, 2 tries. Two files tell a verdict of the file from
one of the file before it, a second frame is one too many, the second try is the last. Fairness: tasks are scheduled,
the network delivers while it is there, both users answer; nobody must send a
file, and the network need not fail.

`RtcTransferProofs` proves `ListAfterProofs` and `EachOfItsFile` for any files, file size and
number of tries. A peer waits for a frame, not for a step of the other, so the thing to prove
is that a frame still means what its sender meant. `Way(p)` is what p has sent and the other
has not taken, across the network. `Turns` lists, for each position of S, where R can be and
what is on both ways; frames that are lost with the connection leave R where it stops. With it
`ProofsDone` is inductive: the list goes out after the signatures and both PINs. For the files,
`WayOfFiles` says that on the way to R every file has one header, in front of its data, so what
R reads belongs to the header it read last (`FilesInTurn`, `Kept`); `Counted`, that R reads no
more frames of a file than were sent, so none is rejected for its size unless the file
grew (`NoExcess`); and `Settled`, that R then waits for one verdict at a time, so each goes
to its own file.

`NobodyWaits` is what `Concludes` needs besides fairness: while both tasks run and the peers
are connected, a frame is on its way, or one of the tasks has what it waits for, or its
application has been asked. `Turns` settles all but three positions, for which `WaitInv`
is inductive relative to the invariant: who types a PIN has been asked for it (`PromptAsked`), a
verdict that R waits for can be given or was (`SettlingServed`), and the end of the files stays
the last frame on the way until R reads it (`EndAtLast`). TLC found no state of `rt_files` that
violates either invariant. `Concludes` itself is model-checked only.

## SignalingClient

A device's connection to the signalling server and the calls made over it.

| variables | code |
| --- | --- |
| `ws`, `writer`, `socket` | the websocket, its write task, what the server sent and nobody read |
| `connected` | `connect()` of the bridge |
| `sends`, `received` | `tx`, `receive_tx`: one message each |
| `hand` | the message the read task has for `receive_tx` |
| `relay`, `events`, `callbacks` | the listener: the message it holds, its channel to the bridge, `on_answer` |
| `call`, `taken` | `send_offer` and `accept_offer` of each session |
| `asked`, `said`, `heard` | what the server passed on; history: all it said, all the application got |

`Lose` may end the socket at any moment. The server says Hello once, at any time: by the defect
`HelloFirst` of `SignalingServer` a peer's Join, or its offer, may be in front of it. Run `sc_calls` (`HeardInOrder`,
`WaitingIsAnswered`): two calls out, one in, one event about a peer, a listener channel of
one message; two calls can be confused with each other, one message fills each
queue. Fairness: every task is scheduled and the application reads; a send to a full channel is
served in the order of asking (hence strong fairness of `Answer`).

`SignalingProofs` proves `HeardInOrder` (`HeardAsSaid`), for any number of calls and any
channel. The way from the server to the application is the concatenation of six sequences; the
lemmas `PushAtEnd` and `HandOver` say that a message which goes from one queue to the next
leaves the way as it was. The invariant adds that an answered call was answered by a message
that was said (`AnswersSaid`), and that nothing is unread once the socket is down
(`NothingUnread`). `WaitingIsAnswered` is model-checked only.

## CliReceive

The receiving side of the command-line client, over the v2 server in the steps the
application can tell apart: the session slot, the handlers of requests and uploads and
what they leave when dropped. `UploadServer` has that server in full.

| variables | code |
| --- | --- |
| `slot`, `request`, `status`, `up`, `tries`, `ending` | the server: `V2State.session` and where its handlers are |
| `serverRx`, `results`, `telling` | `ServerEventV2`, `ReceiveFileResult`, the tasks of `cancel_receive` |
| `paired` | whether the senders are accepted without asking |
| `pending`, `receive` | `App::pending`, `App::receive` |
| `saved`, `summary` | history: files the server reported as saved, the closing lines of each session |

`TakePrepare`, `TakeAborted`, `TakeEnd`, `TakeUpload`, `TakeResult` are the turns of the
event loop; results come from tasks of their own, in any order. `PressYes`, `PressNo`,
`CtrlC` are the keys. Run `cli_receive` (`SummaryExact`, `WaitingIsAsked`,
`ReceivingEnds`): two sessions of two files and one file, two uploads, 2 tries, one Ctrl-C. The
first session has a file that ends it and one that is late; the
second replaces it while results are still under way. `SummaryExact` excepts files that
were tried twice, see `SummaryDeferred` below. Fairness (`CodeRunsOn`): the server and the loop run
on and results are taken; nothing is assumed of the user. `ReceivingEnds` needs one assumption
about senders, `NoSenderStalls`: whoever uploads comes to the end of the body or hangs up. The
code does not see to that: `save.rs:141` awaits the next frame without a time limit, so a sender
that cancels and then stalls an upload keeps the session open here. (Without the assumption TLC
finds just this.)

`CliReceiveProofs` proves both safety properties for any finite sets of sessions and files and
any number of attempts, uploads and cancels. `SummariesAreExact` rests on a count: while a
session is received, its `finished` is the number of files that are saved and whose result was
taken (`CountsRight`); a file is busy from its upload event until its result is taken
(`BusyUntilTold`), so nothing is left to count when the closing line is written (`LinesExact`).
Both need that an attempt has one result and a file one saved attempt (`UploadsStarted`,
`AnnouncedOnce`, `ResultsOnce`), and that a session is received once (`ReceivedOnce`).
`WaitingRequestsAreAsked`: the request that waits is the last the application is asked about
(`AskedLast`), and the abort of an older one names a request that is closed
(`AbortedIsClosed`).

`Refinement` shows that the server of this module, coarser than `UploadServer`, keeps the same
promise: under the mapping in `CliReceive` it implements `SessionSlot` (no run has it as a
property; TLC found it to hold on the instance of `cli_receive`). `SlotInv` says that the
request in the slot is one that keeps it there, that only files of a session which has started
are touched, and that a session which goes on has a file to come.
`EndsAreComing` is the part of `ReceivingEnds` that is safety: while the client receives a
session that is over at the server, the end is in the client's queue or will be put there; the
result of each busy file is on its way; and once the end has been read, some file is busy
(`ClosingInv`). TLC found no state of `cli_receive` that violates these invariants.
`ReceivingEnds` itself is model-checked only.

## CliSend and Picker

The sending side: the devices that are listed, the file picker, the run that is
started, and its task. Each receiver is seen as its server lets the sender see it.

| variables | code |
| --- | --- |
| `devices` | `DeviceRegistry`: the device of each hotkey |
| `picker` | the picker of `picker.rs`, a record: directory, index of the explorer, query, matches, row, selection |
| `send`, `known`, `marking`, `quit`, `keys`, `mail` | `App::send`, `SendState`, the step between `by_peer` and the token, the event loop and its queue |
| `task`, `token`, `byPeer`, `target`, `files`, `sent`, `said` | `run_send`: where it is, `SendCancel`, what it sends to whom, its last line |
| `session`, `up`, `settled`, `cancels` | the receivers, and their cancels on the way here |
| `saved`, `pressed`, `dropped` | history |

`Picker` has one operator per key (move, type, erase, enter, leave, select, take), each a function of
the picker; the explorer is a library, of which the current directory and entry are kept.
`PickerKey` is one such key, `StartSend` takes what was picked to the device of the key
that opened the picker; `Prepared`, `Upload`, `Uploaded`, `TellReceiver` are the task, and
`CancelReceived` the other side's cancel.

Run `cli_send` (`HonestLine`, `NoSessionLeft`, `SendEnds`, `PicksTheShown`): two sends, two
devices and the client itself, one hotkey, a tree of two directories with one file each,
a filter of one symbol, five keys outside the picker. A filter that hides the current
entry, or all entries, is what can make the screen and the explorer
disagree; the second send meets what is late of the first.
A receiver accepts all files or some of them; the session and the uploads are about the accepted
ones. A cancel that comes from another address of the receiver is not heard
(`CancelReceived`). Fairness: loop and tasks run on, receivers answer and uploads end. Receivers
are assumed to accept only what they were offered, as `v2.rs:297` does: an unknown id in the
answer stops the task with a panic (`send_task.rs:175`), and `SendEnded` would never come.

`CliSendProofs` proves the two invariants and `PicksTheShown` for any devices, tree, filter and
number of sends and keys. `SessionIsEnded` and `LineIsHonest`: a task is followed with what it
has told the application and not been heard on yet (`Unheard`), what is saved with what the
task believes was sent (`CountsOK`), a cancel with the side it came from (`CancelOK`), and each
last line with what it claims (`SaidOK`). `ShownIsPicked`: the picker's matches are entries of
its directory, and the entry the keys act on, unless the filter hides it, is in the highlighted
row (`PickerOK`); the device behind a picker is that of its hotkey (`PickerInv`), as a hotkey is
given once (`DevicesOK`). `FilterFindsEmbedded` holds for every query and every name: searching
each symbol behind the first place of the one before finds exactly the names in which the
symbols occur in their order. (`MatchesSubsequences` is the same for short ones, which TLC
evaluates.) `SendEnds` is model-checked only; what it needs besides fairness is `SendsGoOn`:
the task of the send on the screen has something to do, waits for an answer it has asked for
(`AskedInv`), or its end is in the application's queue (`SendGoesOn`).

## MulticastDiscovery and InterfaceFilter

The listener of the discovery isolate, the instance of the core's discovery it starts and
restarts, and the bridge between them.

| variables | code |
| --- | --- |
| `settings`, `serving` | what the isolate was last sent |
| `listener`, `retry`, `used` | `_runListener`, `_retryCompleter`, the settings of the latest start |
| `asking`, `found` | register requests under way, devices shown |
| `task`, `loop`, `hand`, `errors` | the supervisor and the receive loop of each interface |
| `queue` | the channel to the bridge |
| `listed`, `stop`, `delayed`, `sending`, `stale` | the list of sockets, `stop()`, announcements before and during a send, those of instances that are over |
| `asked`, `heeded`, `heard`, `answered`, `ignored` | history |

`InterfaceFilter` has the patterns and the choice of interfaces as functions; of the
admitted ones the system may bind any. `Documented` is the meaning which the comments give a
pattern: the address can be cut so that each symbol covers its part. `FilterAsDocumented`,
evaluated by TLC on the run, compares the two for all patterns of up to 3 and addresses of up to
4 symbols; the proofs, for all.

Run `md_restart` (`StoppedIsClosed`, `QueuedIsHandled`, `ExcludedIsSilent`,
`RestartTakesEffect`): four interfaces of five addresses (one of two families, one without an
index), a filter that changes once, one peer and the device itself, two messages of each,
two errors in a row before an interface is given up, one announcement at a time, a channel of one.
Messages of one device are enough to lose or repeat one; a restart at every point of the listener's round is
reached with one change of the settings. Fairness: the runtime schedules its tasks, and a
start returns.

`MulticastDiscoveryProofs` proves the three invariants for any interfaces, filters, devices and
bounds. `StopCloses`: an instance leaves nothing behind before the next one begins
(`BetweenInstances`). `EveryQueuedIsHandled`: the messages of a device that reached the channel
are those in the queue, those being asked about, those answered and those ignored, counted
(`AllCounted`; `InQueueAppend` and `InQueueTail` say what one message more or less does).
`ExcludedStaysSilent`: what receives was admitted by the filter of the latest start
(`AllowedOnly`), and `FilterIsDocumented` carries that over to the documented meaning: the
positions from which an address matches the rest of a pattern are those from which its rest can
be cut (`Starts`). `Excluded` speaks of the addresses of an interface that are no loopback.
`RestartTakesEffect` is model-checked only.

## HttpPeers

The life of one device's server and the calls of others: the app's start, stop and
restart, the service in the isolate, the bridge, the server task with its listeners
and connections, and the client with its pinned certificate.

| variables | code |
| --- | --- |
| `goal`, `pc`, `mine`, `retry` | each operation of `server_provider.dart`: what it wants, where it awaits |
| `state`, `sub`, `listening`, `published` | `ServerState`, `_subscription`, whose events the app handles, `serverRunning` |
| `held`, `life`, `conf`, `asked`, `events` | `HttpServerService._server`, each server's task, configuration, `stop_tx` and event channel |
| `req`, `at`, `handler`, `status`, `out` | each call: its request, the server that holds its connection, how far that is, the answer and what the caller makes of it |
| `overlap` | history: an operation began while another was under way |

The messages between the app and its isolate keep their order, so the isolate handles a
task in the step that sends it. A call has a connection of its own; one that is kept for
another request was shaken hands on in the same way. `Die` is a server task that ends by
itself, `Shut`, `End` and `Cut` what a stop does to listeners, task and connections.

Run `http_peers` (`NobodyImpersonated`, `StopMeansStopped`, `StateTrue`, `Ends`): two
operations out of start, stop and two restarts (another certificate, another port without
encryption), two servers, three certificates, an event channel of one, one call at a time out of
five. The second operation may overlap the first at every await. Fairness: operations and
server tasks run on, and cancelled connections end; nobody has to tap, to answer, to call or to
give up, and no handler has to go on.
`StopMeansStopped` is about listeners, connections and handlers: the writer or clean-up task of a
dropped handler holds none of them and may run on.

`HttpPeersProofs` proves the three safety properties for any number of operations, servers,
certificates and calls; there must be something to ask for (`Goals` and `Requests` are not
empty). `NobodyIsImpersonated`: what the handshake compared stays true of the server behind the
connection (`Shaken`), because a server is not configured again while a connection to it is
open (`Connected`). `StopsAreComplete`: when a server is asked to stop, its task has ended or
the operation that asked still waits (`Awaited`). `StateIsTrue`: `Progress` says what an
operation has done by each of its awaits, so one that is alone leads from a `Settled` state to
a `Settled` one, whatever fails. `Ends` is model-checked only.

## Known defects

Each of these is a definition in its module, next to the comment, doc or test it takes from,
and TLC finds it violated when it is put into the `.cfg` of the run; no run checks them.

| definition | what is stated | what the code does |
| --- | --- | --- |
| `SlotNotLeaked` (UploadServer) | the slot is freed when the request is dropped | `guard.clear()` disarms, then waits for the lock. A client that hangs up in that wait leaves the slot pending, and every later prepare-upload gets 409 until the server restarts |
| `FileNotStuck` (UploadServer) | a file is not stuck in progress | the same order in `UploadGuard::finish`: the file can be neither retried nor completed, its session does not end |
| `CancelledNeverActive` (UploadServer) | a pending session that was cancelled does not start | the handler may be past its `select!`, or pick the decision there |
| `HelloFirst` (SignalingServer) | Hello is the first message | a peer that joins between the insert and the Hello may have its Join in front of it, also its Left, although the Hello still lists it |
| `Greeted` (SignalingServer) | whoever connects and stays gets a Hello | the Hello goes through the connection's own outbox before anybody drains it. If others have filled it, the handler waits for itself, and all who send to it wait too. `GreetedUnlessJammed` says this is the only way |
| `CreatedWhenAccepted` (WebSend) | a session is created when the user accepts | a browser that asks again makes the bridge drop the first responder; the guard of the first request removes the second's entry. The second is accepted, answered 200, and each download gets 403 |
| `VerdictsKeepToFiles` (RtcTransfer) | the result of a file is about that file | the receiver sends the next result its application gives, whichever file it is of. A file that exceeds its size is failed at once and leaves its result behind: the next file gets it |
| `ErrorCloses` (RtcTransfer) | after an error the connection is closed | a task that fails returns without closing the peer connection |
| `HelloConnects` (SignalingClient) | `connect()` waits for the Hello | it takes no message before. Two of them in front of the Hello (`HelloFirst`) fill `receive_tx` and hold up the read task: the Hello is never read, and `connect()` hangs, also when the socket is lost |
| `AnswerCallsBack` (SignalingClient) | an answer calls its callback | the callback is registered after the offer is sent: an answer that is faster is lost to its call |
| `SummaryDeferred` (CliReceive) | the summary waits for results under way | a late result of a first attempt removes the entry of the second one |
| `SummaryPrinted` (CliReceive) | an accepted session is closed with a line | the next request of a paired device can take its place before |
| `CancelRejects` (CliReceive) | cancelling rejects further uploads | between the decision and the start of the session there is nothing to cancel, and then it starts |
| `NothingLeft` (CliSend) | no session is left behind | a send cancelled while the 200 is on its way ends without telling the receiver |
| `EveryRestartTakesEffect` (MulticastDiscovery) | a restart restarts the listener | a restart while `startMulticast` is awaited completes a completer nobody waits for |
| `StoppedFreesPort` (MulticastDiscovery) | the port is free when `stop()` returns | an announcement that is being sent holds its own copy of the sockets |
| `OnlyOneServer` (HttpPeers) | only one server runs at a time | the service checks for a server before it awaits its start: two operations that overlap can leave a server that no stop reaches |
| `StateNullIfDown` (HttpPeers) | the state is null if no server runs | nobody tells the app of a server task that ended by itself |

In web send, a request dropped in `clear()` also leaves its entry pending (`lost`); there
it is harmless, as the next request of the address replaces it.

## Not modelled

* The receive controller, the send sessions of the app, the transfer queue and watcher,
  pairing: left in the plan. `UploadServer` lets the application answer in any order, and the
  command-line modules cover the same protocol with another application.
* `frb_generated.rs`, about a third of the Rust lines, is generated from the bridge.
* v3: a nonce exchange whose map is written and never read, so no behaviour depends on it;
  the rest is cryptography, which is perfect in the models.
* WebRTC: the set-up of the peer connection (ICE, SDP) and the branch that pairs two
  devices. The app ships with WebRTC switched off.
* The eviction of the 200 least recently used addresses from the PIN maps: it would let a
  locked address try again after 200 others have.
* The command line's status line, choice of a free file name and loading from disk: each is a
  function of one task.
* The client's download calls, which the application does not use.
* Nearby devices, settings, history, favourites: maps and key-value stores whose writes do
  not depend on each other. User interface, platform code, packaging.

Out of the prover's reach, and checked by TLC only: the liveness properties
(`GivenUpIsReleased`, `GreetedUnlessJammed`, `LeaverLeaves`, `WaitingEnds`, `Concludes` of two
modules, `WaitingIsAnswered`, `ReceivingEnds`, `SendEnds`, `RestartTakesEffect`, `Ends`).
