----------------------------- MODULE FileUpload -----------------------------
(***************************************************************************)
(* The way of one file from the source on the sender's device to the       *)
(* target on the receiver's: the task that reads the source                *)
(* (core/model/transfer.rs), the body of the HTTP request and its client   *)
(* (http/client), the upload handler and the task that writes the target   *)
(* (http/server/common/save.rs), the application that picks the target     *)
(* and learns the result (the bridge's server.rs), and the retries of the  *)
(* sender's upload isolate.                                                *)
(*                                                                         *)
(* The file passes three queues and a network that keep its order, so a    *)
(* queue is what lies between two positions in the blocks that were read.  *)
(* The session, and which uploads it admits, are UploadServer's.           *)
(***************************************************************************)
EXTENDS Naturals, Sequences

CONSTANTS
    Sizes,        \* sizes a file may be declared with
    Longest,      \* bound: blocks a source, or an older target, may hold
    Capacity,     \* of each queue (16, 1 for a stream of the application)
    MaxAttempts   \* MAX_UPLOAD_ATTEMPTS, and _maxUploadAttempts of the isolate

ASSUME FileAssumption ==
    /\ Longest \in Nat /\ Sizes \subseteq 0..Longest
    /\ Capacity \in Nat \ {0} /\ MaxAttempts \in Nat \ {0}

VARIABLES
    size,       \* of the file, as it was offered
    checksum,   \* whether the offer has one
    source,     \* where the content comes from: path, open (stream, descriptor)
    fileTarget, \* where it goes: app (the application's own channel), path, fd
    attempt,    \* of the sender
    \* The sender.
    reader,     \* task that reads the source: opening, reading, ended
    read,       \* the blocks it has read: good, or bad if not as offered
    sent,       \* position of the body: blocks on the wire
    eof,        \* whether the end of the body is on the wire
    shown,      \* the progress on the screen
    answer,     \* what upload() returned
    link,       \* the connection: up, broken
    \* The receiver.
    handler,    \* asking, body, waiting, done, answered, gone
    got,        \* position of the handler: blocks in the channel of the writer
    txOpen,     \* whether the handler holds binary_tx
    stopped,    \* stream_error
    outcome,    \* of save_req_to_target
    writer,     \* task that writes the target: none, opening, writing, ended
    written,    \* position of the writer
    fileResult, \* internal_tx, or the application's result_tx
    disk,       \* the target
    trimmed,    \* set_len: none, done, failed
    fileTold    \* what respond_file_upload has returned: none, ok, error

offer == <<size, checksum, source, fileTarget>>
senderVars == <<reader, read, sent, eof, shown>>
handlerVars == <<handler, got, txOpen, stopped, outcome, fileTold>>
writerVars == <<writer, written, fileResult, disk, trimmed>>
fileVars == <<offer, attempt, senderVars, answer, link, handlerVars, writerVars>>

Blocks == {"good", "bad"}
Contents == UNION {[1..n -> Blocks] : n \in 0..Longest}
Outcomes == {"ok", "mismatch", "failed"}
Prefix(s, n) == SubSeq(s, 1, n)
-----------------------------------------------------------------------------
FirstReader(s) == IF s = "path" THEN "opening" ELSE "reading"

\* A path is created by the writer; a descriptor may point at an older file.
FileInit ==
    /\ size \in Sizes
    /\ checksum \in BOOLEAN
    /\ source \in {"path", "open"}
    /\ fileTarget \in {"app", "path", "fd"}
    /\ disk \in {[i \in 1..n |-> "old"] : n \in IF fileTarget = "fd" THEN 0..Longest ELSE {0}}
    /\ attempt = 1
    /\ reader = FirstReader(source)
    /\ read = <<>> /\ sent = 0 /\ eof = FALSE /\ shown = 0
    /\ answer = "none" /\ link = "up"
    /\ handler = "asking" /\ got = 0 /\ txOpen = FALSE /\ stopped = FALSE
    /\ outcome = "none" /\ fileTold = "none"
    /\ writer = "none" /\ written = 0 /\ fileResult = "none" /\ trimmed = "none"
-----------------------------------------------------------------------------
(* The sender.                                                             *)

\* The body is dropped with the request, and the queue with the body.
BodyDropped == answer # "none" \/ link = "broken"

OpenSource ==
    /\ reader = "opening"
    /\ reader' \in {"reading", "ended"}
    /\ UNCHANGED <<offer, attempt, read, sent, eof, shown, answer, link, handlerVars, writerVars>>

\* A file may have changed since it was offered, and its size with it.
ReadBlock(b) ==
    /\ reader = "reading" /\ ~BodyDropped
    /\ Len(read) < Longest
    /\ Len(read) - sent < Capacity
    /\ read' = Append(read, b)
    /\ UNCHANGED <<offer, attempt, reader, sent, eof, shown, answer, link, handlerVars, writerVars>>

\* The end of the file, an error or nobody left to read for; the queue only
\* sees that it is closed.
EndReading ==
    /\ reader = "reading"
    /\ reader' = "ended"
    /\ UNCHANGED <<offer, attempt, read, sent, eof, shown, answer, link, handlerVars, writerVars>>

\* Progress within 20 ms of the last one is left out, except for the final one.
Emits(n) == IF n >= size THEN {n} ELSE {n, shown}

\* The body is pulled by the connection, and has no length of its own: it is
\* at its end when the queue is closed.
SendBlock ==
    /\ ~BodyDropped
    /\ sent < Len(read) /\ sent - got < Capacity
    /\ sent' = sent + 1
    /\ shown' \in Emits(sent')
    /\ UNCHANGED <<offer, attempt, reader, read, eof, answer, link, handlerVars, writerVars>>

EndBody ==
    /\ ~BodyDropped /\ ~eof
    /\ reader = "ended" /\ sent = Len(read)
    /\ eof' = TRUE
    /\ UNCHANGED <<offer, attempt, reader, read, sent, shown, answer, link, handlerVars, writerVars>>

Break ==
    /\ link = "up" /\ answer = "none"
    /\ link' = "broken"
    /\ UNCHANGED <<offer, attempt, senderVars, answer, handlerVars, writerVars>>

\* The cancel token ends upload(), which closes the connection.
CancelSending ==
    /\ answer = "none"
    /\ answer' = "cancelled" /\ link' = "broken"
    /\ UNCHANGED <<offer, attempt, senderVars, handlerVars, writerVars>>

\* The answer may come before the end of the body.
GetAnswer ==
    /\ answer = "none"
    /\ \/ link = "up" /\ handler = "answered" /\ answer' = outcome
       \/ link = "broken" /\ answer' = "broken"
    /\ UNCHANGED <<offer, attempt, senderVars, link, handlerVars, writerVars>>

\* Mutant: a sender that tries again after any failure.
RetryableAlways == answer \in {"mismatch", "failed", "broken"} /\ attempt < MaxAttempts

\* 422; the server has the file pending again for as many attempts.
Retryable == answer = "mismatch" /\ attempt < MaxAttempts

Retry ==
    /\ Retryable
    /\ attempt' = attempt + 1
    /\ reader' = FirstReader(source)
    /\ read' = <<>> /\ sent' = 0 /\ eof' = FALSE /\ shown' = 0
    /\ answer' = "none" /\ link' = "up"
    /\ handler' = "asking" /\ got' = 0 /\ txOpen' = FALSE /\ stopped' = FALSE
    /\ outcome' = "none" /\ fileTold' = "none"
    /\ writer' = "none" /\ written' = 0 /\ fileResult' = "none" /\ trimmed' = "none"
    /\ UNCHANGED <<offer, disk>>
-----------------------------------------------------------------------------
(* The receiver: the handler.                                              *)

Tells(r) == fileTold' = IF fileTarget = "app" THEN fileTold ELSE IF r = "ok" THEN "ok" ELSE "error"

\* A path has to be created first; a descriptor is open.
FirstWriter == IF fileTarget = "path" THEN "opening" ELSE "writing"

\* The application answers FileUpload, or fails it; it may be too late.
GiveTarget ==
    /\ handler \in {"asking", "gone"} /\ writer = "none" /\ fileTold = "none"
    /\ IF handler = "gone"
       THEN Tells("failed") /\ UNCHANGED <<handler, txOpen, writer>>
       ELSE /\ handler' = "body" /\ txOpen' = TRUE
            /\ writer' = FirstWriter
            /\ UNCHANGED fileTold
    /\ UNCHANGED <<offer, attempt, senderVars, answer, link, got, stopped, outcome,
                   written, fileResult, disk, trimmed>>

FailTarget ==
    /\ handler = "asking"
    /\ handler' = "done" /\ outcome' = "failed"
    /\ UNCHANGED <<offer, attempt, senderVars, answer, link, got, txOpen, stopped, fileTold, writerVars>>

TakeFrame ==
    /\ handler = "body" /\ writer # "ended"
    /\ got < sent /\ got - written < Capacity
    /\ got' = got + 1
    /\ UNCHANGED <<offer, attempt, senderVars, answer, link, handler, txOpen, stopped,
                   outcome, fileTold, writerVars>>

\* Mutant: binary_tx is still held when the result is awaited.
EndsBodyHoldingTx == handler' = "waiting" /\ UNCHANGED txOpen

\* drop(binary_tx), then the writer's result is awaited.
EndsBody == handler' = "waiting" /\ txOpen' = FALSE

\* The end of the body, an error of the connection, or a writer that is gone.
StopBody ==
    /\ handler = "body"
    /\ \/ eof /\ got = sent /\ stopped' = FALSE
       \/ link = "broken" /\ stopped' = TRUE
       \/ writer = "ended" /\ got < sent /\ stopped' = TRUE
    /\ EndsBody
    /\ UNCHANGED <<offer, attempt, senderVars, answer, link, got, outcome, fileTold, writerVars>>

Intact == \A i \in 1..got : read[i] = "good"

Outcome ==
    IF stopped \/ fileResult # "ok" THEN "failed"
    ELSE IF checksum /\ ~Intact THEN "mismatch" ELSE "ok"

\* Mutant: the application is told what the writer said, before the checksum.
ReportsEarly == Tells(IF stopped THEN "failed" ELSE fileResult)

\* The application is told the whole outcome, the checksum included.
Reports == Tells(Outcome)

Conclude ==
    /\ handler = "waiting"
    /\ writer = "ended" \/ (stopped /\ fileTarget = "app")
    /\ handler' = "done" /\ outcome' = Outcome
    /\ Reports
    /\ UNCHANGED <<offer, attempt, senderVars, answer, link, got, txOpen, stopped, writerVars>>

\* After finish() of the guard, which is UploadServer's.
Reply ==
    /\ handler = "done"
    /\ handler' = "answered"
    /\ UNCHANGED <<offer, attempt, senderVars, answer, link, got, txOpen, stopped,
                   outcome, fileTold, writerVars>>

\* The server drops the handler of a connection that is gone, and with it
\* binary_tx and the sender of the application's result.
DropHandler ==
    /\ link = "broken"
    /\ handler \notin {"answered", "gone"}
    /\ handler' = "gone" /\ txOpen' = FALSE
    /\ IF writer # "none" /\ fileTold = "none" THEN Tells("failed") ELSE UNCHANGED fileTold
    /\ UNCHANGED <<offer, attempt, senderVars, answer, link, got, stopped, outcome, writerVars>>
-----------------------------------------------------------------------------
(* The receiver: the task that writes. An application that takes the       *)
(* chunks itself does the same with them, and never trims.                 *)

\* The channel is closed for the handler, then the result is sent: a handler
\* that finds it closed waits for the result.
WriterEnds(r) == writer' = "ended" /\ fileResult' = r

OpenTarget ==
    /\ writer = "opening"
    /\ \/ writer' = "writing" /\ disk' = <<>> /\ UNCHANGED fileResult
       \/ WriterEnds("failed") /\ UNCHANGED disk
    /\ UNCHANGED <<offer, attempt, senderVars, answer, link, handlerVars, written, trimmed>>

Overwritten(b) ==
    IF written < Len(disk) THEN [disk EXCEPT ![written + 1] = b] ELSE Append(disk, b)

TooMuch == written + 1 > size

WriteBlock ==
    /\ writer = "writing" /\ written < got
    /\ written' = written + 1
    /\ \/ ~TooMuch /\ disk' = Overwritten(read[written + 1]) /\ UNCHANGED <<writer, fileResult>>
       \/ WriterEnds("failed") /\ UNCHANGED disk
    /\ UNCHANGED <<offer, attempt, senderVars, answer, link, handlerVars, trimmed>>

\* Mutant: a file that is short is taken.
RightSizeOrShort == written <= size

RightSize == written = size

\* The file keeps no tail of an older one, if it can be truncated.
EndWriting ==
    /\ writer = "writing" /\ written = got /\ ~txOpen
    /\ \/ RightSize /\ WriterEnds("ok")
          /\ \/ fileTarget # "app" /\ disk' = Prefix(disk, written) /\ trimmed' = "done"
             \/ UNCHANGED disk /\ trimmed' = "failed"
       \/ WriterEnds("failed") /\ UNCHANGED <<disk, trimmed>>
    /\ UNCHANGED <<offer, attempt, senderVars, answer, link, handlerVars, written>>
-----------------------------------------------------------------------------
Sender == OpenSource \/ (\E b \in Blocks : ReadBlock(b)) \/ EndReading \/ SendBlock \/ EndBody
Handler == TakeFrame \/ StopBody \/ Conclude \/ Reply
Writer == OpenTarget \/ WriteBlock \/ EndWriting

FileNext ==
    \/ Sender \/ Break \/ CancelSending \/ GetAnswer \/ Retry
    \/ GiveTarget \/ FailTarget \/ Handler \/ DropHandler
    \/ Writer

FileSpec == FileInit /\ [][FileNext]_fileVars

(* Each task runs on, a reader comes to the end of its file, the           *)
(* application answers, and a client whose connection is gone or whose     *)
(* answer is there learns of it. Nothing is assumed of Break and           *)
(* CancelSending.                                                          *)
FileFairSpec ==
    /\ FileSpec
    /\ WF_fileVars(OpenSource) /\ WF_fileVars(EndReading) /\ WF_fileVars(SendBlock) /\ WF_fileVars(EndBody)
    /\ WF_fileVars(GetAnswer) /\ WF_fileVars(Retry)
    /\ WF_fileVars(GiveTarget \/ FailTarget) /\ WF_fileVars(Handler) /\ WF_fileVars(Writer)
-----------------------------------------------------------------------------
FileTypeOK ==
    /\ size \in Sizes /\ checksum \in BOOLEAN
    /\ source \in {"path", "open"} /\ fileTarget \in {"app", "path", "fd"}
    /\ attempt \in 1..MaxAttempts
    /\ reader \in {"opening", "reading", "ended"}
    /\ read \in Contents
    /\ sent \in 0..Len(read) /\ eof \in BOOLEAN /\ shown \in 0..sent
    /\ answer \in Outcomes \cup {"none", "broken", "cancelled"}
    /\ link \in {"up", "broken"}
    /\ handler \in {"asking", "body", "waiting", "done", "answered", "gone"}
    /\ got \in 0..sent /\ txOpen \in BOOLEAN /\ stopped \in BOOLEAN
    /\ outcome \in Outcomes \cup {"none"} /\ fileTold \in {"none", "ok", "error"}
    /\ writer \in {"none", "opening", "writing", "ended"}
    /\ written \in 0..got /\ fileResult \in {"none", "ok", "failed"}
    /\ Len(disk) <= Longest /\ \A i \in DOMAIN disk : disk[i] \in Blocks \cup {"old"}
    /\ trimmed \in {"none", "done", "failed"}

\* A sender that is told 200 has sent a file of the size it offered, with the
\* checksum it offered, and has shown the whole of it: the last progress is
\* not lost to the throttle. The writer is through with the target (flushed,
\* not synced to the disk), and the target holds the file, and nothing after
\* it unless it could not be truncated (the doc of write_file_from_receiver).
SuccessIsTheFile ==
    /\ FileTypeOK
    /\ answer = "ok" =>
        /\ Len(read) = size /\ shown = size
        /\ checksum => Intact
        /\ writer = "ended"
        /\ Prefix(disk, size) = read
        /\ Len(disk) > size => trimmed = "failed"

\* Sender and receiver agree: a file the sender counts as sent is one the
\* receiving application was told is saved, and one the sender was told is
\* bad is never told saved (the doc of FileUploadTarget::Path, result_tx).
PeersAgree ==
    fileTarget # "app" =>
        /\ answer = "ok" => fileTold = "ok"
        /\ answer \in {"mismatch", "failed"} => fileTold # "ok"

\* What the application was told is saved is never written again, by a late
\* writer or by a retry of the sender.
SavedStays == [][fileTold = "ok" => UNCHANGED <<disk, fileTold>>]_fileVars

AllEnded ==
    /\ answer # "none" /\ ~Retryable
    /\ reader = "ended"
    /\ handler \in {"answered", "gone"}
    /\ writer \in {"none", "ended"}
    /\ fileTarget # "app" /\ writer # "none" => fileTold # "none"

\* Every upload comes to an end on both sides, whichever task fails first and
\* wherever the connection breaks: nobody waits for a task that is gone.
Concludes == <>[]AllEnded
=============================================================================
