--------------------------- MODULE LiveCollector ---------------------------
(***************************************************************************)
(* The durable live collector of ingestion/dhan/live_collector.py: one     *)
(* container process with three threads (the main thread, the SDK's feed   *)
(* thread that runs on_message, and JsonlS3BatchWriter), a bounded queue   *)
(* between the last two, a local spool directory that survives the         *)
(* process, and an S3 bucket.  Docker restarts the container whenever it   *)
(* stops, so a behaviour is a sequence of runs over one spool and bucket.  *)
(*                                                                         *)
(* Data is abstracted to what the properties tell apart.  A tick is its    *)
(* arrival number, MinuteOf gives the UTC minute of its received_at, and a *)
(* spool file or an object is a batch [id, minute, recs]: the part of the  *)
(* key that is fresh (the uuid), the part that partitions, and the lines.  *)
(* Time is abstracted: a deadline, a back-off or a join timeout may expire *)
(* at any moment.                                                          *)
(***************************************************************************)
EXTENDS Naturals, Sequences, FiniteSets

CONSTANTS MaxTicks,    \* bound: ticks the exchange sends over all runs
          MinuteOf,    \* receipt minute of every tick
          QueueMax,    \* maxsize of record_queue
          BatchSize    \* DHAN_BATCH_SIZE

Ticks == 1..MaxTicks

ASSUME CollectorAssumption ==
  /\ MaxTicks \in Nat
  /\ MinuteOf \in [Ticks -> Nat]
  /\ QueueMax \in Nat \ {0}
  /\ BatchSize \in Nat \ {0}

Batch == [id : Nat, minute : Nat, recs : SUBSET Ticks]

VARIABLES
  proc,          \* the container: "running", or how its last run ended
  mpc,           \* where main() is
  stop,          \* stop_event
  failed,        \* collector_failed
  writerStop,    \* writer_stop_event, which is writer.stop_event
  ready,         \* writer.ready
  werror,        \* writer.error is set
  disconnected,  \* the current connection's disconnected event
  feed,          \* the SDK's feed thread and where its callback is
  hand,          \* the tick the callback has accepted and not yet stored
  received,      \* ticks accepted so far, over all runs
  queue,         \* record_queue
  wpc,           \* where the writer thread is
  phase,         \* which of its upload loops the writer is in
  records,       \* the writer's local list
  minutes,       \* receipt minutes of records that are still to be spooled
  uploads,       \* batches the writer still has to upload
  current,       \* the batch that was put and not yet unlinked
  pending,       \* preserve_queued: drained and not yet spooled
  late,          \* preserve_queued found something or raised
  spool,         \* batches in the spool directory
  s3,            \* batches in the raw bucket
  nextId,        \* supply of fresh batch ids
  lost,          \* history: ticks that are gone for good
  fault          \* history: whether a spool write has raised, and when

flags     == <<stop, failed, writerStop, ready, werror, disconnected>>
feedVars  == <<feed, hand, received>>
writeVars == <<wpc, phase, records, minutes, uploads, current>>
mainVars  == <<pending, late>>
disk      == <<spool, s3, nextId>>
history   == <<lost, fault>>
vars      == <<proc, mpc, flags, feedVars, queue, writeVars, mainVars, disk,
               history>>

-----------------------------------------------------------------------------
(* Where a tick can be. *)

Queued  == {queue[i] : i \in DOMAIN queue}
Spooled == UNION {b.recs : b \in spool}
Landed  == UNION {b.recs : b \in s3}
Durable == Spooled \cup Landed
Memory  == hand \cup Queued \cup records \cup pending

Group(S, m) == {t \in S : MinuteOf[t] = m}
MinutesOf(S) == {MinuteOf[t] : t \in S}
IsEarliest(m, M) == m \in M /\ \A n \in M : m <= n

(* The batch that spooling S now creates, under a fresh uuid. *)
NewBatch(S, m) == [id |-> nextId, minute |-> m, recs |-> S]

(* _spool_group: os.replace makes the file visible at once or not at all.  *)
(* An error after it (the directory fsync) leaves a visible file behind.   *)
SpoolGroup(S, m, visible) ==
  IF visible
  THEN spool' = spool \cup {NewBatch(S, m)} /\ nextId' = nextId + 1
  ELSE UNCHANGED <<spool, nextId>>

(* S leaves memory without having been spooled by the step. *)
Forget(S) == lost' = lost \cup (S \ Durable')

-----------------------------------------------------------------------------
Init ==
  /\ proc = "running" /\ mpc = "startup"
  /\ stop = FALSE /\ failed = FALSE /\ writerStop = FALSE
  /\ ready = FALSE /\ werror = FALSE /\ disconnected = FALSE
  /\ feed = "none" /\ hand = {} /\ received = 0
  /\ queue = <<>>
  /\ wpc = "list" /\ phase = "startup"
  /\ records = {} /\ minutes = {} /\ uploads = {} /\ current = {}
  /\ pending = {} /\ late = FALSE
  /\ spool = {} /\ s3 = {} /\ nextId = 0
  /\ lost = {} /\ fault = "never"

(* The process ends: its daemon threads die with it, its memory is gone,   *)
(* and all that is not on a disk is as a fresh process will find it.       *)
Terminate(how) ==
  /\ proc' = how /\ mpc' = "startup"
  /\ stop' = FALSE /\ failed' = FALSE /\ writerStop' = FALSE
  /\ ready' = FALSE /\ werror' = FALSE /\ disconnected' = FALSE
  /\ feed' = "none" /\ hand' = {}
  /\ queue' = <<>>
  /\ wpc' = "list" /\ phase' = "startup"
  /\ records' = {} /\ minutes' = {} /\ uploads' = {} /\ current' = {}
  /\ pending' = {} /\ late' = FALSE
  /\ UNCHANGED <<received, disk, fault>>
  /\ Forget(Memory)

-----------------------------------------------------------------------------
(* The feed thread: on_message, on_close and on_error. *)

(* on_message passes its stop check and normalises the packet to a record. *)
FeedReceive ==
  /\ proc = "running" /\ feed = "idle" /\ ~stop
  /\ received < MaxTicks
  /\ received' = received + 1
  /\ hand' = {received + 1}
  /\ feed' = "busy"
  /\ UNCHANGED <<proc, mpc, flags, queue, writeVars, mainVars, disk, history>>

(* Fault: the queue is made without its maxsize. *)
QueueHasRoomAlways == TRUE

QueueHasRoom == Len(queue) < QueueMax

(* put_nowait succeeds. *)
FeedEnqueue ==
  /\ proc = "running" /\ feed = "busy"
  /\ QueueHasRoom
  /\ \E t \in hand : queue' = Append(queue, t)
  /\ hand' = {}
  /\ feed' = "idle"
  /\ UNCHANGED <<proc, mpc, flags, received, writeVars, mainVars, disk, history>>

(* put_nowait raises Full: the callback spools the tick itself. *)
FeedFull ==
  /\ proc = "running" /\ feed = "busy"
  /\ ~QueueHasRoom
  /\ \E t \in hand : SpoolGroup(hand, MinuteOf[t], TRUE)
  /\ hand' = {}
  /\ feed' = "full"
  /\ UNCHANGED <<proc, mpc, flags, received, queue, writeVars, mainVars, s3,
                 history>>

(* Full, and the emergency spool raises too: the error is only logged. *)
FeedFullUnspooled ==
  /\ proc = "running" /\ feed = "busy"
  /\ ~QueueHasRoom
  /\ \E t \in hand, visible \in BOOLEAN : SpoolGroup(hand, MinuteOf[t], visible)
  /\ UNCHANGED <<proc, mpc, flags, received, queue, writeVars, mainVars, s3>>
  /\ fault' = "now"
  /\ Forget(hand)
  /\ hand' = {}
  /\ feed' = "full"

(* After Full the callback fails the collector and stops it. *)
FeedFail ==
  /\ proc = "running" /\ feed = "full"
  /\ failed' = TRUE /\ stop' = TRUE
  /\ feed' = "idle"
  /\ UNCHANGED <<proc, mpc, writerStop, ready, werror, disconnected, hand,
                 received, queue, writeVars, mainVars, disk, history>>

(* A packet that cannot be normalised stops the collector. *)
FeedReject ==
  /\ proc = "running" /\ feed = "idle" /\ ~stop
  /\ failed' = TRUE /\ stop' = TRUE
  /\ UNCHANGED <<proc, mpc, writerStop, ready, werror, disconnected, feedVars,
                 queue, writeVars, mainVars, disk, history>>

(* on_close or on_error: the SDK reports the connection lost. *)
FeedDisconnect ==
  /\ proc = "running" /\ feed = "idle" /\ ~disconnected
  /\ disconnected' = TRUE
  /\ UNCHANGED <<proc, mpc, stop, failed, writerStop, ready, werror, feedVars,
                 queue, writeVars, mainVars, disk, history>>

(* The SDK's thread ends on its own. *)
FeedDie ==
  /\ proc = "running" /\ feed = "idle"
  /\ feed' = "dead"
  /\ UNCHANGED <<proc, mpc, flags, hand, received, queue, writeVars, mainVars,
                 disk, history>>

FeedCallback == FeedEnqueue \/ FeedFull \/ FeedFullUnspooled \/ FeedFail

FeedStep == FeedCallback \/ FeedReceive \/ FeedReject \/ FeedDisconnect \/ FeedDie

-----------------------------------------------------------------------------
(* The writer thread: JsonlS3BatchWriter.run and what it calls. *)

(* The except clause of run(): note that stop_event here is the writer's.  *)
WriterFails ==
  /\ werror' = TRUE /\ writerStop' = TRUE /\ ready' = TRUE
  /\ wpc' = "drain"
  /\ minutes' = {} /\ uploads' = {} /\ current' = {}
  /\ UNCHANGED <<stop, failed, disconnected, phase>>

(* Fault: the glob of the replay matches nothing. *)
SpoolListingEmpty == {}

(* What rglob("part-*.json") finds. *)
SpoolListing == spool

(* _replay_spool lists the batches that are in the spool. *)
WList ==
  /\ proc = "running" /\ wpc = "list"
  /\ uploads' = SpoolListing
  /\ wpc' = "put"
  /\ UNCHANGED <<proc, mpc, flags, feedVars, queue, phase, records, minutes,
                 current, mainVars, disk, history>>

(* The next batch in path order, which is minute order. *)
NextUpload(b) == b \in uploads /\ \A c \in uploads : b.minute <= c.minute

(* _upload_spooled: put_object under the key of the spool path. *)
WPut ==
  /\ proc = "running" /\ wpc = "put"
  /\ \E b \in uploads :
       /\ NextUpload(b)
       /\ s3' = s3 \cup {b}
       /\ current' = {b}
  /\ wpc' = "unlink"
  /\ UNCHANGED <<proc, mpc, flags, feedVars, queue, phase, records, minutes,
                 uploads, mainVars, spool, nextId, history>>

(* put_object raises; a response lost on the way back leaves the object.   *)
WPutFail ==
  /\ proc = "running" /\ wpc = "put"
  /\ \E b \in uploads :
       /\ NextUpload(b)
       /\ s3' \in {s3, s3 \cup {b}}
  /\ WriterFails
  /\ UNCHANGED <<proc, mpc, feedVars, queue, records, mainVars, spool, nextId,
                 history>>

(* Fault: one commit removes every file that was listed. *)
CommittedAll == uploads

(* What the put that has just returned has committed. *)
Committed == current

(* path.unlink() *)
WUnlink ==
  /\ proc = "running" /\ wpc = "unlink"
  /\ spool' = spool \ Committed
  /\ uploads' = uploads \ Committed
  /\ current' = {}
  /\ wpc' = "put"
  /\ UNCHANGED <<proc, mpc, flags, feedVars, queue, phase, records, minutes,
                 mainVars, s3, nextId, history>>

WUnlinkFail ==
  /\ proc = "running" /\ wpc = "unlink"
  /\ WriterFails
  /\ UNCHANGED <<proc, mpc, feedVars, queue, records, mainVars, disk, history>>

(* The start-up replay is over: the writer is ready and starts serving. *)
WReady ==
  /\ proc = "running" /\ wpc = "put" /\ uploads = {} /\ phase = "startup"
  /\ ready' = TRUE
  /\ phase' = "serving"
  /\ wpc' = "loop"
  /\ UNCHANGED <<proc, mpc, stop, failed, writerStop, werror, disconnected,
                 feedVars, queue, records, minutes, uploads, current, mainVars,
                 disk, history>>

(* A flush in the serving loop is over. *)
WFlushed ==
  /\ proc = "running" /\ wpc = "put" /\ uploads = {} /\ phase = "serving"
  /\ wpc' = "loop"
  /\ UNCHANGED <<proc, mpc, flags, feedVars, queue, phase, records, minutes,
                 uploads, current, mainVars, disk, history>>

(* The final flush is over; then the final replay is, and the thread ends. *)
WFinalFlushed ==
  /\ proc = "running" /\ wpc = "put" /\ uploads = {} /\ phase = "finalFlush"
  /\ phase' = "finalReplay"
  /\ wpc' = "list"
  /\ UNCHANGED <<proc, mpc, flags, feedVars, queue, records, minutes, uploads,
                 current, mainVars, disk, history>>

WEnd ==
  /\ proc = "running" /\ wpc = "put" /\ uploads = {} /\ phase = "finalReplay"
  /\ wpc' = "done"
  /\ UNCHANGED <<proc, mpc, flags, feedVars, queue, phase, records, minutes,
                 uploads, current, mainVars, disk, history>>

(* queue.get() in the serving loop, which a full batch leaves to flush. *)
WGet ==
  /\ proc = "running" /\ wpc = "loop"
  /\ queue # <<>>
  /\ Cardinality(records) < BatchSize
  /\ records' = records \cup {Head(queue)}
  /\ queue' = Tail(queue)
  /\ UNCHANGED <<proc, mpc, flags, feedVars, wpc, phase, minutes, uploads,
                 current, mainVars, disk, history>>

(* A full batch, or the flush deadline: _flush starts spooling by minute. *)
WFlush ==
  /\ proc = "running" /\ wpc = "loop"
  /\ records # {}
  /\ minutes' = MinutesOf(records)
  /\ wpc' = "spool"
  /\ UNCHANGED <<proc, mpc, flags, feedVars, queue, phase, records, uploads,
                 current, mainVars, disk, history>>

(* The loop ends once the stop event is set and the queue is empty. *)
WFinish ==
  /\ proc = "running" /\ wpc = "loop"
  /\ writerStop /\ queue = <<>>
  /\ Cardinality(records) < BatchSize
  /\ phase' = "finalFlush"
  /\ minutes' = MinutesOf(records)
  /\ wpc' = IF records = {} THEN "put" ELSE "spool"
  /\ UNCHANGED <<proc, mpc, flags, feedVars, queue, records, uploads, current,
                 mainVars, disk, history>>

(* Faults: records is never cleared; it is cleared after the first group.  *)
StillHeldAlways(M) == records
StillHeldNever(M) == {}

(* records while the minutes M are still to be spooled: records.clear()    *)
(* comes after the last group and before the first upload.                 *)
StillHeld(M) == IF M = {} THEN {} ELSE records

(* _flush spools the next minute's group; after the last one it clears the *)
(* list and goes on to upload.                                             *)
WSpool ==
  /\ proc = "running" /\ wpc = "spool"
  /\ \E m \in minutes :
       /\ IsEarliest(m, minutes)
       /\ SpoolGroup(Group(records, m), m, TRUE)
       /\ uploads' = uploads \cup {NewBatch(Group(records, m), m)}
       /\ minutes' = minutes \ {m}
  /\ records' = StillHeld(minutes')
  /\ wpc' = IF minutes' = {} THEN "put" ELSE "spool"
  /\ UNCHANGED <<proc, mpc, flags, feedVars, queue, phase, current, mainVars,
                 s3, history>>

(* A spool write of _flush raises: the whole list is still in records. *)
WSpoolFail ==
  /\ proc = "running" /\ wpc = "spool"
  /\ \E m \in minutes, visible \in BOOLEAN :
       /\ IsEarliest(m, minutes)
       /\ SpoolGroup(Group(records, m), m, visible)
  /\ fault' = "now"
  /\ WriterFails
  /\ UNCHANGED <<proc, mpc, feedVars, queue, records, mainVars, s3, lost>>

(* After an error the writer drains the queue ... *)
WDrain ==
  /\ proc = "running" /\ wpc = "drain"
  /\ queue # <<>>
  /\ records' = records \cup {Head(queue)}
  /\ queue' = Tail(queue)
  /\ UNCHANGED <<proc, mpc, flags, feedVars, wpc, phase, minutes, uploads,
                 current, mainVars, disk, history>>

(* ... until it is empty ... *)
WDrained ==
  /\ proc = "running" /\ wpc = "drain"
  /\ queue = <<>>
  /\ minutes' = MinutesOf(records)
  /\ wpc' = IF records = {} THEN "done" ELSE "rescue"
  /\ UNCHANGED <<proc, mpc, flags, feedVars, queue, phase, records, uploads,
                 current, mainVars, disk, history>>

(* ... and spools everything it holds, without uploading. *)
WRescue ==
  /\ proc = "running" /\ wpc = "rescue"
  /\ \E m \in minutes :
       /\ IsEarliest(m, minutes)
       /\ SpoolGroup(Group(records, m), m, TRUE)
       /\ minutes' = minutes \ {m}
  /\ records' = StillHeld(minutes')
  /\ wpc' = IF minutes' = {} THEN "done" ELSE "rescue"
  /\ UNCHANGED <<proc, mpc, flags, feedVars, queue, phase, uploads, current,
                 mainVars, s3, history>>

(* The rescue raises: what it had not spooled is lost, and only logged. *)
WRescueFail ==
  /\ proc = "running" /\ wpc = "rescue"
  /\ \E m \in minutes, visible \in BOOLEAN :
       /\ IsEarliest(m, minutes)
       /\ SpoolGroup(Group(records, m), m, visible)
  /\ UNCHANGED s3
  /\ fault' = "now"
  /\ Forget(records)
  /\ records' = {} /\ minutes' = {}
  /\ wpc' = "done"
  /\ UNCHANGED <<proc, mpc, flags, feedVars, queue, phase, uploads, current,
                 mainVars>>

WriterStep ==
  \/ WList \/ WPut \/ WPutFail \/ WUnlink \/ WUnlinkFail
  \/ WReady \/ WFlushed \/ WFinalFlushed \/ WEnd
  \/ WGet \/ WFlush \/ WFinish \/ WSpool \/ WSpoolFail
  \/ WDrain \/ WDrained \/ WRescue \/ WRescueFail

-----------------------------------------------------------------------------
(* The main thread: main(). *)

(* The writer reported an error before main saw it ready: return 1. *)
MStartFail ==
  /\ proc = "running" /\ mpc = "startup"
  /\ ready \/ stop
  /\ werror
  /\ Terminate("failed")

(* A signal arrived during start-up: stop the writer and wait for it. *)
MStartStop ==
  /\ proc = "running" /\ mpc = "startup"
  /\ stop /\ ~werror
  /\ writerStop' = TRUE
  /\ mpc' = "earlyJoin"
  /\ UNCHANGED <<proc, stop, failed, ready, werror, disconnected, feedVars,
                 queue, writeVars, mainVars, disk, history>>

(* The writer is ready: go on to the connection loop. *)
MStartServe ==
  /\ proc = "running" /\ mpc = "startup"
  /\ ready /\ ~werror /\ ~stop
  /\ mpc' = "loop"
  /\ UNCHANGED <<proc, flags, feedVars, queue, writeVars, mainVars, disk, history>>

(* The join of an early stop ends or times out; main returns 0 either way. *)
MEarlyExit ==
  /\ proc = "running" /\ mpc = "earlyJoin"
  /\ Terminate("early")

(* The head of the connection loop makes a fresh disconnected event. *)
MConnect ==
  /\ proc = "running" /\ mpc = "loop"
  /\ ~stop
  /\ disconnected' = FALSE
  /\ mpc' = "preflight"
  /\ UNCHANGED <<proc, stop, failed, writerStop, ready, werror, feedVars, queue,
                 writeVars, mainVars, disk, history>>

MLoopEnd ==
  /\ proc = "running" /\ mpc = "loop"
  /\ stop
  /\ mpc' = "final"
  /\ UNCHANGED <<proc, flags, feedVars, queue, writeVars, mainVars, disk, history>>

(* Token and entitlement checks pass and the feed thread starts. *)
MPreflightOk ==
  /\ proc = "running" /\ mpc = "preflight"
  /\ feed' = "idle"
  /\ mpc' = "polling"
  /\ UNCHANGED <<proc, flags, hand, received, queue, writeVars, mainVars, disk,
                 history>>

(* A configuration, authentication or other permanent rejection. *)
MPreflightFatal ==
  /\ proc = "running" /\ mpc = "preflight"
  /\ failed' = TRUE /\ stop' = TRUE
  /\ mpc' = "cleanup"
  /\ UNCHANGED <<proc, writerStop, ready, werror, disconnected, feedVars, queue,
                 writeVars, mainVars, disk, history>>

(* A retryable API error: wait for the back-off and go round again. *)
MPreflightRetry ==
  /\ proc = "running" /\ mpc = "preflight"
  /\ mpc' = "cleanup"
  /\ UNCHANGED <<proc, flags, feedVars, queue, writeVars, mainVars, disk, history>>

(* Any other exception, before or after the SDK made its feed object. *)
MPreflightBroken ==
  /\ proc = "running" /\ mpc = "preflight"
  /\ feed' \in {"none", "dead"}
  /\ mpc' = "recover"
  /\ UNCHANGED <<proc, flags, hand, received, queue, writeVars, mainVars, disk,
                 history>>

(* The poll loop leaves because of the stop event ... *)
MPollStop ==
  /\ proc = "running" /\ mpc = "polling"
  /\ stop
  /\ mpc' = "cleanup"
  /\ UNCHANGED <<proc, flags, feedVars, queue, writeVars, mainVars, disk, history>>

(* ... or because the connection is gone, which raises ... *)
MPollDropped ==
  /\ proc = "running" /\ mpc = "polling"
  /\ ~stop /\ (feed = "dead" \/ disconnected)
  /\ mpc' = "recover"
  /\ UNCHANGED <<proc, flags, feedVars, queue, writeVars, mainVars, disk, history>>

(* Fault: the poll loop breaks without setting the stop event. *)
MPollWriterErrorNoStop ==
  /\ proc = "running" /\ mpc = "polling"
  /\ ~stop /\ feed # "dead" /\ ~disconnected
  /\ werror
  /\ mpc' = "recover"
  /\ UNCHANGED <<proc, flags, feedVars, queue, writeVars, mainVars, disk, history>>

(* ... or, on a connection that lasted half a second, a writer error. *)
MPollWriterError ==
  /\ proc = "running" /\ mpc = "polling"
  /\ ~stop /\ feed # "dead" /\ ~disconnected
  /\ werror
  /\ failed' = TRUE /\ stop' = TRUE
  /\ mpc' = "cleanup"
  /\ UNCHANGED <<proc, writerStop, ready, werror, disconnected, feedVars, queue,
                 writeVars, mainVars, disk, history>>

(* Exception handler: a permanent rejection of the token stops main ... *)
MRecoverFatal ==
  /\ proc = "running" /\ mpc = "recover"
  /\ ~stop
  /\ failed' = TRUE /\ stop' = TRUE
  /\ mpc' = "cleanup"
  /\ UNCHANGED <<proc, writerStop, ready, werror, disconnected, feedVars, queue,
                 writeVars, mainVars, disk, history>>

(* ... anything else, the back-off over, keeps it; so does a stop. *)
MRecover ==
  /\ proc = "running" /\ mpc = "recover"
  /\ mpc' = "cleanup"
  /\ UNCHANGED <<proc, flags, feedVars, queue, writeVars, mainVars, disk, history>>

(* The finally clause closes the feed and joins its thread, if it ends. *)
MCleanup ==
  /\ proc = "running" /\ mpc = "cleanup"
  /\ feed \in {"none", "dead"}
  /\ feed' = "none"
  /\ mpc' = "loop"
  /\ UNCHANGED <<proc, flags, hand, received, queue, writeVars, mainVars, disk,
                 history>>

(* Fault: the joins of the clean-up wait without a timeout. *)
MCleanupUnsafeNoTimeout == FALSE /\ UNCHANGED vars

(* The close or the join timed out: give up on this process. *)
MCleanupUnsafe ==
  /\ proc = "running" /\ mpc = "cleanup"
  /\ feed # "none"
  /\ failed' = TRUE /\ stop' = TRUE
  /\ mpc' = "loop"
  /\ UNCHANGED <<proc, writerStop, ready, werror, disconnected, feedVars, queue,
                 writeVars, mainVars, disk, history>>

(* The outer finally: both events are set, and the writer is joined. *)
MFinal ==
  /\ proc = "running" /\ mpc = "final"
  /\ stop' = TRUE /\ writerStop' = TRUE
  /\ mpc' = "join"
  /\ UNCHANGED <<proc, failed, ready, werror, disconnected, feedVars, queue,
                 writeVars, mainVars, disk, history>>

(* The join returns: the writer has ended, or 90 seconds have passed. *)
MJoin ==
  /\ proc = "running" /\ mpc = "join"
  /\ mpc' = "preserve"
  /\ UNCHANGED <<proc, flags, feedVars, queue, writeVars, mainVars, disk, history>>

(* preserve_queued drains the queue ... *)
MDrain ==
  /\ proc = "running" /\ mpc = "preserve"
  /\ queue # <<>>
  /\ pending' = pending \cup {Head(queue)}
  /\ queue' = Tail(queue)
  /\ late' = TRUE
  /\ UNCHANGED <<proc, mpc, flags, feedVars, writeVars, disk, history>>

(* Fault: shutdown does not look at the queue again. *)
PreserveOverAtOnce == TRUE

(* get_nowait raises Empty. *)
PreserveOver == queue = <<>>

MDrained ==
  /\ proc = "running" /\ mpc = "preserve"
  /\ PreserveOver
  /\ mpc' = "respool"
  /\ UNCHANGED <<proc, flags, feedVars, queue, writeVars, mainVars, disk, history>>

(* ... and spools what it found, minute by minute. *)
MRespool ==
  /\ proc = "running" /\ mpc = "respool"
  /\ \E m \in MinutesOf(pending) :
       /\ IsEarliest(m, MinutesOf(pending))
       /\ SpoolGroup(Group(pending, m), m, TRUE)
       /\ pending' = pending \ Group(pending, m)
  /\ UNCHANGED <<proc, mpc, flags, feedVars, queue, writeVars, late, s3, history>>

(* Its spool write raises: the rest of pending is lost, and only logged. *)
MRespoolFail ==
  /\ proc = "running" /\ mpc = "respool"
  /\ \E m \in MinutesOf(pending), visible \in BOOLEAN :
       /\ IsEarliest(m, MinutesOf(pending))
       /\ SpoolGroup(Group(pending, m), m, visible)
  /\ UNCHANGED s3
  /\ fault' = "now"
  /\ Forget(pending)
  /\ pending' = {}
  /\ UNCHANGED <<proc, mpc, flags, feedVars, queue, writeVars, late>>

(* Fault: the exit code does not depend on the writer's error. *)
ExitCodeNoWriterError ==
  IF wpc # "done" \/ failed \/ late THEN "failed" ELSE "clean"

(* 0 ("clean") only when the writer ended without error, nothing failed,   *)
(* and preserve_queued had nothing to do.                                  *)
ExitCode ==
  IF wpc # "done" \/ werror \/ failed \/ late THEN "failed" ELSE "clean"

MExit ==
  /\ proc = "running" /\ mpc = "respool"
  /\ pending = {}
  /\ Terminate(ExitCode)

MainStep ==
  \/ MStartFail \/ MStartStop \/ MStartServe \/ MEarlyExit
  \/ MConnect \/ MLoopEnd
  \/ MPreflightOk \/ MPreflightFatal \/ MPreflightRetry \/ MPreflightBroken
  \/ MPollStop \/ MPollDropped \/ MPollWriterError
  \/ MRecoverFatal \/ MRecover \/ MCleanup \/ MCleanupUnsafe
  \/ MFinal \/ MJoin \/ MDrain \/ MDrained \/ MRespool \/ MRespoolFail
  \/ MExit

-----------------------------------------------------------------------------
(* The environment. *)

(* SIGTERM or SIGINT: stop_handler. *)
Signal ==
  /\ proc = "running" /\ ~stop
  /\ stop' = TRUE
  /\ UNCHANGED <<proc, mpc, failed, writerStop, ready, werror, disconnected,
                 feedVars, queue, writeVars, mainVars, disk, history>>

(* SIGKILL or a host crash, at any point of any thread. *)
Crash ==
  /\ proc = "running"
  /\ Terminate("crashed")

(* restart: unless-stopped, on the same spool volume. *)
Restart ==
  /\ proc # "running"
  /\ proc' = "running"
  /\ fault' = IF fault = "never" THEN "never" ELSE "earlier"
  /\ UNCHANGED <<mpc, flags, feedVars, queue, writeVars, mainVars, disk, lost>>

Next == FeedStep \/ WriterStep \/ MainStep \/ Signal \/ Crash \/ Restart

Spec == Init /\ [][Next]_vars

(* Fairness.  Runnable threads run: main, the writer and a callback that   *)
(* has begun are never blocked for ever, since every wait of theirs has a  *)
(* timeout, and Docker restarts the container.  The network is fair in the *)
(* weak sense an operator can rely on: a preflight, an upload and the poll *)
(* of a connection that stays up for half a second do succeed at some      *)
(* attempt, if they are attempted for ever.                                *)
ThreadsRun ==
  /\ WF_vars(MainStep) /\ WF_vars(WriterStep) /\ WF_vars(FeedCallback)
  /\ WF_vars(Restart)

NetworkRecovers ==
  /\ SF_vars(WPut) /\ SF_vars(WUnlink)
  /\ SF_vars(MPreflightOk) /\ SF_vars(MPollWriterError)

(* From some point on nobody kills or stops the container. *)
LeftAlone == <>[][~Crash /\ ~Signal]_vars

ThreadSpec == Spec /\ ThreadsRun

-----------------------------------------------------------------------------
(* Type correctness: every program counter, event and container of the     *)
(* three threads keeps its range.                                          *)
TypeOK ==
  /\ proc \in {"running", "crashed", "clean", "early", "failed"}
  /\ mpc \in {"startup", "earlyJoin", "loop", "preflight", "polling", "recover",
              "cleanup", "final", "join", "preserve", "respool"}
  /\ stop \in BOOLEAN /\ failed \in BOOLEAN /\ writerStop \in BOOLEAN
  /\ ready \in BOOLEAN /\ werror \in BOOLEAN /\ disconnected \in BOOLEAN
  /\ feed \in {"none", "idle", "busy", "full", "dead"}
  /\ hand \subseteq Ticks
  /\ received \in 0..MaxTicks
  /\ queue \in Seq(Ticks) /\ Len(queue) <= QueueMax
  /\ wpc \in {"list", "put", "unlink", "loop", "spool", "drain", "rescue", "done"}
  /\ phase \in {"startup", "serving", "finalFlush", "finalReplay"}
  /\ records \subseteq Ticks /\ pending \subseteq Ticks /\ lost \subseteq Ticks
  /\ minutes \subseteq Nat
  /\ uploads \subseteq Batch /\ current \subseteq Batch
  /\ spool \subseteq Batch /\ s3 \subseteq Batch
  /\ late \in BOOLEAN
  /\ nextId \in Nat
  /\ fault \in {"never", "earlier", "now"}

(* The step that reports exit code 0 after serving. *)
CleanExitStep ==
  proc = "running" /\ proc' = "clean" =>
    spool' = {} /\ Memory = {} /\ fault # "now"

(* Exit code 0 from a run that reached the connection loop means that no   *)
(* spool file is left, no tick was still in memory, and no spool write of  *)
(* the run had failed: main's exit code is evidence that everything it     *)
(* accepted is in the bucket.                                              *)
CleanExitCommitsAll == [][CleanExitStep]_vars

(* The step that ends a run whose threads all ended and whose spool worked. *)
GracefulExitStep ==
  /\ proc = "running" /\ proc' \in {"clean", "failed", "early"}
  /\ fault # "now" /\ wpc = "done" /\ feed = "none"
  => lost' = lost

(* A run in which no spool write failed, and which did not give up waiting *)
(* for a thread, ends without forgetting a single tick, whatever else      *)
(* failed: a dead writer's late callbacks are saved by preserve_queued.    *)
GracefulExitKeepsTicks == [][GracefulExitStep]_vars

(* Two raw batches share a tick only if some spool write raised: records   *)
(* are cleared before the first upload, so an S3 error alone never makes   *)
(* the emergency path spool a tick a second time.                          *)
OneRawCopy ==
  fault = "never" =>
    \A b, c \in spool \cup s3 : b # c => b.recs \cap c.recs = {}

(* While the writer is between batches everything spooled has landed, the  *)
(* files that earlier runs left included; only a saturated callback and    *)
(* preserve_queued may have spooled ticks of their own, and then the run   *)
(* does not end with exit code 0.                                          *)
ServingLeavesNoSpool ==
  wpc = "loop" /\ feed # "full" /\ ~failed /\ ~late => spool = {}

(* Every tick ever accepted is in memory, in the spool, in the bucket, or  *)
(* recorded as lost: no handover between threads drops one.                *)
EveryTickAccountedFor == 1..received \subseteq Memory \cup Durable \cup lost

(* The collector implements the abstract landing of ticks. *)
PlaceOf(t) ==
  CASE t \in Landed -> "landed"
    [] t \notin Landed /\ t \in Spooled -> "spooled"
    [] t \notin Durable /\ t \in lost -> "lost"
    [] t \notin Durable \cup lost /\ t \in Memory -> "memory"
    [] OTHER -> "new"

Landing == INSTANCE TickLanding WITH
  tick <- [t \in Ticks |-> PlaceOf(t)],
  run  <- IF proc \in {"running", "clean"} THEN proc ELSE "unclean"

(* Refinement: every step of the three threads is a step of TickLanding or *)
(* leaves the place of every tick alone.                                   *)
ImplementsLanding == Landing!Spec

(* Every accepted tick reaches the bucket unless it is lost with a         *)
(* recorded cause: across upload errors, crashes and restarts nothing      *)
(* stays in the queue or in the spool for ever.                            *)
AcceptedTicksSettle ==
  NetworkRecovers /\ LeftAlone =>
    \A t \in Ticks : t <= received ~> t \in Landed \cup lost

(* A stop request ends the run: no join, poll or back-off waits for ever   *)
(* on a thread that does not end.                                          *)
StopEndsTheRun == (proc = "running" /\ stop) ~> proc # "running"

(* A writer that failed ends the run, so that Docker can restart it.       *)
WriterErrorEndsTheRun ==
  NetworkRecovers /\ LeftAlone =>
    ((proc = "running" /\ werror) ~> proc # "running")

-----------------------------------------------------------------------------
(* What a comment in the source says and the code does not do.             *)

(* "the process still exits non-zero and surfaces the original failure".   *)
WriterErrorExitsNonZero ==
  [][proc = "running" /\ werror => proc' \notin {"clean", "early"}]_vars
=============================================================================
