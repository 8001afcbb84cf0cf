------------------------ MODULE LiveCollectorProofs ------------------------
(***************************************************************************)
(* Theorems about LiveCollector, for every number of ticks, assignment of  *)
(* ticks to minutes, queue capacity and batch size.  The inductive         *)
(* invariant IInv has one part per hand-over: what the feed thread holds,  *)
(* what the writer holds, which spool files the writer does not know of,   *)
(* and what main may rely on once it drains the queue itself.  PlaceInv    *)
(* adds that each tick is in one place, from which follows that every step *)
(* implements TickLanding; OnceInv, that no tick is written twice.         *)
(***************************************************************************)
EXTENDS LiveCollector, SequenceTheorems, TLAPS

(* The callback holds a tick exactly while it is busy.  A failed collector *)
(* is being stopped.  Outside the connection part of main there is a feed  *)
(* thread only if it could not be stopped, and then the collector failed.  *)
FeedInv ==
  /\ feed = "busy" => \E t \in Ticks : hand = {t}
  /\ feed # "busy" => hand = {}
  /\ failed => stop
  /\ mpc = "preflight" => feed = "none"
  /\ ~failed /\ mpc \notin {"polling", "recover", "cleanup"} => feed = "none"

(* Nothing has been received before the connection loop starts. *)
StartInv ==
  mpc \in {"startup", "earlyJoin"} =>
    feed = "none" /\ queue = <<>> /\ records = {} /\ pending = {}

(* What the writer uploads is in the spool; a batch it is about to unlink  *)
(* has landed; a tick it still holds is durable or its minute is to come.  *)
WriterInv ==
  /\ uploads \subseteq spool
  /\ current \subseteq s3
  /\ wpc \in {"list", "loop", "drain", "rescue", "done"} => uploads = {}
  /\ wpc \in {"list", "put", "unlink", "done"} => records = {}
  /\ wpc \in {"drain", "rescue"} => werror
  /\ wpc \in {"list", "put", "unlink", "loop", "spool"} => ~werror
  /\ wpc \in {"spool", "rescue"} =>
       \A t \in records : MinuteOf[t] \in minutes \/ t \in Durable

(* A spool file that the writer does not have in hand comes from a callback *)
(* that met a full queue, from preserve_queued, or from a failed writer.    *)
StrayInv ==
  /\ wpc \in {"put", "unlink", "loop", "spool", "done"}
  /\ ~werror /\ ~failed /\ ~late /\ feed # "full"
  => spool \subseteq uploads

(* What main may rely on during shutdown. *)
ShutdownInv ==
  /\ pending # {} => late
  /\ mpc \notin {"preserve", "respool"} => pending = {}
  /\ mpc = "respool" /\ feed = "none" => queue = <<>>
  /\ fault = "now" /\ proc = "running" =>
       failed \/ werror \/ late \/ feed = "full"

IInv == FeedInv /\ StartInv /\ WriterInv /\ StrayInv /\ ShutdownInv

USE DEF vars, flags, feedVars, writeVars, mainVars, disk, history

-----------------------------------------------------------------------------
(* What a step of one thread leaves to the others. *)

(* Spooling a group only ever adds to the spool. *)
LEMMA SpoolGrows ==
  ASSUME NEW S, NEW m, NEW visible \in BOOLEAN, SpoolGroup(S, m, visible)
  PROVE  spool \subseteq spool'
BY DEF SpoolGroup

(* A step of the feed thread leaves the writer's and main's variables and  *)
(* the bucket alone, and only ever adds to the spool.                      *)
LEMMA FeedFrame ==
  ASSUME FeedStep
  PROVE  /\ UNCHANGED <<proc, mpc, writerStop, ready, werror, writeVars,
                        mainVars, s3>>
         /\ spool \subseteq spool'
<1>1. CASE FeedFull
  BY <1>1, SpoolGrows DEF FeedFull
<1>2. CASE FeedFullUnspooled
  BY <1>2, SpoolGrows DEF FeedFullUnspooled
<1>3. CASE \/ FeedEnqueue \/ FeedFail \/ FeedReceive \/ FeedReject
           \/ FeedDisconnect \/ FeedDie
  BY <1>3 DEF FeedEnqueue, FeedFail, FeedReceive, FeedReject, FeedDisconnect,
              FeedDie
<1>4. QED
  BY <1>1, <1>2, <1>3 DEF FeedStep, FeedCallback

(* A step of the writer thread leaves main, the feed thread and the        *)
(* process alone.                                                          *)
LEMMA WriterFrame ==
  ASSUME WriterStep
  PROVE  UNCHANGED <<proc, mpc, stop, failed, disconnected, feedVars, mainVars>>
BY DEF WriterStep, WList, WPut, WPutFail, WUnlink, WUnlinkFail, WReady,
       WFlushed, WFinalFlushed, WEnd, WGet, WFlush, WFinish, WSpool,
       WSpoolFail, WDrain, WDrained, WRescue, WRescueFail, WriterFails

(* A step of main is either the end of the process or leaves the writer's  *)
(* state and the tick in the callback's hand alone.                        *)
LEMMA MainFrame ==
  ASSUME MainStep
  PROVE  \/ \E how \in {"early", "failed", "clean"} : Terminate(how)
         \/ /\ UNCHANGED <<proc, ready, werror, hand, received, writeVars, s3>>
            /\ spool \subseteq spool'
<1>1. CASE MStartFail \/ MEarlyExit \/ MExit
  BY <1>1 DEF MStartFail, MEarlyExit, MExit, ExitCode
<1>2. CASE MRespool
  BY <1>2, SpoolGrows DEF MRespool
<1>3. CASE MRespoolFail
  BY <1>3, SpoolGrows DEF MRespoolFail
<1>4. CASE \/ MStartStop \/ MStartServe \/ MConnect \/ MLoopEnd
           \/ MPreflightOk \/ MPreflightFatal \/ MPreflightRetry
           \/ MPreflightBroken \/ MPollStop \/ MPollDropped
           \/ MPollWriterError \/ MRecoverFatal \/ MRecover \/ MCleanup
           \/ MCleanupUnsafe \/ MFinal \/ MJoin \/ MDrain \/ MDrained
  BY <1>4 DEF MStartStop, MStartServe, MConnect, MLoopEnd, MPreflightOk,
              MPreflightFatal, MPreflightRetry, MPreflightBroken, MPollStop,
              MPollDropped, MPollWriterError, MRecoverFatal, MRecover,
              MCleanup, MCleanupUnsafe, MFinal, MJoin, MDrain, MDrained
<1>5. QED
  BY <1>1, <1>2, <1>3, <1>4 DEF MainStep

-----------------------------------------------------------------------------
(* Types. *)

(* Whatever the process holds in memory is a set of ticks. *)
LEMMA MemoryTyped ==
  ASSUME TypeOK
  PROVE  Memory \subseteq Ticks
<1>1. Queued \subseteq Ticks
  BY ElementOfSeq DEF TypeOK, Queued
<1>2. QED
  BY <1>1 DEF TypeOK, Memory

(* One minute's group of a set of ticks is a set of ticks, and its minute  *)
(* is a number.                                                            *)
LEMMA GroupTyped ==
  ASSUME NEW S \in SUBSET Ticks, NEW m \in MinutesOf(S)
  PROVE  Group(S, m) \in SUBSET Ticks /\ m \in Nat
BY CollectorAssumption DEF MinutesOf, Group

(* Spooling a group keeps the type of the spool and of the batch counter. *)
LEMMA SpoolTyped ==
  ASSUME TypeOK, NEW S \in SUBSET Ticks, NEW m \in Nat,
         NEW visible \in BOOLEAN, SpoolGroup(S, m, visible)
  PROVE  spool' \subseteq Batch /\ nextId' \in Nat /\ NewBatch(S, m) \in Batch
BY DEF TypeOK, SpoolGroup, NewBatch, Batch

(* However the process ends, the variables keep their types. *)
LEMMA TerminateTyped ==
  ASSUME TypeOK, NEW how \in {"crashed", "clean", "early", "failed"},
         Terminate(how)
  PROVE  TypeOK'
<1>1. lost' \subseteq Ticks
  BY MemoryTyped DEF TypeOK, Terminate, Forget
<1>2. <<>> \in Seq(Ticks) /\ Len(<<>>) <= QueueMax
  BY CollectorAssumption, EmptySeq
<1>3. QED
  BY <1>1, <1>2 DEF TypeOK, Terminate

(* Every step of the feed thread preserves the types. *)
LEMMA FeedTyped ==
  ASSUME TypeOK, FeedStep
  PROVE  TypeOK'
<1> USE DEF TypeOK
<1>1. CASE FeedEnqueue
  <2>1. PICK t \in hand : queue' = Append(queue, t)
    BY <1>1 DEF FeedEnqueue
  <2>2. queue' \in Seq(Ticks) /\ Len(queue') <= QueueMax
    BY <1>1, <2>1, CollectorAssumption, AppendProperties
    DEF FeedEnqueue, QueueHasRoom
  <2>3. QED
    BY <1>1, <2>2 DEF FeedEnqueue
<1>2. CASE FeedFull
  <2>1. PICK t \in hand : SpoolGroup(hand, MinuteOf[t], TRUE)
    BY <1>2 DEF FeedFull
  <2>2. MinuteOf[t] \in Nat
    BY CollectorAssumption
  <2>3. spool' \subseteq Batch /\ nextId' \in Nat
    BY <2>1, <2>2, SpoolTyped
  <2>4. QED
    BY <1>2, <2>3 DEF FeedFull
<1>3. CASE FeedFullUnspooled
  <2>1. PICK t \in hand, visible \in BOOLEAN :
               SpoolGroup(hand, MinuteOf[t], visible)
    BY <1>3 DEF FeedFullUnspooled
  <2>2. MinuteOf[t] \in Nat
    BY CollectorAssumption
  <2>3. spool' \subseteq Batch /\ nextId' \in Nat
    BY <2>1, <2>2, SpoolTyped
  <2>4. QED
    BY <1>3, <2>3 DEF FeedFullUnspooled, Forget
<1>4. CASE FeedFail
  BY <1>4 DEF FeedFail
<1>5. CASE FeedReceive
  BY <1>5, CollectorAssumption DEF FeedReceive, Ticks
<1>6. CASE FeedReject
  BY <1>6 DEF FeedReject
<1>7. CASE FeedDisconnect
  BY <1>7 DEF FeedDisconnect
<1>8. CASE FeedDie
  BY <1>8 DEF FeedDie
<1>9. QED
  BY <1>1, <1>2, <1>3, <1>4, <1>5, <1>6, <1>7, <1>8 DEF FeedStep,
     FeedCallback

(* Every step of the writer thread preserves the types. *)
LEMMA WriterTyped ==
  ASSUME TypeOK, WriterStep
  PROVE  TypeOK'
<1> USE DEF TypeOK
<1>1. CASE WList
  BY <1>1 DEF WList, SpoolListing
<1>2. CASE WPut
  BY <1>2 DEF WPut, NextUpload
<1>3. CASE WPutFail
  BY <1>3 DEF WPutFail, NextUpload, WriterFails
<1>4. CASE WUnlink
  BY <1>4 DEF WUnlink, Committed
<1>5. CASE WUnlinkFail
  BY <1>5 DEF WUnlinkFail, WriterFails
<1>6. CASE WReady
  BY <1>6 DEF WReady
<1>7. CASE WFlushed
  BY <1>7 DEF WFlushed
<1>8. CASE WFinalFlushed
  BY <1>8 DEF WFinalFlushed
<1>9. CASE WEnd
  BY <1>9 DEF WEnd
<1>10. CASE WGet
  <2>1. Head(queue) \in Ticks /\ Tail(queue) \in Seq(Ticks)
        /\ Len(Tail(queue)) <= QueueMax
    BY <1>10, CollectorAssumption, HeadTailProperties, LenProperties DEF WGet
  <2>2. QED
    BY <1>10, <2>1 DEF WGet
<1>11. CASE WFlush
  <2>1. MinutesOf(records) \subseteq Nat
    BY CollectorAssumption DEF MinutesOf
  <2>2. QED
    BY <1>11, <2>1 DEF WFlush
<1>12. CASE WFinish
  <2>1. MinutesOf(records) \subseteq Nat
    BY CollectorAssumption DEF MinutesOf
  <2>2. QED
    BY <1>12, <2>1 DEF WFinish
<1>13. CASE WSpool
  <2>1. PICK m \in minutes :
               /\ SpoolGroup(Group(records, m), m, TRUE)
               /\ uploads' = uploads \cup {NewBatch(Group(records, m), m)}
               /\ minutes' = minutes \ {m}
    BY <1>13 DEF WSpool
  <2>2. m \in Nat /\ Group(records, m) \in SUBSET Ticks
    BY DEF Group
  <2>3. /\ spool' \subseteq Batch /\ nextId' \in Nat
        /\ NewBatch(Group(records, m), m) \in Batch
    BY <2>1, <2>2, SpoolTyped
  <2>4. QED
    BY <1>13, <2>1, <2>3 DEF WSpool, StillHeld
<1>14. CASE WSpoolFail
  <2>1. PICK m \in minutes, visible \in BOOLEAN :
               SpoolGroup(Group(records, m), m, visible)
    BY <1>14 DEF WSpoolFail
  <2>2. m \in Nat /\ Group(records, m) \in SUBSET Ticks
    BY DEF Group
  <2>3. spool' \subseteq Batch /\ nextId' \in Nat
    BY <2>1, <2>2, SpoolTyped
  <2>4. QED
    BY <1>14, <2>3 DEF WSpoolFail, WriterFails
<1>15. CASE WDrain
  <2>1. Head(queue) \in Ticks /\ Tail(queue) \in Seq(Ticks)
        /\ Len(Tail(queue)) <= QueueMax
    BY <1>15, CollectorAssumption, HeadTailProperties, LenProperties DEF WDrain
  <2>2. QED
    BY <1>15, <2>1 DEF WDrain
<1>16. CASE WDrained
  <2>1. MinutesOf(records) \subseteq Nat
    BY CollectorAssumption DEF MinutesOf
  <2>2. QED
    BY <1>16, <2>1 DEF WDrained
<1>17. CASE WRescue
  <2>1. PICK m \in minutes : SpoolGroup(Group(records, m), m, TRUE)
    BY <1>17 DEF WRescue
  <2>2. m \in Nat /\ Group(records, m) \in SUBSET Ticks
    BY DEF Group
  <2>3. spool' \subseteq Batch /\ nextId' \in Nat
    BY <2>1, <2>2, SpoolTyped
  <2>4. QED
    BY <1>17, <2>3 DEF WRescue, StillHeld
<1>18. CASE WRescueFail
  <2>1. PICK m \in minutes, visible \in BOOLEAN :
               SpoolGroup(Group(records, m), m, visible)
    BY <1>18 DEF WRescueFail
  <2>2. m \in Nat /\ Group(records, m) \in SUBSET Ticks
    BY DEF Group
  <2>3. spool' \subseteq Batch /\ nextId' \in Nat
    BY <2>1, <2>2, SpoolTyped
  <2>4. QED
    BY <1>18, <2>3 DEF WRescueFail, Forget
<1>19. QED
  BY <1>1, <1>2, <1>3, <1>4, <1>5, <1>6, <1>7, <1>8, <1>9, <1>10, <1>11,
     <1>12, <1>13, <1>14, <1>15, <1>16, <1>17, <1>18 DEF WriterStep

(* Every step of the main thread preserves the types. *)
LEMMA MainTyped ==
  ASSUME TypeOK, MainStep
  PROVE  TypeOK'
<1> USE DEF TypeOK
<1>1. CASE MStartFail
  BY <1>1, TerminateTyped DEF MStartFail
<1>2. CASE MStartStop
  BY <1>2 DEF MStartStop
<1>3. CASE MStartServe
  BY <1>3 DEF MStartServe
<1>4. CASE MEarlyExit
  BY <1>4, TerminateTyped DEF MEarlyExit
<1>5. CASE MConnect
  <2>1. disconnected' \in BOOLEAN
    BY <1>5, Zenon DEF MConnect
  <2>2. QED
    BY <1>5, <2>1 DEF MConnect
<1>6. CASE MLoopEnd
  BY <1>6 DEF MLoopEnd
<1>7. CASE MPreflightOk
  BY <1>7 DEF MPreflightOk
<1>8. CASE MPreflightFatal
  BY <1>8 DEF MPreflightFatal
<1>9. CASE MPreflightRetry
  BY <1>9 DEF MPreflightRetry
<1>10. CASE MPreflightBroken
  BY <1>10 DEF MPreflightBroken
<1>11. CASE MPollStop
  BY <1>11 DEF MPollStop
<1>12. CASE MPollDropped
  BY <1>12 DEF MPollDropped
<1>13. CASE MPollWriterError
  BY <1>13 DEF MPollWriterError
<1>14. CASE MRecoverFatal
  BY <1>14 DEF MRecoverFatal
<1>15. CASE MRecover
  BY <1>15 DEF MRecover
<1>16. CASE MCleanup
  BY <1>16 DEF MCleanup
<1>17. CASE MCleanupUnsafe
  BY <1>17 DEF MCleanupUnsafe
<1>18. CASE MFinal
  BY <1>18 DEF MFinal
<1>19. CASE MJoin
  BY <1>19 DEF MJoin
<1>20. CASE MDrain
  <2>1. Head(queue) \in Ticks /\ Tail(queue) \in Seq(Ticks)
        /\ Len(Tail(queue)) <= QueueMax
    BY <1>20, CollectorAssumption, HeadTailProperties, LenProperties DEF MDrain
  <2>2. QED
    BY <1>20, <2>1 DEF MDrain
<1>21. CASE MDrained
  BY <1>21 DEF MDrained, PreserveOver
<1>22. CASE MRespool
  <2>1. PICK m \in MinutesOf(pending) :
               SpoolGroup(Group(pending, m), m, TRUE)
    BY <1>22 DEF MRespool
  <2>2. spool' \subseteq Batch /\ nextId' \in Nat
    BY <2>1, GroupTyped, SpoolTyped
  <2>3. QED
    BY <1>22, <2>2 DEF MRespool, Group
<1>23. CASE MRespoolFail
  <2>1. PICK m \in MinutesOf(pending), visible \in BOOLEAN :
               SpoolGroup(Group(pending, m), m, visible)
    BY <1>23 DEF MRespoolFail
  <2>2. spool' \subseteq Batch /\ nextId' \in Nat
    BY <2>1, GroupTyped, SpoolTyped
  <2>3. QED
    BY <1>23, <2>2 DEF MRespoolFail, Forget
<1>24. CASE MExit
  BY <1>24, TerminateTyped DEF MExit, ExitCode
<1>25. QED
  BY <1>1, <1>2, <1>3, <1>4, <1>5, <1>6, <1>7, <1>8, <1>9, <1>10, <1>11,
     <1>12, <1>13, <1>14, <1>15, <1>16, <1>17, <1>18, <1>19, <1>20, <1>21,
     <1>22, <1>23, <1>24 DEF MainStep

(* The type invariant: every variable of the three threads keeps its range. *)
THEOREM TypeCorrect == Spec => []TypeOK
<1>1. Init => TypeOK
  <2> SUFFICES ASSUME Init
               PROVE  TypeOK
    OBVIOUS
  <2>1. /\ stop \in BOOLEAN /\ failed \in BOOLEAN /\ writerStop \in BOOLEAN
        /\ ready \in BOOLEAN /\ werror \in BOOLEAN
        /\ disconnected \in BOOLEAN /\ late \in BOOLEAN
    BY Zenon DEF Init
  <2>2. queue \in Seq(Ticks) /\ Len(queue) <= QueueMax
    BY CollectorAssumption, EmptySeq DEF Init
  <2>3. received \in 0..MaxTicks
    BY CollectorAssumption DEF Init
  <2>4. QED
    BY <2>1, <2>2, <2>3 DEF Init, TypeOK
<1>2. TypeOK /\ [Next]_vars => TypeOK'
  <2> SUFFICES ASSUME TypeOK, [Next]_vars
               PROVE  TypeOK'
    OBVIOUS
  <2>1. CASE FeedStep
    BY <2>1, FeedTyped
  <2>2. CASE WriterStep
    BY <2>2, WriterTyped
  <2>3. CASE MainStep
    BY <2>3, MainTyped
  <2>4. CASE Signal
    BY <2>4 DEF Signal, TypeOK
  <2>5. CASE Crash
    BY <2>5, TerminateTyped DEF Crash
  <2>6. CASE Restart
    BY <2>6 DEF Restart, TypeOK
  <2>7. CASE UNCHANGED vars
    BY <2>7 DEF TypeOK
  <2>8. QED
    BY <2>1, <2>2, <2>3, <2>4, <2>5, <2>6, <2>7 DEF Next
<1>3. QED
  BY <1>1, <1>2, PTL DEF Spec

-----------------------------------------------------------------------------
(* The inductive invariant, part by part. *)

(* The inductive invariant holds of the state a fresh process starts from, *)
(* whatever is on the disks.                                               *)
LEMMA TerminateInv ==
  ASSUME NEW how \in {"crashed", "clean", "early", "failed"}, Terminate(how)
  PROVE  IInv'
BY DEF Terminate, IInv, FeedInv, StartInv, WriterInv, StrayInv, ShutdownInv

(* FeedInv (what the feed thread holds) survives every step of the feed    *)
(* thread.                                                                 *)
LEMMA FeedInvByFeed ==
  ASSUME TypeOK, FeedInv, FeedStep
  PROVE  FeedInv'
<1> USE DEF TypeOK, FeedInv
<1>1. CASE FeedEnqueue
  BY <1>1 DEF FeedEnqueue
<1>2. CASE FeedFull
  BY <1>2 DEF FeedFull
<1>3. CASE FeedFullUnspooled
  BY <1>3 DEF FeedFullUnspooled
<1>4. CASE FeedFail
  BY <1>4 DEF FeedFail
<1>5. CASE FeedReceive
  BY <1>5, CollectorAssumption DEF FeedReceive, Ticks
<1>6. CASE FeedReject
  BY <1>6 DEF FeedReject
<1>7. CASE FeedDisconnect
  BY <1>7 DEF FeedDisconnect
<1>8. CASE FeedDie
  BY <1>8 DEF FeedDie
<1>9. QED
  BY <1>1, <1>2, <1>3, <1>4, <1>5, <1>6, <1>7, <1>8 DEF FeedStep,
     FeedCallback

(* FeedInv (what the feed thread holds) survives every step of the main    *)
(* thread.                                                                 *)
LEMMA FeedInvByMain ==
  ASSUME TypeOK, FeedInv, MainStep
  PROVE  FeedInv'
<1> USE DEF TypeOK, FeedInv
<1>1. CASE MStartFail
  BY <1>1, TerminateInv DEF MStartFail, IInv
<1>2. CASE MStartStop
  BY <1>2 DEF MStartStop
<1>3. CASE MStartServe
  BY <1>3 DEF MStartServe
<1>4. CASE MEarlyExit
  BY <1>4, TerminateInv DEF MEarlyExit, IInv
<1>5. CASE MConnect
  BY <1>5 DEF MConnect
<1>6. CASE MLoopEnd
  BY <1>6 DEF MLoopEnd
<1>7. CASE MPreflightOk
  BY <1>7 DEF MPreflightOk
<1>8. CASE MPreflightFatal
  BY <1>8 DEF MPreflightFatal
<1>9. CASE MPreflightRetry
  BY <1>9 DEF MPreflightRetry
<1>10. CASE MPreflightBroken
  BY <1>10 DEF MPreflightBroken
<1>11. CASE MPollStop
  BY <1>11 DEF MPollStop
<1>12. CASE MPollDropped
  BY <1>12 DEF MPollDropped
<1>13. CASE MPollWriterError
  BY <1>13 DEF MPollWriterError
<1>14. CASE MRecoverFatal
  BY <1>14 DEF MRecoverFatal
<1>15. CASE MRecover
  BY <1>15 DEF MRecover
<1>16. CASE MCleanup
  BY <1>16 DEF MCleanup
<1>17. CASE MCleanupUnsafe
  BY <1>17 DEF MCleanupUnsafe
<1>18. CASE MFinal
  BY <1>18 DEF MFinal
<1>19. CASE MJoin
  BY <1>19 DEF MJoin
<1>20. CASE MDrain
  BY <1>20 DEF MDrain
<1>21. CASE MDrained
  BY <1>21 DEF MDrained
<1>22. CASE MRespool
  BY <1>22 DEF MRespool
<1>23. CASE MRespoolFail
  BY <1>23 DEF MRespoolFail
<1>24. CASE MExit
  BY <1>24, TerminateInv DEF MExit, ExitCode, IInv
<1>25. QED
  BY <1>1, <1>2, <1>3, <1>4, <1>5, <1>6, <1>7, <1>8, <1>9, <1>10, <1>11,
     <1>12, <1>13, <1>14, <1>15, <1>16, <1>17, <1>18, <1>19, <1>20, <1>21,
     <1>22, <1>23, <1>24 DEF MainStep

(* FeedInv (what the feed thread holds) survives every step of the system. *)
LEMMA FeedInvStep ==
  ASSUME TypeOK, IInv, [Next]_vars
  PROVE  FeedInv'
<1>1. CASE FeedStep
  BY <1>1, FeedInvByFeed DEF IInv
<1>2. CASE WriterStep
  BY <1>2, WriterFrame DEF IInv, FeedInv
<1>3. CASE MainStep
  BY <1>3, FeedInvByMain DEF IInv
<1>4. CASE Signal
  BY <1>4 DEF Signal, IInv, FeedInv
<1>5. CASE Crash
  BY <1>5, TerminateInv DEF Crash, IInv
<1>6. CASE Restart
  BY <1>6 DEF Restart, IInv, FeedInv
<1>7. CASE UNCHANGED vars
  BY <1>7 DEF IInv, FeedInv
<1>8. QED
  BY <1>1, <1>2, <1>3, <1>4, <1>5, <1>6, <1>7 DEF Next

(* StartInv (nothing is received before the connection loop) survives      *)
(* every step of the writer thread.                                        *)
LEMMA StartInvByWriter ==
  ASSUME TypeOK, StartInv, WriterStep
  PROVE  StartInv'
<1> USE DEF TypeOK, StartInv
<1>1. CASE WList
  BY <1>1 DEF WList
<1>2. CASE WPut
  BY <1>2 DEF WPut
<1>3. CASE WPutFail
  BY <1>3 DEF WPutFail, WriterFails
<1>4. CASE WUnlink
  BY <1>4 DEF WUnlink
<1>5. CASE WUnlinkFail
  BY <1>5 DEF WUnlinkFail, WriterFails
<1>6. CASE WReady
  BY <1>6 DEF WReady
<1>7. CASE WFlushed
  BY <1>7 DEF WFlushed
<1>8. CASE WFinalFlushed
  BY <1>8 DEF WFinalFlushed
<1>9. CASE WEnd
  BY <1>9 DEF WEnd
<1>10. CASE WGet
  BY <1>10 DEF WGet
<1>11. CASE WFlush
  BY <1>11 DEF WFlush
<1>12. CASE WFinish
  BY <1>12 DEF WFinish
<1>13. CASE WSpool
  BY <1>13 DEF WSpool, StillHeld
<1>14. CASE WSpoolFail
  BY <1>14 DEF WSpoolFail, WriterFails
<1>15. CASE WDrain
  BY <1>15 DEF WDrain
<1>16. CASE WDrained
  BY <1>16 DEF WDrained
<1>17. CASE WRescue
  BY <1>17 DEF WRescue, StillHeld
<1>18. CASE WRescueFail
  BY <1>18 DEF WRescueFail
<1>19. QED
  BY <1>1, <1>2, <1>3, <1>4, <1>5, <1>6, <1>7, <1>8, <1>9, <1>10, <1>11,
     <1>12, <1>13, <1>14, <1>15, <1>16, <1>17, <1>18 DEF WriterStep

(* StartInv (nothing is received before the connection loop) survives      *)
(* every step of the main thread.                                          *)
LEMMA StartInvByMain ==
  ASSUME TypeOK, StartInv, MainStep
  PROVE  StartInv'
<1> USE DEF TypeOK, StartInv
<1>1. CASE MStartFail
  BY <1>1, TerminateInv DEF MStartFail, IInv
<1>2. CASE MStartStop
  BY <1>2 DEF MStartStop
<1>3. CASE MStartServe
  BY <1>3 DEF MStartServe
<1>4. CASE MEarlyExit
  BY <1>4, TerminateInv DEF MEarlyExit, IInv
<1>5. CASE MConnect
  BY <1>5 DEF MConnect
<1>6. CASE MLoopEnd
  BY <1>6 DEF MLoopEnd
<1>7. CASE MPreflightOk
  BY <1>7 DEF MPreflightOk
<1>8. CASE MPreflightFatal
  BY <1>8 DEF MPreflightFatal
<1>9. CASE MPreflightRetry
  BY <1>9 DEF MPreflightRetry
<1>10. CASE MPreflightBroken
  BY <1>10 DEF MPreflightBroken
<1>11. CASE MPollStop
  BY <1>11 DEF MPollStop
<1>12. CASE MPollDropped
  BY <1>12 DEF MPollDropped
<1>13. CASE MPollWriterError
  BY <1>13 DEF MPollWriterError
<1>14. CASE MRecoverFatal
  BY <1>14 DEF MRecoverFatal
<1>15. CASE MRecover
  BY <1>15 DEF MRecover
<1>16. CASE MCleanup
  BY <1>16 DEF MCleanup
<1>17. CASE MCleanupUnsafe
  BY <1>17 DEF MCleanupUnsafe
<1>18. CASE MFinal
  BY <1>18 DEF MFinal
<1>19. CASE MJoin
  BY <1>19 DEF MJoin
<1>20. CASE MDrain
  BY <1>20 DEF MDrain
<1>21. CASE MDrained
  BY <1>21 DEF MDrained
<1>22. CASE MRespool
  BY <1>22 DEF MRespool
<1>23. CASE MRespoolFail
  BY <1>23 DEF MRespoolFail
<1>24. CASE MExit
  BY <1>24, TerminateInv DEF MExit, ExitCode, IInv
<1>25. QED
  BY <1>1, <1>2, <1>3, <1>4, <1>5, <1>6, <1>7, <1>8, <1>9, <1>10, <1>11,
     <1>12, <1>13, <1>14, <1>15, <1>16, <1>17, <1>18, <1>19, <1>20, <1>21,
     <1>22, <1>23, <1>24 DEF MainStep

(* StartInv (nothing is received before the connection loop) survives      *)
(* every step of the system.                                               *)
LEMMA StartInvStep ==
  ASSUME TypeOK, IInv, [Next]_vars
  PROVE  StartInv'
<1>1. CASE FeedStep
  <2>1. feed \in {"idle", "busy", "full"}
    BY <1>1 DEF FeedStep, FeedCallback, FeedEnqueue, FeedFull, FeedFullUnspooled,
             FeedFail, FeedReceive, FeedReject, FeedDisconnect, FeedDie
  <2>2. mpc' \notin {"startup", "earlyJoin"}
    BY <1>1, <2>1, FeedFrame DEF IInv, StartInv
  <2>3. QED
    BY <2>2 DEF StartInv
<1>2. CASE WriterStep
  BY <1>2, StartInvByWriter DEF IInv
<1>3. CASE MainStep
  BY <1>3, StartInvByMain DEF IInv
<1>4. CASE Signal
  BY <1>4 DEF Signal, IInv, StartInv
<1>5. CASE Crash
  BY <1>5, TerminateInv DEF Crash, IInv
<1>6. CASE Restart
  BY <1>6 DEF Restart, IInv, StartInv
<1>7. CASE UNCHANGED vars
  BY <1>7 DEF IInv, StartInv
<1>8. QED
  BY <1>1, <1>2, <1>3, <1>4, <1>5, <1>6, <1>7 DEF Next

(* WriterInv (what the writer holds is durable or still to be spooled)     *)
(* survives every step of anything but the writer thread.                  *)
LEMMA WriterInvByOthers ==
  ASSUME WriterInv, UNCHANGED <<writeVars, s3>>, spool \subseteq spool',
         werror' = werror
  PROVE  WriterInv'
<1>1. Durable \subseteq Durable'
  BY DEF Durable, Spooled, Landed
<1>2. QED
  BY <1>1 DEF WriterInv

(* A batch that was spooled makes its ticks durable. *)
LEMMA SpoolGroupDurable ==
  ASSUME NEW S, NEW m, SpoolGroup(S, m, TRUE), s3' = s3
  PROVE  Durable \subseteq Durable' /\ S \subseteq Durable'
<1>1. NewBatch(S, m) \in spool' /\ spool \subseteq spool'
  BY DEF SpoolGroup
<1>2. NewBatch(S, m).recs = S
  BY DEF NewBatch
<1>3. S \subseteq Spooled'
  BY <1>1, <1>2 DEF Spooled
<1>4. QED
  BY <1>1, <1>3 DEF Durable, Spooled, Landed

(* WriterInv (what the writer holds is durable or still to be spooled)     *)
(* survives every step of the writer thread.                               *)
LEMMA WriterInvByWriter ==
  ASSUME TypeOK, WriterInv, WriterStep
  PROVE  WriterInv'
<1> USE DEF TypeOK, WriterInv
<1>1. CASE WList
  BY <1>1 DEF WList, SpoolListing
<1>2. CASE WPut
  BY <1>2 DEF WPut, NextUpload
<1>3. CASE WPutFail
  BY <1>3 DEF WPutFail, NextUpload, WriterFails
<1>4. CASE WUnlink
  BY <1>4 DEF WUnlink, Committed
<1>5. CASE WUnlinkFail
  BY <1>5 DEF WUnlinkFail, WriterFails
<1>6. CASE WReady
  BY <1>6 DEF WReady
<1>7. CASE WFlushed
  BY <1>7 DEF WFlushed
<1>8. CASE WFinalFlushed
  BY <1>8 DEF WFinalFlushed
<1>9. CASE WEnd
  BY <1>9 DEF WEnd
<1>10. CASE WGet
  BY <1>10 DEF WGet
<1>11. CASE WFlush
  BY <1>11 DEF WFlush, MinutesOf
<1>12. CASE WFinish
  BY <1>12 DEF WFinish, MinutesOf
<1>13. CASE WSpool
  <2>1. PICK m \in minutes :
               /\ SpoolGroup(Group(records, m), m, TRUE)
               /\ uploads' = uploads \cup {NewBatch(Group(records, m), m)}
               /\ minutes' = minutes \ {m}
    BY <1>13 DEF WSpool
  <2>2. Durable \subseteq Durable' /\ Group(records, m) \subseteq Durable'
    BY <1>13, <2>1, SpoolGroupDurable DEF WSpool
  <2>3. wpc' = "spool" => \A t \in records' : MinuteOf[t] \in minutes' \/ t \in Durable'
    BY <1>13, <2>1, <2>2 DEF WSpool, StillHeld, Group, WriterInv
  <2>4. QED
    BY <1>13, <2>1, <2>3 DEF WSpool, StillHeld, SpoolGroup, WriterInv
<1>14. CASE WSpoolFail
  BY <1>14 DEF WSpoolFail, IsEarliest, SpoolGroup, NewBatch, Group,
     WriterFails
<1>15. CASE WDrain
  BY <1>15 DEF WDrain
<1>16. CASE WDrained
  BY <1>16 DEF WDrained, MinutesOf
<1>17. CASE WRescue
  <2>1. PICK m \in minutes :
               /\ SpoolGroup(Group(records, m), m, TRUE)
               /\ minutes' = minutes \ {m}
    BY <1>17 DEF WRescue
  <2>2. Durable \subseteq Durable' /\ Group(records, m) \subseteq Durable'
    BY <1>17, <2>1, SpoolGroupDurable DEF WRescue
  <2>3. wpc' = "rescue" => \A t \in records' : MinuteOf[t] \in minutes' \/ t \in Durable'
    BY <1>17, <2>1, <2>2 DEF WRescue, StillHeld, Group, WriterInv
  <2>4. QED
    BY <1>17, <2>1, <2>3 DEF WRescue, StillHeld, SpoolGroup, WriterInv
<1>18. CASE WRescueFail
  BY <1>18 DEF WRescueFail, IsEarliest, SpoolGroup, NewBatch, Group,
     Forget
<1>19. QED
  BY <1>1, <1>2, <1>3, <1>4, <1>5, <1>6, <1>7, <1>8, <1>9, <1>10, <1>11,
     <1>12, <1>13, <1>14, <1>15, <1>16, <1>17, <1>18 DEF WriterStep

(* WriterInv (what the writer holds is durable or still to be spooled)     *)
(* survives every step of the system.                                      *)
LEMMA WriterInvStep ==
  ASSUME TypeOK, IInv, [Next]_vars
  PROVE  WriterInv'
<1>1. CASE FeedStep
  BY <1>1, FeedFrame, WriterInvByOthers DEF IInv
<1>2. CASE WriterStep
  BY <1>2, WriterInvByWriter DEF IInv
<1>3. CASE MainStep
  BY <1>3, MainFrame, TerminateInv, WriterInvByOthers DEF IInv
<1>4. CASE Signal
  BY <1>4, WriterInvByOthers DEF Signal, IInv
<1>5. CASE Crash
  BY <1>5, TerminateInv DEF Crash, IInv
<1>6. CASE Restart
  BY <1>6, WriterInvByOthers DEF Restart, IInv
<1>7. CASE UNCHANGED vars
  BY <1>7, WriterInvByOthers DEF IInv
<1>8. QED
  BY <1>1, <1>2, <1>3, <1>4, <1>5, <1>6, <1>7 DEF Next

(* StrayInv (which spool files the writer does not know of) survives every *)
(* step of the feed thread.                                                *)
LEMMA StrayInvByFeed ==
  ASSUME TypeOK, IInv, FeedStep
  PROVE  StrayInv'
<1> USE DEF TypeOK, IInv, StrayInv, FeedInv
<1>1. CASE FeedEnqueue
  BY <1>1 DEF FeedEnqueue
<1>2. CASE FeedFull
  BY <1>2 DEF FeedFull
<1>3. CASE FeedFullUnspooled
  BY <1>3 DEF FeedFullUnspooled
<1>4. CASE FeedFail
  BY <1>4 DEF FeedFail
<1>5. CASE FeedReceive
  BY <1>5 DEF FeedReceive
<1>6. CASE FeedReject
  BY <1>6 DEF FeedReject
<1>7. CASE FeedDisconnect
  BY <1>7 DEF FeedDisconnect
<1>8. CASE FeedDie
  BY <1>8 DEF FeedDie
<1>9. QED
  BY <1>1, <1>2, <1>3, <1>4, <1>5, <1>6, <1>7, <1>8 DEF FeedStep,
     FeedCallback

(* StrayInv (which spool files the writer does not know of) survives every *)
(* step of the writer thread.                                              *)
LEMMA StrayInvByWriter ==
  ASSUME TypeOK, WriterInv, StrayInv, WriterStep
  PROVE  StrayInv'
<1> USE DEF TypeOK, WriterInv, StrayInv
<1>1. CASE WList
  BY <1>1 DEF WList, SpoolListing
<1>2. CASE WPut
  BY <1>2 DEF WPut
<1>3. CASE WPutFail
  BY <1>3 DEF WPutFail, WriterFails
<1>4. CASE WUnlink
  BY <1>4 DEF WUnlink, Committed
<1>5. CASE WUnlinkFail
  BY <1>5 DEF WUnlinkFail, WriterFails
<1>6. CASE WReady
  BY <1>6 DEF WReady
<1>7. CASE WFlushed
  BY <1>7 DEF WFlushed
<1>8. CASE WFinalFlushed
  BY <1>8 DEF WFinalFlushed
<1>9. CASE WEnd
  BY <1>9 DEF WEnd
<1>10. CASE WGet
  BY <1>10 DEF WGet
<1>11. CASE WFlush
  BY <1>11 DEF WFlush
<1>12. CASE WFinish
  BY <1>12 DEF WFinish
<1>13. CASE WSpool
  <2>1. PICK m \in minutes :
               /\ SpoolGroup(Group(records, m), m, TRUE)
               /\ uploads' = uploads \cup {NewBatch(Group(records, m), m)}
    BY <1>13 DEF WSpool
  <2>2. QED
    BY <1>13, <2>1 DEF WSpool, SpoolGroup
<1>14. CASE WSpoolFail
  BY <1>14 DEF WSpoolFail, WriterFails
<1>15. CASE WDrain
  BY <1>15 DEF WDrain
<1>16. CASE WDrained
  BY <1>16 DEF WDrained
<1>17. CASE WRescue
  BY <1>17 DEF WRescue
<1>18. CASE WRescueFail
  BY <1>18 DEF WRescueFail
<1>19. QED
  BY <1>1, <1>2, <1>3, <1>4, <1>5, <1>6, <1>7, <1>8, <1>9, <1>10, <1>11,
     <1>12, <1>13, <1>14, <1>15, <1>16, <1>17, <1>18 DEF WriterStep

(* StrayInv (which spool files the writer does not know of) survives every *)
(* step of the main thread.                                                *)
LEMMA StrayInvByMain ==
  ASSUME TypeOK, IInv, MainStep
  PROVE  StrayInv'
<1> USE DEF TypeOK, IInv, StrayInv, FeedInv, ShutdownInv, MinutesOf
<1>1. CASE MStartFail
  BY <1>1, TerminateInv DEF MStartFail, IInv
<1>2. CASE MStartStop
  BY <1>2 DEF MStartStop
<1>3. CASE MStartServe
  BY <1>3 DEF MStartServe
<1>4. CASE MEarlyExit
  BY <1>4, TerminateInv DEF MEarlyExit, IInv
<1>5. CASE MConnect
  BY <1>5 DEF MConnect
<1>6. CASE MLoopEnd
  BY <1>6 DEF MLoopEnd
<1>7. CASE MPreflightOk
  BY <1>7 DEF MPreflightOk, FeedInv
<1>8. CASE MPreflightFatal
  BY <1>8 DEF MPreflightFatal
<1>9. CASE MPreflightRetry
  BY <1>9 DEF MPreflightRetry
<1>10. CASE MPreflightBroken
  BY <1>10 DEF MPreflightBroken
<1>11. CASE MPollStop
  BY <1>11 DEF MPollStop
<1>12. CASE MPollDropped
  BY <1>12 DEF MPollDropped
<1>13. CASE MPollWriterError
  BY <1>13 DEF MPollWriterError
<1>14. CASE MRecoverFatal
  BY <1>14 DEF MRecoverFatal
<1>15. CASE MRecover
  BY <1>15 DEF MRecover
<1>16. CASE MCleanup
  BY <1>16 DEF MCleanup
<1>17. CASE MCleanupUnsafe
  BY <1>17 DEF MCleanupUnsafe
<1>18. CASE MFinal
  BY <1>18 DEF MFinal
<1>19. CASE MJoin
  BY <1>19 DEF MJoin
<1>20. CASE MDrain
  BY <1>20 DEF MDrain
<1>21. CASE MDrained
  BY <1>21 DEF MDrained
<1>22. CASE MRespool
  BY <1>22 DEF MRespool
<1>23. CASE MRespoolFail
  BY <1>23 DEF MRespoolFail
<1>24. CASE MExit
  BY <1>24, TerminateInv DEF MExit, ExitCode, IInv
<1>25. QED
  BY <1>1, <1>2, <1>3, <1>4, <1>5, <1>6, <1>7, <1>8, <1>9, <1>10, <1>11,
     <1>12, <1>13, <1>14, <1>15, <1>16, <1>17, <1>18, <1>19, <1>20, <1>21,
     <1>22, <1>23, <1>24 DEF MainStep

(* StrayInv (which spool files the writer does not know of) survives every *)
(* step of the system.                                                     *)
LEMMA StrayInvStep ==
  ASSUME TypeOK, IInv, [Next]_vars
  PROVE  StrayInv'
<1>1. CASE FeedStep
  BY <1>1, StrayInvByFeed
<1>2. CASE WriterStep
  BY <1>2, StrayInvByWriter DEF IInv
<1>3. CASE MainStep
  BY <1>3, StrayInvByMain
<1>4. CASE Signal
  BY <1>4 DEF Signal, IInv, StrayInv
<1>5. CASE Crash
  BY <1>5, TerminateInv DEF Crash, IInv
<1>6. CASE Restart
  BY <1>6 DEF Restart, IInv, StrayInv
<1>7. CASE UNCHANGED vars
  BY <1>7 DEF IInv, StrayInv
<1>8. QED
  BY <1>1, <1>2, <1>3, <1>4, <1>5, <1>6, <1>7 DEF Next

(* ShutdownInv (what main relies on during shutdown) survives every step   *)
(* of the feed thread.                                                     *)
LEMMA ShutdownInvByFeed ==
  ASSUME TypeOK, IInv, FeedStep
  PROVE  ShutdownInv'
<1> USE DEF TypeOK, IInv, ShutdownInv, FeedInv
<1>1. CASE FeedEnqueue
  BY <1>1 DEF FeedEnqueue
<1>2. CASE FeedFull
  BY <1>2 DEF FeedFull
<1>3. CASE FeedFullUnspooled
  BY <1>3 DEF FeedFullUnspooled
<1>4. CASE FeedFail
  BY <1>4 DEF FeedFail
<1>5. CASE FeedReceive
  BY <1>5 DEF FeedReceive
<1>6. CASE FeedReject
  BY <1>6 DEF FeedReject
<1>7. CASE FeedDisconnect
  BY <1>7 DEF FeedDisconnect
<1>8. CASE FeedDie
  BY <1>8 DEF FeedDie
<1>9. QED
  BY <1>1, <1>2, <1>3, <1>4, <1>5, <1>6, <1>7, <1>8 DEF FeedStep,
     FeedCallback

(* ShutdownInv (what main relies on during shutdown) survives every step   *)
(* of the writer thread.                                                   *)
LEMMA ShutdownInvByWriter ==
  ASSUME TypeOK, IInv, WriterStep
  PROVE  ShutdownInv'
<1> USE DEF TypeOK, IInv, ShutdownInv, WriterInv
<1>1. CASE WList
  BY <1>1 DEF WList
<1>2. CASE WPut
  BY <1>2 DEF WPut
<1>3. CASE WPutFail
  BY <1>3 DEF WPutFail, WriterFails
<1>4. CASE WUnlink
  BY <1>4 DEF WUnlink
<1>5. CASE WUnlinkFail
  BY <1>5 DEF WUnlinkFail, WriterFails
<1>6. CASE WReady
  BY <1>6 DEF WReady
<1>7. CASE WFlushed
  BY <1>7 DEF WFlushed
<1>8. CASE WFinalFlushed
  BY <1>8 DEF WFinalFlushed
<1>9. CASE WEnd
  BY <1>9 DEF WEnd
<1>10. CASE WGet
  BY <1>10 DEF WGet
<1>11. CASE WFlush
  BY <1>11 DEF WFlush
<1>12. CASE WFinish
  BY <1>12 DEF WFinish
<1>13. CASE WSpool
  BY <1>13 DEF WSpool
<1>14. CASE WSpoolFail
  BY <1>14 DEF WSpoolFail, WriterFails
<1>15. CASE WDrain
  BY <1>15 DEF WDrain
<1>16. CASE WDrained
  BY <1>16 DEF WDrained
<1>17. CASE WRescue
  BY <1>17 DEF WRescue
<1>18. CASE WRescueFail
  BY <1>18 DEF WRescueFail
<1>19. QED
  BY <1>1, <1>2, <1>3, <1>4, <1>5, <1>6, <1>7, <1>8, <1>9, <1>10, <1>11,
     <1>12, <1>13, <1>14, <1>15, <1>16, <1>17, <1>18 DEF WriterStep

(* ShutdownInv (what main relies on during shutdown) survives every step   *)
(* of the main thread.                                                     *)
LEMMA ShutdownInvByMain ==
  ASSUME TypeOK, IInv, MainStep
  PROVE  ShutdownInv'
<1> USE DEF TypeOK, IInv, ShutdownInv, FeedInv, MinutesOf
<1>1. CASE MStartFail
  BY <1>1, TerminateInv DEF MStartFail
<1>2. CASE MStartStop
  BY <1>2 DEF MStartStop
<1>3. CASE MStartServe
  BY <1>3 DEF MStartServe
<1>4. CASE MEarlyExit
  BY <1>4, TerminateInv DEF MEarlyExit
<1>5. CASE MConnect
  BY <1>5 DEF MConnect
<1>6. CASE MLoopEnd
  BY <1>6 DEF MLoopEnd
<1>7. CASE MPreflightOk
  BY <1>7 DEF MPreflightOk
<1>8. CASE MPreflightFatal
  BY <1>8 DEF MPreflightFatal
<1>9. CASE MPreflightRetry
  BY <1>9 DEF MPreflightRetry
<1>10. CASE MPreflightBroken
  BY <1>10 DEF MPreflightBroken
<1>11. CASE MPollStop
  BY <1>11 DEF MPollStop
<1>12. CASE MPollDropped
  BY <1>12 DEF MPollDropped
<1>13. CASE MPollWriterError
  BY <1>13 DEF MPollWriterError
<1>14. CASE MRecoverFatal
  BY <1>14 DEF MRecoverFatal
<1>15. CASE MRecover
  BY <1>15 DEF MRecover
<1>16. CASE MCleanup
  BY <1>16 DEF MCleanup
<1>17. CASE MCleanupUnsafe
  BY <1>17 DEF MCleanupUnsafe
<1>18. CASE MFinal
  BY <1>18 DEF MFinal
<1>19. CASE MJoin
  BY <1>19 DEF MJoin
<1>20. CASE MDrain
  BY <1>20 DEF MDrain
<1>21. CASE MDrained
  BY <1>21 DEF MDrained, PreserveOver
<1>22. CASE MRespool
  BY <1>22 DEF MRespool, Group
<1>23. CASE MRespoolFail
  BY <1>23 DEF MRespoolFail, Group
<1>24. CASE MExit
  BY <1>24, TerminateInv DEF MExit, ExitCode
<1>25. QED
  BY <1>1, <1>2, <1>3, <1>4, <1>5, <1>6, <1>7, <1>8, <1>9, <1>10, <1>11,
     <1>12, <1>13, <1>14, <1>15, <1>16, <1>17, <1>18, <1>19, <1>20, <1>21,
     <1>22, <1>23, <1>24 DEF MainStep

(* ShutdownInv (what main relies on during shutdown) survives every step   *)
(* of the system.                                                          *)
LEMMA ShutdownInvStep ==
  ASSUME TypeOK, IInv, [Next]_vars
  PROVE  ShutdownInv'
<1>1. CASE FeedStep
  BY <1>1, ShutdownInvByFeed
<1>2. CASE WriterStep
  BY <1>2, ShutdownInvByWriter
<1>3. CASE MainStep
  BY <1>3, ShutdownInvByMain
<1>4. CASE Signal
  BY <1>4 DEF Signal, IInv, ShutdownInv
<1>5. CASE Crash
  BY <1>5, TerminateInv DEF Crash, IInv
<1>6. CASE Restart
  BY <1>6 DEF Restart, IInv, ShutdownInv, TypeOK
<1>7. CASE UNCHANGED vars
  BY <1>7 DEF IInv, ShutdownInv
<1>8. QED
  BY <1>1, <1>2, <1>3, <1>4, <1>5, <1>6, <1>7 DEF Next

(* The invariant behind the safety theorems below. *)
THEOREM Invariance == Spec => []IInv
<1>1. Init => IInv
  BY DEF Init, IInv, FeedInv, StartInv, WriterInv, StrayInv, ShutdownInv
<1>2. TypeOK /\ IInv /\ [Next]_vars => IInv'
  BY FeedInvStep, StartInvStep, WriterInvStep, StrayInvStep, ShutdownInvStep
  DEF IInv
<1>3. QED
  BY <1>1, <1>2, TypeCorrect, PTL DEF Spec

-----------------------------------------------------------------------------
(* What the end of a run means. *)

(* The process ends by a step of main or by a crash, and main ends it with *)
(* exit code 0 after serving only at the end of its shutdown sequence.     *)
LEMMA RunEnds ==
  ASSUME [Next]_vars, proc = "running", proc' # "running"
  PROVE  MStartFail \/ MEarlyExit \/ MExit \/ Crash
<1>1. CASE FeedStep
  BY <1>1, FeedFrame
<1>2. CASE WriterStep
  BY <1>2, WriterFrame
<1>3. CASE MainStep
  BY <1>3 DEF MainStep, MStartStop, MStartServe, MConnect, MLoopEnd,
              MPreflightOk, MPreflightFatal, MPreflightRetry,
              MPreflightBroken, MPollStop, MPollDropped, MPollWriterError,
              MRecoverFatal, MRecover, MCleanup, MCleanupUnsafe, MFinal,
              MJoin, MDrain, MDrained, MRespool, MRespoolFail
<1>4. QED
  BY <1>1, <1>2, <1>3 DEF Next, Signal, Restart

(* At the end of the shutdown sequence nothing is left in the memory of a  *)
(* writer that has ended and of a feed thread that is gone.                *)
LEMMA NothingInMemory ==
  ASSUME IInv, mpc = "respool", pending = {}, wpc = "done", feed = "none"
  PROVE  Memory = {}
<1>1. hand = {} /\ records = {} /\ queue = <<>>
  BY DEF IInv, FeedInv, WriterInv, ShutdownInv
<1>2. Queued = {}
  BY <1>1 DEF Queued
<1>3. QED
  BY <1>1, <1>2 DEF Memory

(* Exit code 0 after serving means that everything accepted has landed:    *)
(* the exit code of main (497-508) is evidence for the whole pipeline.     *)
THEOREM CleanExit == Spec => CleanExitCommitsAll
<1>1. ASSUME TypeOK, IInv, [Next]_vars, proc = "running", proc' = "clean"
      PROVE  spool' = {} /\ Memory = {} /\ fault # "now"
  <2>1. MExit /\ ExitCode = "clean"
    BY <1>1, RunEnds DEF MStartFail, MEarlyExit, MExit, Crash, Terminate
  <2>2. wpc = "done" /\ ~werror /\ ~failed /\ ~late
    BY <2>1 DEF ExitCode
  <2>3. mpc = "respool" /\ pending = {} /\ spool' = spool
    BY <2>1 DEF MExit, Terminate
  <2>4. feed = "none"
    BY <1>1, <2>2, <2>3 DEF IInv, FeedInv
  <2>5. Memory = {}
    BY <1>1, <2>2, <2>3, <2>4, NothingInMemory
  <2>6. spool = {}
    BY <1>1, <2>2, <2>4 DEF IInv, StrayInv, WriterInv
  <2>7. fault # "now"
    BY <1>1, <2>2, <2>4 DEF IInv, ShutdownInv
  <2>8. QED
    BY <2>3, <2>5, <2>6, <2>7
<1>2. TypeOK /\ IInv /\ [Next]_vars => [CleanExitStep]_vars
  BY <1>1 DEF CleanExitStep
<1>3. QED
  BY <1>2, TypeCorrect, Invariance, PTL DEF Spec, CleanExitCommitsAll

(* A run that ends without a spool failure and without having abandoned a  *)
(* thread loses nothing, even if its writer had failed.                    *)
THEOREM GracefulExit == Spec => GracefulExitKeepsTicks
<1>1. ASSUME TypeOK, IInv, [Next]_vars, proc = "running",
             proc' \in {"clean", "failed", "early"},
             wpc = "done", feed = "none"
      PROVE  lost' = lost
  <2>1. Memory = {}
    <3>1. CASE MStartFail \/ MEarlyExit
      <4>1. hand = {} /\ queue = <<>> /\ records = {} /\ pending = {}
        BY <1>1, <3>1 DEF MStartFail, MEarlyExit, IInv, FeedInv, StartInv
      <4>2. Queued = {}
        BY <4>1 DEF Queued
      <4>3. QED
        BY <4>1, <4>2 DEF Memory
    <3>2. CASE MExit
      BY <1>1, <3>2, NothingInMemory DEF MExit
    <3>3. ~Crash
      BY <1>1 DEF Crash, Terminate
    <3>4. QED
      BY <1>1, <3>1, <3>2, <3>3, RunEnds
  <2>2. Forget(Memory)
    BY <1>1, RunEnds DEF MStartFail, MEarlyExit, MExit, Crash, Terminate
  <2>3. QED
    BY <2>1, <2>2 DEF Forget
<1>2. TypeOK /\ IInv /\ [Next]_vars => [GracefulExitStep]_vars
  BY <1>1 DEF GracefulExitStep
<1>3. QED
  BY <1>2, TypeCorrect, Invariance, PTL DEF Spec, GracefulExitKeepsTicks

(* Between batches the writer leaves nothing in the spool. *)
THEOREM ServingSpool == Spec => []ServingLeavesNoSpool
<1>1. TypeOK /\ IInv => ServingLeavesNoSpool
  BY DEF IInv, StrayInv, WriterInv, ServingLeavesNoSpool
<1>2. QED
  BY <1>1, TypeCorrect, Invariance, PTL

-----------------------------------------------------------------------------
(* No handover drops a tick. *)

Kept == Memory \cup Durable \cup lost

(* Taking the head off a queue removes at most that tick from it. *)
LEMMA QueueTake ==
  ASSUME TypeOK, queue # <<>>, queue' = Tail(queue)
  PROVE  Queued \subseteq Queued' \cup {Head(queue)}
<1>1. /\ queue \in Seq(Ticks) /\ DOMAIN queue = 1..Len(queue)
      /\ Len(queue) \in Nat
  BY LenProperties DEF TypeOK
<1>2. /\ Tail(queue) \in Seq(Ticks)
      /\ Len(Tail(queue)) = Len(queue) - 1
      /\ \A j \in 1..Len(Tail(queue)) : Tail(queue)[j] = queue[j + 1]
  BY <1>1, HeadTailProperties
<1>3. DOMAIN Tail(queue) = 1..Len(Tail(queue))
  BY <1>2, LenProperties
<1>4. ASSUME NEW i \in DOMAIN queue, i # 1
      PROVE  queue[i] \in Queued'
  <2>1. i - 1 \in 1..Len(Tail(queue)) /\ Tail(queue)[i - 1] = queue[i]
    BY <1>1, <1>2, <1>4
  <2>2. QED
    BY <1>3, <2>1 DEF Queued
<1>5. queue[1] = Head(queue)
  BY <1>1
<1>6. QED
  BY <1>4, <1>5 DEF Queued

(* Putting a tick at the end of a queue keeps what is in it and adds it. *)
LEMMA QueuePut ==
  ASSUME TypeOK, NEW t \in Ticks, queue' = Append(queue, t)
  PROVE  Queued \cup {t} \subseteq Queued'
<1>1. /\ queue \in Seq(Ticks) /\ DOMAIN queue = 1..Len(queue)
      /\ Len(queue) \in Nat
  BY LenProperties DEF TypeOK
<1>2. /\ Append(queue, t) \in Seq(Ticks)
      /\ Len(Append(queue, t)) = Len(queue) + 1
      /\ \A i \in 1..Len(queue) : Append(queue, t)[i] = queue[i]
      /\ Append(queue, t)[Len(queue) + 1] = t
  BY <1>1, AppendProperties
<1>3. DOMAIN Append(queue, t) = 1..(Len(queue) + 1)
  BY <1>2, LenProperties
<1>4. ASSUME NEW i \in DOMAIN queue
      PROVE  queue[i] \in Queued'
  <2>1. i \in DOMAIN Append(queue, t) /\ Append(queue, t)[i] = queue[i]
    BY <1>1, <1>2, <1>3
  <2>2. QED
    BY <2>1 DEF Queued
<1>5. t \in Queued'
  <2>1. Len(queue) + 1 \in DOMAIN Append(queue, t)
    BY <1>1, <1>3
  <2>2. QED
    BY <1>2, <2>1 DEF Queued
<1>6. QED
  BY <1>4, <1>5 DEF Queued

(* Neither disk loses a batch unless the step unlinks one. *)
LEMMA DurableGrows ==
  ASSUME spool \subseteq spool', s3 \subseteq s3'
  PROVE  Durable \subseteq Durable'
BY DEF Durable, Spooled, Landed

(* The end of a process forgets no more than what it records as lost. *)
LEMMA KeptByTerminate ==
  ASSUME NEW how, Terminate(how)
  PROVE  Kept \subseteq Kept' /\ received' = received
<1>1. Durable' = Durable
  BY DEF Terminate, Durable, Spooled, Landed
<1>2. QED
  BY <1>1 DEF Terminate, Forget, Kept

(* The feed thread keeps what was kept and what it receives. *)
LEMMA KeptByFeed ==
  ASSUME TypeOK, IInv, FeedStep
  PROVE  Kept \cup (1..received' \ 1..received) \subseteq Kept'
<1>0. /\ Durable \subseteq Durable' /\ records' = records /\ pending' = pending
      /\ received \in Nat
  BY FeedFrame, DurableGrows DEF TypeOK
<1>1. CASE FeedEnqueue
  <2>1. PICK t \in hand : queue' = Append(queue, t)
    BY <1>1 DEF FeedEnqueue
  <2>2. hand = {t} /\ t \in Ticks
    BY <1>1, <2>1 DEF FeedEnqueue, IInv, FeedInv
  <2>3. Queued \cup {t} \subseteq Queued'
    BY <2>1, <2>2, QueuePut
  <2>4. QED
    BY <1>0, <1>1, <2>2, <2>3 DEF FeedEnqueue, Kept, Memory
<1>2. CASE FeedFull
  <2>1. Queued' = Queued
    BY <1>2 DEF FeedFull, Queued
  <2>2. \E t \in hand : SpoolGroup(hand, MinuteOf[t], TRUE)
    BY <1>2 DEF FeedFull
  <2>3. hand \subseteq Durable'
    BY <1>2, <2>2, SpoolGroupDurable DEF FeedFull
  <2>4. QED
    BY <1>0, <1>2, <2>1, <2>3 DEF FeedFull, Kept, Memory
<1>3. CASE FeedFullUnspooled
  <2>1. Queued' = Queued
    BY <1>3 DEF FeedFullUnspooled, Queued
  <2>2. Forget(hand)
    BY <1>3 DEF FeedFullUnspooled
  <2>3. QED
    BY <1>0, <1>3, <2>1, <2>2 DEF FeedFullUnspooled, Forget, Kept, Memory
<1>4. CASE FeedReceive
  <2>1. Queued' = Queued /\ hand = {}
    BY <1>4 DEF FeedReceive, Queued, IInv, FeedInv
  <2>2. 1..received' \ 1..received \subseteq hand'
    BY <1>0, <1>4 DEF FeedReceive
  <2>3. QED
    BY <1>0, <1>4, <2>1, <2>2 DEF FeedReceive, Kept, Memory
<1>5. CASE FeedFail \/ FeedReject \/ FeedDisconnect \/ FeedDie
  <2>1. Queued' = Queued /\ UNCHANGED <<hand, received, lost>>
    BY <1>5 DEF FeedFail, FeedReject, FeedDisconnect, FeedDie, Queued
  <2>2. QED
    BY <1>0, <2>1 DEF Kept, Memory
<1>6. QED
  BY <1>1, <1>2, <1>3, <1>4, <1>5 DEF FeedStep, FeedCallback

(* The writer keeps what was kept: it clears its list only when every      *)
(* group of it is in the spool, and unlinks only what has landed.          *)
LEMMA KeptByWriter ==
  ASSUME TypeOK, IInv, WriterStep
  PROVE  Kept \subseteq Kept'
<1>0. UNCHANGED <<hand, received, pending>>
  BY WriterFrame
<1>1. CASE WPut \/ WPutFail
  <2>1. spool \subseteq spool' /\ s3 \subseteq s3'
    BY <1>1 DEF WPut, WPutFail
  <2>2. Queued' = Queued /\ UNCHANGED <<records, lost>>
    BY <1>1 DEF WPut, WPutFail, Queued
  <2>3. QED
    BY <1>0, <2>1, <2>2, DurableGrows DEF Kept, Memory
<1>2. CASE WUnlink
  <2>1. spool' = spool \ current /\ s3' = s3 /\ current \subseteq s3
    BY <1>2 DEF WUnlink, Committed, IInv, WriterInv
  <2>2. Durable \subseteq Durable'
    BY <2>1 DEF Durable, Spooled, Landed
  <2>3. Queued' = Queued /\ UNCHANGED <<records, lost>>
    BY <1>2 DEF WUnlink, Queued
  <2>4. QED
    BY <1>0, <2>2, <2>3 DEF Kept, Memory
<1>3. CASE WGet \/ WDrain
  <2>1. queue # <<>> /\ queue' = Tail(queue)
    BY <1>3 DEF WGet, WDrain
  <2>2. records' = records \cup {Head(queue)} /\ UNCHANGED <<spool, s3, lost>>
    BY <1>3 DEF WGet, WDrain
  <2>3. Queued \subseteq Queued' \cup {Head(queue)}
    BY <2>1, QueueTake
  <2>4. QED
    BY <1>0, <2>2, <2>3, DurableGrows DEF Kept, Memory
<1>4. CASE WSpool \/ WRescue
  <2>1. PICK m \in minutes :
               /\ SpoolGroup(Group(records, m), m, TRUE)
               /\ minutes' = minutes \ {m}
    BY <1>4 DEF WSpool, WRescue
  <2>2. s3' = s3 /\ lost' = lost /\ Queued' = Queued
    BY <1>4 DEF WSpool, WRescue, Queued
  <2>3. Durable \subseteq Durable' /\ Group(records, m) \subseteq Durable'
    BY <2>1, <2>2, SpoolGroupDurable
  <2>4. \A t \in records : MinuteOf[t] \in minutes \/ t \in Durable
    BY <1>4 DEF WSpool, WRescue, IInv, WriterInv
  <2>5. minutes' = {} => records \subseteq Durable'
    BY <2>1, <2>3, <2>4 DEF Group
  <2>6. records \subseteq records' \cup Durable'
    BY <1>4, <2>5 DEF WSpool, WRescue, StillHeld
  <2>7. QED
    BY <1>0, <2>2, <2>3, <2>6 DEF Kept, Memory
<1>5. CASE WSpoolFail
  <2>1. spool \subseteq spool' /\ s3' = s3
    BY <1>5, SpoolGrows DEF WSpoolFail
  <2>2. Queued' = Queued /\ UNCHANGED <<records, lost>>
    BY <1>5 DEF WSpoolFail, Queued
  <2>3. QED
    BY <1>0, <2>1, <2>2, DurableGrows DEF Kept, Memory
<1>6. CASE WRescueFail
  <2>1. spool \subseteq spool' /\ s3' = s3
    BY <1>6, SpoolGrows DEF WRescueFail
  <2>2. Queued' = Queued /\ Forget(records)
    BY <1>6 DEF WRescueFail, Queued
  <2>3. QED
    BY <1>0, <2>1, <2>2, DurableGrows DEF Kept, Memory, Forget
<1>7. CASE \/ WList \/ WUnlinkFail \/ WReady \/ WFlushed \/ WFinalFlushed
           \/ WEnd \/ WFlush \/ WFinish \/ WDrained
  <2>1. UNCHANGED <<spool, s3, lost, queue, records>>
    BY <1>7 DEF WList, WUnlinkFail, WriterFails, WReady, WFlushed,
                WFinalFlushed, WEnd, WFlush, WFinish, WDrained
  <2>2. Queued' = Queued
    BY <2>1 DEF Queued
  <2>3. QED
    BY <1>0, <2>1, <2>2, DurableGrows DEF Kept, Memory
<1>8. QED
  BY <1>1, <1>2, <1>3, <1>4, <1>5, <1>6, <1>7 DEF WriterStep

(* Apart from preserve_queued, main does not touch the queue or a tick. *)
LEMMA MainOutside ==
  ASSUME MainStep
  PROVE  \/ \E how \in {"early", "failed", "clean"} : Terminate(how)
         \/ MDrain \/ MRespool \/ MRespoolFail
         \/ UNCHANGED <<queue, pending, lost>>
BY DEF MainStep, MStartFail, MEarlyExit, MExit, MStartStop, MStartServe,
       MConnect, MLoopEnd, MPreflightOk, MPreflightFatal, MPreflightRetry,
       MPreflightBroken, MPollStop, MPollDropped, MPollWriterError,
       MRecoverFatal, MRecover, MCleanup, MCleanupUnsafe, MFinal, MJoin,
       MDrained, ExitCode

(* Main keeps what was kept, while it runs and when it ends the process. *)
LEMMA KeptByMain ==
  ASSUME TypeOK, IInv, MainStep
  PROVE  Kept \subseteq Kept' /\ received' = received
<1>1. CASE \E how : Terminate(how)
  BY <1>1, KeptByTerminate
<1>2. CASE /\ UNCHANGED <<hand, received, records, s3>>
           /\ spool \subseteq spool'
  <2>0. Durable \subseteq Durable' /\ UNCHANGED <<hand, received, records>>
    BY <1>2, DurableGrows
  <2>1. CASE MDrain
    <3>1. queue # <<>> /\ queue' = Tail(queue) /\ lost' = lost
      BY <2>1 DEF MDrain
    <3>2. pending' = pending \cup {Head(queue)}
      BY <2>1 DEF MDrain
    <3>3. Queued \subseteq Queued' \cup {Head(queue)}
      BY <3>1, QueueTake
    <3>4. QED
      BY <2>0, <3>1, <3>2, <3>3 DEF Kept, Memory
  <2>2. CASE MRespool
    <3>1. PICK m \in MinutesOf(pending) :
                 /\ SpoolGroup(Group(pending, m), m, TRUE)
                 /\ pending' = pending \ Group(pending, m)
      BY <2>2 DEF MRespool
    <3>2. Group(pending, m) \subseteq Durable'
      BY <1>2, <3>1, SpoolGroupDurable
    <3>3. Queued' = Queued /\ lost' = lost
      BY <2>2 DEF MRespool, Queued
    <3>4. QED
      BY <2>0, <3>1, <3>2, <3>3 DEF Kept, Memory
  <2>3. CASE MRespoolFail
    <3>1. Queued' = Queued /\ Forget(pending)
      BY <2>3 DEF MRespoolFail, Queued
    <3>2. QED
      BY <2>0, <3>1 DEF Kept, Memory, Forget
  <2>4. CASE UNCHANGED <<queue, pending, lost>>
    <3>1. Queued' = Queued
      BY <2>4 DEF Queued
    <3>2. QED
      BY <2>0, <2>4, <3>1 DEF Kept, Memory
  <2>5. QED
    BY <2>1, <2>2, <2>3, <2>4, MainOutside, <1>1
<1>3. QED
  BY <1>1, <1>2, MainFrame

(* Every tick ever accepted is accounted for: in the memory of the run, on *)
(* one of the disks, or recorded as lost, whatever the three threads did.  *)
THEOREM Accounted == Spec => []EveryTickAccountedFor
<1>1. Init => EveryTickAccountedFor
  BY DEF Init, EveryTickAccountedFor
<1>2. ASSUME TypeOK, IInv, EveryTickAccountedFor, [Next]_vars
      PROVE  EveryTickAccountedFor'
  <2>1. 1..received \subseteq Kept
    BY <1>2 DEF EveryTickAccountedFor, Kept
  <2>2. 1..received' \subseteq Kept'
    <3>1. CASE FeedStep
      BY <1>2, <2>1, <3>1, KeptByFeed
    <3>2. CASE WriterStep
      BY <1>2, <2>1, <3>2, KeptByWriter, WriterFrame
    <3>3. CASE MainStep
      BY <1>2, <2>1, <3>3, KeptByMain
    <3>4. CASE Crash
      BY <2>1, <3>4, KeptByTerminate DEF Crash
    <3>5. CASE Signal \/ Restart \/ UNCHANGED vars
      <4>1. UNCHANGED <<received, hand, records, pending, queue, spool, s3, lost>>
        BY <3>5 DEF Signal, Restart
      <4>2. Queued' = Queued
        BY <4>1 DEF Queued
      <4>3. Durable \subseteq Durable'
        BY <4>1, DurableGrows
      <4>4. QED
        BY <2>1, <4>1, <4>2, <4>3 DEF Kept, Memory
    <3>6. QED
      BY <1>2, <3>1, <3>2, <3>3, <3>4, <3>5 DEF Next
  <2>3. QED
    BY <2>2 DEF EveryTickAccountedFor, Kept
<1>3. QED
  BY <1>1, <1>2, TypeCorrect, Invariance, PTL DEF Spec

-----------------------------------------------------------------------------
(* A tick is held in one place. *)

(* Hand-overs move a tick: no two holders, and no two slots of the queue,  *)
(* have the same one.                                                      *)
OneHolder ==
  /\ \A i, k \in DOMAIN queue : queue[i] = queue[k] => i = k
  /\ hand \cap (Queued \cup records \cup pending) = {}
  /\ Queued \cap (records \cup pending) = {}
  /\ records \cap pending = {}

(* Nothing is held, stored or lost before it has been received. *)
NoneAhead == Memory \cup Durable \cup lost \subseteq 1..received

(* What is recorded as lost is nowhere. *)
LostForGood == lost \cap (Memory \cup Durable) = {}

PlaceInv == OneHolder /\ NoneAhead /\ LostForGood

(* What no step undoes or jumps: a batch lands from the spool, a tick is   *)
(* spooled or lost from memory, and both disks keep what they have.        *)
Flow ==
  /\ Landed \subseteq Landed' /\ Landed' \subseteq Durable
  /\ Durable \subseteq Durable' /\ Durable' \subseteq Durable \cup Memory
  /\ lost \subseteq lost' /\ lost' \subseteq lost \cup Memory

(* Taking the head off a queue that repeats nothing takes that tick out of *)
(* it.                                                                     *)
LEMMA QueueTakeOnce ==
  ASSUME TypeOK, OneHolder, queue # <<>>, queue' = Tail(queue)
  PROVE  /\ Head(queue) \in Queued
         /\ Queued' = Queued \ {Head(queue)}
         /\ \A i, k \in DOMAIN queue' : queue'[i] = queue'[k] => i = k
<1>1. /\ queue \in Seq(Ticks) /\ DOMAIN queue = 1..Len(queue)
      /\ Len(queue) \in Nat \ {0}
  BY LenProperties, EmptySeq DEF TypeOK
<1>2. /\ Tail(queue) \in Seq(Ticks)
      /\ Len(Tail(queue)) = Len(queue) - 1
      /\ \A j \in 1..Len(Tail(queue)) : Tail(queue)[j] = queue[j + 1]
  BY <1>1, HeadTailProperties
<1>3. DOMAIN queue' = 1..(Len(queue) - 1)
  BY <1>2, LenProperties
<1>4. \A j \in DOMAIN queue' : j + 1 \in DOMAIN queue /\ queue'[j] = queue[j + 1]
  BY <1>1, <1>2, <1>3
<1>5. Head(queue) = queue[1] /\ 1 \in DOMAIN queue
  BY <1>1
<1>6. Head(queue) \notin Queued'
  BY <1>1, <1>3, <1>4, <1>5 DEF Queued, OneHolder
<1>7. Queued' \subseteq Queued
  BY <1>4 DEF Queued
<1>8. Queued \subseteq Queued' \cup {Head(queue)}
  BY QueueTake
<1>9. \A i, k \in DOMAIN queue' : queue'[i] = queue'[k] => i = k
  <2> SUFFICES ASSUME NEW i \in DOMAIN queue', NEW k \in DOMAIN queue',
                      queue'[i] = queue'[k]
               PROVE  i = k
    OBVIOUS
  <2>1. i + 1 \in DOMAIN queue /\ k + 1 \in DOMAIN queue
        /\ queue[i + 1] = queue[k + 1]
    BY <1>4
  <2>2. i + 1 = k + 1
    BY <2>1 DEF OneHolder
  <2>3. QED
    BY <1>1, <1>3, <2>2
<1>10. Head(queue) \in Queued
  BY <1>5 DEF Queued
<1>11. QED
  BY <1>6, <1>7, <1>8, <1>9, <1>10

(* A tick that is not in the queue can be put at its end. *)
LEMMA QueuePutOnce ==
  ASSUME TypeOK, OneHolder, NEW t \in Ticks, t \notin Queued,
         queue' = Append(queue, t)
  PROVE  /\ Queued' = Queued \cup {t}
         /\ \A i, k \in DOMAIN queue' : queue'[i] = queue'[k] => i = k
<1>1. /\ queue \in Seq(Ticks) /\ DOMAIN queue = 1..Len(queue)
      /\ Len(queue) \in Nat
  BY LenProperties DEF TypeOK
<1>2. /\ Append(queue, t) \in Seq(Ticks)
      /\ Len(Append(queue, t)) = Len(queue) + 1
      /\ \A i \in 1..Len(queue) : Append(queue, t)[i] = queue[i]
      /\ Append(queue, t)[Len(queue) + 1] = t
  BY <1>1, AppendProperties
<1>3. DOMAIN queue' = DOMAIN queue \cup {Len(queue) + 1}
  BY <1>1, <1>2, LenProperties
<1>4. \A i \in DOMAIN queue : queue'[i] = queue[i] /\ queue[i] # t
  BY <1>1, <1>2 DEF Queued
<1>5. queue'[Len(queue) + 1] = t
  BY <1>2
<1>6. Queued' = Queued \cup {t}
  <2>1. Queued' \subseteq Queued \cup {t}
    BY <1>3, <1>4, <1>5 DEF Queued
  <2>2. QED
    BY <2>1, QueuePut
<1>7. \A i, k \in DOMAIN queue' : queue'[i] = queue'[k] => i = k
  BY <1>3, <1>4, <1>5 DEF OneHolder
<1>8. QED
  BY <1>6, <1>7

(* Spooling a group adds nothing but that group to what is durable. *)
LEMMA SpoolGroupOnly ==
  ASSUME NEW S, NEW m, NEW visible \in BOOLEAN, SpoolGroup(S, m, visible),
         s3' = s3
  PROVE  /\ Landed' = Landed /\ Durable \subseteq Durable'
         /\ Durable' \subseteq Durable \cup S
<1>1. Landed' = Landed
  BY DEF Landed
<1>2. Spooled \subseteq Spooled' /\ Spooled' \subseteq Spooled \cup S
  <2>1. CASE visible
    BY <2>1 DEF SpoolGroup, NewBatch, Spooled
  <2>2. CASE ~visible
    BY <2>2 DEF SpoolGroup, Spooled
  <2>3. QED
    BY <2>1, <2>2
<1>3. QED
  BY <1>1, <1>2 DEF Durable

(* What is left to show of a step that follows the flow of ticks. *)
LEMMA PlacesKept ==
  ASSUME TypeOK, PlaceInv, Flow, OneHolder',
         received' \in Nat, received <= received',
         Memory' \subseteq Memory \cup (1..received' \ 1..received),
         (lost' \ lost) \cap (Memory' \cup Durable') = {}
  PROVE  PlaceInv'
<1>1. received \in Nat
  BY DEF TypeOK
<1>2. 1..received \subseteq 1..received'
  BY <1>1
<1>3. NoneAhead'
  BY <1>2 DEF PlaceInv, NoneAhead, Flow
<1>4. ASSUME NEW t \in lost'
      PROVE  t \notin Memory' \cup Durable'
  <2>1. CASE t \in lost
    <3>1. t \in 1..received /\ t \notin Memory \cup Durable
      BY <2>1 DEF PlaceInv, NoneAhead, LostForGood
    <3>2. QED
      BY <3>1 DEF Flow
  <2>2. CASE t \notin lost
    BY <1>4, <2>2
  <2>3. QED
    BY <2>1, <2>2
<1>5. LostForGood'
  BY <1>4 DEF LostForGood
<1>6. QED
  BY <1>3, <1>5 DEF PlaceInv

(* The feed thread receives a tick that nobody has had before, and hands   *)
(* it to the queue or to the spool.                                        *)
LEMMA PlacesByFeed ==
  ASSUME TypeOK, IInv, PlaceInv, FeedStep
  PROVE  Flow /\ PlaceInv'
<1>0. /\ UNCHANGED <<records, pending, s3>> /\ received \in Nat
      /\ Landed' = Landed
  BY FeedFrame DEF TypeOK, Landed
<1>1. CASE FeedEnqueue
  <2>1. PICK t \in hand : queue' = Append(queue, t)
    BY <1>1 DEF FeedEnqueue
  <2>2. /\ hand = {t} /\ t \in Ticks /\ t \notin Queued
        /\ hand' = {} /\ UNCHANGED <<received, spool, lost>>
    BY <1>1, <2>1 DEF FeedEnqueue, IInv, FeedInv, PlaceInv, OneHolder
  <2>3. /\ Queued' = Queued \cup {t}
        /\ \A i, k \in DOMAIN queue' : queue'[i] = queue'[k] => i = k
    BY <2>1, <2>2, QueuePutOnce DEF PlaceInv
  <2>4. Durable' = Durable /\ Memory' \subseteq Memory
    BY <1>0, <2>2, <2>3 DEF Durable, Spooled, Landed, Memory
  <2>5. Flow
    BY <1>0, <2>2, <2>4 DEF Flow, Durable
  <2>6. OneHolder'
    BY <1>0, <2>2, <2>3 DEF PlaceInv, OneHolder
  <2>7. QED
    BY <1>0, <2>2, <2>4, <2>5, <2>6, PlacesKept
<1>2. CASE FeedFull \/ FeedFullUnspooled
  <2>1. PICK t \in hand, visible \in BOOLEAN :
               SpoolGroup(hand, MinuteOf[t], visible)
    BY <1>2 DEF FeedFull, FeedFullUnspooled
  <2>2. /\ Durable \subseteq Durable' /\ Durable' \subseteq Durable \cup hand
    BY <1>0, <2>1, SpoolGroupOnly
  <2>3. /\ hand' = {} /\ UNCHANGED <<received, queue>>
        /\ lost' = lost \/ lost' = lost \cup (hand \ Durable')
    BY <1>2 DEF FeedFull, FeedFullUnspooled, Forget
  <2>4. Queued' = Queued
    BY <2>3 DEF Queued
  <2>5. Memory' = Memory \ hand
    BY <1>0, <2>3, <2>4 DEF Memory, PlaceInv, OneHolder
  <2>6. Flow
    BY <1>0, <2>2, <2>3 DEF Flow, Durable, Memory
  <2>7. OneHolder'
    BY <1>0, <2>3, <2>4 DEF PlaceInv, OneHolder
  <2>8. QED
    BY <1>0, <2>3, <2>5, <2>6, <2>7, PlacesKept
<1>3. CASE FeedReceive
  <2>1. /\ hand = {} /\ hand' = {received + 1} /\ received' = received + 1
        /\ UNCHANGED <<queue, spool, lost>>
    BY <1>3 DEF FeedReceive, IInv, FeedInv
  <2>2. Queued' = Queued /\ Durable' = Durable
    BY <1>0, <2>1 DEF Queued, Durable, Spooled
  <2>3. Memory' = Memory \cup {received + 1} /\ received + 1 \notin Memory
    BY <1>0, <2>1, <2>2 DEF Memory, PlaceInv, NoneAhead
  <2>4. Flow
    BY <1>0, <2>1, <2>2 DEF Flow, Durable
  <2>5. OneHolder'
    BY <1>0, <2>1, <2>2, <2>3 DEF PlaceInv, OneHolder, Memory
  <2>6. received + 1 \in 1..received' \ 1..received
    BY <1>0, <2>1
  <2>7. QED
    BY <1>0, <2>1, <2>3, <2>4, <2>5, <2>6, PlacesKept
<1>4. CASE FeedFail \/ FeedReject \/ FeedDisconnect \/ FeedDie
  <2>1. UNCHANGED <<hand, received, queue, spool, lost>>
    BY <1>4 DEF FeedFail, FeedReject, FeedDisconnect, FeedDie
  <2>2. QED
    BY <1>0, <2>1 DEF Flow, PlaceInv, OneHolder, NoneAhead, LostForGood, Memory,
       Queued, Durable, Spooled, Landed
<1>5. QED
  BY <1>1, <1>2, <1>3, <1>4 DEF FeedStep, FeedCallback

(* The writer takes ticks from the queue to its list and from there to the *)
(* spool; it puts only what is in the spool and unlinks what has landed.   *)
LEMMA PlacesByWriter ==
  ASSUME TypeOK, IInv, PlaceInv, WriterStep
  PROVE  Flow /\ PlaceInv'
<1>0. UNCHANGED <<hand, received, pending>> /\ received \in Nat
  BY WriterFrame DEF TypeOK
<1>1. CASE WPut \/ WPutFail
  <2>1. /\ UNCHANGED <<queue, records, spool, lost>>
        /\ s3 \subseteq s3' /\ s3' \subseteq s3 \cup uploads
    BY <1>1 DEF WPut, WPutFail
  <2>2. uploads \subseteq spool
    BY DEF IInv, WriterInv
  <2>3. /\ Landed \subseteq Landed' /\ Landed' \subseteq Durable
        /\ Spooled' = Spooled
    BY <2>1, <2>2 DEF Landed, Durable, Spooled
  <2>4. Durable' = Durable
    BY <2>3 DEF Durable
  <2>5. QED
    BY <1>0, <2>1, <2>3, <2>4 DEF Flow, PlaceInv, OneHolder, NoneAhead,
       LostForGood, Memory, Queued
<1>2. CASE WUnlink
  <2>1. /\ UNCHANGED <<queue, records, s3, lost>>
        /\ spool' = spool \ current /\ current \subseteq s3
    BY <1>2 DEF WUnlink, Committed, IInv, WriterInv
  <2>2. Landed' = Landed /\ Durable' = Durable
    BY <2>1 DEF Landed, Durable, Spooled
  <2>3. QED
    BY <1>0, <2>1, <2>2 DEF Flow, PlaceInv, OneHolder, NoneAhead, LostForGood,
       Memory, Queued, Durable
<1>3. CASE WGet \/ WDrain
  <2>1. /\ queue # <<>> /\ queue' = Tail(queue)
        /\ records' = records \cup {Head(queue)} /\ UNCHANGED <<spool, s3, lost>>
    BY <1>3 DEF WGet, WDrain
  <2>2. /\ Head(queue) \in Queued /\ Queued' = Queued \ {Head(queue)}
        /\ \A i, k \in DOMAIN queue' : queue'[i] = queue'[k] => i = k
    BY <2>1, QueueTakeOnce DEF PlaceInv
  <2>3. Landed' = Landed /\ Durable' = Durable /\ Memory' = Memory
    BY <1>0, <2>1, <2>2 DEF Landed, Durable, Spooled, Memory
  <2>4. OneHolder'
    BY <1>0, <2>1, <2>2 DEF PlaceInv, OneHolder
  <2>5. QED
    BY <1>0, <2>1, <2>3, <2>4 DEF Flow, PlaceInv, NoneAhead, LostForGood,
       Durable
<1>4. CASE WSpool \/ WSpoolFail \/ WRescue \/ WRescueFail
  <2>1. PICK m \in minutes, visible \in BOOLEAN :
               SpoolGroup(Group(records, m), m, visible)
    BY <1>4 DEF WSpool, WSpoolFail, WRescue, WRescueFail
  <2>2. s3' = s3 /\ queue' = queue
    BY <1>4 DEF WSpool, WSpoolFail, WRescue, WRescueFail
  <2>3. /\ Landed' = Landed /\ Durable \subseteq Durable'
        /\ Durable' \subseteq Durable \cup records
    BY <2>1, <2>2, SpoolGroupOnly DEF Group
  <2>4. Queued' = Queued
    BY <2>2 DEF Queued
  <2>5. \/ records' = records /\ lost' = lost
        \/ records' = {} /\ lost' = lost
        \/ records' = {} /\ lost' = lost \cup (records \ Durable')
    BY <1>4 DEF WSpool, WSpoolFail, WRescue, WRescueFail, StillHeld, Forget
  <2>6. Flow
    BY <2>3, <2>5 DEF Flow, Durable, Memory
  <2>7. OneHolder'
    BY <1>0, <2>2, <2>4, <2>5 DEF PlaceInv, OneHolder
  <2>8. /\ Memory' \subseteq Memory
        /\ (lost' \ lost) \cap (Memory' \cup Durable') = {}
    BY <1>0, <2>4, <2>5 DEF Memory, PlaceInv, OneHolder
  <2>9. QED
    BY <1>0, <2>6, <2>7, <2>8, PlacesKept
<1>5. CASE \/ WList \/ WUnlinkFail \/ WReady \/ WFlushed \/ WFinalFlushed
           \/ WEnd \/ WFlush \/ WFinish \/ WDrained
  <2>1. UNCHANGED <<spool, s3, lost, queue, records>>
    BY <1>5 DEF WList, WUnlinkFail, WriterFails, WReady, WFlushed,
                WFinalFlushed, WEnd, WFlush, WFinish, WDrained
  <2>2. QED
    BY <1>0, <2>1 DEF Flow, PlaceInv, OneHolder, NoneAhead, LostForGood, Memory,
       Queued, Durable, Spooled, Landed
<1>6. QED
  BY <1>1, <1>2, <1>3, <1>4, <1>5 DEF WriterStep

(* At the end of a process the memory is forgotten, and recorded as lost   *)
(* as far as it is on no disk.                                             *)
LEMMA PlacesByTerminate ==
  ASSUME TypeOK, PlaceInv, NEW how, Terminate(how)
  PROVE  PlaceInv' /\ UNCHANGED <<received, Durable, Landed, Spooled>>
<1>1. /\ UNCHANGED <<received, spool, s3>> /\ lost' = lost \cup (Memory \ Durable')
      /\ hand' = {} /\ records' = {} /\ pending' = {} /\ queue' = <<>>
  BY DEF Terminate, Forget
<1>2. UNCHANGED <<Durable, Landed, Spooled>>
  BY <1>1 DEF Durable, Landed, Spooled
<1>3. Queued' = {} /\ Memory' = {}
  BY <1>1 DEF Queued, Memory
<1>4. OneHolder'
  BY <1>1, <1>3 DEF OneHolder
<1>5. NoneAhead' /\ LostForGood'
  BY <1>1, <1>2, <1>3 DEF PlaceInv, NoneAhead, LostForGood
<1>6. QED
  BY <1>1, <1>2, <1>4, <1>5 DEF PlaceInv

(* While it runs, main only moves what preserve_queued finds to the spool. *)
LEMMA PlacesByMain ==
  ASSUME TypeOK, IInv, PlaceInv, MainStep
  PROVE  PlaceInv' /\ (Flow \/ \E how \in {"early", "failed", "clean"} : Terminate(how))
<1>1. CASE \E how \in {"early", "failed", "clean"} : Terminate(how)
  BY <1>1, PlacesByTerminate
<1>2. CASE /\ UNCHANGED <<hand, received, records, s3>>
           /\ spool \subseteq spool'
  <2>0. UNCHANGED <<hand, received, records, s3>> /\ received \in Nat
    BY <1>2 DEF TypeOK
  <2>1. CASE MDrain
    <3>1. /\ queue # <<>> /\ queue' = Tail(queue)
          /\ pending' = pending \cup {Head(queue)} /\ UNCHANGED <<spool, lost>>
      BY <2>1 DEF MDrain
    <3>2. /\ Head(queue) \in Queued /\ Queued' = Queued \ {Head(queue)}
          /\ \A i, k \in DOMAIN queue' : queue'[i] = queue'[k] => i = k
      BY <3>1, QueueTakeOnce DEF PlaceInv
    <3>3. Landed' = Landed /\ Durable' = Durable /\ Memory' = Memory
      BY <2>0, <3>1, <3>2 DEF Landed, Durable, Spooled, Memory
    <3>4. OneHolder'
      BY <2>0, <3>1, <3>2 DEF PlaceInv, OneHolder
    <3>5. QED
      BY <2>0, <3>1, <3>3, <3>4 DEF Flow, PlaceInv, NoneAhead, LostForGood,
         Durable
  <2>2. CASE MRespool \/ MRespoolFail
    <3>1. PICK m \in MinutesOf(pending), visible \in BOOLEAN :
                 SpoolGroup(Group(pending, m), m, visible)
      BY <2>2 DEF MRespool, MRespoolFail
    <3>2. queue' = queue
      BY <2>2 DEF MRespool, MRespoolFail
    <3>3. /\ Landed' = Landed /\ Durable \subseteq Durable'
          /\ Durable' \subseteq Durable \cup pending
      BY <2>0, <3>1, SpoolGroupOnly DEF Group
    <3>4. Queued' = Queued
      BY <3>2 DEF Queued
    <3>5. \/ pending' \subseteq pending /\ lost' = lost
          \/ pending' = {} /\ lost' = lost \cup (pending \ Durable')
      BY <2>2 DEF MRespool, MRespoolFail, Forget
    <3>6. Flow
      BY <3>3, <3>5 DEF Flow, Durable, Memory
    <3>7. OneHolder'
      BY <2>0, <3>2, <3>4, <3>5 DEF PlaceInv, OneHolder
    <3>8. /\ Memory' \subseteq Memory
          /\ (lost' \ lost) \cap (Memory' \cup Durable') = {}
      BY <2>0, <3>4, <3>5 DEF Memory, PlaceInv, OneHolder
    <3>9. QED
      BY <2>0, <3>6, <3>7, <3>8, PlacesKept
  <2>3. CASE UNCHANGED <<queue, pending, lost>> /\ ~MRespool /\ ~MRespoolFail
    <3>1. spool' = spool \/ \E how \in {"early", "failed", "clean"} : Terminate(how)
      BY <2>3 DEF MainStep, MStartFail, MEarlyExit, MExit, MStartStop,
                  MStartServe, MConnect, MLoopEnd, MPreflightOk,
                  MPreflightFatal, MPreflightRetry, MPreflightBroken,
                  MPollStop, MPollDropped, MPollWriterError, MRecoverFatal,
                  MRecover, MCleanup, MCleanupUnsafe, MFinal, MJoin, MDrain,
                  MDrained, ExitCode
    <3>2. CASE spool' = spool
      BY <2>0, <2>3, <3>2 DEF Flow, PlaceInv, OneHolder, NoneAhead,
         LostForGood, Memory, Queued, Durable, Spooled, Landed
    <3>3. QED
      BY <1>1, <3>1, <3>2
  <2>4. QED
    BY <1>1, <2>1, <2>2, <2>3, MainOutside
<1>3. QED
  BY <1>1, <1>2, MainFrame

(* At every moment a tick that was accepted is held by one of the threads, *)
(* the queue or preserve_queued alone, or durable, or lost, and a tick     *)
(* that was lost does not come back: no hand-over leaves a copy behind.    *)
THEOREM HeldOnce == Spec => []PlaceInv
<1>1. Init => PlaceInv
  BY DEF Init, PlaceInv, OneHolder, NoneAhead, LostForGood, Memory, Queued,
         Durable, Spooled, Landed
<1>2. ASSUME TypeOK, IInv, PlaceInv, [Next]_vars
      PROVE  PlaceInv'
  <2>1. CASE FeedStep
    BY <1>2, <2>1, PlacesByFeed
  <2>2. CASE WriterStep
    BY <1>2, <2>2, PlacesByWriter
  <2>3. CASE MainStep
    BY <1>2, <2>3, PlacesByMain
  <2>4. CASE Crash
    BY <1>2, <2>4, PlacesByTerminate DEF Crash
  <2>5. CASE Signal \/ Restart \/ UNCHANGED vars
    <3>1. UNCHANGED <<received, hand, records, pending, queue, spool, s3, lost>>
      BY <2>5 DEF Signal, Restart
    <3>2. QED
      BY <1>2, <3>1 DEF PlaceInv, OneHolder, NoneAhead, LostForGood, Memory,
         Queued, Durable, Spooled, Landed
  <2>6. QED
    BY <1>2, <2>1, <2>2, <2>3, <2>4, <2>5 DEF Next
<1>3. QED
  BY <1>1, <1>2, TypeCorrect, Invariance, PTL DEF Spec

(* No upload, unlink, crash or restart takes away a tick that the disk or  *)
(* the bucket holds, a tick that has landed stays in the bucket, and what  *)
(* was lost stays lost: a file is unlinked only once its batch has landed. *)
THEOREM DurableForGood ==
  Spec => [][/\ Durable \subseteq Durable'
             /\ Landed \subseteq Landed'
             /\ lost \subseteq lost']_vars
<1>1. ASSUME TypeOK, IInv, PlaceInv, [Next]_vars
      PROVE  /\ Durable \subseteq Durable'
             /\ Landed \subseteq Landed'
             /\ lost \subseteq lost'
  <2>1. CASE FeedStep \/ WriterStep
    BY <1>1, <2>1, PlacesByFeed, PlacesByWriter DEF Flow
  <2>2. ASSUME NEW how, Terminate(how)
        PROVE  UNCHANGED <<Durable, Landed>> /\ lost \subseteq lost'
    BY <1>1, <2>2, PlacesByTerminate DEF Terminate, Forget
  <2>3. CASE MainStep
    BY <1>1, <2>2, <2>3, PlacesByMain DEF Flow
  <2>4. CASE Crash
    BY <2>2, <2>4 DEF Crash
  <2>5. CASE Signal \/ Restart \/ UNCHANGED vars
    <3>1. UNCHANGED <<spool, s3, lost>>
      BY <2>5 DEF Signal, Restart
    <3>2. QED
      BY <3>1 DEF Durable, Spooled, Landed
  <2>6. QED
    BY <1>1, <2>1, <2>3, <2>4, <2>5 DEF Next
<1>2. QED
  BY <1>1, TypeCorrect, Invariance, HeldOnce, PTL DEF Spec

-----------------------------------------------------------------------------
(* The collector implements TickLanding. *)

(* A tick is lost in a running process only by a step whose spool write    *)
(* raises.                                                                 *)
LEMMA LossHasCause ==
  ASSUME FeedStep \/ WriterStep \/ MainStep
  PROVE  \/ proc = "running" /\ proc' # "running"
         \/ fault' = "now"
         \/ fault' = fault /\ lost' = lost
<1>1. CASE FeedStep
  BY <1>1 DEF FeedStep, FeedCallback, FeedEnqueue, FeedFull,
              FeedFullUnspooled, FeedFail, FeedReceive, FeedReject,
              FeedDisconnect, FeedDie
<1>2. CASE WriterStep
  BY <1>2 DEF WriterStep, WList, WPut, WPutFail, WUnlink, WUnlinkFail, WReady,
              WFlushed, WFinalFlushed, WEnd, WGet, WFlush, WFinish, WSpool,
              WSpoolFail, WDrain, WDrained, WRescue, WRescueFail, WriterFails
<1>3. CASE MainStep
  BY <1>3 DEF MainStep, MStartFail, MEarlyExit, MExit, MStartStop,
              MStartServe, MConnect, MLoopEnd, MPreflightOk, MPreflightFatal,
              MPreflightRetry, MPreflightBroken, MPollStop, MPollDropped,
              MPollWriterError, MRecoverFatal, MRecover, MCleanup,
              MCleanupUnsafe, MFinal, MJoin, MDrain, MDrained, MRespool,
              MRespoolFail, Terminate, ExitCode
<1>4. QED
  BY <1>1, <1>2, <1>3

(* The five places of a tick. *)
LEMMA PlaceIs ==
  ASSUME NEW t
  PROVE  /\ t \in Landed => PlaceOf(t) = "landed"
         /\ t \in Spooled /\ t \notin Landed => PlaceOf(t) = "spooled"
         /\ t \notin Durable /\ t \in lost => PlaceOf(t) = "lost"
         /\ t \notin Durable \cup lost /\ t \in Memory => PlaceOf(t) = "memory"
         /\ t \notin Durable \cup lost \cup Memory => PlaceOf(t) = "new"
BY DEF PlaceOf, Durable

(* ... and after a step. *)
LEMMA PlaceIsNext ==
  ASSUME NEW t
  PROVE  /\ t \in Landed' => PlaceOf(t)' = "landed"
         /\ t \in Spooled' /\ t \notin Landed' => PlaceOf(t)' = "spooled"
         /\ t \notin Durable' /\ t \in lost' => PlaceOf(t)' = "lost"
         /\ t \notin Durable' \cup lost' /\ t \in Memory' => PlaceOf(t)' = "memory"
         /\ t \notin Durable' \cup lost' \cup Memory' => PlaceOf(t)' = "new"
BY DEF PlaceOf, Durable

(* A step that follows the flow moves a tick forward or not at all.        *)
LEMMA FlowIsForward ==
  ASSUME PlaceInv, Flow, Kept \subseteq Kept', NEW t \in Ticks
  PROVE  /\ Landing!Forward(PlaceOf(t), PlaceOf(t)')
         /\ PlaceOf(t)' \in {"new", "memory", "spooled", "landed", "lost"}
         /\ PlaceOf(t) # "lost" /\ PlaceOf(t)' = "lost" => lost' # lost
<1>1. CASE t \in Landed
  <2>1. PlaceOf(t) = "landed" /\ PlaceOf(t)' = "landed"
    BY <1>1, PlaceIs, PlaceIsNext DEF Flow
  <2>2. QED
    BY <2>1 DEF Landing!Forward
<1>2. CASE t \in Spooled \ Landed
  <2>1. PlaceOf(t) = "spooled" /\ t \in Durable'
    BY <1>2, PlaceIs DEF Flow, Durable
  <2>2. PlaceOf(t)' \in {"spooled", "landed"}
    BY <2>1, PlaceIsNext DEF Durable
  <2>3. QED
    BY <2>1, <2>2 DEF Landing!Forward
<1>3. CASE t \in lost
  <2>1. t \notin Durable /\ t \in lost' /\ t \notin Durable'
    BY <1>3 DEF PlaceInv, LostForGood, Flow
  <2>2. PlaceOf(t) = "lost" /\ PlaceOf(t)' = "lost"
    BY <1>3, <2>1, PlaceIs, PlaceIsNext
  <2>3. QED
    BY <2>2 DEF Landing!Forward
<1>4. CASE t \in Memory \ (Durable \cup lost)
  <2>1. PlaceOf(t) = "memory" /\ t \in Kept' /\ t \notin Landed'
    BY <1>4, PlaceIs DEF Kept, Flow, Durable
  <2>2. PlaceOf(t)' \in {"spooled", "lost", "memory"}
    BY <2>1, PlaceIsNext DEF Kept, Durable
  <2>3. PlaceOf(t)' = "lost" => t \in lost'
    BY <2>1, PlaceIsNext DEF Kept, Durable
  <2>4. QED
    BY <1>4, <2>1, <2>2, <2>3 DEF Landing!Forward
<1>5. CASE t \notin Durable \cup lost \cup Memory
  <2>1. PlaceOf(t) = "new" /\ t \notin Durable' \cup lost'
    BY <1>5, PlaceIs DEF Flow
  <2>2. PlaceOf(t)' \in {"new", "memory"}
    BY <2>1, PlaceIsNext
  <2>3. QED
    BY <2>1, <2>2 DEF Landing!Forward
<1>6. QED
  BY <1>1, <1>2, <1>3, <1>4, <1>5 DEF Durable

(* A step of a thread that does not end the process is progress.           *)
LEMMA ThreadStepProgresses ==
  ASSUME TypeOK, PlaceInv, Flow, Kept \subseteq Kept',
         proc = "running", proc' = proc,
         fault' = "now" \/ (fault' = fault /\ lost' = lost)
  PROVE  Landing!Next
<1>1. /\ [t \in Ticks |-> PlaceOf(t)]'
             \in [Ticks -> {"new", "memory", "spooled", "landed", "lost"}]
      /\ \A t \in Ticks : Landing!Forward([u \in Ticks |-> PlaceOf(u)][t],
                                          [u \in Ticks |-> PlaceOf(u)]'[t])
  BY FlowIsForward
<1>2. ASSUME NEW t \in Ticks, [u \in Ticks |-> PlaceOf(u)][t] # "lost",
             [u \in Ticks |-> PlaceOf(u)]'[t] = "lost"
      PROVE  fault' = "now"
  BY <1>2, FlowIsForward
<1>3. fault' \in {fault, "now"}
  OBVIOUS
<1>4. QED
  BY <1>1, <1>2, <1>3 DEF Landing!Next, Landing!Progress

(* The end of a process that has just forgotten its memory is an unclean   *)
(* stop, whatever it reports short of a clean end.                         *)
LEMMA UncleanEnd ==
  ASSUME TypeOK, PlaceInv, proc = "running",
         NEW how \in {"crashed", "early", "failed"}, Terminate(how)
  PROVE  Landing!Next
<1>1. /\ UNCHANGED <<fault, Durable, Landed, Spooled>> /\ proc' = how
      /\ lost' = lost \cup (Memory \ Durable')
  BY PlacesByTerminate DEF Terminate, Forget
<1>2. Memory' = {}
  BY DEF Terminate, Memory, Queued
<1>3. ASSUME NEW t \in Ticks
      PROVE  PlaceOf(t)' = IF PlaceOf(t) = "memory" THEN "lost" ELSE PlaceOf(t)
  <2>1. CASE t \in Landed
    BY <1>1, <2>1, PlaceIs, PlaceIsNext
  <2>2. CASE t \in Spooled \ Landed
    BY <1>1, <2>2, PlaceIs, PlaceIsNext
  <2>3. CASE t \in lost \ Durable
    BY <1>1, <2>3, PlaceIs, PlaceIsNext
  <2>4. CASE t \in Memory \ (Durable \cup lost)
    BY <1>1, <2>4, PlaceIs, PlaceIsNext
  <2>5. CASE t \notin Durable \cup lost \cup Memory
    BY <1>1, <1>2, <2>5, PlaceIs, PlaceIsNext
  <2>6. QED
    BY <2>1, <2>2, <2>3, <2>4, <2>5 DEF Durable
<1>4. [t \in Ticks |-> PlaceOf(t)]' =
        [t \in Ticks |-> IF [u \in Ticks |-> PlaceOf(u)][t] = "memory" THEN "lost"
                         ELSE [u \in Ticks |-> PlaceOf(u)][t]]
  BY <1>3
<1>5. Landing!StopUnclean
  BY <1>1, <1>4 DEF Landing!StopUnclean
<1>6. QED
  BY <1>5 DEF Landing!Next

(* A clean end finds no tick in memory and none in the spool.              *)
LEMMA CleanEnd ==
  ASSUME TypeOK, PlaceInv, proc = "running", Terminate("clean"),
         spool' = {}, Memory = {}, fault # "now"
  PROVE  Landing!Next
<1>1. /\ UNCHANGED <<fault, Durable, Landed, Spooled>> /\ proc' = "clean"
      /\ lost' = lost /\ Spooled = {}
  BY PlacesByTerminate DEF Terminate, Forget, Spooled
<1>2. Memory' = {}
  BY DEF Terminate, Memory, Queued
<1>3. ASSUME NEW t \in Ticks
      PROVE  /\ PlaceOf(t) \in {"new", "landed", "lost"}
             /\ PlaceOf(t)' = PlaceOf(t)
  <2>1. CASE t \in Landed
    BY <1>1, <2>1, PlaceIs, PlaceIsNext
  <2>2. CASE t \in lost \ Durable
    BY <1>1, <2>2, PlaceIs, PlaceIsNext
  <2>3. CASE t \notin Durable \cup lost
    BY <1>1, <1>2, <2>3, PlaceIs, PlaceIsNext
  <2>4. QED
    BY <1>1, <2>1, <2>2, <2>3 DEF Durable
<1>4. [t \in Ticks |-> PlaceOf(t)]' = [t \in Ticks |-> PlaceOf(t)]
  BY <1>3
<1>5. Landing!StopClean
  BY <1>1, <1>3, <1>4 DEF Landing!StopClean
<1>6. QED
  BY <1>5 DEF Landing!Next

(* The threads run in a running process only.                              *)
LEMMA OnlyRunning ==
  ASSUME FeedStep \/ WriterStep \/ MainStep
  PROVE  proc = "running"
<1>1. CASE FeedStep
  BY <1>1 DEF FeedStep, FeedCallback, FeedEnqueue, FeedFull,
              FeedFullUnspooled, FeedFail, FeedReceive, FeedReject,
              FeedDisconnect, FeedDie
<1>2. CASE WriterStep
  BY <1>2 DEF WriterStep, WList, WPut, WPutFail, WUnlink, WUnlinkFail, WReady,
              WFlushed, WFinalFlushed, WEnd, WGet, WFlush, WFinish, WSpool,
              WSpoolFail, WDrain, WDrained, WRescue, WRescueFail
<1>3. CASE MainStep
  BY <1>3 DEF MainStep, MStartFail, MEarlyExit, MExit, MStartStop,
              MStartServe, MConnect, MLoopEnd, MPreflightOk, MPreflightFatal,
              MPreflightRetry, MPreflightBroken, MPollStop, MPollDropped,
              MPollWriterError, MRecoverFatal, MRecover, MCleanup,
              MCleanupUnsafe, MFinal, MJoin, MDrain, MDrained, MRespool,
              MRespoolFail
<1>4. QED
  BY <1>1, <1>2, <1>3

(* Every step of the system is a step of TickLanding or a stutter.         *)
LEMMA StepLands ==
  ASSUME TypeOK, IInv, PlaceInv, CleanExitStep, [Next]_vars
  PROVE  [Landing!Next]_(Landing!vars)
<1>1. ASSUME proc = "running", proc' # "running"
      PROVE  Landing!Next
  <2>1. PICK how \in {"crashed", "early", "failed", "clean"} : Terminate(how)
    BY <1>1, RunEnds DEF MStartFail, MEarlyExit, MExit, ExitCode, Crash
  <2>2. CASE how = "clean"
    <3>1. spool' = {} /\ Memory = {} /\ fault # "now"
      BY <1>1, <2>1, <2>2 DEF CleanExitStep, Terminate
    <3>2. QED
      BY <1>1, <2>1, <2>2, <3>1, CleanEnd
  <2>3. CASE how # "clean"
    BY <1>1, <2>1, <2>3, UncleanEnd
  <2>4. QED
    BY <2>2, <2>3
<1>2. ASSUME FeedStep \/ WriterStep \/ MainStep, proc' = "running"
      PROVE  Landing!Next
  <2>1. proc = "running"
    BY <1>2, OnlyRunning
  <2>2. Kept \subseteq Kept'
    BY <1>2, KeptByFeed, KeptByWriter, KeptByMain
  <2>3. Flow
    BY <1>2, PlacesByFeed, PlacesByWriter, PlacesByMain DEF Terminate
  <2>4. fault' = "now" \/ (fault' = fault /\ lost' = lost)
    BY <1>2, LossHasCause
  <2>5. QED
    BY <1>2, <2>1, <2>2, <2>3, <2>4, ThreadStepProgresses
<1>3. CASE Restart
  <2>1. /\ proc # "running" /\ proc' = "running"
        /\ fault' = IF fault = "never" THEN "never" ELSE "earlier"
        /\ UNCHANGED <<hand, queue, records, pending, spool, s3, lost>>
    BY <1>3 DEF Restart
  <2>2. UNCHANGED <<Durable, Landed, Spooled, Memory, lost>>
    BY <2>1 DEF Durable, Landed, Spooled, Memory, Queued
  <2>3. \A t \in Ticks : PlaceOf(t)' = PlaceOf(t)
    BY <2>2 DEF PlaceOf
  <2>4. [t \in Ticks |-> PlaceOf(t)]' = [t \in Ticks |-> PlaceOf(t)]
    BY <2>3
  <2>5. Landing!Restart
    BY <2>1, <2>4 DEF Landing!Restart
  <2>6. QED
    BY <2>5 DEF Landing!Next
<1>4. CASE Signal \/ UNCHANGED vars
  <2>1. UNCHANGED <<proc, fault, hand, queue, records, pending, spool, s3, lost>>
    BY <1>4 DEF Signal
  <2>2. UNCHANGED <<Durable, Landed, Spooled, Memory, lost>>
    BY <2>1 DEF Durable, Landed, Spooled, Memory, Queued
  <2>3. \A t \in Ticks : PlaceOf(t)' = PlaceOf(t)
    BY <2>2 DEF PlaceOf
  <2>4. [t \in Ticks |-> PlaceOf(t)]' = [t \in Ticks |-> PlaceOf(t)]
    BY <2>3
  <2>5. QED
    BY <2>1, <2>4 DEF Landing!vars
<1>5. CASE Crash
  BY <1>1, <1>5 DEF Crash, Terminate
<1>6. QED
  BY <1>1, <1>2, <1>3, <1>4, <1>5, OnlyRunning DEF Next

(* The collector implements TickLanding: whatever the interleaving of its  *)
(* threads, the crashes and the errors of the store, a tick only moves     *)
(* forward, is lost only with its cause, and a clean end has landed it.    *)
THEOREM LandingImplemented == Spec => ImplementsLanding
<1>1. Init => Landing!Init
  <2> SUFFICES ASSUME Init
               PROVE  Landing!Init
    OBVIOUS
  <2>1. Durable = {} /\ lost = {} /\ Memory = {}
    BY DEF Init, Durable, Spooled, Landed, Memory, Queued
  <2>2. \A t \in Ticks : PlaceOf(t) = "new"
    BY <2>1, PlaceIs
  <2>3. QED
    BY <2>2 DEF Init, Landing!Init
<1>2. TypeOK /\ IInv /\ PlaceInv /\ [CleanExitStep]_vars /\ [Next]_vars
        => [Landing!Next]_(Landing!vars)
  <2> SUFFICES ASSUME TypeOK, IInv, PlaceInv, [CleanExitStep]_vars, [Next]_vars
               PROVE  [Landing!Next]_(Landing!vars)
    OBVIOUS
  <2>1. CleanExitStep
    BY DEF CleanExitStep
  <2>2. QED
    BY <2>1, StepLands
<1>3. QED
  BY <1>1, <1>2, TypeCorrect, Invariance, HeldOnce, CleanExit, PTL
  DEF Spec, ImplementsLanding, Landing!Spec, CleanExitCommitsAll

-----------------------------------------------------------------------------
(* A tick is written once. *)

Distinct(B) == \A b, c \in B : b # c => b.recs \cap c.recs = {}

(* As long as every spool write has returned, what is still in memory has  *)
(* no durable copy, except for the part of the writer's list whose minutes *)
(* it has spooled in the flush that it is in.                              *)
OnceInv ==
  fault = "never" =>
    /\ Distinct(spool \cup s3)
    /\ Durable \cap (hand \cup Queued \cup pending) = {}
    /\ \A t \in records \cap Durable :
         wpc \in {"spool", "rescue"} /\ MinuteOf[t] \notin minutes

(* A group with no durable tick is spooled as a batch of its own.          *)
LEMMA SpoolOnce ==
  ASSUME NEW S, NEW m, SpoolGroup(S, m, TRUE), s3' = s3,
         Distinct(spool \cup s3), S \cap Durable = {}
  PROVE  Distinct(spool' \cup s3')
<1>1. /\ spool' \cup s3' = spool \cup s3 \cup {NewBatch(S, m)}
      /\ NewBatch(S, m).recs = S
  BY DEF SpoolGroup, NewBatch
<1>2. \A b \in spool \cup s3 : b.recs \cap S = {}
  BY DEF Durable, Spooled, Landed
<1>3. QED
  BY <1>1, <1>2 DEF Distinct

(* The feed thread spools what has never been spooled.                     *)
LEMMA OnceByFeed ==
  ASSUME TypeOK, IInv, PlaceInv, OnceInv, FeedStep
  PROVE  OnceInv'
<1>0. UNCHANGED <<records, pending, s3, wpc, minutes>>
  BY FeedFrame
<1>1. CASE FeedEnqueue
  <2>1. PICK t \in hand : queue' = Append(queue, t)
    BY <1>1 DEF FeedEnqueue
  <2>2. /\ hand = {t} /\ t \in Ticks /\ t \notin Queued
        /\ hand' = {} /\ UNCHANGED <<spool, fault>>
    BY <1>1, <2>1 DEF FeedEnqueue, IInv, FeedInv, PlaceInv, OneHolder
  <2>3. Queued' = Queued \cup {t}
    BY <2>1, <2>2, QueuePutOnce DEF PlaceInv
  <2>4. Durable' = Durable
    BY <1>0, <2>2 DEF Durable, Spooled, Landed
  <2>5. QED
    BY <1>0, <2>2, <2>3, <2>4 DEF OnceInv
<1>2. CASE FeedFull
  <2>1. PICK t \in hand : SpoolGroup(hand, MinuteOf[t], TRUE)
    BY <1>2 DEF FeedFull
  <2>2. Durable' \subseteq Durable \cup hand
    BY <1>0, <2>1, SpoolGroupOnly
  <2>3. hand' = {} /\ Queued' = Queued /\ fault' = fault
    BY <1>2 DEF FeedFull, Queued
  <2>4. ASSUME fault = "never"
        PROVE  Distinct(spool' \cup s3')
    BY <1>0, <2>1, <2>4, SpoolOnce DEF OnceInv
  <2>5. hand \cap (Queued \cup records \cup pending) = {}
    BY DEF PlaceInv, OneHolder
  <2>6. QED
    BY <1>0, <2>2, <2>3, <2>4, <2>5 DEF OnceInv
<1>3. CASE FeedFullUnspooled
  BY <1>3 DEF FeedFullUnspooled, OnceInv
<1>4. CASE FeedReceive
  <2>1. hand' = {received + 1} /\ UNCHANGED <<queue, spool, fault>>
    BY <1>4 DEF FeedReceive
  <2>2. Queued' = Queued /\ Durable' = Durable
    BY <1>0, <2>1 DEF Queued, Durable, Spooled, Landed
  <2>3. received + 1 \notin Durable
    BY DEF PlaceInv, NoneAhead, TypeOK
  <2>4. QED
    BY <1>0, <2>1, <2>2, <2>3 DEF OnceInv
<1>5. CASE FeedFail \/ FeedReject \/ FeedDisconnect \/ FeedDie
  <2>1. UNCHANGED <<hand, queue, spool, fault>>
    BY <1>5 DEF FeedFail, FeedReject, FeedDisconnect, FeedDie
  <2>2. QED
    BY <1>0, <2>1 DEF OnceInv, Queued, Durable, Spooled, Landed
<1>6. QED
  BY <1>1, <1>2, <1>3, <1>4, <1>5 DEF FeedStep, FeedCallback

(* The writer spools each minute of its list once, clears the list before  *)
(* the first upload, and uploads only what is in the spool.                *)
LEMMA OnceByWriter ==
  ASSUME TypeOK, IInv, PlaceInv, OnceInv, WriterStep
  PROVE  OnceInv'
<1>0. UNCHANGED <<hand, pending>>
  BY WriterFrame
<1>1. CASE WPut \/ WPutFail
  <2>1. /\ UNCHANGED <<queue, records, spool, fault>> /\ wpc = "put"
        /\ s3 \subseteq s3' /\ s3' \subseteq s3 \cup uploads
    BY <1>1 DEF WPut, WPutFail
  <2>2. uploads \subseteq spool /\ records = {}
    BY <2>1 DEF IInv, WriterInv
  <2>3. spool' \cup s3' = spool \cup s3
    BY <2>1, <2>2
  <2>4. Durable' = Durable /\ Queued' = Queued
    BY <2>1, <2>2 DEF Durable, Spooled, Landed, Queued
  <2>5. QED
    BY <1>0, <2>1, <2>2, <2>3, <2>4 DEF OnceInv
<1>2. CASE WUnlink
  <2>1. /\ UNCHANGED <<queue, records, s3, fault>> /\ wpc = "unlink"
        /\ spool' = spool \ current /\ current \subseteq s3
    BY <1>2 DEF WUnlink, Committed, IInv, WriterInv
  <2>2. records = {}
    BY <2>1 DEF IInv, WriterInv
  <2>3. spool' \cup s3' = spool \cup s3
    BY <2>1
  <2>4. Durable' = Durable /\ Queued' = Queued
    BY <2>1 DEF Durable, Spooled, Landed, Queued
  <2>5. QED
    BY <1>0, <2>1, <2>2, <2>3, <2>4 DEF OnceInv
<1>3. CASE WGet \/ WDrain
  <2>1. /\ queue # <<>> /\ queue' = Tail(queue) /\ wpc \in {"loop", "drain"}
        /\ records' = records \cup {Head(queue)}
        /\ UNCHANGED <<spool, s3, fault, wpc, minutes>>
    BY <1>3 DEF WGet, WDrain
  <2>2. Head(queue) \in Queued /\ Queued' = Queued \ {Head(queue)}
    BY <2>1, QueueTakeOnce DEF PlaceInv
  <2>3. Durable' = Durable
    BY <2>1 DEF Durable, Spooled, Landed
  <2>4. QED
    BY <1>0, <2>1, <2>2, <2>3 DEF OnceInv
<1>4. CASE WSpool \/ WRescue
  <2>1. PICK m \in minutes :
               SpoolGroup(Group(records, m), m, TRUE) /\ minutes' = minutes \ {m}
    BY <1>4 DEF WSpool, WRescue
  <2>2. /\ UNCHANGED <<s3, queue, fault>> /\ wpc \in {"spool", "rescue"}
        /\ records' = StillHeld(minutes')
        /\ minutes' # {} => wpc' = wpc
    BY <1>4 DEF WSpool, WRescue
  <2>3. Durable' \subseteq Durable \cup Group(records, m)
    BY <2>1, <2>2, SpoolGroupOnly
  <2>4. Queued' = Queued
    BY <2>2 DEF Queued
  <2>5. ASSUME fault = "never"
        PROVE  Distinct(spool' \cup s3')
    <3>1. Group(records, m) \cap Durable = {} /\ Distinct(spool \cup s3)
      BY <2>5 DEF Group, OnceInv
    <3>2. QED
      BY <2>1, <2>2, <3>1, SpoolOnce
  <2>6. ASSUME fault = "never"
        PROVE  Durable' \cap (hand \cup Queued \cup pending) = {}
    BY <2>3, <2>6 DEF OnceInv, PlaceInv, OneHolder, Group
  <2>7. ASSUME fault = "never", NEW t \in records' \cap Durable'
        PROVE  wpc' \in {"spool", "rescue"} /\ MinuteOf[t] \notin minutes'
    <3>1. minutes' # {} /\ t \in records /\ wpc' = wpc
      BY <2>2, <2>7 DEF StillHeld
    <3>2. t \in Durable \/ MinuteOf[t] = m
      BY <2>3, <2>7 DEF Group
    <3>3. QED
      BY <2>1, <2>2, <2>7, <3>1, <3>2 DEF OnceInv
  <2>8. QED
    BY <1>0, <2>2, <2>4, <2>5, <2>6, <2>7 DEF OnceInv
<1>5. CASE WSpoolFail \/ WRescueFail
  BY <1>5 DEF WSpoolFail, WRescueFail, OnceInv
<1>6. CASE WFlush \/ WFinish \/ WDrained
  <2>1. /\ UNCHANGED <<spool, s3, queue, records, fault>>
        /\ wpc \in {"loop", "drain"}
    BY <1>6 DEF WFlush, WFinish, WDrained
  <2>2. Durable' = Durable /\ Queued' = Queued
    BY <2>1 DEF Durable, Spooled, Landed, Queued
  <2>3. QED
    BY <1>0, <2>1, <2>2 DEF OnceInv
<1>7. CASE WList \/ WUnlinkFail \/ WReady \/ WFlushed \/ WFinalFlushed \/ WEnd
  <2>1. /\ UNCHANGED <<spool, s3, queue, records, fault>>
        /\ wpc \in {"list", "put", "unlink"}
    BY <1>7 DEF WList, WUnlinkFail, WriterFails, WReady, WFlushed,
                WFinalFlushed, WEnd
  <2>2. Durable' = Durable /\ Queued' = Queued /\ records = {}
    BY <2>1 DEF Durable, Spooled, Landed, Queued, IInv, WriterInv
  <2>3. QED
    BY <1>0, <2>1, <2>2 DEF OnceInv
<1>8. QED
  BY <1>1, <1>2, <1>3, <1>4, <1>5, <1>6, <1>7 DEF WriterStep

(* The end of a process takes nothing to the disks and clears its memory.  *)
LEMMA OnceByTerminate ==
  ASSUME OnceInv, NEW how, Terminate(how)
  PROVE  OnceInv'
<1>1. /\ UNCHANGED <<spool, s3, fault>>
      /\ hand' = {} /\ records' = {} /\ pending' = {} /\ queue' = <<>>
  BY DEF Terminate
<1>2. Queued' = {}
  BY <1>1 DEF Queued
<1>3. QED
  BY <1>1, <1>2 DEF OnceInv

(* preserve_queued spools each minute of what it found in the queue once.  *)
LEMMA OnceByMain ==
  ASSUME TypeOK, IInv, PlaceInv, OnceInv, MainStep
  PROVE  OnceInv'
<1>1. CASE \E how : Terminate(how)
  BY <1>1, OnceByTerminate
<1>2. CASE UNCHANGED <<hand, records, s3, wpc, minutes>>
  <2>1. CASE MDrain
    <3>1. /\ queue # <<>> /\ queue' = Tail(queue)
          /\ pending' = pending \cup {Head(queue)} /\ UNCHANGED <<spool, fault>>
      BY <2>1 DEF MDrain
    <3>2. Head(queue) \in Queued /\ Queued' = Queued \ {Head(queue)}
      BY <3>1, QueueTakeOnce DEF PlaceInv
    <3>3. Durable' = Durable
      BY <1>2, <3>1 DEF Durable, Spooled, Landed
    <3>4. QED
      BY <1>2, <3>1, <3>2, <3>3 DEF OnceInv
  <2>2. CASE MRespool
    <3>1. PICK m \in MinutesOf(pending) :
                 /\ SpoolGroup(Group(pending, m), m, TRUE)
                 /\ pending' = pending \ Group(pending, m)
      BY <2>2 DEF MRespool
    <3>2. queue' = queue /\ fault' = fault
      BY <2>2 DEF MRespool
    <3>3. Durable' \subseteq Durable \cup Group(pending, m)
      BY <1>2, <3>1, SpoolGroupOnly
    <3>4. Queued' = Queued
      BY <3>2 DEF Queued
    <3>5. ASSUME fault = "never"
          PROVE  Distinct(spool' \cup s3')
      <4>1. Group(pending, m) \cap Durable = {} /\ Distinct(spool \cup s3)
        BY <3>5 DEF Group, OnceInv
      <4>2. QED
        BY <1>2, <3>1, <4>1, SpoolOnce
    <3>6. /\ Group(pending, m) \subseteq pending
          /\ pending \cap (hand \cup Queued \cup records) = {}
      BY DEF Group, PlaceInv, OneHolder
    <3>7. QED
      BY <1>2, <3>1, <3>2, <3>3, <3>4, <3>5, <3>6 DEF OnceInv
  <2>3. CASE MRespoolFail
    BY <2>3 DEF MRespoolFail, OnceInv
  <2>4. CASE UNCHANGED <<queue, pending, spool, fault>>
    BY <1>2, <2>4 DEF OnceInv, Queued, Durable, Spooled, Landed
  <2>5. QED
    BY <1>1, <2>1, <2>2, <2>3, <2>4
    DEF MainStep, MStartFail, MEarlyExit, MExit, MStartStop, MStartServe,
        MConnect, MLoopEnd, MPreflightOk, MPreflightFatal, MPreflightRetry,
        MPreflightBroken, MPollStop, MPollDropped, MPollWriterError,
        MRecoverFatal, MRecover, MCleanup, MCleanupUnsafe, MFinal, MJoin,
        MDrained
<1>3. QED
  BY <1>1, <1>2, MainFrame

(* Until a spool write fails no tick is in two raw objects or spool files, *)
(* whatever uploads fail, processes crash and shutdowns are cut short.     *)
THEOREM WrittenOnce == Spec => []OneRawCopy
<1>1. Init => OnceInv
  BY DEF Init, OnceInv, Distinct, Durable, Spooled, Landed
<1>2. ASSUME TypeOK, IInv, PlaceInv, OnceInv, [Next]_vars
      PROVE  OnceInv'
  <2>1. CASE FeedStep
    BY <1>2, <2>1, OnceByFeed
  <2>2. CASE WriterStep
    BY <1>2, <2>2, OnceByWriter
  <2>3. CASE MainStep
    BY <1>2, <2>3, OnceByMain
  <2>4. CASE Crash
    BY <1>2, <2>4, OnceByTerminate DEF Crash
  <2>5. CASE Signal \/ Restart \/ UNCHANGED vars
    <3>1. /\ UNCHANGED <<hand, records, pending, queue, spool, s3, wpc, minutes>>
          /\ fault' = "never" => fault = "never"
      BY <2>5 DEF Signal, Restart
    <3>2. QED
      BY <1>2, <3>1 DEF OnceInv, Queued, Durable, Spooled, Landed
  <2>6. QED
    BY <1>2, <2>1, <2>2, <2>3, <2>4, <2>5 DEF Next
<1>3. OnceInv => OneRawCopy
  BY DEF OnceInv, Distinct, OneRawCopy
<1>4. QED
  BY <1>1, <1>2, <1>3, TypeCorrect, Invariance, HeldOnce, PTL DEF Spec
=============================================================================
