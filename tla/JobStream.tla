----------------------------- MODULE JobStream -----------------------------
(***************************************************************************)
(* background_job_stream of ui/job_runtime.py: a worker thread consumes    *)
(* the generator of a job (its log lines, with the containers it runs in   *)
(* between) and hands the lines through a bounded queue to the generator   *)
(* that the web server writes to the browser.  The browser may close the   *)
(* stream at any line; the job must run to its end all the same.           *)
(*                                                                         *)
(* Lines are their numbers.  The server notices a closed connection only   *)
(* when it writes, so the stream is closed between two of its next() calls *)
(* or before the first one, never inside one.                              *)
(***************************************************************************)
EXTENDS Naturals, Sequences

CONSTANTS MaxLines,   \* bound: lines that the job prints
          QueueMax    \* maxsize of messages

ASSUME StreamAssumption ==
  /\ MaxLines \in Nat
  /\ QueueMax \in Nat \ {0}

VARIABLES
  worker,        \* where produce() is
  made,          \* lines that generate() has yielded
  messages,      \* the queue
  disconnected,  \* events ...
  finished,
  errors,        \* errors is not empty
  stream,        \* where the generator of the response is
  delivered      \* lines that it has yielded

workerVars == <<worker, made, errors, finished>>
streamVars == <<stream, delivered, disconnected>>
vars == <<workerVars, messages, streamVars>>

Init ==
  /\ worker = "none" /\ made = 0 /\ errors = FALSE /\ finished = FALSE
  /\ messages = <<>>
  /\ stream = "unstarted" /\ delivered = <<>> /\ disconnected = FALSE

-----------------------------------------------------------------------------
(* The worker: produce(). *)

(* generate() runs the job up to its next line. *)
NextLine ==
  /\ worker = "job"
  /\ made < MaxLines
  /\ made' = made + 1
  /\ worker' = "check"
  /\ UNCHANGED <<errors, finished, messages, streamVars>>

(* generate() returns, at its end ... *)
JobReturns ==
  /\ worker = "job"
  /\ worker' = "finally"
  /\ UNCHANGED <<made, errors, finished, messages, streamVars>>

(* ... or raises. *)
JobRaises ==
  /\ worker = "job"
  /\ errors' = TRUE
  /\ worker' = "finally"
  /\ UNCHANGED <<made, finished, messages, streamVars>>

(* while not disconnected.is_set() *)
TryPut ==
  /\ worker = "check"
  /\ ~disconnected
  /\ worker' = "put"
  /\ UNCHANGED <<made, errors, finished, messages, streamVars>>

(* The loop ends without a put: the line is discarded. *)
Discard ==
  /\ worker = "check"
  /\ disconnected
  /\ worker' = "job"
  /\ UNCHANGED <<made, errors, finished, messages, streamVars>>

(* Fault: the queue is made without its maxsize. *)
RoomAlways == TRUE

Room == Len(messages) < QueueMax

(* messages.put in time, or Full after its timeout. *)
Put ==
  /\ worker = "put"
  /\ Room
  /\ messages' = Append(messages, made)
  /\ worker' = "job"
  /\ UNCHANGED <<made, errors, finished, streamVars>>

(* Fault: the put has no timeout. *)
AfterFullNoTimeout == "put"

(* continue: look at the event again and keep the line. *)
AfterFull == "check"

PutFull ==
  /\ worker = "put"
  /\ ~Room
  /\ worker' = AfterFull
  /\ UNCHANGED <<made, errors, finished, messages, streamVars>>

(* The finally clause. *)
Finish ==
  /\ worker = "finally"
  /\ finished' = TRUE
  /\ worker' = "done"
  /\ UNCHANGED <<made, errors, messages, streamVars>>

Handover == TryPut \/ Discard \/ Put \/ PutFull \/ Finish

WorkerStep == NextLine \/ JobReturns \/ JobRaises \/ Handover

-----------------------------------------------------------------------------
(* The response: the generator itself, run by the web server. *)

(* The first next() starts the worker. *)
StreamStart ==
  /\ stream = "unstarted"
  /\ worker' = "job"
  /\ stream' = "first"
  /\ UNCHANGED <<made, errors, finished, messages, delivered, disconnected>>

(* Fault: the two conditions of the loop are read in the other order. *)
GoesOnSwapped(read) ==
  IF read = "first" THEN messages # <<>> ELSE ~finished

(* while not finished.is_set() or not messages.empty(): two reads, and the *)
(* worker runs between them.                                               *)
GoesOn(read) ==
  IF read = "first" THEN ~finished ELSE messages # <<>>

EnterLoop ==
  /\ stream \in {"first", "second"}
  /\ GoesOn(stream)
  /\ stream' = "get"
  /\ UNCHANGED <<workerVars, messages, delivered, disconnected>>

ReadSecond ==
  /\ stream = "first"
  /\ ~GoesOn("first")
  /\ stream' = "second"
  /\ UNCHANGED <<workerVars, messages, delivered, disconnected>>

(* messages.get in time: the line goes to the browser ... *)
Get ==
  /\ stream = "get"
  /\ messages # <<>>
  /\ delivered' = Append(delivered, Head(messages))
  /\ messages' = Tail(messages)
  /\ stream' = "yielded"
  /\ UNCHANGED <<workerVars, disconnected>>

(* Fault: the get has no timeout. *)
GetEmptyNoTimeout == FALSE /\ UNCHANGED vars

(* ... or Empty after its timeout. *)
GetEmpty ==
  /\ stream = "get"
  /\ messages = <<>>
  /\ stream' = "first"
  /\ UNCHANGED <<workerVars, messages, delivered, disconnected>>

(* The server asks for the next line. *)
Resume ==
  /\ stream = "yielded"
  /\ stream' = "first"
  /\ UNCHANGED <<workerVars, messages, delivered, disconnected>>

(* The loop is over: the response ends, or raises the error of the job. *)
StreamEnd ==
  /\ stream = "second"
  /\ ~GoesOn("second")
  /\ stream' = IF errors THEN "raised" ELSE "ended"
  /\ disconnected' = TRUE
  /\ UNCHANGED <<workerVars, messages, delivered>>

(* The server closes the generator: GeneratorExit at the yield. *)
Close ==
  /\ stream = "yielded"
  /\ stream' = "closed"
  /\ disconnected' = TRUE
  /\ UNCHANGED <<workerVars, messages, delivered>>

(* The server closes a generator it never ran, as WSGI lets it: none of    *)
(* its code runs, and the job does not start.                              *)
CloseUnstarted ==
  /\ stream = "unstarted"
  /\ stream' = "closed"
  /\ UNCHANGED <<workerVars, messages, delivered, disconnected>>

StreamStep == EnterLoop \/ ReadSecond \/ Get \/ GetEmpty \/ StreamEnd

Browser == StreamStart \/ Resume \/ Close \/ CloseUnstarted

Next == WorkerStep \/ StreamStep \/ Browser

Spec == Init /\ [][Next]_vars

(* Fairness.  Both threads run, every wait of theirs has a timeout, and    *)
(* the job comes to an end of its own.  The server goes on with a response *)
(* it has begun: a write to the browser succeeds or fails in the end.      *)
FairSpec ==
  /\ Spec
  /\ WF_vars(WorkerStep) /\ WF_vars(StreamStep) /\ WF_vars(Resume \/ Close)

-----------------------------------------------------------------------------
(* Type correctness; the queue never exceeds its maxsize. *)
TypeOK ==
  /\ worker \in {"none", "job", "check", "put", "finally", "done"}
  /\ made \in 0..MaxLines
  /\ messages \in Seq(1..MaxLines) /\ Len(messages) <= QueueMax
  /\ disconnected \in BOOLEAN /\ finished \in BOOLEAN /\ errors \in BOOLEAN
  /\ stream \in {"unstarted", "first", "second", "get", "yielded", "ended",
                 "raised", "closed"}
  /\ delivered \in Seq(1..MaxLines)

(* Lines that generate() has yielded and that are in no queue yet. *)
InHand == IF worker \in {"check", "put"} THEN 1 ELSE 0

(* The browser sees the lines from the first one on, in order and without  *)
(* a gap, and while it is connected every line is on its way to it: back-  *)
(* pressure delays a line and never drops it.                              *)
LinesInOrder ==
  /\ \A i \in DOMAIN delivered : delivered[i] = i
  /\ ~disconnected =>
       /\ \A i \in DOMAIN messages : messages[i] = Len(delivered) + i
       /\ Len(delivered) + Len(messages) + InHand = made

(* What the counters of the two threads are in the abstract log. *)
JobStatus ==
  IF worker = "none" THEN "waiting"
  ELSE IF worker \in {"job", "check", "put"} THEN "running"
  ELSE IF errors THEN "raised" ELSE "returned"

ResponseStatus ==
  IF stream \in {"ended", "raised", "closed"} THEN stream ELSE "open"

Log == INSTANCE JobLog WITH
  printed <- made, job <- JobStatus,
  shown <- Len(delivered), response <- ResponseStatus

(* Refinement: threads, queue and events implement the log of a job.  In   *)
(* particular a response that is not closed ends only when the job has,    *)
(* with all of its lines, and raises if and only if the job did.           *)
ImplementsLog == Log!Spec

(* A job that has begun comes to its end whatever the browser does: reads, *)
(* lags behind or leaves with the queue full.                              *)
JobFinishes == worker # "none" ~> finished

(* A response that has begun comes to its end, so that no thread of the    *)
(* server waits for ever on a job that is over or on an empty queue.       *)
ResponseFinishes ==
  stream # "unstarted" ~> stream \in {"ended", "raised", "closed"}
=============================================================================
