-------------------------- MODULE JobStreamProofs --------------------------
(***************************************************************************)
(* Theorems about JobStream, for every number of lines and queue capacity. *)
(* Besides the types, the inductive invariant IInv says what each thread   *)
(* may conclude from the events: that finished means no more puts, and     *)
(* that the response is over once disconnected is set.                     *)
(***************************************************************************)
EXTENDS JobStream, SequenceTheorems, TLAPS

(* What the program counters and the events tell about each other. *)
EventInv ==
  /\ worker = "none" => stream \in {"unstarted", "closed"} /\ made = 0
  /\ stream = "unstarted" => worker = "none" /\ ~disconnected
  /\ finished <=> worker = "done"
  /\ errors => worker \in {"finally", "done"}
  /\ stream = "second" => finished
  /\ disconnected => stream \in {"ended", "raised", "closed"}
  /\ ~disconnected => stream \notin {"ended", "raised"}
  /\ worker = "none" => messages = <<>> /\ delivered = <<>>
  /\ worker \in {"check", "put"} => made \in 1..MaxLines

IInv == EventInv /\ LinesInOrder

USE DEF vars, workerVars, streamVars

-----------------------------------------------------------------------------
(* Appending keeps a queue a sequence and puts the line at its end. *)
LEMMA AppendLine ==
  ASSUME NEW s \in Seq(1..MaxLines), NEW l \in 1..MaxLines
  PROVE  /\ Append(s, l) \in Seq(1..MaxLines)
         /\ Len(Append(s, l)) = Len(s) + 1
         /\ DOMAIN s = 1..Len(s) /\ Len(s) \in Nat
         /\ DOMAIN Append(s, l) = 1..(Len(s) + 1)
         /\ \A i \in 1..Len(s) : Append(s, l)[i] = s[i]
         /\ Append(s, l)[Len(s) + 1] = l
BY AppendProperties, LenProperties

(* Taking the head off a queue moves every other line up by one. *)
LEMMA TakeLine ==
  ASSUME NEW s \in Seq(1..MaxLines), s # <<>>
  PROVE  /\ Tail(s) \in Seq(1..MaxLines)
         /\ Head(s) \in 1..MaxLines /\ Head(s) = s[1]
         /\ Len(s) \in Nat \ {0}
         /\ DOMAIN s = 1..Len(s)
         /\ Len(Tail(s)) = Len(s) - 1
         /\ DOMAIN Tail(s) = 1..(Len(s) - 1)
         /\ \A i \in 1..(Len(s) - 1) : Tail(s)[i] = s[i + 1]
<1>1. /\ Tail(s) \in Seq(1..MaxLines) /\ Head(s) \in 1..MaxLines
      /\ Len(Tail(s)) = Len(s) - 1
      /\ \A i \in 1..Len(Tail(s)) : Tail(s)[i] = s[i + 1]
  BY HeadTailProperties
<1>2. Len(s) \in Nat /\ DOMAIN s = 1..Len(s) /\ DOMAIN Tail(s) = 1..Len(Tail(s))
  BY <1>1, LenProperties
<1>3. Len(s) # 0
  BY EmptySeq
<1>4. QED
  BY <1>1, <1>2, <1>3

-----------------------------------------------------------------------------
(* Every step of the worker and of the response preserves the types. *)
LEMMA StepTyped ==
  ASSUME TypeOK, IInv, [Next]_vars
  PROVE  TypeOK'
<1> USE StreamAssumption DEF TypeOK
<1>1. CASE Put
  <2>1. made \in 1..MaxLines
    BY <1>1 DEF Put, IInv, EventInv
  <2>2. messages' \in Seq(1..MaxLines) /\ Len(messages') <= QueueMax
    BY <1>1, <2>1, AppendLine DEF Put, Room
  <2>3. QED
    BY <1>1, <2>2 DEF Put
<1>2. CASE Get
  <2>1. Head(messages) \in 1..MaxLines
    BY <1>2, TakeLine DEF Get
  <2>2. messages' \in Seq(1..MaxLines) /\ Len(messages') <= QueueMax
    BY <1>2, TakeLine DEF Get
  <2>3. delivered' \in Seq(1..MaxLines)
    BY <1>2, <2>1, AppendLine DEF Get
  <2>4. QED
    BY <1>2, <2>2, <2>3 DEF Get
<1>3. CASE NextLine \/ JobReturns \/ TryPut \/ Discard \/ PutFull
  BY <1>3 DEF NextLine, JobReturns, TryPut, Discard, PutFull, AfterFull
<1>7. CASE JobRaises \/ Finish
  BY <1>7, Zenon DEF JobRaises, Finish
<1>4. CASE StreamStart \/ EnterLoop \/ ReadSecond \/ GetEmpty \/ Resume
           \/ CloseUnstarted
  BY <1>4 DEF StreamStart, EnterLoop, ReadSecond, GetEmpty, Resume,
              CloseUnstarted
<1>8. CASE StreamEnd \/ Close
  BY <1>8, Zenon DEF StreamEnd, Close
<1>5. CASE UNCHANGED vars
  BY <1>5
<1>6. QED
  BY <1>1, <1>2, <1>3, <1>4, <1>5, <1>7, <1>8
  DEF Next, WorkerStep, Handover, StreamStep, Browser

(* Every step preserves what counters and events tell about each other. *)
LEMMA EventStep ==
  ASSUME TypeOK, EventInv, [Next]_vars
  PROVE  EventInv'
<1> USE StreamAssumption DEF TypeOK, EventInv
<1>1. CASE NextLine \/ JobReturns \/ JobRaises \/ TryPut \/ Discard
  BY <1>1 DEF NextLine, JobReturns, JobRaises, TryPut, Discard
<1>2. CASE Put \/ PutFull \/ Finish
  BY <1>2 DEF Put, PutFull, AfterFull, Finish
<1>3. CASE StreamStart \/ EnterLoop \/ ReadSecond
  BY <1>3 DEF StreamStart, EnterLoop, ReadSecond, GoesOn
<1>4. CASE Get \/ GetEmpty \/ Resume \/ StreamEnd \/ Close \/ CloseUnstarted
  BY <1>4 DEF Get, GetEmpty, Resume, StreamEnd, Close, CloseUnstarted
<1>5. CASE UNCHANGED vars
  BY <1>5
<1>6. QED
  BY <1>1, <1>2, <1>3, <1>4, <1>5
  DEF Next, WorkerStep, Handover, StreamStep, Browser

(* Every step keeps the lines in order: a put adds the next one, a get     *)
(* moves the oldest one, and a line is given up only after disconnected.   *)
LEMMA OrderStep ==
  ASSUME TypeOK, IInv, [Next]_vars
  PROVE  LinesInOrder'
<1> USE DEF TypeOK, LinesInOrder
<1>0. Len(messages) \in Nat /\ Len(delivered) \in Nat
  BY LenProperties
<1>1. CASE Put
  <2>1. made \in 1..MaxLines
    BY <1>1 DEF Put, IInv, EventInv
  <2>2. messages' = Append(messages, made) /\ UNCHANGED <<delivered, made, disconnected>>
    BY <1>1 DEF Put
  <2>3. CASE ~disconnected
    <3>1. Len(delivered) + Len(messages) + 1 = made
      BY <1>1, <2>3 DEF Put, IInv, InHand
    <3>2. \A i \in DOMAIN messages' : messages'[i] = Len(delivered) + i
      <4>1. SUFFICES ASSUME NEW i \in 1..(Len(messages) + 1)
                     PROVE  messages'[i] = Len(delivered) + i
        BY <2>1, <2>2, AppendLine
      <4>2. CASE i = Len(messages) + 1
        BY <1>0, <2>1, <2>2, <3>1, <4>2, AppendLine
      <4>3. CASE i \in 1..Len(messages)
        <5>1. messages'[i] = messages[i] /\ i \in DOMAIN messages
          BY <2>1, <2>2, <4>3, AppendLine
        <5>2. QED
          BY <2>3, <5>1 DEF IInv
      <4>4. QED
        BY <1>0, <4>2, <4>3
    <3>3. Len(messages') = Len(messages) + 1
      BY <2>1, <2>2, AppendLine
    <3>4. QED
      BY <1>0, <1>1, <2>2, <3>1, <3>2, <3>3 DEF Put, IInv, InHand
  <2>4. QED
    BY <2>2, <2>3 DEF IInv
<1>2. CASE Get
  <2>1. /\ messages' = Tail(messages) /\ messages # <<>>
        /\ delivered' = Append(delivered, Head(messages))
        /\ UNCHANGED <<worker, made, disconnected>>
    BY <1>2 DEF Get
  <2>2. ~disconnected
    BY <1>2 DEF Get, IInv, EventInv
  <2>3. Head(messages) = Len(delivered) + 1 /\ Head(messages) \in 1..MaxLines
    BY <1>0, <2>1, <2>2, TakeLine DEF IInv
  <2>4. \A i \in DOMAIN delivered' : delivered'[i] = i
    BY <1>0, <2>1, <2>3, AppendLine DEF IInv
  <2>5. Len(delivered') = Len(delivered) + 1 /\ Len(messages') = Len(messages) - 1
    BY <2>1, <2>3, AppendLine, TakeLine
  <2>6. \A i \in DOMAIN messages' : messages'[i] = Len(delivered') + i
    <3>1. DOMAIN messages = 1..Len(messages) /\ DOMAIN messages' = 1..(Len(messages) - 1)
      BY <2>1, TakeLine
    <3>2. SUFFICES ASSUME NEW i \in 1..(Len(messages) - 1)
                   PROVE  messages'[i] = Len(delivered') + i
      BY <3>1
    <3>3. messages'[i] = messages[i + 1]
      BY <2>1, <3>2, TakeLine
    <3>4. i \in Nat /\ i + 1 \in DOMAIN messages
      BY <1>0, <3>1, <3>2
    <3>5. messages[i + 1] = Len(delivered) + (i + 1)
      BY <2>2, <3>4 DEF IInv
    <3>6. QED
      BY <1>0, <2>5, <3>3, <3>4, <3>5
  <2>7. Len(delivered') + Len(messages') + InHand' = made'
    <3>1. Len(delivered) + Len(messages) + InHand = made /\ InHand' = InHand
      BY <2>1, <2>2 DEF IInv, InHand
    <3>2. InHand \in Nat
      BY DEF InHand
    <3>3. made' = made
      BY <2>1
    <3>4. QED
      BY <1>0, <2>5, <3>1, <3>2, <3>3
  <2>8. QED
    BY <2>4, <2>6, <2>7
<1>3. CASE NextLine \/ JobReturns \/ JobRaises \/ TryPut \/ PutFull \/ Finish
           \/ StreamStart \/ EnterLoop \/ ReadSecond \/ GetEmpty \/ Resume
           \/ CloseUnstarted
  <2>1. UNCHANGED <<messages, delivered, disconnected>>
    BY <1>3 DEF NextLine, JobReturns, JobRaises, TryPut, PutFull, Finish,
                StreamStart, EnterLoop, ReadSecond, GetEmpty, Resume,
                CloseUnstarted
  <2>2. \/ made' = made /\ InHand' = InHand
        \/ made' = made + 1 /\ InHand = 0 /\ InHand' = 1
    <3>1. CASE NextLine
      BY <3>1 DEF NextLine, InHand
    <3>2. CASE JobReturns \/ JobRaises \/ TryPut \/ PutFull \/ Finish \/ StreamStart
      BY <3>2 DEF JobReturns, JobRaises, TryPut, PutFull, AfterFull, Finish,
                  StreamStart, InHand, IInv, EventInv
    <3>3. CASE EnterLoop \/ ReadSecond \/ GetEmpty \/ Resume \/ CloseUnstarted
      BY <3>3 DEF EnterLoop, ReadSecond, GetEmpty, Resume, CloseUnstarted, InHand
    <3>4. QED
      BY <1>3, <3>1, <3>2, <3>3
  <2>3. made \in Nat /\ InHand \in Nat
    BY StreamAssumption DEF InHand
  <2>4. ~disconnected => Len(delivered) + Len(messages) + InHand' = made'
    <3>1. ~disconnected => Len(delivered) + Len(messages) + InHand = made
      BY DEF IInv
    <3>2. QED
      BY <1>0, <2>2, <2>3, <3>1
  <2>5. QED
    BY <2>1, <2>4 DEF IInv
<1>4. CASE Discard \/ StreamEnd \/ Close
  <2>1. disconnected' /\ delivered' = delivered
    BY <1>4 DEF Discard, StreamEnd, Close
  <2>2. QED
    BY <2>1 DEF IInv
<1>5. CASE UNCHANGED vars
  BY <1>5 DEF IInv, InHand
<1>6. QED
  BY <1>1, <1>2, <1>3, <1>4, <1>5
  DEF Next, WorkerStep, Handover, StreamStep, Browser

(* The invariant behind the theorems below. *)
LEMMA Invariance == Spec => [](TypeOK /\ IInv)
<1>1. Init => TypeOK /\ IInv
  <2>1. <<>> \in Seq(1..MaxLines) /\ Len(<<>>) = 0 /\ DOMAIN <<>> = {}
    OBVIOUS
  <2>2. Init => TypeOK
    <3>1. 0 \in 0..MaxLines /\ 0 <= QueueMax
      BY StreamAssumption
    <3>2. QED
      BY <2>1, <3>1, Zenon DEF Init, TypeOK
  <2>3. Init => EventInv
    BY DEF Init, EventInv
  <2>4. Init => LinesInOrder
    BY <2>1 DEF Init, LinesInOrder, InHand
  <2>5. QED
    BY <2>2, <2>3, <2>4 DEF IInv
<1>2. TypeOK /\ IInv /\ [Next]_vars => TypeOK' /\ IInv'
  BY StepTyped, EventStep, OrderStep DEF IInv
<1>3. QED
  BY <1>1, <1>2, PTL DEF Spec

(* The queue never exceeds its maxsize, and every variable keeps its type. *)
THEOREM TypeCorrect == Spec => []TypeOK
BY Invariance, PTL

(* The browser sees every line once and in order, and while it is connected *)
(* no line is dropped, for every length of job and every queue capacity.    *)
THEOREM InOrder == Spec => []LinesInOrder
<1>1. IInv => LinesInOrder
  BY DEF IInv
<1>2. QED
  BY <1>1, Invariance, PTL

-----------------------------------------------------------------------------
(* Every step of the two threads is a step of the log or invisible in it. *)
LEMMA StepRefines ==
  ASSUME TypeOK, IInv, [Next]_vars
  PROVE  [Log!Next]_(Log!vars)
<1> USE DEF TypeOK, IInv, EventInv, Log!Next, Log!vars, JobStatus,
            ResponseStatus
<1>0. Len(messages) \in Nat /\ Len(delivered) \in Nat
  BY LenProperties
<1>1. CASE NextLine
  BY <1>1 DEF NextLine, Log!PrintLine
<1>2. CASE JobReturns
  BY <1>2 DEF JobReturns, Log!EndJob
<1>3. CASE JobRaises
  BY <1>3 DEF JobRaises, Log!EndJob
<1>4. CASE StreamStart
  BY <1>4 DEF StreamStart, Log!StartJob
<1>5. CASE Get
  <2>1. Len(delivered) + Len(messages) + InHand = made
    BY <1>5 DEF Get, LinesInOrder
  <2>2. Len(messages) > 0 /\ Head(messages) \in 1..MaxLines
    BY <1>0, <1>5, TakeLine DEF Get
  <2>3. Len(delivered') = Len(delivered) + 1
    BY <1>5, <2>2, AppendLine DEF Get
  <2>4. Len(delivered) < made
    BY <1>0, <2>1, <2>2 DEF InHand
  <2>5. QED
    BY <1>5, <2>3, <2>4 DEF Get, Log!ShowLine
<1>6. CASE StreamEnd
  <2>1. worker = "done" /\ messages = <<>> /\ ~disconnected
    BY <1>6 DEF StreamEnd, GoesOn
  <2>2. Len(delivered) = made
    BY <1>0, <2>1, EmptySeq DEF LinesInOrder, InHand
  <2>3. QED
    BY <1>6, <2>1, <2>2 DEF StreamEnd, Log!EndResponse
<1>7. CASE Close \/ CloseUnstarted
  BY <1>7 DEF Close, CloseUnstarted, Log!CloseResponse
<1>8. CASE \/ TryPut \/ Discard \/ Put \/ PutFull \/ Finish
           \/ EnterLoop \/ ReadSecond \/ GetEmpty \/ Resume \/ UNCHANGED vars
  BY <1>8 DEF TryPut, Discard, Put, PutFull, AfterFull, Finish, EnterLoop,
              ReadSecond, GetEmpty, Resume
<1>9. QED
  BY <1>1, <1>2, <1>3, <1>4, <1>5, <1>6, <1>7, <1>8
  DEF Next, WorkerStep, Handover, StreamStep, Browser

(* The two threads, their queue and their events implement the log of a    *)
(* job: the response ends exactly as the job did, after all of its lines.  *)
THEOREM Refinement == Spec => ImplementsLog
<1>1. Init => Log!Init
  BY EmptySeq DEF Init, Log!Init, JobStatus, ResponseStatus
<1>2. TypeOK /\ IInv /\ [Next]_vars => [Log!Next]_(Log!vars)
  BY StepRefines
<1>3. QED
  BY <1>1, <1>2, Invariance, PTL DEF Spec, ImplementsLog, Log!Spec
=============================================================================
