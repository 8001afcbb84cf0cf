--------------------------- MODULE SchedulerProofs ---------------------------
(***************************************************************************)
(* Proofs about Scheduler, for every set of jobs, cron expressions and     *)
(* requests and every bound on the run records: type correctness; the      *)
(* agreement of APScheduler with the rows when requests are serialised; a  *)
(* deleted schedule stays quiet; a success is earned by every phase; and   *)
(* no path through the phases forgets a container.                         *)
(***************************************************************************)
EXTENDS Scheduler, TLAPS

USE DEF Statuses, Phases

(* TypeOK and what its proof needs besides: a thread in a phase has one. *)
Types ==
  /\ TypeOK
  /\ \A j \in Jobs : trig[j].at \in {"run", "wait"} => trig[j].phase \in Phases

-----------------------------------------------------------------------------
(* The thread of a trigger that is over is idle. *)
LEMMA NoTriggerTypes == NoTrigger \in Thread /\ NoTrigger.at = "none"
  BY DEF NoTrigger, Thread

(* A phase that ends leaves the thread and the records well formed. *)
LEMMA PhaseEndsTypes ==
  ASSUME Types, NEW j \in Jobs, NEW s \in Statuses,
         trig[j].at \in {"run", "wait"}, PhaseEnds(j, s)
  PROVE  /\ trig' \in [Jobs -> Thread]
         /\ runs' \in Seq(Run) /\ Len(runs') = Len(runs)
         /\ \A k \in Jobs : trig'[k].at \in {"run", "wait", "final"} =>
                              trig'[k].run \in 1..Len(runs)
         /\ \A k \in Jobs : trig'[k].at \in {"run", "wait"} =>
                              trig'[k].phase \in Phases
  <1> DEFINE t == trig[j]
             p == IF s = "success" THEN PhaseAfter(t) ELSE "none"
             u == [t EXCEPT !.at = IF p = "none" THEN "final" ELSE "run",
                            !.phase = p, !.status = StatusAfter(t, s)]
  <1>1. t \in Thread /\ t.run \in 1..Len(runs) /\ t.phase \in Phases
    BY DEF Types, TypeOK
  <1>2. p \in Phases \cup {"none"}
    BY DEF PhaseAfter
  <1>3. /\ u \in Thread /\ u.run = t.run /\ u.phase = p
        /\ u.at = IF p = "none" THEN "final" ELSE "run"
    BY <1>1, <1>2 DEF Thread, StatusAfter
  <1>4. trig' = [trig EXCEPT ![j] = u]
    BY DEF PhaseEnds
  <1>5. trig \in [Jobs -> Thread]
    BY DEF Types, TypeOK
  <1> HIDE DEF t, p, u
  <1>6. trig' \in [Jobs -> Thread]
    BY <1>3, <1>4, <1>5
  <1>7. \A k \in Jobs : trig'[k] = IF k = j THEN u ELSE trig[k]
    BY <1>4, <1>5
  <1>8. runs' \in Seq(Run) /\ Len(runs') = Len(runs)
    <2>1. CASE s # "success"
      BY <2>1 DEF PhaseEnds, Types, TypeOK
    <2>2. CASE s = "success"
      <3> DEFINE r == [runs[t.run] EXCEPT !.passed = @ \cup {t.phase}]
      <3>1. runs' = [runs EXCEPT ![t.run] = r]
        BY <2>2 DEF PhaseEnds, t
      <3>2. runs \in Seq(Run) /\ runs[t.run] \in Run
        BY <1>1 DEF Types, TypeOK
      <3>3. r \in Run
        BY <3>2, <1>1 DEF Run
      <3> HIDE DEF r
      <3>4. QED
        BY <3>1, <3>2, <3>3, <1>1
    <2>3. QED
      BY <2>1, <2>2
  <1>9. QED
    BY <1>1, <1>2, <1>3, <1>6, <1>7, <1>8 DEF Types, TypeOK

(* The initial state is well formed. *)
LEMMA TypesInit == Init => Types
  <1>1. NoRow \in Row
    BY DEF NoRow, Row
  <1> SUFFICES ASSUME Init PROVE Types
    OBVIOUS
  <1>2. up \in BOOLEAN /\ loaded \in BOOLEAN
    BY Zenon DEF Init
  <1>3. /\ rows \in [Jobs -> Row] /\ trig \in [Jobs -> Thread]
        /\ \A j \in Jobs : trig[j].at = "none"
    BY <1>1, NoTriggerTypes DEF Init
  <1>4. /\ sched \in [Jobs -> SUBSET Crons]
        /\ request \in [Requests -> SUBSET [job : Jobs, cron : SUBSET Crons]]
        /\ runs \in Seq(Run) /\ containers = {} /\ spoilt = {} /\ cut = {}
    BY DEF Init
  <1>5. QED
    BY <1>2, <1>3, <1>4 DEF Types, TypeOK

(* Every step leaves the state well formed. *)
LEMMA TypesNext == Types /\ [Next]_vars => Types'
  <1> SUFFICES ASSUME Types, [Next]_vars PROVE Types'
    OBVIOUS
  <1> USE DEF Types, TypeOK, vars, process, database, memory, history
  <1>1. ASSUME NEW r \in Requests, PostCommit(r) PROVE Types'
    <2>1. PICK j \in Jobs, c \in Crons, g \in BOOLEAN :
            /\ rows' = [rows EXCEPT ![j] = Upserted(@, c, g)]
            /\ request' = [request EXCEPT ![r] = {[job |-> j, cron |-> {c}]}]
      BY <1>1 DEF PostCommit
    <2>2. Upserted(rows[j], c, g) \in Row
      BY DEF Upserted, Row
    <2>3. rows' \in [Jobs -> Row]
      BY <2>1, <2>2
    <2>4. request' \in [Requests -> SUBSET [job : Jobs, cron : SUBSET Crons]]
      BY <2>1
    <2>5. QED
      BY <1>1, <2>3, <2>4 DEF PostCommit
  <1>2. ASSUME NEW r \in Requests, PostSchedule(r) PROVE Types'
    BY <1>2 DEF PostSchedule
  <1>3. ASSUME NEW r \in Requests, DeleteCommit(r) PROVE Types'
    <2>1. PICK j \in Jobs :
            /\ rows' = [rows EXCEPT ![j].active = FALSE]
            /\ request' = [request EXCEPT ![r] = {[job |-> j, cron |-> {}]}]
      BY <1>3 DEF DeleteCommit
    <2> DEFINE w == [rows[j] EXCEPT !.active = FALSE]
    <2>2. w \in Row
      BY DEF Row
    <2>3. rows' = [rows EXCEPT ![j] = w]
      BY <2>1
    <2> HIDE DEF w
    <2>4. rows' \in [Jobs -> Row]
      BY <2>2, <2>3
    <2>5. request' \in [Requests -> SUBSET [job : Jobs, cron : SUBSET Crons]]
      BY <2>1
    <2>6. QED
      BY <1>3, <2>4, <2>5 DEF DeleteCommit
  <1>4. ASSUME NEW r \in Requests, DeleteRemove(r) PROVE Types'
    BY <1>4 DEF DeleteRemove
  <1>5. ASSUME NEW j \in Jobs, Fire(j) PROVE Types'
    BY <1>5 DEF Fire, Thread
  <1>6. ASSUME NEW j \in Jobs, TSelect(j) PROVE Types'
    <2> DEFINE u == [trig[j] EXCEPT !.at = "insert", !.gold = rows[j].gold]
    <2>1. rows[j].gold \in BOOLEAN /\ trig[j] \in Thread
      BY DEF Row
    <2>2. u \in Thread
      BY <2>1 DEF Thread
    <2>3. u.at = "insert"
      BY <2>1 DEF Thread
    <2>4. trig' = [trig EXCEPT ![j] = u]
      BY <1>6 DEF TSelect
    <2> HIDE DEF u
    <2>5. QED
      BY <1>6, <2>2, <2>3, <2>4 DEF TSelect
  <1>7. ASSUME NEW j \in Jobs, TReturn(j) \/ TSelectFails(j) PROVE Types'
    BY <1>7, NoTriggerTypes DEF TReturn, TSelectFails
  <1>8. ASSUME NEW j \in Jobs, TInsert(j) PROVE Types'
    <2> DEFINE new == [job |-> j, status |-> "none", passed |-> {},
                       plan |-> Plan(j, trig[j].gold)]
    <2>1. new \in Run
      BY DEF Run, Plan
    <2>2. runs' \in Seq(Run) /\ Len(runs') = Len(runs) + 1
      <3> HIDE DEF new
      <3>1. runs' = Append(runs, new)
        BY <1>8 DEF TInsert, new
      <3>2. QED
        BY <2>1, <3>1
    <2> DEFINE p == IF j \in SilverJobs THEN "silver" ELSE "ingestion"
               u == [trig[j] EXCEPT !.at = "run", !.run = Len(runs) + 1, !.phase = p]
    <2>3. p \in Phases
      OBVIOUS
    <2>4. trig[j] \in Thread /\ Len(runs) + 1 \in Nat
      OBVIOUS
    <2>5. trig' = [trig EXCEPT ![j] = u]
      BY <1>8 DEF TInsert
    <2> HIDE DEF p
    <2>6. u \in Thread /\ u.run = Len(runs) + 1 /\ u.phase = p
      BY <2>3, <2>4 DEF Thread
    <2> HIDE DEF u, new
    <2>7. \A k \in Jobs : trig'[k] = IF k = j THEN u ELSE trig[k]
      BY <2>5
    <2>8. trig' \in [Jobs -> Thread]
      BY <2>5, <2>6
    <2>9. 1..Len(runs) \subseteq 1..Len(runs') /\ Len(runs) + 1 \in 1..Len(runs')
      BY <2>2
    <2>10. QED
      BY <1>8, <2>2, <2>3, <2>6, <2>7, <2>8, <2>9 DEF TInsert
  <1>9. ASSUME NEW j \in Jobs, TSilver(j) PROVE Types'
    <2>1. \E s \in Statuses : trig[j].at \in {"run", "wait"} /\ PhaseEnds(j, s)
      BY <1>9 DEF TSilver
    <2>2. QED
      BY <1>9, <2>1, PhaseEndsTypes DEF TSilver
  <1>10. ASSUME NEW j \in Jobs, TLaunch(j) PROVE Types'
    <2> DEFINE u == [trig[j] EXCEPT !.at = "wait"]
    <2>1. trig[j] \in Thread /\ trig[j].run \in 1..Len(runs) /\ trig[j].phase \in Phases
      BY <1>10 DEF TLaunch
    <2>2. /\ u \in Thread /\ u.run = trig[j].run /\ u.phase = trig[j].phase
      BY <2>1 DEF Thread
    <2>3. trig' = [trig EXCEPT ![j] = u]
      BY <1>10 DEF TLaunch
    <2> HIDE DEF u
    <2>4. containers' \subseteq [run : 1..Len(runs), phase : Phases,
                                 state : {"running", "exit0", "exit1"}]
      BY <1>10, <2>1 DEF TLaunch, Container
    <2>5. QED
      BY <1>10, <2>1, <2>2, <2>3, <2>4 DEF TLaunch
  <1>11. ASSUME NEW j \in Jobs, TLaunchFails(j) PROVE Types'
    <2>1. \E s \in Statuses : trig[j].at \in {"run", "wait"} /\ PhaseEnds(j, s)
      BY <1>11 DEF TLaunchFails, Raised
    <2>2. QED
      <3>1. trig[j].run \in 1..Len(runs) /\ trig[j].phase \in Phases
        BY <1>11 DEF TLaunchFails
      <3>2. containers' \subseteq [run : 1..Len(runs), phase : Phases,
                                   state : {"running", "exit0", "exit1"}]
        BY <1>11, <3>1 DEF TLaunchFails, Container
      <3>3. QED
        BY <1>11, <2>1, <3>1, <3>2, PhaseEndsTypes DEF TLaunchFails
  <1>12. ASSUME NEW j \in Jobs, TWait(j) PROVE Types'
    <2>1. \E s \in Statuses : trig[j].at \in {"run", "wait"} /\ PhaseEnds(j, s)
      BY <1>12 DEF TWait, Outcome
    <2>2. QED
      BY <1>12, <2>1, PhaseEndsTypes DEF TWait
  <1>13. ASSUME NEW j \in Jobs, TRemoveFails(j) PROVE Types'
    <2>1. \E s \in Statuses : trig[j].at \in {"run", "wait"} /\ PhaseEnds(j, s)
      BY <1>13 DEF TRemoveFails, Outcome
    <2>2. QED
      BY <1>13, <2>1, PhaseEndsTypes DEF TRemoveFails
  <1>14. ASSUME NEW j \in Jobs, TWaitFails(j) PROVE Types'
    <2>1. \E s \in Statuses : trig[j].at \in {"run", "wait"} /\ PhaseEnds(j, s)
      BY <1>14 DEF TWaitFails, Raised
    <2>2. QED
      BY <1>14, <2>1, PhaseEndsTypes DEF TWaitFails
  <1>15. ASSUME NEW j \in Jobs, TFinal(j) PROVE Types'
    <2>1. trig[j].run \in 1..Len(runs) /\ trig[j].status \in Statuses
      BY <1>15 DEF TFinal, Thread
    <2> DEFINE r == Finished(runs[trig[j].run], trig[j].status)
               w == [rows[j] EXCEPT !.last = trig[j].status]
    <2>2. r \in Run /\ w \in Row
      <3>1. runs[trig[j].run] \in Run /\ rows[j] \in Row
        BY <2>1
      <3>2. r \in Run
        BY <2>1, <3>1 DEF Finished, Run
      <3>3. w \in Row
        BY <2>1, <3>1 DEF Row
      <3>4. QED
        BY <3>2, <3>3
    <2>3. /\ runs' = [runs EXCEPT ![trig[j].run] = r]
          /\ rows' = [rows EXCEPT ![j] = w]
      BY <1>15 DEF TFinal
    <2> HIDE DEF r, w
    <2>4. /\ runs' \in Seq(Run) /\ Len(runs') = Len(runs)
          /\ rows' \in [Jobs -> Row]
      BY <2>1, <2>2, <2>3
    <2>5. QED
      BY <1>15, <2>4, NoTriggerTypes DEF TFinal
  <1>16. ASSUME NEW j \in Jobs, TFinalFails(j) PROVE Types'
    BY <1>16, NoTriggerTypes DEF TFinalFails
  <1>17. CASE ContainerExit
    BY <1>17 DEF ContainerExit
  <1>18. CASE Crash
    BY <1>18, NoTriggerTypes DEF Crash, Working
  <1>19. CASE StartUp
    BY <1>19 DEF StartUp, Restored, Due, Row
  <1>20. CASE UNCHANGED vars
    BY <1>20
  <1>21. QED
    BY <1>1, <1>2, <1>3, <1>4, <1>5, <1>6, <1>7, <1>8, <1>9, <1>10, <1>11,
       <1>12, <1>13, <1>14, <1>15, <1>16, <1>17, <1>18, <1>19, <1>20
       DEF Next, Trigger, Proceed

(* Types is an invariant of the specification ... *)
LEMMA TypesInvariant == Spec => []Types
  BY TypesInit, TypesNext, PTL DEF Spec

(* ... and so every table, map and thread keeps its type, and a thread at  *)
(* work has a record, in every behaviour.                                  *)
THEOREM TypeCorrect == Spec => []TypeOK
  BY TypesInvariant, PTL DEF Types

(* Serialised requests are requests: SerialSpec restricts Spec. *)
LEMMA SerialTypes == SerialSpec => []Types
  <1>1. Types /\ [Next /\ OneRequestPerJob']_vars => Types'
    BY TypesNext
  <1>2. QED
    BY <1>1, TypesInit, PTL DEF SerialSpec

-----------------------------------------------------------------------------
(* Why APScheduler agrees with the rows: a request under way carries what  *)
(* its row says, it is the only one for its job, and a process that is     *)
(* down has neither requests nor triggers.                                 *)
Agreement ==
  /\ OneRequestPerJob
  /\ \A r \in Requests : \A e, f \in request[r] : e = f
  /\ \A r \in Requests : \A e \in request[r] : e.cron = Due(rows[e.job])
  /\ ~up => /\ \A r \in Requests : request[r] = {}
            /\ \A j \in Jobs : sched[j] = {}
  /\ ScheduleMatchesRows

(* Nothing is scheduled and no row exists. *)
LEMMA AgreementInit == Init => Agreement
  BY DEF Init, Agreement, OneRequestPerJob, ScheduleMatchesRows, InFlight

(* A step that leaves the process, requests and triggers alone, and no row *)
(* with another cron, keeps the agreement.                                 *)
LEMMA AgreementKept ==
  ASSUME Types, Agreement, UNCHANGED <<up, loaded, request, sched>>,
         \A j \in Jobs : Due(rows'[j]) = Due(rows[j])
  PROVE  Agreement'
  <1>1. \A r \in Requests : \A e \in request[r] : e.job \in Jobs
    BY DEF Types, TypeOK
  <1>2. \A j \in Jobs : InFlight(j)' <=> InFlight(j)
    BY DEF InFlight
  <1>3. QED
    BY <1>1, <1>2 DEF Agreement, OneRequestPerJob, ScheduleMatchesRows

(* Every step that keeps the requests serial keeps the agreement. *)
LEMMA AgreementNext ==
  Types /\ Agreement /\ [Next /\ OneRequestPerJob']_vars => Agreement'
  <1> SUFFICES ASSUME Types, Agreement, [Next /\ OneRequestPerJob']_vars
               PROVE  Agreement'
    OBVIOUS
  <1> USE DEF vars, process, database, memory, history
  <1>1. ASSUME NEW r \in Requests, NEW j \in Jobs, NEW c \in SUBSET Crons, NEW w,
               OneRequestPerJob', up, request[r] = {}, UNCHANGED <<up, loaded, sched>>,
               rows' = [rows EXCEPT ![j] = w], Due(w) = c,
               request' = [request EXCEPT ![r] = {[job |-> j, cron |-> c]}]
        PROVE  Agreement'
    <2>1. /\ rows'[j] = w /\ \A k \in Jobs \ {j} : rows'[k] = rows[k]
          /\ request'[r] = {[job |-> j, cron |-> c]}
          /\ \A q \in Requests \ {r} : request'[q] = request[q]
      BY <1>1 DEF Types, TypeOK
    <2>2. \A q \in Requests \ {r} : \A e \in request[q] : e.job \in Jobs \ {j}
      <3> SUFFICES ASSUME NEW q \in Requests \ {r}, NEW e \in request[q]
                   PROVE  e.job \in Jobs \ {j}
        OBVIOUS
      <3> DEFINE f == [job |-> j, cron |-> c]
      <3>1. e.job \in Jobs
        BY DEF Types, TypeOK
      <3>2. e \in request'[q] /\ f \in request'[r] /\ f.job = j
        BY <2>1
      <3>3. e.job # f.job
        BY <1>1, <3>2 DEF OneRequestPerJob
      <3>4. QED
        BY <3>1, <3>2, <3>3
    <2>3. \A q \in Requests : \A e, f \in request'[q] : e = f
      BY <2>1 DEF Agreement
    <2>4. \A q \in Requests : \A e \in request'[q] : e.cron = Due(rows'[e.job])
      BY <1>1, <2>1, <2>2 DEF Agreement
    <2>5. InFlight(j)'
      <3>1. [job |-> j, cron |-> c] \in request'[r] /\ [job |-> j, cron |-> c].job = j
        BY <2>1
      <3>2. QED
        BY <3>1 DEF InFlight
    <2>6. \A k \in Jobs \ {j} : InFlight(k) => InFlight(k)'
      BY <1>1, <2>1 DEF InFlight
    <2>7. ScheduleMatchesRows'
      BY <1>1, <2>1, <2>5, <2>6 DEF ScheduleMatchesRows, Agreement
    <2>8. QED
      BY <1>1, <2>3, <2>4, <2>7 DEF Agreement
  <1>2. ASSUME NEW r \in Requests, PostCommit(r), OneRequestPerJob' PROVE Agreement'
    <2>1. PICK j \in Jobs, c \in Crons, g \in BOOLEAN :
            /\ rows' = [rows EXCEPT ![j] = Upserted(rows[j], c, g)]
            /\ request' = [request EXCEPT ![r] = {[job |-> j, cron |-> {c}]}]
      BY <1>2 DEF PostCommit
    <2>2. Due(Upserted(rows[j], c, g)) = {c}
      BY DEF Due, Upserted, Types, TypeOK, Row
    <2>3. QED
      BY <1>1, <1>2, <2>1, <2>2 DEF PostCommit
  <1>3. ASSUME NEW r \in Requests, DeleteCommit(r), OneRequestPerJob' PROVE Agreement'
    <2>1. PICK j \in Jobs :
            /\ rows' = [rows EXCEPT ![j] = [rows[j] EXCEPT !.active = FALSE]]
            /\ request' = [request EXCEPT ![r] = {[job |-> j, cron |-> {}]}]
      BY <1>3 DEF DeleteCommit
    <2>2. Due([rows[j] EXCEPT !.active = FALSE]) = {}
      BY DEF Due, Types, TypeOK, Row
    <2>3. QED
      BY <1>1, <1>3, <2>1, <2>2 DEF DeleteCommit
  <1>4. ASSUME NEW r \in Requests, PostSchedule(r) \/ DeleteRemove(r),
               OneRequestPerJob'
        PROVE  Agreement'
    <2>1. PICK e \in request[r] : sched' = [sched EXCEPT ![e.job] = e.cron]
      BY <1>4 DEF PostSchedule, DeleteRemove
    <2>2. /\ request' = [request EXCEPT ![r] = {}]
          /\ UNCHANGED <<up, loaded, rows>>
      BY <1>4 DEF PostSchedule, DeleteRemove
    <2>3. e.job \in Jobs /\ request[r] = {e} /\ e.cron = Due(rows[e.job])
      BY <2>1 DEF Agreement, Types, TypeOK
    <2>4. /\ request'[r] = {} /\ \A q \in Requests \ {r} : request'[q] = request[q]
          /\ sched'[e.job] = e.cron
          /\ \A k \in Jobs \ {e.job} : sched'[k] = sched[k]
      BY <2>1, <2>2, <2>3 DEF Types, TypeOK
    <2>5. up
      BY <2>3 DEF Agreement
    <2>6. \A k \in Jobs \ {e.job} : InFlight(k) => InFlight(k)'
      BY <2>3, <2>4 DEF InFlight
    <2>7. ScheduleMatchesRows'
      BY <2>2, <2>3, <2>4, <2>6 DEF ScheduleMatchesRows, Agreement
    <2>8. QED
      BY <1>4, <2>2, <2>4, <2>5, <2>7 DEF Agreement
  <1>5. ASSUME NEW j \in Jobs, Fire(j) \/ Trigger(j) PROVE Agreement'
    <2>1. CASE TFinal(j)
      <3>1. rows' = [rows EXCEPT ![j] = [rows[j] EXCEPT !.last = trig[j].status]]
        BY <2>1 DEF TFinal
      <3>2. rows[j] \in Row
        BY DEF Types, TypeOK
      <3>3. Due([rows[j] EXCEPT !.last = trig[j].status]) = Due(rows[j])
        BY <3>2 DEF Due, Row
      <3>4. \A k \in Jobs : Due(rows'[k]) = Due(rows[k])
        BY <3>1, <3>3 DEF Types, TypeOK
      <3>5. QED
        BY <2>1, <3>4, AgreementKept DEF TFinal
    <2>2. CASE ~TFinal(j)
      <3>1. UNCHANGED <<up, loaded, rows, request, sched>>
        BY <1>5, <2>2
           DEF Fire, Trigger, Proceed, TSelect, TReturn, TSelectFails, TInsert, TSilver,
               TLaunch, TLaunchFails, TWait, TRemoveFails, TWaitFails, TFinalFails
      <3>2. QED
        BY <3>1, AgreementKept
    <2>3. QED
      BY <2>1, <2>2
  <1>6. CASE ContainerExit \/ UNCHANGED vars
    BY <1>6, AgreementKept DEF ContainerExit
  <1>7. CASE Crash
    BY <1>7 DEF Crash, Agreement, OneRequestPerJob, ScheduleMatchesRows
  <1>8. CASE StartUp
    <2>1. /\ \A r \in Requests : request'[r] = {}
          /\ up' /\ UNCHANGED rows
          /\ \/ loaded' = TRUE /\ sched' = Restored
             \/ loaded' = FALSE /\ sched' = sched
      BY <1>8 DEF StartUp, Agreement
    <2>2. \A j \in Jobs : sched[j] = {}
      BY <1>8 DEF StartUp, Agreement
    <2>3. ScheduleMatchesRows'
      BY <2>1, <2>2 DEF ScheduleMatchesRows, Restored
    <2>4. QED
      BY <2>1, <2>3 DEF Agreement, OneRequestPerJob
  <1>9. QED
    BY <1>2, <1>3, <1>4, <1>5, <1>6, <1>7, <1>8 DEF Next

(* When requests for one job are handled one after the other, APScheduler  *)
(* agrees with the rows in every state without a request under way, across *)
(* crashes between the two writes of a request and failed loads.           *)
THEOREM Agrees == SerialSpec => []ScheduleMatchesRows
  <1>1. Init => Agreement
    BY AgreementInit
  <1>2. Types /\ Agreement /\ [Next /\ OneRequestPerJob']_vars => Agreement'
    BY AgreementNext
  <1>3. Agreement => ScheduleMatchesRows
    BY DEF Agreement
  <1>4. QED
    BY <1>1, <1>2, <1>3, SerialTypes, PTL DEF SerialSpec

-----------------------------------------------------------------------------
(* What a phase that ends changes: its own thread, and of the records only *)
(* the list of phases that passed.                                         *)
LEMMA PhaseEndsRecords ==
  ASSUME Types, NEW j \in Jobs, NEW s \in Statuses,
         trig[j].at \in {"run", "wait"}, PhaseEnds(j, s)
  PROVE  /\ \A k \in Jobs \ {j} : trig'[k] = trig[k]
         /\ trig'[j].run = trig[j].run /\ trig'[j].gold = trig[j].gold
         /\ trig'[j].status = s
         /\ trig'[j].phase = IF s = "success" THEN PhaseAfter(trig[j]) ELSE "none"
         /\ trig'[j].at = IF trig'[j].phase = "none" THEN "final" ELSE "run"
         /\ DOMAIN runs' = DOMAIN runs
         /\ \A i \in DOMAIN runs :
              /\ runs'[i].job = runs[i].job /\ runs'[i].status = runs[i].status
              /\ runs'[i].plan = runs[i].plan
              /\ runs'[i].passed = IF s = "success" /\ i = trig[j].run
                                   THEN runs[i].passed \cup {trig[j].phase}
                                   ELSE runs[i].passed
  <1> DEFINE t == trig[j]
             p == IF s = "success" THEN PhaseAfter(t) ELSE "none"
             u == [t EXCEPT !.at = IF p = "none" THEN "final" ELSE "run",
                            !.phase = p, !.status = StatusAfter(t, s)]
  <1>1. t \in Thread /\ t.run \in 1..Len(runs)
    BY DEF Types, TypeOK
  <1>2. trig' = [trig EXCEPT ![j] = u]
    BY DEF PhaseEnds
  <1> HIDE DEF p
  <1>3. /\ u.run = t.run /\ u.gold = t.gold /\ u.status = s /\ u.phase = p
        /\ u.at = IF p = "none" THEN "final" ELSE "run"
    BY <1>1 DEF Thread, StatusAfter
  <1> HIDE DEF u
  <1>4. trig'[j] = u /\ \A k \in Jobs \ {j} : trig'[k] = trig[k]
    BY <1>2 DEF Types, TypeOK
  <1>5. /\ DOMAIN runs' = DOMAIN runs
        /\ \A i \in DOMAIN runs :
              /\ runs'[i].job = runs[i].job /\ runs'[i].status = runs[i].status
              /\ runs'[i].plan = runs[i].plan
              /\ runs'[i].passed = IF s = "success" /\ i = t.run
                                   THEN runs[i].passed \cup {t.phase}
                                   ELSE runs[i].passed
    <2>1. CASE s # "success"
      BY <2>1 DEF PhaseEnds
    <2>2. CASE s = "success"
      <3> DEFINE r == [runs[t.run] EXCEPT !.passed = @ \cup {t.phase}]
      <3>1. runs' = [runs EXCEPT ![t.run] = r]
        BY <2>2 DEF PhaseEnds
      <3>2. runs[t.run] \in Run /\ DOMAIN runs = 1..Len(runs)
        BY <1>1 DEF Types, TypeOK
      <3>3. /\ r.job = runs[t.run].job /\ r.status = runs[t.run].status
            /\ r.plan = runs[t.run].plan
            /\ r.passed = runs[t.run].passed \cup {t.phase}
        BY <3>2 DEF Run
      <3> HIDE DEF r
      <3>4. /\ DOMAIN runs' = DOMAIN runs
            /\ \A i \in DOMAIN runs : runs'[i] = IF i = t.run THEN r ELSE runs[i]
        BY <3>1, <3>2, <1>1
      <3> HIDE DEF t
      <3>5. QED
        BY <2>2, <3>3, <3>4
    <2>3. QED
      BY <2>1, <2>2
  <1>6. QED
    BY <1>3, <1>4, <1>5 DEF p

(* The actions in which a phase ends, and how. *)
LEMMA EndingPhases ==
  ASSUME NEW j \in Jobs,
         \/ TSilver(j) \/ TLaunchFails(j) \/ TWait(j)
         \/ TRemoveFails(j) \/ TWaitFails(j)
  PROVE  /\ trig[j].at \in {"run", "wait"}
         /\ \E s \in Statuses : PhaseEnds(j, s)
         /\ UNCHANGED rows
  BY DEF TSilver, TLaunchFails, TWait, TRemoveFails, TWaitFails, Outcome, Raised

(* The final transaction changes one status and the row's last status. *)
LEMMA FinalRecords ==
  ASSUME Types, NEW j \in Jobs, TFinal(j)
  PROVE  /\ trig[j].at = "final" /\ trig[j].run \in DOMAIN runs
         /\ trig' = [trig EXCEPT ![j] = NoTrigger]
         /\ DOMAIN runs' = DOMAIN runs
         /\ \A i \in DOMAIN runs :
              /\ runs'[i].job = runs[i].job /\ runs'[i].plan = runs[i].plan
              /\ runs'[i].passed = runs[i].passed
              /\ runs'[i].status = IF i = trig[j].run THEN trig[j].status
                                   ELSE runs[i].status
         /\ \A k \in Jobs : rows'[k].last = IF k = j THEN trig[j].status
                                             ELSE rows[k].last
  <1> DEFINE t == trig[j]
             r == Finished(runs[t.run], t.status)
             w == [rows[j] EXCEPT !.last = t.status]
  <1>1. t.run \in 1..Len(runs) /\ DOMAIN runs = 1..Len(runs) /\ runs[t.run] \in Run
    BY DEF Types, TypeOK, TFinal
  <1>2. /\ runs' = [runs EXCEPT ![t.run] = r] /\ rows' = [rows EXCEPT ![j] = w]
        /\ trig' = [trig EXCEPT ![j] = NoTrigger]
    BY DEF TFinal
  <1>3. /\ r.job = runs[t.run].job /\ r.plan = runs[t.run].plan
        /\ r.passed = runs[t.run].passed /\ r.status = t.status
    BY <1>1 DEF Finished, Run
  <1>4. w.last = t.status
    BY DEF Types, TypeOK, Row
  <1> HIDE DEF r, w
  <1>5. \A i \in DOMAIN runs : runs'[i] = IF i = t.run THEN r ELSE runs[i]
    BY <1>1, <1>2
  <1>6. DOMAIN runs' = DOMAIN runs
    BY <1>2
  <1>7. \A k \in Jobs : rows'[k] = IF k = j THEN w ELSE rows[k]
    BY <1>2 DEF Types, TypeOK
  <1>8. trig[j].at = "final"
    BY DEF TFinal
  <1> HIDE DEF t
  <1>9. QED
    BY <1>1, <1>2, <1>3, <1>4, <1>5, <1>6, <1>7, <1>8 DEF t

(* The insertion appends one record and gives it to the thread. *)
LEMMA InsertRecords ==
  ASSUME Types, NEW j \in Jobs, TInsert(j)
  PROVE  /\ \A k \in Jobs \ {j} : trig'[k] = trig[k]
         /\ trig'[j].at = "run" /\ trig'[j].run = Len(runs) + 1
         /\ trig'[j].gold = trig[j].gold
         /\ trig'[j].phase = IF j \in SilverJobs THEN "silver" ELSE "ingestion"
         /\ DOMAIN runs = 1..Len(runs) /\ DOMAIN runs' = 1..(Len(runs) + 1)
         /\ \A i \in DOMAIN runs : runs'[i] = runs[i]
         /\ runs'[Len(runs) + 1] = [job |-> j, status |-> "none", passed |-> {},
                                    plan |-> Plan(j, trig[j].gold)]
         /\ UNCHANGED rows
  <1> DEFINE new == [job |-> j, status |-> "none", passed |-> {},
                     plan |-> Plan(j, trig[j].gold)]
             u == [trig[j] EXCEPT !.at = "run", !.run = Len(runs) + 1,
                     !.phase = IF j \in SilverJobs THEN "silver" ELSE "ingestion"]
  <1>1. /\ runs' = Append(runs, new) /\ trig' = [trig EXCEPT ![j] = u]
        /\ UNCHANGED rows
    BY DEF TInsert
  <1>2. runs \in Seq(Run) /\ trig[j] \in Thread
    BY DEF Types, TypeOK
  <1>3. new \in Run
    BY DEF Run, Plan
  <1>4. /\ u.at = "run" /\ u.run = Len(runs) + 1 /\ u.gold = trig[j].gold
        /\ u.phase = IF j \in SilverJobs THEN "silver" ELSE "ingestion"
    BY <1>2 DEF Thread
  <1> HIDE DEF new, u
  <1>5. /\ DOMAIN runs = 1..Len(runs) /\ DOMAIN runs' = 1..(Len(runs) + 1)
        /\ \A i \in DOMAIN runs : runs'[i] = runs[i]
        /\ runs'[Len(runs) + 1] = new
    BY <1>1, <1>2, <1>3
  <1>6. trig'[j] = u /\ \A k \in Jobs \ {j} : trig'[k] = trig[k]
    BY <1>1 DEF Types, TypeOK
  <1>7. QED
    BY <1>1, <1>4, <1>5, <1>6 DEF new

-----------------------------------------------------------------------------
(* One step never begins a run of a job whose row stays inactive. *)
LEMMA QuietStep ==
  ASSUME Types, [Next]_vars, NEW j \in Jobs,
         ~rows[j].active, ~rows'[j].active, trig[j].at # "insert"
  PROVE  trig'[j].at # "insert" /\ RunsOf(j)' = RunsOf(j)
  <1> USE DEF vars, process, database, memory, history
  <1>1. ASSUME NEW k \in Jobs,
               \/ TSilver(k) \/ TLaunchFails(k) \/ TWait(k)
               \/ TRemoveFails(k) \/ TWaitFails(k)
        PROVE  trig'[j].at # "insert" /\ RunsOf(j)' = RunsOf(j)
    <2>1. PICK s \in Statuses : PhaseEnds(k, s)
      BY <1>1, EndingPhases
    <2>2. trig[k].at \in {"run", "wait"}
      BY <1>1, EndingPhases
    <2>3. trig'[j].at # "insert"
      BY <2>1, <2>2, PhaseEndsRecords
    <2>4. DOMAIN runs' = DOMAIN runs /\ \A i \in DOMAIN runs : runs'[i].job = runs[i].job
      BY <2>1, <2>2, PhaseEndsRecords
    <2>5. QED
      BY <2>3, <2>4 DEF RunsOf
  <1>2. ASSUME NEW k \in Jobs, TInsert(k)
        PROVE  trig'[j].at # "insert" /\ RunsOf(j)' = RunsOf(j)
    <2>1. k # j
      BY <1>2 DEF TInsert
    <2>2. /\ runs'[Len(runs) + 1].job = k
          /\ DOMAIN runs = 1..Len(runs) /\ DOMAIN runs' = 1..(Len(runs) + 1)
          /\ \A i \in DOMAIN runs : runs'[i] = runs[i]
      <3>1. runs'[Len(runs) + 1] = [job |-> k, status |-> "none", passed |-> {},
                                    plan |-> Plan(k, trig[k].gold)]
        BY <1>2, InsertRecords
      <3>2. QED
        BY <1>2, <3>1, InsertRecords
    <2>3. DOMAIN runs' = DOMAIN runs \cup {Len(runs) + 1}
      <3>1. Len(runs) \in Nat
        BY DEF Types, TypeOK
      <3>2. QED
        BY <2>2, <3>1
    <2>4. RunsOf(j)' = RunsOf(j)
      BY <2>1, <2>2, <2>3 DEF RunsOf
    <2>5. trig'[j] = trig[j]
      BY <1>2, <2>1, InsertRecords
    <2>6. QED
      BY <2>4, <2>5
  <1>3. ASSUME NEW k \in Jobs, TFinal(k)
        PROVE  trig'[j].at # "insert" /\ RunsOf(j)' = RunsOf(j)
    <2>1. DOMAIN runs' = DOMAIN runs /\ \A i \in DOMAIN runs : runs'[i].job = runs[i].job
      BY <1>3, FinalRecords
    <2>2. trig'[j].at # "insert"
      BY <1>3, FinalRecords, NoTriggerTypes DEF Types, TypeOK
    <2>3. QED
      BY <2>1, <2>2 DEF RunsOf
  <1>4. ASSUME NEW k \in Jobs,
               \/ Fire(k) \/ TSelect(k) \/ TReturn(k) \/ TSelectFails(k)
               \/ TLaunch(k) \/ TFinalFails(k)
        PROVE  trig'[j].at # "insert" /\ RunsOf(j)' = RunsOf(j)
    <2>1. UNCHANGED runs
      BY <1>4 DEF Fire, TSelect, TReturn, TSelectFails, TLaunch, TFinalFails
    <2>2. RunsOf(j)' = RunsOf(j)
      BY <2>1 DEF RunsOf
    <2>3. CASE k # j
      <3>1. trig'[j] = trig[j]
        BY <1>4, <2>3 DEF Fire, TSelect, TReturn, TSelectFails, TLaunch, TFinalFails,
                          Types, TypeOK
      <3>2. QED
        BY <2>2, <3>1
    <2>4. CASE k = j
      <3>1. ~TSelect(k)
        BY <2>4 DEF TSelect, Found
      <3>2. trig[j] \in Thread
        BY DEF Types, TypeOK
      <3>3. CASE Fire(k)
        <4>1. trig'[j] = [trig[j] EXCEPT !.at = "select"]
          BY <2>4, <3>3 DEF Fire, Types, TypeOK
        <4>2. QED
          BY <2>2, <3>2, <4>1 DEF Thread
      <3>4. CASE TLaunch(k)
        <4>1. trig'[j] = [trig[j] EXCEPT !.at = "wait"]
          BY <2>4, <3>4 DEF TLaunch, Types, TypeOK
        <4>2. QED
          BY <2>2, <3>2, <4>1 DEF Thread
      <3>5. CASE TReturn(k) \/ TSelectFails(k) \/ TFinalFails(k)
        <4>1. trig'[j] = NoTrigger
          BY <2>4, <3>5 DEF TReturn, TSelectFails, TFinalFails, Types, TypeOK
        <4>2. QED
          BY <2>2, <4>1, NoTriggerTypes
      <3>6. QED
        BY <1>4, <3>1, <3>3, <3>4, <3>5
    <2>5. QED
      BY <2>3, <2>4
  <1>5. CASE Crash
    BY <1>5, NoTriggerTypes DEF Crash, RunsOf
  <1>6. CASE \/ ContainerExit \/ StartUp \/ UNCHANGED vars
             \/ \E r \in Requests : \/ PostCommit(r) \/ PostSchedule(r)
                                    \/ DeleteCommit(r) \/ DeleteRemove(r)
    <2>1. UNCHANGED <<runs, trig>>
      BY <1>6 DEF ContainerExit, StartUp, PostCommit, PostSchedule, DeleteCommit,
                  DeleteRemove
    <2>2. QED
      BY <2>1 DEF RunsOf
  <1>7. QED
    BY <1>1, <1>2, <1>3, <1>4, <1>5, <1>6 DEF Next, Trigger, Proceed

(* A deleted schedule stays quiet in every behaviour, whatever requests,   *)
(* crashes and restarts do to APScheduler's map.                           *)
THEOREM Quiet == Spec => InactiveStaysQuiet
  <1>1. Types /\ [Next]_vars =>
          [\A j \in Jobs :
             ~rows[j].active /\ ~rows'[j].active /\ trig[j].at # "insert" =>
               trig'[j].at # "insert" /\ RunsOf(j)' = RunsOf(j)]_vars
    BY QuietStep
  <1>2. QED
    BY <1>1, TypesInvariant, PTL DEF Spec, InactiveStaysQuiet

-----------------------------------------------------------------------------
(* Why a success is earned: the record of a thread at work is its own, it  *)
(* is not finished, and what its plan still lacks are the phase the thread *)
(* is in and the one after it.                                             *)
RecordOf(j) ==
  LET t == trig[j] IN
  t.at \in {"run", "wait", "final"} =>
    /\ runs[t.run].job = j /\ runs[t.run].status = "none"
    /\ runs[t.run].plan = Plan(j, t.gold)
    /\ t.at # "final" =>
         runs[t.run].plan \ runs[t.run].passed \subseteq {t.phase, PhaseAfter(t)}
    /\ t.at = "final" /\ t.status = "success" =>
         runs[t.run].plan \subseteq runs[t.run].passed

Records == (\A j \in Jobs : RecordOf(j)) /\ SuccessIsEarned

(* Two threads at work never share a record. *)
LEMMA OwnRecord ==
  ASSUME Records, NEW j \in Jobs, NEW k \in Jobs,
         trig[j].at \in {"run", "wait", "final"},
         trig[k].at \in {"run", "wait", "final"}, trig[j].run = trig[k].run
  PROVE  j = k
  BY DEF Records, RecordOf

(* There is no record and no thread. *)
LEMMA RecordsInit == Init => Records
  BY NoTriggerTypes DEF Init, Records, RecordOf, SuccessIsEarned, NoRow

(* Threads that do not work may do as they like: records that stay as they *)
(* are stay right.                                                         *)
LEMMA RecordsKept ==
  ASSUME Types, Records, UNCHANGED runs,
         \A j \in Jobs : rows'[j].last = rows[j].last,
         \A j \in Jobs :
           trig'[j].at \in {"run", "wait", "final"} =>
             /\ trig[j].at = "run" \/ trig'[j] = trig[j]
             /\ trig[j].at = "run" => trig'[j].at \in {"run", "wait"}
             /\ trig'[j].run = trig[j].run /\ trig'[j].gold = trig[j].gold
             /\ trig'[j].phase = trig[j].phase
  PROVE  Records'
  <1>1. SuccessIsEarned'
    BY DEF SuccessIsEarned, RunsOf, Records
  <1>2. ASSUME NEW j \in Jobs PROVE RecordOf(j)'
    <2> SUFFICES ASSUME trig'[j].at \in {"run", "wait", "final"} PROVE RecordOf(j)'
      BY DEF RecordOf
    <2>1. CASE trig'[j] = trig[j]
      BY <2>1 DEF Records, RecordOf, PhaseAfter
    <2>2. CASE trig[j].at = "run"
      BY <2>2 DEF Records, RecordOf, PhaseAfter
    <2>3. QED
      BY <2>1, <2>2
  <1>3. QED
    BY <1>1, <1>2 DEF Records

(* A phase that ends keeps the records right. *)
LEMMA RecordsPhase ==
  ASSUME Types, Records, NEW j \in Jobs, NEW s \in Statuses,
         trig[j].at \in {"run", "wait"}, PhaseEnds(j, s), UNCHANGED rows
  PROVE  Records'
  <1> DEFINE i == trig[j].run
  <1>1. i \in DOMAIN runs
    BY DEF Types, TypeOK
  <1>2. /\ DOMAIN runs' = DOMAIN runs
        /\ \A n \in DOMAIN runs :
              /\ runs'[n].job = runs[n].job /\ runs'[n].status = runs[n].status
              /\ runs'[n].plan = runs[n].plan
              /\ runs[n].passed \subseteq runs'[n].passed
              /\ n # i => runs'[n].passed = runs[n].passed
    <2>1. DOMAIN runs' = DOMAIN runs
      BY PhaseEndsRecords
    <2>2. ASSUME NEW n \in DOMAIN runs
          PROVE  /\ runs'[n].job = runs[n].job /\ runs'[n].status = runs[n].status
                 /\ runs'[n].plan = runs[n].plan
                 /\ runs'[n].passed = IF s = "success" /\ n = trig[j].run
                                      THEN runs[n].passed \cup {trig[j].phase}
                                      ELSE runs[n].passed
      BY <2>2, PhaseEndsRecords
    <2> HIDE DEF i
    <2>3. ASSUME NEW n \in DOMAIN runs
          PROVE  runs[n].passed \subseteq runs'[n].passed
      BY <2>2
    <2>4. ASSUME NEW n \in DOMAIN runs, n # i
          PROVE  runs'[n].passed = runs[n].passed
      BY <2>2, <2>4 DEF i
    <2>5. QED
      BY <2>1, <2>2, <2>3, <2>4
  <1>3. SuccessIsEarned'
    BY <1>2 DEF SuccessIsEarned, RunsOf, Records
  <1>4. ASSUME NEW k \in Jobs \ {j} PROVE RecordOf(k)'
    <2>1. trig'[k] = trig[k]
      BY PhaseEndsRecords
    <2>2. CASE trig[k].at \in {"run", "wait", "final"}
      <3>1. trig[k].run # i
        BY <2>2, OwnRecord
      <3>2. trig[k].run \in DOMAIN runs
        BY <2>2 DEF Types, TypeOK
      <3>3. QED
        BY <1>2, <2>1, <2>2, <3>1, <3>2 DEF Records, RecordOf, PhaseAfter
    <2>3. QED
      BY <2>1, <2>2 DEF RecordOf
  <1>5. RecordOf(j)'
    <2> DEFINE p == trig[j].phase
               q == PhaseAfter(trig[j])
    <2>1. /\ runs[i].job = j /\ runs[i].status = "none"
          /\ runs[i].plan = Plan(j, trig[j].gold)
          /\ runs[i].plan \ runs[i].passed \subseteq {p, q}
      BY DEF Records, RecordOf
    <2>2. /\ trig'[j].run = i /\ trig'[j].gold = trig[j].gold
          /\ trig'[j].status = s
          /\ trig'[j].phase = IF s = "success" THEN q ELSE "none"
          /\ trig'[j].at = IF trig'[j].phase = "none" THEN "final" ELSE "run"
      BY PhaseEndsRecords
    <2>3. /\ runs'[i].job = j /\ runs'[i].status = "none"
          /\ runs'[i].plan = Plan(j, trig'[j].gold)
      BY <1>1, <1>2, <2>1, <2>2
    <2>4. CASE s = "success"
      <3>1. runs'[i].passed = runs[i].passed \cup {p}
        BY <1>1, <2>4, PhaseEndsRecords
      <3>2. runs'[i].plan \ runs'[i].passed \subseteq {q}
        BY <2>1, <2>2, <2>3, <3>1
      <3>3. "none" \notin runs'[i].plan
        BY <2>3 DEF Plan
      <3> HIDE DEF i, q
      <3>4. QED
        BY <2>2, <2>3, <2>4, <3>2, <3>3 DEF RecordOf
    <2>5. CASE s # "success"
      <3> HIDE DEF i, q
      <3>1. QED
        BY <2>2, <2>3, <2>5 DEF RecordOf
    <2>6. QED
      BY <2>4, <2>5
  <1>6. QED
    BY <1>3, <1>4, <1>5 DEF Records

(* A new record lacks its whole plan. *)
LEMMA RecordsInsert ==
  ASSUME Types, Records, NEW j \in Jobs, TInsert(j)
  PROVE  Records'
  <1> DEFINE n == Len(runs) + 1
  <1>1. /\ DOMAIN runs' = DOMAIN runs \cup {n} /\ n \notin DOMAIN runs
        /\ \A i \in DOMAIN runs : runs'[i] = runs[i]
        /\ UNCHANGED rows
    <2>1. Len(runs) \in Nat /\ DOMAIN runs = 1..Len(runs)
      BY DEF Types, TypeOK
    <2>2. DOMAIN runs' = 1..n
      BY InsertRecords
    <2>3. \A i \in DOMAIN runs : runs'[i] = runs[i]
      BY InsertRecords
    <2>4. UNCHANGED rows
      BY InsertRecords
    <2>5. QED
      BY <2>1, <2>2, <2>3, <2>4
  <1>2. /\ runs'[n].job = j /\ runs'[n].status = "none"
        /\ runs'[n].plan = Plan(j, trig[j].gold) /\ runs'[n].passed = {}
    <2>1. runs'[n] = [job |-> j, status |-> "none", passed |-> {},
                      plan |-> Plan(j, trig[j].gold)]
      BY InsertRecords
    <2>2. QED
      BY <2>1
  <1>3. /\ \A k \in Jobs \ {j} : trig'[k] = trig[k]
        /\ trig'[j].at = "run" /\ trig'[j].run = n /\ trig'[j].gold = trig[j].gold
        /\ trig'[j].phase = IF j \in SilverJobs THEN "silver" ELSE "ingestion"
    BY InsertRecords
  <1> HIDE DEF n
  <1>4. SuccessIsEarned'
    BY <1>1, <1>2 DEF SuccessIsEarned, RunsOf, Records
  <1>5. ASSUME NEW k \in Jobs \ {j} PROVE RecordOf(k)'
    <2>1. trig[k].at \in {"run", "wait", "final"} => trig[k].run \in DOMAIN runs
      BY DEF Types, TypeOK
    <2>2. QED
      BY <1>1, <1>3, <2>1 DEF Records, RecordOf, PhaseAfter
  <1>6. RecordOf(j)'
    <2>1. trig'[j].gold \in BOOLEAN
      BY <1>3 DEF Types, TypeOK, Thread
    <2>2. Plan(j, trig'[j].gold) \subseteq {trig'[j].phase, PhaseAfter(trig'[j])}
      BY <1>3, <2>1 DEF Plan, PhaseAfter
    <2>3. PhaseAfter(trig[j])' = PhaseAfter(trig'[j])
      BY DEF PhaseAfter
    <2>4. QED
      BY <1>2, <1>3, <2>2, <2>3 DEF RecordOf
  <1>7. QED
    BY <1>4, <1>5, <1>6 DEF Records

(* The last transaction reports a success only if the thread earned it. *)
LEMMA RecordsFinal ==
  ASSUME Types, Records, NEW j \in Jobs, TFinal(j)
  PROVE  Records'
  <1> DEFINE i == trig[j].run
  <1>1. /\ trig[j].at = "final" /\ i \in DOMAIN runs
        /\ trig' = [trig EXCEPT ![j] = NoTrigger]
    BY FinalRecords
  <1>2. /\ DOMAIN runs' = DOMAIN runs
        /\ \A n \in DOMAIN runs :
              /\ runs'[n].job = runs[n].job /\ runs'[n].plan = runs[n].plan
              /\ runs'[n].passed = runs[n].passed
              /\ runs'[n].status = IF n = i THEN trig[j].status ELSE runs[n].status
        /\ \A k \in Jobs : rows'[k].last = IF k = j THEN trig[j].status
                                            ELSE rows[k].last
    BY FinalRecords
  <1>3. /\ runs[i].job = j /\ runs[i].status = "none"
        /\ trig[j].status = "success" => runs[i].plan \subseteq runs[i].passed
    BY <1>1 DEF Records, RecordOf
  <1>4. /\ trig'[j] = NoTrigger
        /\ \A k \in Jobs \ {j} : trig'[k] = trig[k]
    BY <1>1 DEF Types, TypeOK
  <1>5. ASSUME NEW k \in Jobs \ {j} PROVE RecordOf(k)'
    <2>1. CASE trig[k].at \in {"run", "wait", "final"}
      <3>1. trig[k].run # i
        BY <1>1, <2>1, OwnRecord
      <3>2. trig[k].run \in DOMAIN runs
        BY <2>1 DEF Types, TypeOK
      <3>3. QED
        BY <1>2, <1>4, <2>1, <3>1, <3>2 DEF Records, RecordOf, PhaseAfter
    <2>2. QED
      BY <1>4, <2>1 DEF RecordOf
  <1>6. RecordOf(j)'
    BY <1>4, NoTriggerTypes DEF RecordOf
  <1>7. SuccessIsEarned'
    <2> HIDE DEF i
    <2>1. \A n \in DOMAIN runs' :
            runs'[n].status = "success" => runs'[n].plan \subseteq runs'[n].passed
      BY <1>2, <1>3 DEF Records, SuccessIsEarned
    <2>2. ASSUME NEW k \in Jobs, rows'[k].last = "success"
          PROVE  \E n \in DOMAIN runs' : runs'[n].job = k /\ runs'[n].status = "success"
      <3>1. CASE k = j
        BY <1>1, <1>2, <1>3, <2>2, <3>1
      <3>2. CASE k # j
        <4>1. PICK n \in DOMAIN runs : runs[n].job = k /\ runs[n].status = "success"
          BY <1>2, <2>2, <3>2 DEF Records, SuccessIsEarned, RunsOf
        <4>2. n # i
          BY <1>3, <4>1
        <4>3. QED
          BY <1>2, <4>1, <4>2
      <3>3. QED
        BY <3>1, <3>2
    <2>3. QED
      BY <2>1, <2>2 DEF SuccessIsEarned, RunsOf
  <1>8. QED
    BY <1>5, <1>6, <1>7 DEF Records

(* Every step keeps the records right. *)
LEMMA RecordsNext == Types /\ Records /\ [Next]_vars => Records'
  <1> SUFFICES ASSUME Types, Records, [Next]_vars PROVE Records'
    OBVIOUS
  <1> USE DEF vars, process, database, memory, history
  <1>1. ASSUME NEW j \in Jobs,
               \/ TSilver(j) \/ TLaunchFails(j) \/ TWait(j)
               \/ TRemoveFails(j) \/ TWaitFails(j)
        PROVE  Records'
    <2>1. trig[j].at \in {"run", "wait"} /\ UNCHANGED rows
      BY <1>1, EndingPhases
    <2>2. PICK s \in Statuses : PhaseEnds(j, s)
      BY <1>1, EndingPhases
    <2>3. QED
      BY <2>1, <2>2, RecordsPhase
  <1>2. ASSUME NEW j \in Jobs, TInsert(j) PROVE Records'
    BY <1>2, RecordsInsert
  <1>3. ASSUME NEW j \in Jobs, TFinal(j) PROVE Records'
    BY <1>3, RecordsFinal
  <1>4. ASSUME NEW j \in Jobs, NEW u \in Thread, UNCHANGED <<rows, runs>>,
               trig' = [trig EXCEPT ![j] = u],
               \/ u.at \notin {"run", "wait", "final"}
               \/ trig[j].at = "run" /\ u = [trig[j] EXCEPT !.at = "wait"]
        PROVE  Records'
    <2>1. trig'[j] = u /\ \A k \in Jobs \ {j} : trig'[k] = trig[k]
      BY <1>4 DEF Types, TypeOK
    <2>2. trig[j] \in Thread
      BY DEF Types, TypeOK
    <2>3. u.at \in {"run", "wait", "final"} =>
            /\ trig[j].at = "run" /\ u.at = "wait" /\ u.run = trig[j].run
            /\ u.gold = trig[j].gold /\ u.phase = trig[j].phase
      BY <1>4, <2>2 DEF Thread
    <2>4. QED
      BY <1>4, <2>1, <2>3, RecordsKept
  <1>5. ASSUME NEW j \in Jobs, Fire(j) PROVE Records'
    <2> DEFINE u == [trig[j] EXCEPT !.at = "select"]
    <2>1. u \in Thread /\ u.at = "select"
      BY DEF Thread, Types, TypeOK
    <2>2. QED
      BY <1>4, <1>5, <2>1 DEF Fire
  <1>6. ASSUME NEW j \in Jobs, TSelect(j) PROVE Records'
    <2> DEFINE u == [trig[j] EXCEPT !.at = "insert", !.gold = rows[j].gold]
    <2>1. rows[j].gold \in BOOLEAN /\ trig[j] \in Thread
      BY DEF Types, TypeOK, Row
    <2>2. u \in Thread /\ u.at = "insert"
      BY <2>1 DEF Thread
    <2>3. trig' = [trig EXCEPT ![j] = u] /\ UNCHANGED <<rows, runs>>
      BY <1>6, <2>1 DEF TSelect, Types, TypeOK
    <2> HIDE DEF u
    <2>4. QED
      BY <1>4, <2>2, <2>3
  <1>7. ASSUME NEW j \in Jobs, TReturn(j) \/ TSelectFails(j) \/ TFinalFails(j)
        PROVE  Records'
    <2>1. trig' = [trig EXCEPT ![j] = NoTrigger] /\ UNCHANGED <<rows, runs>>
      BY <1>7 DEF TReturn, TSelectFails, TFinalFails
    <2>2. QED
      BY <1>4, <2>1, NoTriggerTypes
  <1>8. ASSUME NEW j \in Jobs, TLaunch(j) PROVE Records'
    <2> DEFINE u == [trig[j] EXCEPT !.at = "wait"]
    <2>1. u \in Thread
      BY DEF Thread, Types, TypeOK
    <2>2. QED
      BY <1>4, <1>8, <2>1 DEF TLaunch
  <1>9. CASE Crash
    BY <1>9, NoTriggerTypes, RecordsKept DEF Crash
  <1>10. ASSUME NEW r \in Requests, PostCommit(r) PROVE Records'
    <2>1. PICK j \in Jobs, c \in Crons, g \in BOOLEAN :
            rows' = [rows EXCEPT ![j] = Upserted(rows[j], c, g)]
      BY <1>10 DEF PostCommit
    <2>2. Upserted(rows[j], c, g).last = rows[j].last
      BY DEF Upserted, Types, TypeOK, Row
    <2>3. \A k \in Jobs : rows'[k].last = rows[k].last
      BY <2>1, <2>2 DEF Types, TypeOK
    <2>4. QED
      BY <1>10, <2>3, RecordsKept DEF PostCommit
  <1>11. ASSUME NEW r \in Requests, DeleteCommit(r) PROVE Records'
    <2>1. PICK j \in Jobs : rows' = [rows EXCEPT ![j] = [rows[j] EXCEPT !.active = FALSE]]
      BY <1>11 DEF DeleteCommit
    <2>2. [rows[j] EXCEPT !.active = FALSE].last = rows[j].last
      BY DEF Types, TypeOK, Row
    <2>3. \A k \in Jobs : rows'[k].last = rows[k].last
      BY <2>1, <2>2 DEF Types, TypeOK
    <2>4. QED
      BY <1>11, <2>3, RecordsKept DEF DeleteCommit
  <1>12. CASE \/ ContainerExit \/ StartUp \/ UNCHANGED vars
              \/ \E r \in Requests : PostSchedule(r) \/ DeleteRemove(r)
    <2>1. UNCHANGED <<rows, runs, trig>>
      BY <1>12 DEF ContainerExit, StartUp, PostSchedule, DeleteRemove
    <2>2. QED
      BY <2>1, RecordsKept
  <1>13. QED
    BY <1>1, <1>2, <1>3, <1>5, <1>6, <1>7, <1>8, <1>9, <1>10, <1>11, <1>12
       DEF Next, Trigger, Proceed

(* The records are right in every behaviour ... *)
LEMMA RecordsInvariant == Spec => []Records
  <1>1. Types /\ Records /\ [Next]_vars => Records'
    BY RecordsNext
  <1>2. QED
    BY <1>1, RecordsInit, TypesInvariant, PTL DEF Spec

(* ... and so a run and a job are reported successful only when every      *)
(* phase of the plan exited with 0, whatever raised on the way.            *)
THEOREM Earned == Spec => []SuccessIsEarned
  BY RecordsInvariant, PTL DEF Records

-----------------------------------------------------------------------------
(* Why no container is forgotten: a thread never launches the container of *)
(* a phase twice, so the one it removes is the only one of its phase.      *)
OneContainerPerPhase ==
  \A c, d \in containers :
    c.run = d.run /\ c.phase = d.phase /\ c.run \notin spoilt => c = d

Contained == NoContainerForgotten /\ OneContainerPerPhase

(* What waits for a container keeps waiting, containers only disappear,    *)
(* and records only become spoilt: nothing is forgotten.                   *)
LEMMA ContainedKept ==
  ASSUME Contained, containers' \subseteq containers, spoilt \subseteq spoilt',
         \A j \in Jobs : trig[j].at = "wait" /\ trig[j].run \notin spoilt' =>
                         trig'[j] = trig[j]
  PROVE  Contained'
  <1>1. OneContainerPerPhase'
    BY DEF Contained, OneContainerPerPhase
  <1>2. ASSUME NEW c \in containers', c.run \notin spoilt'
        PROVE  \E j \in Jobs : /\ trig'[j].at = "wait"
                               /\ trig'[j].run = c.run /\ trig'[j].phase = c.phase
    <2>1. PICK j \in Jobs : /\ trig[j].at = "wait"
                            /\ trig[j].run = c.run /\ trig[j].phase = c.phase
      BY <1>2 DEF Contained, NoContainerForgotten
    <2>2. trig'[j] = trig[j]
      BY <1>2, <2>1
    <2>3. QED
      BY <2>1, <2>2
  <1>3. QED
    BY <1>1, <1>2 DEF Contained, NoContainerForgotten

(* A launch adds the container that the thread then waits for. *)
LEMMA ContainedLaunch ==
  ASSUME Types, Records, Contained, NEW j \in Jobs, TLaunch(j)
  PROVE  Contained'
  <1> DEFINE n == Container(trig[j], "running")
  <1>1. n.run = trig[j].run /\ n.phase = trig[j].phase
    BY DEF Container
  <1>2. /\ trig[j].at = "run" /\ containers' = containers \cup {n} /\ spoilt' = spoilt
        /\ trig' = [trig EXCEPT ![j].at = "wait"]
    BY DEF TLaunch, history
  <1> HIDE DEF n
  <1>3. trig[j] \in Thread /\ trig'[j] = [trig[j] EXCEPT !.at = "wait"]
    BY <1>2 DEF Types, TypeOK
  <1>4. trig'[j].at = "wait" /\ trig'[j].run = n.run /\ trig'[j].phase = n.phase
    BY <1>1, <1>3 DEF Thread
  <1>5. \A k \in Jobs \ {j} : trig'[k] = trig[k]
    BY <1>2 DEF Types, TypeOK
  <1>6. \A d \in containers : ~(/\ d.run = n.run /\ d.run \notin spoilt)
    <2> SUFFICES ASSUME NEW d \in containers, d.run = n.run, d.run \notin spoilt
                 PROVE  FALSE
      OBVIOUS
    <2>1. PICK k \in Jobs : trig[k].at = "wait" /\ trig[k].run = d.run
      BY DEF Contained, NoContainerForgotten
    <2>2. k = j
      BY <1>1, <1>2, <2>1, OwnRecord
    <2>3. QED
      BY <1>2, <2>1, <2>2
  <1>7. OneContainerPerPhase'
    BY <1>2, <1>6 DEF Contained, OneContainerPerPhase
  <1>8. ASSUME NEW c \in containers', c.run \notin spoilt'
        PROVE  \E k \in Jobs : /\ trig'[k].at = "wait"
                               /\ trig'[k].run = c.run /\ trig'[k].phase = c.phase
    <2>1. CASE c = n
      BY <1>4, <2>1
    <2>2. CASE c \in containers
      <3>1. PICK k \in Jobs : /\ trig[k].at = "wait"
                              /\ trig[k].run = c.run /\ trig[k].phase = c.phase
        BY <1>2, <1>8, <2>2 DEF Contained, NoContainerForgotten
      <3>2. k # j
        BY <1>2, <3>1
      <3>3. QED
        BY <1>5, <3>1, <3>2
    <2>3. QED
      BY <1>2, <2>1, <2>2
  <1>9. QED
    BY <1>7, <1>8 DEF Contained, NoContainerForgotten

(* The thread that waits removes the only container of its phase. *)
LEMMA ContainedWait ==
  ASSUME Types, Contained, NEW j \in Jobs, TWait(j)
  PROVE  Contained'
  <1>1. PICK c \in Exited(j) : /\ PhaseEnds(j, Outcome(c))
                               /\ containers' = containers \ Removed(c)
    BY DEF TWait
  <1>2. Outcome(c) \in Statuses
    BY DEF Outcome, Statuses
  <1>3. \A k \in Jobs \ {j} : trig'[k] = trig[k]
    BY <1>1, <1>2, PhaseEndsRecords DEF TWait
  <1>4. /\ c \in containers /\ c.run = trig[j].run /\ c.phase = trig[j].phase
        /\ containers' = containers \ {c} /\ spoilt' = spoilt
    BY <1>1 DEF Exited, Container, Removed, TWait, history
  <1>5. OneContainerPerPhase'
    BY <1>4 DEF Contained, OneContainerPerPhase
  <1>6. ASSUME NEW d \in containers', d.run \notin spoilt'
        PROVE  \E k \in Jobs : /\ trig'[k].at = "wait"
                               /\ trig'[k].run = d.run /\ trig'[k].phase = d.phase
    <2>1. PICK k \in Jobs : /\ trig[k].at = "wait"
                            /\ trig[k].run = d.run /\ trig[k].phase = d.phase
      BY <1>4, <1>6 DEF Contained, NoContainerForgotten
    <2>2. k # j
      BY <1>4, <1>6, <2>1 DEF Contained, OneContainerPerPhase
    <2>3. QED
      BY <1>3, <2>1, <2>2
  <1>7. QED
    BY <1>5, <1>6 DEF Contained, NoContainerForgotten

(* A container that exits is still the container of its phase. *)
LEMMA ContainedExit ==
  ASSUME Types, Contained, ContainerExit
  PROVE  Contained'
  <1>1. PICK c \in containers, s \in {"exit0", "exit1"} :
          containers' = (containers \ {c}) \cup {[c EXCEPT !.state = s]}
    BY DEF ContainerExit
  <1> DEFINE e == [c EXCEPT !.state = s]
  <1>2. e.run = c.run /\ e.phase = c.phase
    BY DEF Types, TypeOK
  <1>3. UNCHANGED <<trig, spoilt>> /\ containers' = (containers \ {c}) \cup {e}
    BY <1>1 DEF ContainerExit, memory, history
  <1> HIDE DEF e
  <1>4. OneContainerPerPhase'
    BY <1>2, <1>3 DEF Contained, OneContainerPerPhase
  <1>5. NoContainerForgotten'
    BY <1>2, <1>3 DEF Contained, NoContainerForgotten
  <1>6. QED
    BY <1>4, <1>5 DEF Contained

(* No step forgets a container. *)
LEMMA ContainedNext == Types /\ Records /\ Contained /\ [Next]_vars => Contained'
  <1> SUFFICES ASSUME Types, Records, Contained, [Next]_vars PROVE Contained'
    OBVIOUS
  <1> USE DEF vars, process, database, memory, history
  <1>2. ASSUME NEW j \in Jobs,
               Fire(j) \/ TReturn(j) \/ TSelectFails(j) \/ TFinal(j)
        PROVE  Contained'
    <2>1. \A k \in Jobs : trig[k].at = "wait" => trig'[k] = trig[k]
      BY <1>2 DEF Fire, TReturn, TSelectFails, TFinal, Types, TypeOK
    <2>2. UNCHANGED <<containers, spoilt>>
      BY <1>2 DEF Fire, TReturn, TSelectFails, TFinal
    <2>3. QED
      BY <2>1, <2>2, ContainedKept
  <1>3. ASSUME NEW j \in Jobs, TSelect(j) PROVE Contained'
    <2>1. \A k \in Jobs \ {j} : trig'[k] = trig[k]
      BY <1>3 DEF TSelect, Types, TypeOK
    <2>2. trig[j].at = "select" /\ UNCHANGED <<containers, spoilt>>
      BY <1>3 DEF TSelect
    <2>3. QED
      BY <2>1, <2>2, ContainedKept
  <1>4. ASSUME NEW j \in Jobs, TInsert(j) PROVE Contained'
    <2>1. \A k \in Jobs \ {j} : trig'[k] = trig[k]
      BY <1>4, InsertRecords
    <2>2. trig[j].at = "insert" /\ UNCHANGED <<containers, spoilt>>
      BY <1>4 DEF TInsert
    <2>3. QED
      BY <2>1, <2>2, ContainedKept
  <1>5. ASSUME NEW j \in Jobs, TSilver(j) PROVE Contained'
    <2>1. PICK s \in Statuses : PhaseEnds(j, s)
      BY <1>5 DEF TSilver
    <2>2. trig[j].at = "run" /\ UNCHANGED <<containers, spoilt>>
      BY <1>5 DEF TSilver
    <2>3. \A k \in Jobs \ {j} : trig'[k] = trig[k]
      BY <2>1, <2>2, PhaseEndsRecords
    <2>4. QED
      BY <2>2, <2>3, ContainedKept
  <1>6. ASSUME NEW j \in Jobs, TLaunch(j) PROVE Contained'
    BY <1>6, ContainedLaunch
  <1>7. ASSUME NEW j \in Jobs, TWait(j) PROVE Contained'
    BY <1>7, ContainedWait
  <1>8. ASSUME NEW j \in Jobs, TLaunchFails(j) PROVE Contained'
    <2> DEFINE n == Container(trig[j], "running")
    <2>1. PhaseEnds(j, Raised(trig[j].phase)) /\ trig[j].at = "run"
      BY <1>8 DEF TLaunchFails
    <2>2. Raised(trig[j].phase) \in Statuses
      BY DEF Raised, Statuses
    <2>3. \A k \in Jobs \ {j} : trig'[k] = trig[k]
      BY <2>1, <2>2, PhaseEndsRecords
    <2>4. \/ UNCHANGED <<containers, spoilt>>
          \/ containers' = containers \cup {n} /\ spoilt' = spoilt \cup {n.run}
      BY <1>8 DEF TLaunchFails, Container
    <2> HIDE DEF n
    <2>5. OneContainerPerPhase'
      BY <2>4 DEF Contained, OneContainerPerPhase
    <2>6. ASSUME NEW c \in containers', c.run \notin spoilt'
          PROVE  \E k \in Jobs : /\ trig'[k].at = "wait"
                                 /\ trig'[k].run = c.run /\ trig'[k].phase = c.phase
      <3>1. c \in containers /\ c.run \notin spoilt
        BY <2>4, <2>6
      <3>2. PICK k \in Jobs : /\ trig[k].at = "wait"
                              /\ trig[k].run = c.run /\ trig[k].phase = c.phase
        BY <3>1 DEF Contained, NoContainerForgotten
      <3>3. k # j
        BY <2>1, <3>2
      <3>4. QED
        BY <2>3, <3>2, <3>3
    <2>7. QED
      BY <2>5, <2>6 DEF Contained, NoContainerForgotten
  <1>9. ASSUME NEW j \in Jobs, TRemoveFails(j) \/ TWaitFails(j) PROVE Contained'
    <2>1. PICK s \in Statuses : PhaseEnds(j, s)
      BY <1>9, EndingPhases
    <2>2. trig[j].at = "wait"
      BY <1>9 DEF TRemoveFails, TWaitFails
    <2>3. \A k \in Jobs \ {j} : trig'[k] = trig[k]
      BY <2>1, <2>2, PhaseEndsRecords
    <2>4. CASE containers' = containers /\ spoilt' = spoilt \cup {trig[j].run}
      BY <2>3, <2>4, ContainedKept
    <2>5. CASE /\ containers' = {c \in containers :
                                  c.run # trig[j].run \/ c.phase # trig[j].phase}
               /\ spoilt' = spoilt
      <3>1. OneContainerPerPhase'
        BY <2>5 DEF Contained, OneContainerPerPhase
      <3>2. ASSUME NEW c \in containers', c.run \notin spoilt'
            PROVE  \E k \in Jobs : /\ trig'[k].at = "wait"
                                   /\ trig'[k].run = c.run /\ trig'[k].phase = c.phase
        <4>1. PICK k \in Jobs : /\ trig[k].at = "wait"
                                /\ trig[k].run = c.run /\ trig[k].phase = c.phase
          BY <2>5, <3>2 DEF Contained, NoContainerForgotten
        <4>2. k # j
          BY <2>5, <3>2, <4>1
        <4>3. QED
          BY <2>3, <4>1, <4>2
      <3>3. QED
        BY <3>1, <3>2 DEF Contained, NoContainerForgotten
    <2>6. QED
      BY <1>9, <2>4, <2>5 DEF TRemoveFails, TWaitFails
  <1>10. ASSUME NEW j \in Jobs, TFinalFails(j) PROVE Contained'
    <2>1. \A k \in Jobs \ {j} : trig'[k] = trig[k]
      BY <1>10 DEF TFinalFails, Types, TypeOK
    <2>2. trig[j].at = "final" /\ UNCHANGED <<containers, spoilt>>
      BY <1>10 DEF TFinalFails, history
    <2>3. QED
      BY <2>1, <2>2, ContainedKept
  <1>11. CASE Crash
    <2>1. containers' = containers /\ spoilt' = spoilt \cup Working
      BY <1>11 DEF Crash
    <2>2. \A j \in Jobs : trig[j].at = "wait" => trig[j].run \in spoilt'
      BY <2>1 DEF Working
    <2>3. QED
      BY <2>1, <2>2, ContainedKept
  <1>12. CASE ContainerExit
    BY <1>12, ContainedExit
  <1>13. CASE \/ StartUp \/ UNCHANGED vars
              \/ \E r \in Requests : \/ PostCommit(r) \/ PostSchedule(r)
                                     \/ DeleteCommit(r) \/ DeleteRemove(r)
    <2>1. containers' \subseteq containers /\ UNCHANGED <<trig, spoilt>>
      BY <1>13 DEF StartUp, PostCommit, PostSchedule, DeleteCommit, DeleteRemove
    <2>2. QED
      BY <2>1, ContainedKept
  <1>14. QED
    BY <1>2, <1>3, <1>4, <1>5, <1>6, <1>7, <1>8, <1>9, <1>10, <1>11, <1>12, <1>13
       DEF Next, Trigger, Proceed

(* Every container of every behaviour belongs to the phase that a thread   *)
(* is waiting in, unless a Docker call lost it or the process died.        *)
THEOREM NothingForgotten == Spec => []NoContainerForgotten
  <1>1. Init => Contained
    BY DEF Init, Contained, NoContainerForgotten, OneContainerPerPhase
  <1>2. Types /\ Records /\ Contained /\ [Next]_vars => Contained'
    BY ContainedNext
  <1>3. QED
    BY <1>1, <1>2, TypesInvariant, RecordsInvariant, PTL DEF Spec, Contained
=============================================================================
