------------------------------ MODULE Scheduler ------------------------------
(***************************************************************************)
(* The job scheduler inside the UI process of ui/app.py: the rows of       *)
(* scheduled_jobs and scheduled_job_runs in PostgreSQL, APScheduler's map  *)
(* of triggers in memory, the POST and DELETE requests that change both,   *)
(* the thread in which a trigger runs its phases, and the containers those *)
(* phases start through the Docker socket, which outlive the UI process.   *)
(*                                                                         *)
(* Data is abstracted: a job stands for its row and its id, a cron         *)
(* expression is a member of Crons, time is left out (a trigger may fire   *)
(* whenever its job is scheduled), and of a row only the fields are kept   *)
(* that choose which phases run.  "No cron" is {}, a cron c is {c}.        *)
(***************************************************************************)
EXTENDS Naturals, Sequences, FiniteSets

CONSTANTS Jobs,        \* (application_name, layer_type) of scheduled_jobs
          SilverJobs,  \* those whose layer_type is "silver"
          Crons,       \* cron expressions
          Requests,    \* bound: HTTP requests handled at the same time
          MaxRuns      \* bound: run records, those about to be inserted included

ASSUME SchedulerAssumption ==
  /\ SilverJobs \subseteq Jobs
  /\ MaxRuns \in Nat

VARIABLES
  up,          \* the UI process serves requests and its scheduler runs
  loaded,      \* its start-up could read the rows
  rows,        \* scheduled_jobs
  runs,        \* scheduled_job_runs
  sched,       \* APScheduler: the cron with which a job is scheduled, if any
  request,     \* what a request has committed and not yet told the scheduler
  trig,        \* the thread of a job's trigger
  containers,  \* containers that triggers have started
  spoilt,      \* history: records whose run lost a Docker call that has left
               \* a container behind, or its process
  cut          \* history: records whose run lost its last UPDATE or its process

database == <<rows, runs>>
memory   == <<sched, request, trig>>
process  == <<up, loaded>>
history  == <<spoilt, cut>>
vars     == <<process, database, memory, containers, history>>

Phases   == {"silver", "gold", "ingestion", "bronze"}
Statuses == {"success", "failed", "error"}

(* A row that was never inserted cannot be told from an inactive one. *)
NoRow == [active |-> FALSE, cron |-> {}, gold |-> FALSE, last |-> "none"]

NoTrigger == [at |-> "none", phase |-> "none", gold |-> FALSE,
              status |-> "error", run |-> 0]

(* The cron with which a row asks to be scheduled. *)
Due(row) == IF row.active THEN row.cron ELSE {}

(* Records whose run is under way in some thread. *)
Working == {trig[j].run : j \in {k \in Jobs : trig[k].at \in {"run", "wait", "final"}}}

Init ==
  /\ up = FALSE /\ loaded = FALSE
  /\ rows = [j \in Jobs |-> NoRow]
  /\ runs = <<>>
  /\ sched = [j \in Jobs |-> {}]
  /\ request = [r \in Requests |-> {}]
  /\ trig = [j \in Jobs |-> NoTrigger]
  /\ containers = {} /\ spoilt = {} /\ cut = {}

-----------------------------------------------------------------------------
(* Requests: each commits to the database first, then tells APScheduler. *)

(* INSERT ... ON CONFLICT (application_name, layer_type) DO UPDATE. *)
Upserted(row, c, g) == [row EXCEPT !.active = TRUE, !.cron = {c}, !.gold = g]

PostCommit(r) ==
  /\ up /\ request[r] = {}
  /\ \E j \in Jobs, c \in Crons, g \in BOOLEAN :
       /\ g => j \in SilverJobs
       /\ rows' = [rows EXCEPT ![j] = Upserted(@, c, g)]
       /\ request' = [request EXCEPT ![r] = {[job |-> j, cron |-> {c}]}]
  /\ UNCHANGED <<process, runs, sched, trig, containers, history>>

DeleteCommit(r) ==
  /\ up /\ request[r] = {}
  /\ \E j \in Jobs :
       /\ rows' = [rows EXCEPT ![j].active = FALSE]
       /\ request' = [request EXCEPT ![r] = {[job |-> j, cron |-> {}]}]
  /\ UNCHANGED <<process, runs, sched, trig, containers, history>>

(* _schedule_job: add_job(..., replace_existing=True). *)
PostSchedule(r) ==
  /\ \E e \in request[r] :
       /\ e.cron # {}
       /\ sched' = [sched EXCEPT ![e.job] = e.cron]
  /\ request' = [request EXCEPT ![r] = {}]
  /\ UNCHANGED <<process, database, trig, containers, history>>

(* remove_job, whose error for an unknown id is swallowed. *)
DeleteRemove(r) ==
  /\ \E e \in request[r] :
       /\ e.cron = {}
       /\ sched' = [sched EXCEPT ![e.job] = {}]
  /\ request' = [request EXCEPT ![r] = {}]
  /\ UNCHANGED <<process, database, trig, containers, history>>

-----------------------------------------------------------------------------
(* The trigger of a job: _trigger_scheduled_job. *)

Starting == {j \in Jobs : trig[j].at \in {"select", "insert"}}

(* APScheduler runs a due job unless an instance of it is still running. *)
Fire(j) ==
  /\ up /\ sched[j] # {} /\ trig[j].at = "none"
  /\ Len(runs) + Cardinality(Starting) < MaxRuns
  /\ trig' = [trig EXCEPT ![j].at = "select"]
  /\ UNCHANGED <<process, database, sched, request, containers, history>>

(* Fault: the SELECT does not ask for is_active. *)
FoundAnyRow(j) == rows[j].cron # {}

(* SELECT ... WHERE id = ... AND is_active = TRUE *)
Found(j) == rows[j].active

(* The row is read once: the run keeps what it says now. *)
TSelect(j) ==
  /\ trig[j].at = "select"
  /\ Found(j)
  /\ trig' = [trig EXCEPT ![j].at = "insert", ![j].gold = rows[j].gold]
  /\ UNCHANGED <<process, database, sched, request, containers, history>>

TReturn(j) ==
  /\ trig[j].at = "select"
  /\ ~Found(j)
  /\ trig' = [trig EXCEPT ![j] = NoTrigger]
  /\ UNCHANGED <<process, database, sched, request, containers, history>>

(* A database error before the record is committed is only printed. *)
TSelectFails(j) ==
  /\ trig[j].at \in {"select", "insert"}
  /\ trig' = [trig EXCEPT ![j] = NoTrigger]
  /\ UNCHANGED <<process, database, sched, request, containers, history>>

Plan(j, gold) ==
  IF j \notin SilverJobs THEN {"ingestion", "bronze"}
  ELSE IF gold THEN {"silver", "gold"} ELSE {"silver"}

(* INSERT INTO scheduled_job_runs; plan and passed are history. *)
TInsert(j) ==
  /\ trig[j].at = "insert"
  /\ runs' = Append(runs, [job |-> j, status |-> "none", passed |-> {},
                           plan |-> Plan(j, trig[j].gold)])
  /\ trig' = [trig EXCEPT ![j].at = "run", ![j].run = Len(runs) + 1,
                ![j].phase = IF j \in SilverJobs THEN "silver" ELSE "ingestion"]
  /\ UNCHANGED <<process, rows, sched, request, containers, history>>

(* Bronze follows a successful ingestion, and gold a successful silver if  *)
(* the row names a gold table.                                             *)
PhaseAfter(t) ==
  IF t.phase = "ingestion" THEN "bronze"
  ELSE IF t.phase = "silver" /\ t.gold THEN "gold" ELSE "none"

(* Fault: a failed gold publication leaves the status of silver. *)
StatusAfterKept(t, s) == IF t.phase = "gold" THEN t.status ELSE s

(* The status variable once the phase has ended with s. *)
StatusAfter(t, s) == s

(* The thread leaves a phase with outcome s. *)
PhaseEnds(j, s) ==
  LET t == trig[j]
      p == IF s = "success" THEN PhaseAfter(t) ELSE "none"
  IN  /\ trig' = [trig EXCEPT ![j] =
                    [t EXCEPT !.at = IF p = "none" THEN "final" ELSE "run",
                              !.phase = p, !.status = StatusAfter(t, s)]]
      /\ runs' = IF s = "success"
                 THEN [runs EXCEPT ![t.run].passed = @ \cup {t.phase}]
                 ELSE runs

(* Silver: bucket, model file and dbt run; "error" if no payload is saved. *)
TSilver(j) ==
  /\ trig[j].at = "run" /\ trig[j].phase = "silver"
  /\ \E s \in Statuses : PhaseEnds(j, s)
  /\ UNCHANGED <<process, rows, sched, request, containers, history>>

(* Fault: an exception leaves the status unset. *)
RaisedUnset(p) == "none"

(* What an exception in a container phase makes of the status. *)
Raised(p) == IF p = "gold" THEN "failed" ELSE "error"

Container(t, s) == [run |-> t.run, phase |-> t.phase, state |-> s]

(* client.containers.run(..., detach=True) *)
TLaunch(j) ==
  /\ trig[j].at = "run" /\ trig[j].phase # "silver"
  /\ containers' = containers \cup {Container(trig[j], "running")}
  /\ trig' = [trig EXCEPT ![j].at = "wait"]
  /\ UNCHANGED <<process, database, sched, request, history>>

(* It raises, possibly after the daemon has started the container. *)
TLaunchFails(j) ==
  /\ trig[j].at = "run" /\ trig[j].phase # "silver"
  /\ PhaseEnds(j, Raised(trig[j].phase))
  /\ \/ UNCHANGED <<containers, spoilt>>
     \/ /\ containers' = containers \cup {Container(trig[j], "running")}
        /\ spoilt' = spoilt \cup {trig[j].run}
  /\ UNCHANGED <<process, rows, sched, request, cut>>

(* Fault: only a successful container is removed. *)
RemovedOnSuccess(c) == IF c.state = "exit0" THEN {c} ELSE {}

(* container.remove(force=True) in the finally clause. *)
Removed(c) == {c}

Exited(j) == containers \cap {Container(trig[j], "exit0"), Container(trig[j], "exit1")}
Outcome(c) == IF c.state = "exit0" THEN "success" ELSE "failed"

(* container.wait() returns the exit code of the container. *)
TWait(j) ==
  /\ trig[j].at = "wait"
  /\ \E c \in Exited(j) :
       /\ PhaseEnds(j, Outcome(c))
       /\ containers' = containers \ Removed(c)
  /\ UNCHANGED <<process, rows, sched, request, history>>

(* An error of remove is swallowed and leaves the container behind. *)
TRemoveFails(j) ==
  /\ trig[j].at = "wait"
  /\ \E c \in Exited(j) : PhaseEnds(j, Outcome(c))
  /\ spoilt' = spoilt \cup {trig[j].run}
  /\ UNCHANGED <<process, rows, sched, request, containers, cut>>

(* Waiting (for gold also following the logs) raises: the finally clause   *)
(* removes the container even while it runs, if that does not raise too.   *)
TWaitFails(j) ==
  /\ trig[j].at = "wait"
  /\ PhaseEnds(j, Raised(trig[j].phase))
  /\ \/ /\ containers' = {c \in containers :
                            c.run # trig[j].run \/ c.phase # trig[j].phase}
        /\ UNCHANGED spoilt
     \/ /\ spoilt' = spoilt \cup {trig[j].run}
        /\ UNCHANGED containers
  /\ UNCHANGED <<process, rows, sched, request, cut>>

(* Fault: the last UPDATE is skipped for a run that raised. *)
FinishedUnlessError(run, s) == IF s = "error" THEN run ELSE [run EXCEPT !.status = s]

Finished(run, s) == [run EXCEPT !.status = s]

(* The finally clause: one transaction finishes the record and the row. *)
TFinal(j) ==
  /\ trig[j].at = "final"
  /\ runs' = [runs EXCEPT ![trig[j].run] = Finished(@, trig[j].status)]
  /\ rows' = [rows EXCEPT ![j].last = trig[j].status]
  /\ trig' = [trig EXCEPT ![j] = NoTrigger]
  /\ UNCHANGED <<process, sched, request, containers, history>>

(* An error of that transaction is swallowed. *)
TFinalFails(j) ==
  /\ trig[j].at = "final"
  /\ cut' = cut \cup {trig[j].run}
  /\ trig' = [trig EXCEPT ![j] = NoTrigger]
  /\ UNCHANGED <<process, database, sched, request, containers, spoilt>>

(* What a thread does when nothing outside it fails, and what may fail. *)
Proceed(j) ==
  \/ TSelect(j) \/ TReturn(j) \/ TInsert(j) \/ TSilver(j)
  \/ TLaunch(j) \/ TWait(j) \/ TFinal(j)

Trigger(j) ==
  \/ Proceed(j) \/ TSelectFails(j) \/ TLaunchFails(j)
  \/ TRemoveFails(j) \/ TWaitFails(j) \/ TFinalFails(j)

-----------------------------------------------------------------------------
(* The environment, and the process itself. *)

(* A container ends by itself. *)
ContainerExit ==
  /\ \E c \in containers, s \in {"exit0", "exit1"} :
       /\ c.state = "running"
       /\ containers' = (containers \ {c}) \cup {[c EXCEPT !.state = s]}
  /\ UNCHANGED <<process, database, memory, history>>

(* The UI process dies, and with it all its threads and a dbt run.  *)
Crash ==
  /\ up
  /\ up' = FALSE /\ loaded' = FALSE
  /\ sched' = [j \in Jobs |-> {}]
  /\ request' = [r \in Requests |-> {}]
  /\ trig' = [j \in Jobs |-> NoTrigger]
  /\ spoilt' = spoilt \cup Working /\ cut' = cut \cup Working
  /\ UNCHANGED <<database, containers>>

(* Does the name begin with "<project>-pipeline-run"?  A trigger starts    *)
(* its containers without a name, and Docker makes one up.                 *)
NameMatches(c) == FALSE

(* Fault: start-up restores the schedules of inactive rows as well. *)
RestoredAll == [j \in Jobs |-> rows[j].cron]

(* SELECT id, cron_expression ... WHERE is_active = TRUE, and add_job.  *)
Restored == [j \in Jobs |-> Due(rows[j])]

(* _cleanup_orphan_pipeline_containers, then the schedules are loaded; an  *)
(* error of that is printed and the UI starts without them.                *)
StartUp ==
  /\ ~up
  /\ up' = TRUE
  /\ containers' = {c \in containers : c.state = "running" \/ ~NameMatches(c)}
  /\ \/ loaded' = TRUE /\ sched' = Restored
     \/ loaded' = FALSE /\ sched' = sched
  /\ UNCHANGED <<database, request, trig, history>>

Next ==
  \/ \E r \in Requests :
       PostCommit(r) \/ PostSchedule(r) \/ DeleteCommit(r) \/ DeleteRemove(r)
  \/ \E j \in Jobs : Fire(j) \/ Trigger(j)
  \/ ContainerExit \/ Crash \/ StartUp

Spec == Init /\ [][Next]_vars

(* One browser user: no two requests for one job are handled at once. *)
OneRequestPerJob ==
  \A r, q \in Requests : \A e \in request[r], f \in request[q] :
    e.job = f.job => r = q

SerialSpec == Init /\ [][Next /\ OneRequestPerJob']_vars

(* Threads of the scheduler's pool run, and a container ends some day.  A  *)
(* failure is never forced: a thread proceeds without any.                 *)
FairSpec ==
  /\ Spec
  /\ \A j \in Jobs : WF_vars(Proceed(j))
  /\ WF_vars(ContainerExit)

-----------------------------------------------------------------------------
Row == [active : BOOLEAN, cron : SUBSET Crons, gold : BOOLEAN,
        last : Statuses \cup {"none"}]

Run == [job : Jobs, status : Statuses \cup {"none"}, passed : SUBSET Phases,
        plan : SUBSET Phases]

Thread == [at : {"none", "select", "insert", "run", "wait", "final"},
           phase : Phases \cup {"none"}, gold : BOOLEAN, status : Statuses,
           run : Nat]

(* Type correctness: a thread that works has a record, and the tables, the *)
(* map of triggers and the containers keep their shape.                    *)
TypeOK ==
  /\ up \in BOOLEAN /\ loaded \in BOOLEAN
  /\ rows \in [Jobs -> Row]
  /\ runs \in Seq(Run)
  /\ sched \in [Jobs -> SUBSET Crons]
  /\ request \in [Requests -> SUBSET [job : Jobs, cron : SUBSET Crons]]
  /\ trig \in [Jobs -> Thread]
  /\ \A j \in Jobs : trig[j].at \in {"run", "wait", "final"} =>
                       trig[j].run \in 1..Len(runs)
  /\ containers \subseteq [run : 1..Len(runs), phase : Phases,
                           state : {"running", "exit0", "exit1"}]
  /\ spoilt \subseteq 1..Len(runs) /\ cut \subseteq 1..Len(runs)

InFlight(j) == \E r \in Requests : \E e \in request[r] : e.job = j

(* When no request for a job is being handled, APScheduler runs it exactly *)
(* as its row says: with its cron if it is active, not at all otherwise.   *)
(* Crashes between a commit and add_job are repaired by the next start.    *)
(* After a start that could not read the rows a job may be missing.        *)
ScheduleMatchesRows ==
  \A j \in Jobs : up /\ ~InFlight(j) =>
    sched[j] = Due(rows[j]) \/ (~loaded /\ sched[j] = {})

RunsOf(j) == {i \in DOMAIN runs : runs[i].job = j}

(* A deleted schedule stays quiet: once its row is inactive and no thread  *)
(* is past the SELECT, no run of it begins until it is saved again, even   *)
(* if APScheduler still has it.                                            *)
InactiveStaysQuiet ==
  [][\A j \in Jobs :
       ~rows[j].active /\ ~rows'[j].active /\ trig[j].at # "insert" =>
         trig'[j].at # "insert" /\ RunsOf(j)' = RunsOf(j)]_vars

(* "success" means that every phase the row asked for when the run began   *)
(* has exited with 0, in the run's record and in the job's row.            *)
SuccessIsEarned ==
  /\ \A i \in DOMAIN runs :
       runs[i].status = "success" => runs[i].plan \subseteq runs[i].passed
  /\ \A j \in Jobs : rows[j].last = "success" =>
       \E i \in RunsOf(j) : runs[i].status = "success"

(* Every container belongs to the phase that some thread is waiting in:    *)
(* no path through the phases forgets one, the exception paths included.   *)
(* Excused are a launch that raised although the daemon had started the    *)
(* container, a remove that raised, and the death of the process.          *)
NoContainerForgotten ==
  \A c \in containers : c.run \notin spoilt =>
    \E j \in Jobs : /\ trig[j].at = "wait"
                    /\ trig[j].run = c.run /\ trig[j].phase = c.phase

(* Every run that began is finished in its record, whatever its phases and *)
(* Docker do, unless the process dies or the last UPDATE is rejected.      *)
RunsFinish ==
  \A i \in 1..MaxRuns :
    i \in DOMAIN runs ~> i \in cut \/ (i \in DOMAIN runs /\ runs[i].status # "none")

-----------------------------------------------------------------------------
(* What a comment in the source says and the code does not do.             *)

(* "_schedule_job uses replace_existing=True, so re-registering same id is *)
(* safe": with no request under way, an active job that is scheduled has   *)
(* the cron of its row.                                                    *)
ReRegisteringIsSafe ==
  \A j \in Jobs : up /\ ~InFlight(j) /\ rows[j].active /\ sched[j] # {} =>
    sched[j] = rows[j].cron
=============================================================================
