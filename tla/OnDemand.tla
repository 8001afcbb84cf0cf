------------------------------ MODULE OnDemand ------------------------------
(***************************************************************************)
(* The runs a user starts from the browser (src/ui/app.py): what each      *)
(* request does with the registry of active jobs, with its containers and  *)
(* with the files of the dbt project that all requests share.              *)
(*                                                                         *)
(* A request is a sequence of stages.  A stage runs either a container or  *)
(* dbt in the UI's own container; its label in the registry is made of the *)
(* application, the date (together the request's job) and the stage's      *)
(* type.  Requests run in the threads of JobStream, to their end.          *)
(***************************************************************************)
EXTENDS Naturals, Sequences, FiniteSets

CONSTANTS Requests,   \* the requests, each posted at most once
          Jobs,       \* pairs of an application and a date
          Tables,     \* silver tables; a model file is named after its table
          Forms,      \* what a request may ask for: endpoint, job, target table and
                      \* whether its SQL refers to a declared source
          None,       \* no request, no container, no content
          Old         \* the rows of a silver table before any request

VARIABLES
  req,       \* per request: its form, stage, program counter and outcome
  box,       \* the container of each stage of each request
  active,    \* _active_jobs: label -> the entry's request and container
  watch,     \* the watcher thread of a request's bronze container
  model,     \* per table, the request whose SQL its model file holds
  sources,   \* the requests whose source references _sources.yml declares
  copy,      \* the document a request has read from _sources.yml and extended
  silver,    \* per table, the request whose dbt run produced its rows
  gold,      \* per request, the silver content its Gold container has read
  shared,    \* history: requests whose current stage met another one of its label
  raced,     \* history: requests that met another one writing their model
             \* file or replacing the rows their Gold counts on
  srcRaced,  \* history: two requests have updated _sources.yml at a time
  erred      \* history: the requests and the Docker calls that raised for them

registryVars == <<active, shared>>
fileVars == <<model, sources, copy, silver, raced, srcRaced>>
vars == <<req, box, active, watch, model, sources, copy, silver, gold,
          shared, raced, srcRaced, erred>>

-----------------------------------------------------------------------------
\* The requests and their stages

Stages ==
  [run            |-> <<"ingestion", "bronze">>,
   run_bronze     |-> <<"bronze">>,
   run_silver     |-> <<"silver">>,
   run_gold       |-> <<"gold">>,
   run_transform  |-> <<"silver">>,
   transform_load |-> <<"transform_load", "transform_load">>,
   compile_dbt    |-> <<"preview">>]

Kinds == DOMAIN Stages
Types == UNION {{Stages[k][i] : i \in DOMAIN Stages[k]} : k \in Kinds}

\* The requests that run dbt on the model files of the UI's own container.  The
\* container of /run-silver runs dbt as well, on the models of its image.
DbtKinds == {"run_transform", "transform_load", "compile_dbt"}

ASSUME FormsAssumption ==
  /\ Jobs # {} /\ Tables # {} /\ None \notin Requests
  /\ Forms \subseteq [kind: Kinds, job: Jobs, table: Tables, refs: BOOLEAN]
  /\ \A f \in Forms : f.refs => f.kind \in DbtKinds

Kind(r) == req[r].kind
Stage(r) == req[r].stage
At(r, pc) == req[r].pc = pc
TypeOf(r) == Stages[Kind(r)][Stage(r)]
Listed(r) == Kind(r) \notin {"run_bronze", "compile_dbt"}

DbtStage(r) ==
  \/ Kind(r) \in {"run_transform", "compile_dbt"}
  \/ Kind(r) = "transform_load" /\ Stage(r) = 1

GoldStage(r) ==
  \/ Kind(r) = "run_gold"
  \/ Kind(r) = "transform_load" /\ Stage(r) = 2

\* Fault: the label leaves out the type of the job.
LabelNoType(r) == <<req[r].job, "job">>

Label(r) == <<req[r].job, TypeOf(r)>>

\* Fault: the model file has one name for all tables.
ModelFileShared(r) == CHOOSE t \in Tables : TRUE

ModelFile(r) == req[r].table

-----------------------------------------------------------------------------
\* History

\* A stage has an entry from its registration to the removal of the entry.
HasEntry(r) ==
  \/ Listed(r) /\ ~At(r, "idle") /\ ~At(r, "enter")
       /\ ~At(r, "clear") /\ ~At(r, "done")
  \/ watch[r] = "wait"

SameJob(r, s) == req[r].job = req[s].job /\ TypeOf(r) = TypeOf(s)

Meeting(r) ==
  {s \in Requests \ {r} : ~At(s, "idle") /\ HasEntry(s) /\ SameJob(r, s)}

\* A request depends on its table's model from its write to its own end, or
\* to that of a Gold container it has left behind.
Depends(s) ==
  /\ Kind(s) \in DbtKinds
  /\ ~At(s, "enter")
  /\ At(s, "work") => Stage(s) = 2
  /\ At(s, "done") => box[s][2] = "running"

Racing(r) ==
  {s \in Requests \ {r} :
     ~At(s, "idle") /\ Depends(s) /\ req[s].table = req[r].table}

\* Those of them whose own rows are in the table.
Counting(r) == {s \in Racing(r) : Stage(s) = 2 \/ req[s].out = "ok"}

Updating(s) == At(s, "opensrc") \/ At(s, "writesrc")

-----------------------------------------------------------------------------
Idle == [kind |-> "run", job |-> CHOOSE j \in Jobs : TRUE,
         table |-> CHOOSE t \in Tables : TRUE, refs |-> FALSE,
         stage |-> 1, pc |-> "idle", out |-> "none", seen |-> None]

Init ==
  /\ req = [r \in Requests |-> Idle]
  /\ box = [r \in Requests |-> [i \in {1, 2} |-> "none"]]
  /\ active = <<>>
  /\ watch = [r \in Requests |-> "none"]
  /\ model = [t \in Tables |-> None]
  /\ sources = {}
  /\ copy = [r \in Requests |-> {}]
  /\ silver = [t \in Tables |-> Old]
  /\ gold = [r \in Requests |-> None]
  /\ shared = {} /\ raced = {} /\ srcRaced = FALSE /\ erred = {}

Go(r, pc) == req' = [req EXCEPT ![r].pc = pc]
Raises(r, call) == erred' = erred \cup {<<r, call>>}
End(r, out) == req' = [req EXCEPT ![r].pc = "leave", ![r].out = out]

Entrance(r, listed) == IF listed THEN "enter" ELSE "work"

\* The server accepts a request; one with invalid settings is refused before
\* it has any effect.
Post(r) ==
  /\ At(r, "idle")
  /\ \E f \in Forms :
       req' = [req EXCEPT ![r] =
            [Idle EXCEPT !.kind = f.kind, !.job = f.job, !.table = f.table,
                         !.refs = f.refs,
                         !.pc = Entrance(r, f.kind \notin {"run_bronze", "compile_dbt"})]]
  /\ UNCHANGED <<box, watch, gold, erred, registryVars, fileVars>>

-----------------------------------------------------------------------------
\* The registry

\* _register_active_job: an entry of the same label is overwritten.
Register(r) ==
  /\ At(r, "enter")
  /\ active' = [l \in DOMAIN active \cup {Label(r)} |->
                  IF l = Label(r) THEN [by |-> r, box |-> None] ELSE active[l]]
  /\ shared' = (IF Meeting(r) = {} THEN shared \ {r}
                                   ELSE shared \cup Meeting(r) \cup {r})
  /\ Go(r, "work")
  /\ UNCHANGED <<box, watch, gold, erred, fileVars>>

\* _remove_active_job: whoever's entry it is.
Without(l) == [k \in DOMAIN active \ {l} |-> active[k]]

\* _set_job_container: only if the label is still there.
Attach(r) ==
  /\ At(r, "attach")
  /\ active' = IF Label(r) \in DOMAIN active
               THEN [active EXCEPT ![Label(r)].box = <<r, Stage(r)>>]
               ELSE active
  /\ Go(r, "wait")
  /\ UNCHANGED <<box, watch, gold, erred, shared, fileVars>>

\* /job-logs: the container whose output a viewer of a label is shown.
LogsOf(l) == active[l].box

-----------------------------------------------------------------------------
\* Container stages

SetBox(r, st) == box' = [box EXCEPT ![r][Stage(r)] = st]
BoxOf(r) == box[r][Stage(r)]

Launch(r) ==
  /\ At(r, "work") /\ ~DbtStage(r)
  /\ SetBox(r, "running")
  /\ Go(r, IF Listed(r) THEN "attach" ELSE "wait")
  /\ UNCHANGED <<watch, gold, erred, registryVars, fileVars>>

\* containers.run creates the container and starts it; if it raises, the
\* request has no container object, although one may have been created.
LaunchFail(r) ==
  /\ At(r, "work") /\ ~DbtStage(r)
  /\ \/ UNCHANGED box
     \/ SetBox(r, "created")
  /\ End(r, "failed")
  /\ Raises(r, "run")
  /\ UNCHANGED <<watch, gold, registryVars, fileVars>>

\* A Gold container reads its silver table.
GoldReads(r) ==
  /\ GoldStage(r) /\ BoxOf(r) = "running" /\ gold[r] = None
  /\ gold' = [gold EXCEPT ![r] = silver[req[r].table]]
  /\ UNCHANGED <<req, box, watch, erred, registryVars, fileVars>>

\* dbt in a /run-silver container replaces the rows of its table, with those
\* of the image's model: it knows nothing of the requests that share them.
SilverBuilds(r) ==
  /\ Kind(r) = "run_silver" /\ BoxOf(r) = "running" /\ req[r].seen = None
  /\ silver' = [silver EXCEPT ![req[r].table] = r]
  /\ req' = [req EXCEPT ![r].seen = r]
  /\ raced' = raced \cup Counting(r)
  /\ UNCHANGED <<box, watch, gold, erred, model, sources, copy, srcRaced, registryVars>>

BoxExits(r) ==
  /\ BoxOf(r) = "running"
  /\ \E st \in {"exit0", "exit1"} : SetBox(r, st)
  /\ UNCHANGED <<req, watch, gold, erred, registryVars, fileVars>>

Waited(r) ==
  /\ At(r, "wait") /\ BoxOf(r) \in {"exit0", "exit1"}
  /\ End(r, IF BoxOf(r) = "exit0" THEN "ok" ELSE "failed")
  /\ UNCHANGED <<box, watch, gold, erred, registryVars, fileVars>>

\* The log stream or wait raises while the container goes on.
WaitFail(r) ==
  /\ At(r, "wait")
  /\ End(r, "failed")
  /\ Raises(r, "wait")
  /\ UNCHANGED <<box, watch, gold, registryVars, fileVars>>

-----------------------------------------------------------------------------
\* dbt stages: the model file, the sources file and dbt itself

\* A bucket that cannot be created or a payload that is not valid.
DbtRefuse(r) ==
  /\ At(r, "work") /\ DbtStage(r)
  /\ End(r, "failed")
  /\ UNCHANGED <<box, watch, gold, erred, registryVars, fileVars>>

\* open(model_path, "w") leaves an empty file until the text is written.
OpenModel(r) ==
  /\ At(r, "work") /\ DbtStage(r)
  /\ model' = [model EXCEPT ![ModelFile(r)] = None]
  /\ raced' = IF Racing(r) = {} THEN raced ELSE raced \cup Racing(r) \cup {r}
  /\ Go(r, "write")
  /\ UNCHANGED <<box, watch, gold, erred, sources, copy, silver, srcRaced, registryVars>>

WriteModel(r) ==
  /\ At(r, "write")
  /\ model' = [model EXCEPT ![ModelFile(r)] = r]
  /\ Go(r, IF req[r].refs THEN "readsrc" ELSE "dbt")
  /\ UNCHANGED <<box, watch, gold, erred, sources, copy, silver, raced, srcRaced,
                 registryVars>>

\* Fault: the document starts empty although the file exists.
ExtendedFresh(r) == {r}

Extended(r) == sources \cup {r}

\* _ensure_silver_sources reads the file and adds what is missing, ...
ReadSources(r) ==
  /\ At(r, "readsrc")
  /\ copy' = [copy EXCEPT ![r] = Extended(r)]
  /\ srcRaced' = (srcRaced \/ \E s \in Requests : Updating(s))
  /\ Go(r, IF r \in sources THEN "dbt" ELSE "opensrc")
  /\ UNCHANGED <<box, watch, gold, erred, model, sources, silver, raced, registryVars>>

\* ... empties the file ...
OpenSources(r) ==
  /\ At(r, "opensrc")
  /\ sources' = {}
  /\ Go(r, "writesrc")
  /\ UNCHANGED <<box, watch, gold, erred, model, copy, silver, raced, srcRaced,
                 registryVars>>

\* ... and writes its own document.
WriteSources(r) ==
  /\ At(r, "writesrc")
  /\ sources' = copy[r]
  /\ Go(r, "dbt")
  /\ UNCHANGED <<box, watch, gold, erred, model, copy, silver, raced, srcRaced,
                 registryVars>>

\* dbt parses every model: one whose source is not declared fails the run.
Undeclared ==
  {t \in Tables : model[t] # None /\ req[model[t]].refs /\ model[t] \notin sources}

\* dbt reads the model of its table; of an empty one it runs nothing.
DbtReads(r) ==
  /\ At(r, "dbt") /\ Undeclared = {}
  /\ req' = [req EXCEPT ![r].seen = model[ModelFile(r)], ![r].pc = "commit"]
  /\ UNCHANGED <<box, watch, gold, erred, registryVars, fileVars>>

\* dbt compile leaves the table alone; dbt run replaces its rows at once.
DbtCommits(r) ==
  /\ At(r, "commit")
  /\ silver' = IF Kind(r) = "compile_dbt" \/ req[r].seen = None
               THEN silver
               ELSE [silver EXCEPT ![req[r].table] = req[r].seen]
  /\ End(r, "ok")
  /\ UNCHANGED <<box, watch, gold, erred, model, sources, copy, raced, srcRaced,
                 registryVars>>

\* dbt ends with an error, cannot be started or (compile) takes over 120 s.
DbtFails(r) ==
  /\ At(r, "dbt") \/ At(r, "commit")
  /\ End(r, "failed")
  /\ UNCHANGED <<box, watch, gold, erred, registryVars, fileVars>>

-----------------------------------------------------------------------------
\* The end of a stage

\* Fault: the second stage does not look at how the first one ended.
GoesOnAlways(r) == Stage(r) < Len(Stages[Kind(r)])

\* Bronze runs after a successful ingestion, Gold after a successful dbt run.
GoesOn(r) == Stage(r) < Len(Stages[Kind(r)]) /\ req[r].out = "ok"

\* /run-transform-load keeps its entry from the dbt stage to the Gold stage.
KeepsEntry(r) == Kind(r) = "transform_load" /\ GoesOn(r)

\* Fault: the state of the bronze container is not looked at.
HandsOverNever(r) == FALSE

\* The bronze stage of /run leaves a container that still runs to a thread.
HandsOver(r) == Kind(r) = "run" /\ Stage(r) = 2 /\ BoxOf(r) = "running"

\* Fault: the early return of /run-transform-load keeps its entry.
UnlistMissesReturn(r) ==
  /\ At(r, "leave") /\ ~HandsOver(r) /\ ~KeepsEntry(r)
  /\ active' = IF Listed(r) /\ ~(Kind(r) = "transform_load" /\ Stage(r) = 1)
               THEN Without(Label(r)) ELSE active
  /\ Go(r, "clear")
  /\ UNCHANGED <<box, watch, gold, erred, shared, fileVars>>

\* The finally clause: first the entry goes, ...
Unlist(r) ==
  /\ At(r, "leave") /\ ~HandsOver(r) /\ ~KeepsEntry(r)
  /\ active' = IF Listed(r) THEN Without(Label(r)) ELSE active
  /\ Go(r, "clear")
  /\ UNCHANGED <<box, watch, gold, erred, shared, fileVars>>

\* ... and reload may raise: then the container counts as ended.
ReloadFail(r) ==
  /\ At(r, "leave") /\ HandsOver(r)
  /\ active' = Without(Label(r))
  /\ Go(r, "clear")
  /\ Raises(r, "reload")
  /\ UNCHANGED <<box, watch, gold, shared, fileVars>>

HandOver(r) ==
  /\ At(r, "leave") /\ HandsOver(r)
  /\ watch' = [watch EXCEPT ![r] = "wait"]
  /\ Go(r, "done")
  /\ UNCHANGED <<box, gold, erred, registryVars, fileVars>>

NextStage(r) ==
  req' = [req EXCEPT ![r].stage = 2, ![r].out = "none",
                     ![r].pc = IF KeepsEntry(r) THEN "work" ELSE "enter"]

KeepEntry(r) ==
  /\ At(r, "leave") /\ KeepsEntry(r)
  /\ NextStage(r)
  /\ UNCHANGED <<box, watch, gold, erred, registryVars, fileVars>>

\* After the container the request ends, or (skip_bronze not set) goes on.
Proceed(r) ==
  \/ GoesOn(r) /\ NextStage(r)
  \/ (GoesOn(r) => Kind(r) = "run") /\ Go(r, "done")

HasBox(r) == BoxOf(r) \in {"running", "exit0", "exit1"}

\* Then container.remove(force=True), which also ends a running container.
Clear(r) ==
  /\ At(r, "clear")
  /\ IF HasBox(r) THEN SetBox(r, "gone") ELSE UNCHANGED box
  /\ Proceed(r)
  /\ UNCHANGED <<watch, gold, erred, registryVars, fileVars>>

ClearFail(r) ==
  /\ At(r, "clear") /\ HasBox(r)
  /\ Proceed(r)
  /\ Raises(r, "remove")
  /\ UNCHANGED <<box, watch, gold, registryVars, fileVars>>

\* Fault: the watcher removes the container and leaves the entry.
WatcherUnlistNot(r) ==
  /\ watch[r] = "wait"
  /\ \/ BoxOf(r) \in {"exit0", "exit1"} /\ UNCHANGED erred
     \/ Raises(r, "reload")
  /\ watch' = [watch EXCEPT ![r] = "clear"]
  /\ UNCHANGED <<req, box, gold, registryVars, fileVars>>

\* The watcher waits (or its wait raises), removes the entry ...
WatcherUnlist(r) ==
  /\ watch[r] = "wait"
  /\ \/ BoxOf(r) \in {"exit0", "exit1"} /\ UNCHANGED erred
     \/ Raises(r, "reload")
  /\ active' = Without(Label(r))
  /\ watch' = [watch EXCEPT ![r] = "clear"]
  /\ UNCHANGED <<req, box, gold, shared, fileVars>>

\* Fault: the watcher forgets the container.
WatcherClearNot(r) ==
  /\ watch[r] = "clear"
  /\ watch' = [watch EXCEPT ![r] = "none"]
  /\ UNCHANGED <<req, box, gold, erred, registryVars, fileVars>>

\* ... and then the container.
WatcherClear(r) ==
  /\ watch[r] = "clear"
  /\ watch' = [watch EXCEPT ![r] = "none"]
  /\ \/ SetBox(r, "gone") /\ UNCHANGED erred
     \/ UNCHANGED box /\ Raises(r, "remove")
  /\ UNCHANGED <<req, gold, registryVars, fileVars>>

-----------------------------------------------------------------------------
RequestStep(r) ==
  \/ Register(r) \/ Attach(r) \/ Launch(r) \/ LaunchFail(r)
  \/ Waited(r) \/ WaitFail(r)
  \/ DbtRefuse(r) \/ OpenModel(r) \/ WriteModel(r)
  \/ ReadSources(r) \/ OpenSources(r) \/ WriteSources(r)
  \/ DbtReads(r) \/ DbtCommits(r) \/ DbtFails(r)
  \/ Unlist(r) \/ ReloadFail(r) \/ HandOver(r) \/ KeepEntry(r)
  \/ Clear(r) \/ ClearFail(r)

WatcherStep(r) == WatcherUnlist(r) \/ WatcherClear(r)

Next ==
  \E r \in Requests :
    \/ Post(r) \/ RequestStep(r) \/ WatcherStep(r)
    \/ GoldReads(r) \/ SilverBuilds(r) \/ BoxExits(r)

\* As long as a thread can go on or a container can end, something happens:
\* a request has no unbounded loop, so that is all its end needs.
Fairness ==
  WF_vars(\E r \in Requests : RequestStep(r) \/ WatcherStep(r) \/ BoxExits(r))

Spec == Init /\ [][Next]_vars /\ Fairness

-----------------------------------------------------------------------------
PCs == {"idle", "enter", "work", "attach", "wait", "write", "readsrc", "opensrc",
        "writesrc", "dbt", "commit", "leave", "clear", "done"}
BoxStates == {"none", "created", "running", "exit0", "exit1", "gone"}
Boxes == Requests \X {1, 2}

\* Every variable keeps its range; the stage of a request exists, and a
\* request at "attach" or "wait" has the container it waits for.
TypeOK ==
  /\ req \in [Requests ->
       [kind: Kinds, job: Jobs, table: Tables, refs: BOOLEAN, stage: {1, 2},
        pc: PCs, out: {"none", "ok", "failed"}, seen: Requests \cup {None}]]
  /\ box \in [Requests -> [{1, 2} -> BoxStates]]
  /\ DOMAIN active \subseteq Jobs \X Types
  /\ \A l \in DOMAIN active :
       active[l] \in [by: Requests, box: Boxes \cup {None}]
  /\ watch \in [Requests -> {"none", "wait", "clear"}]
  /\ model \in [Tables -> Requests \cup {None}]
  /\ sources \subseteq Requests /\ copy \in [Requests -> SUBSET Requests]
  /\ silver \in [Tables -> Requests \cup {Old}]
  /\ gold \in [Requests -> Requests \cup {None, Old}]
  /\ shared \subseteq Requests /\ raced \subseteq Requests
  /\ srcRaced \in BOOLEAN /\ erred \subseteq Requests \X {"run", "wait", "reload", "remove"}
  /\ \A r \in Requests :
       /\ Stage(r) <= Len(Stages[Kind(r)])
       /\ At(r, "attach") \/ At(r, "wait") =>
            BoxOf(r) \in {"running", "exit0", "exit1"}

\* The registry holds no ghost: behind every entry stands a stage of that
\* label that has not removed its entry yet, or the watcher of its container;
\* and whoever looks up the logs of a label, also of one that two requests
\* share, finds a container that does that label's kind of work on its job
\* and has not been removed.
EntryHasItsRun ==
  \A l \in DOMAIN active :
    /\ HasEntry(active[l].by) /\ l = Label(active[l].by)
    /\ LogsOf(l) # None =>
         LET r == LogsOf(l)[1]
             i == LogsOf(l)[2]
         IN /\ l = <<req[r].job, Stages[Kind(r)][i]>>
            /\ box[r][i] \in {"running", "exit0", "exit1"}

\* A running stage is on the list, under its own entry and with its own
\* container, unless another request of the same job and type met it: then
\* the first to end removes the entry of both.
RunIsListed ==
  \A r \in Requests :
    HasEntry(r) /\ r \notin shared =>
      /\ Label(r) \in DOMAIN active
      /\ active[Label(r)].by = r
      /\ At(r, "wait") \/ watch[r] = "wait" =>
           active[Label(r)].box = <<r, Stage(r)>>

\* When a request and its watcher are over, none of its containers is left,
\* unless a call to Docker raised.
NothingLeft ==
  \A r \in Requests :
    (/\ At(r, "done") /\ watch[r] = "none"
     /\ <<r, "run">> \notin erred /\ <<r, "remove">> \notin erred)
      => box[r][1] \in {"none", "gone"} /\ box[r][2] \in {"none", "gone"}

\* dbt runs the SQL that its request has written, all of it, and Gold
\* publishes the rows this run has produced, unless another request for the
\* same table came in between: one that rewrites the model file, a preview
\* included, or a /run-silver container that replaces the rows.
OwnWork ==
  \A r \in Requests \ raced :
    /\ req[r].seen \in {None, r}
    /\ Kind(r) = "transform_load" => gold[r] \in {None, r}

\* Updating the sources file loses no declaration that some model needs,
\* unless two requests update it at a time: then one undoes the other, and
\* every later dbt run fails on the model that has lost its source.
SourcesDeclared ==
  ~srcRaced /\ (\A s \in Requests : ~At(s, "writesrc")) =>
    \A t \in Undeclared : At(model[t], "readsrc") \/ At(model[t], "opensrc")

\* A running container is ended only by its own request, and only after
\* following it has failed; the bronze container of /run survives even that
\* and is ended only when its state cannot be read either.
NoKilledRun ==
  [][\A r \in Requests, i \in {1, 2} :
       box[r][i] = "running" /\ box'[r][i] = "gone" =>
         IF Kind(r) = "run" /\ i = 2 THEN <<r, "reload">> \in erred
                                     ELSE <<r, "wait">> \in erred]_vars

\* The list empties: once every posted request has run out and its containers
\* have ended, no label is shown any more, whatever failed on the way.
ListEmpties == <>[](active = <<>>)
=============================================================================
