--------------------------- MODULE OnDemandProofs ---------------------------
(***************************************************************************)
(* Proofs about OnDemand, for any set of requests, jobs, tables and forms: *)
(* type correctness, what the list of active jobs shows, what is left of a *)
(* request, which containers are killed, whose SQL is run, and when the    *)
(* declarations of the sources file are lost.                              *)
(***************************************************************************)
EXTENDS OnDemand, TLAPS

Alive == {"running", "exit0", "exit1"}
Over == {"none", "gone"}
TwoStages == {"run", "transform_load"}
Calls == {"run", "wait", "reload", "remove"}
DbtPCs == {"write", "readsrc", "opensrc", "writesrc", "dbt", "commit"}

ReqT ==
  [kind: Kinds, job: Jobs, table: Tables, refs: BOOLEAN, stage: {1, 2},
   pc: PCs, out: {"none", "ok", "failed"}, seen: Requests \cup {None}]
BoxT == [{1, 2} -> BoxStates]

-----------------------------------------------------------------------------
(* Listed, DbtStage, KeepsEntry, HasEntry and Label, of a request's record  *)
(* q and the state w of its watcher.                                        *)
IsListed(q) == q.kind \notin {"run_bronze", "compile_dbt"}
IsDbt(q) ==
  q.kind \in {"run_transform", "compile_dbt"} \/ (q.kind = "transform_load" /\ q.stage = 1)
Keeps(q) == q.kind = "transform_load" /\ q.stage = 1 /\ q.out = "ok"

LEMMA StagesAre ==
  /\ Kinds = {"run", "run_bronze", "run_silver", "run_gold", "run_transform",
              "transform_load", "compile_dbt"}
  /\ \A k \in Kinds : Len(Stages[k]) = IF k \in TwoStages THEN 2 ELSE 1
  /\ Stages["transform_load"][1] = Stages["transform_load"][2]
<1>1. Kinds = {"run", "run_bronze", "run_silver", "run_gold", "run_transform",
               "transform_load", "compile_dbt"}
  BY DEF Kinds, Stages
<1>2. \A k \in Kinds : Len(Stages[k]) = IF k \in TwoStages THEN 2 ELSE 1
  <2>1. /\ Len(Stages["run"]) = 2 /\ Len(Stages["run_bronze"]) = 1
        /\ Len(Stages["run_silver"]) = 1 /\ Len(Stages["run_gold"]) = 1
        /\ Len(Stages["run_transform"]) = 1 /\ Len(Stages["transform_load"]) = 2
        /\ Len(Stages["compile_dbt"]) = 1
    BY DEF Stages
  <2> QED
    BY <1>1, <2>1 DEF TwoStages
<1>3. Stages["transform_load"][1] = Stages["transform_load"][2]
  BY DEF Stages
<1> QED
  BY <1>1, <1>2, <1>3

LEMMA KeepsIs ==
  ASSUME NEW r \in Requests, req[r] \in ReqT
  PROVE  /\ KeepsEntry(r) <=> Keeps(req[r])
         /\ DbtStage(r) <=> IsDbt(req[r])
         /\ Listed(r) <=> IsListed(req[r])
         /\ GoesOn(r) <=> req[r].kind \in TwoStages /\ req[r].stage = 1 /\ req[r].out = "ok"
<1>1. req[r].kind \in Kinds /\ req[r].stage \in {1, 2}
  BY DEF ReqT
<1>2. GoesOn(r) <=> req[r].kind \in TwoStages /\ req[r].stage = 1 /\ req[r].out = "ok"
  BY <1>1, StagesAre DEF GoesOn, Kind, Stage
<1> QED
  BY <1>1, <1>2 DEF KeepsEntry, Keeps, DbtStage, IsDbt, Listed, IsListed, Kind, Stage, TwoStages

LabelIs(q) == <<q.job, Stages[q.kind][q.stage]>>
HasE(q, w) ==
  (IsListed(q) /\ q.pc \notin {"idle", "enter", "clear", "done"}) \/ w = "wait"

(* A request has told the registry which container to show. *)
OnShow(q, b, w) ==
  \/ IsListed(q) /\ (q.pc = "wait" \/ (q.pc = "leave" /\ b[q.stage] \in Alive))
  \/ w = "wait"

(* Depends, and what a Gold stage may count on. *)
DependsOn(q, b) ==
  /\ q.kind \in DbtKinds
  /\ q.pc # "enter"
  /\ q.pc = "work" => q.stage = 2
  /\ q.pc = "done" => b[2] = "running"
Wants(q, b) ==
  /\ q.kind = "transform_load"
  /\ \/ q.stage = 1 /\ q.pc = "leave" /\ q.out = "ok"
     \/ q.stage = 2 /\ DependsOn(q, b)

-----------------------------------------------------------------------------
(* What a request, its containers b, its watcher w and the calls er that    *)
(* raised have to do with each other.                                       *)
LocalTypes(q, b, w) ==
  /\ q \in ReqT /\ b \in BoxT /\ w \in {"none", "wait", "clear"}
  /\ q.stage = 2 => q.kind \in TwoStages
  /\ q.pc = "idle" => q.kind = "run" /\ q.stage = 1 /\ w = "none"
  /\ q.pc \in {"enter", "attach"} => IsListed(q)
  /\ q.pc = "enter" /\ q.kind = "transform_load" => q.stage = 1
  /\ q.pc \in DbtPCs => IsDbt(q)
  /\ q.pc \in {"attach", "wait"} => ~IsDbt(q) /\ b[q.stage] \in Alive
  /\ q.pc = "clear" => ~Keeps(q)

Containers(q, b, w) ==
  /\ q.stage = 1 => b[2] = "none"
  /\ q.pc \in {"idle", "enter", "work"} \/ IsDbt(q) => b[q.stage] = "none"
  /\ w # "none" => q.pc = "done" /\ q.kind = "run" /\ q.stage = 2 /\ b[2] \in Alive

KillsAreDue(r, q, b, w, er) ==
  /\ q.pc \in {"leave", "clear"} /\ b[q.stage] = "running" => <<r, "wait">> \in er
  /\ q.pc = "clear" /\ q.kind = "run" /\ q.stage = 2 /\ b[2] = "running" =>
       <<r, "reload">> \in er
  /\ w = "clear" /\ b[2] = "running" => <<r, "reload">> \in er

Tidy(r, q, b, w, er) ==
  <<r, "run">> \notin er /\ <<r, "remove">> \notin er =>
    /\ b[1] # "created" /\ b[2] # "created"
    /\ q.stage = 2 => b[1] \in Over
    /\ q.pc = "done" /\ w = "none" => b[q.stage] \in Over

Local(r, q, b, w, er) ==
  /\ LocalTypes(q, b, w) /\ Containers(q, b, w)
  /\ KillsAreDue(r, q, b, w, er) /\ Tidy(r, q, b, w, er)

Functions ==
  /\ req \in [Requests -> ReqT] /\ box \in [Requests -> BoxT]
  /\ watch \in [Requests -> {"none", "wait", "clear"}]
  /\ erred \subseteq Requests \X Calls

Locals == Functions /\ \A r \in Requests : Local(r, req[r], box[r], watch[r], erred)

(* A step of r leaves the other requests alone. *)
Others(r) ==
  \A i \in Requests \ {r} :
    /\ req'[i] = req[i] /\ box'[i] = box[i] /\ watch'[i] = watch[i]
    /\ \A c : <<i, c>> \in erred' <=> <<i, c>> \in erred

SameForm(p, q) == p.kind = q.kind /\ p.job = q.job /\ p.table = q.table /\ p.refs = q.refs

(* One field after the other: how Go, End, NextStage and SetBox change a record. *)
LEMMA Goes ==
  ASSUME req \in [Requests -> ReqT], NEW r \in Requests, NEW p \in PCs, Go(r, p)
  PROVE  /\ req' \in [Requests -> ReqT] /\ \A i \in Requests \ {r} : req'[i] = req[i]
         /\ SameForm(req'[r], req[r]) /\ req'[r].pc = p /\ req'[r].stage = req[r].stage
         /\ req'[r].out = req[r].out /\ req'[r].seen = req[r].seen
<1> DEFINE q == [req[r] EXCEPT !.pc = p]
<1>1. req' = [req EXCEPT ![r] = q]
  BY Zenon DEF Go
<1>2. req[r] \in ReqT
  OBVIOUS
<1>3. /\ q \in ReqT /\ SameForm(q, req[r]) /\ q.pc = p /\ q.stage = req[r].stage
      /\ q.out = req[r].out /\ q.seen = req[r].seen
  BY <1>2, Zenon DEF ReqT, SameForm
<1> HIDE DEF q
<1>4. req' \in [Requests -> ReqT] /\ req'[r] = q /\ \A i \in Requests \ {r} : req'[i] = req[i]
  BY <1>1, <1>3
<1> QED
  BY <1>3, <1>4, Zenon

LEMMA Ends ==
  ASSUME req \in [Requests -> ReqT], NEW r \in Requests, NEW o \in {"ok", "failed"}, End(r, o)
  PROVE  /\ req' \in [Requests -> ReqT] /\ \A i \in Requests \ {r} : req'[i] = req[i]
         /\ SameForm(req'[r], req[r]) /\ req'[r].pc = "leave" /\ req'[r].stage = req[r].stage
         /\ req'[r].out = o /\ req'[r].seen = req[r].seen
<1> DEFINE q == [req[r] EXCEPT !.pc = "leave", !.out = o]
<1>1. req' = [req EXCEPT ![r] = q]
  BY Zenon DEF End
<1>2. req[r] \in ReqT /\ "leave" \in PCs /\ o \in {"none", "ok", "failed"}
  BY DEF PCs
<1>3. /\ q \in ReqT /\ SameForm(q, req[r]) /\ q.pc = "leave" /\ q.stage = req[r].stage
      /\ q.out = o /\ q.seen = req[r].seen
  BY <1>2, Zenon DEF ReqT, SameForm
<1> HIDE DEF q
<1>4. req' \in [Requests -> ReqT] /\ req'[r] = q /\ \A i \in Requests \ {r} : req'[i] = req[i]
  BY <1>1, <1>3
<1> QED
  BY <1>3, <1>4, Zenon

LEMMA Advances ==
  ASSUME req \in [Requests -> ReqT], NEW r \in Requests, NextStage(r)
  PROVE  /\ req' \in [Requests -> ReqT] /\ \A i \in Requests \ {r} : req'[i] = req[i]
         /\ SameForm(req'[r], req[r]) /\ req'[r].stage = 2 /\ req'[r].out = "none"
         /\ req'[r].seen = req[r].seen
         /\ req'[r].pc = IF Keeps(req[r]) THEN "work" ELSE "enter"
<1> DEFINE p == IF Keeps(req[r]) THEN "work" ELSE "enter"
           q == [req[r] EXCEPT !.stage = 2, !.out = "none", !.pc = p]
<1>1. req[r] \in ReqT
  OBVIOUS
<1>2. req' = [req EXCEPT ![r].stage = 2, ![r].out = "none", ![r].pc = p]
  BY <1>1, KeepsIs DEF NextStage
<1> HIDE DEF p
<1>3. req' = [req EXCEPT ![r] = q]
  BY <1>2, Zenon
<1>4. p \in PCs
  BY DEF p, PCs
<1>5. /\ q \in ReqT /\ SameForm(q, req[r]) /\ q.pc = p /\ q.stage = 2
      /\ q.out = "none" /\ q.seen = req[r].seen
  BY <1>1, <1>4, Zenon DEF ReqT, SameForm
<1> HIDE DEF q
<1>6. req' \in [Requests -> ReqT] /\ req'[r] = q /\ \A i \in Requests \ {r} : req'[i] = req[i]
  BY <1>3, <1>5
<1> QED
  BY <1>5, <1>6, Zenon DEF p

LEMMA BoxIsSet ==
  ASSUME Functions, NEW r \in Requests, NEW st \in BoxStates, SetBox(r, st)
  PROVE  /\ box' \in [Requests -> BoxT] /\ \A i \in Requests \ {r} : box'[i] = box[i]
         /\ box'[r][req[r].stage] = st
         /\ \A i \in {1, 2} : i # req[r].stage => box'[r][i] = box[r][i]
<1> DEFINE b == [box[r] EXCEPT ![req[r].stage] = st]
<1>1. box' = [box EXCEPT ![r] = b]
  BY Zenon DEF SetBox, Stage
<1>2. req[r].stage \in {1, 2} /\ box[r] \in BoxT
  BY DEF Functions, ReqT
<1>3. /\ b \in BoxT /\ b[req[r].stage] = st
      /\ \A i \in {1, 2} : i # req[r].stage => b[i] = box[r][i]
  BY <1>2 DEF BoxT
<1> HIDE DEF b
<1> QED
  BY <1>1, <1>3 DEF Functions

LEMMA ErrsOf ==
  ASSUME Functions, NEW r \in Requests, NEW c \in Calls, Raises(r, c)
  PROVE  /\ erred' \subseteq Requests \X Calls
         /\ <<r, c>> \in erred' /\ erred \subseteq erred'
         /\ \A i, k : i # r \/ k # c => (<<i, k>> \in erred' <=> <<i, k>> \in erred)
  BY DEF Functions, Raises

-----------------------------------------------------------------------------
(* Each request with its containers and its watcher, step by step. *)
LEMMA PostIsLocal ==
  ASSUME Locals, NEW r \in Requests, Post(r)
  PROVE  Functions' /\ Others(r) /\ Local(r, req'[r], box'[r], watch'[r], erred')
         /\ req'[r].pc = (IF IsListed(req'[r]) THEN "enter" ELSE "work") /\ req'[r].stage = 1
<1>1. PICK f \in Forms :
        req' = [req EXCEPT ![r] =
          [Idle EXCEPT !.kind = f.kind, !.job = f.job, !.table = f.table, !.refs = f.refs,
             !.pc = Entrance(r, f.kind \notin {"run_bronze", "compile_dbt"})]]
  BY DEF Post
<1> DEFINE p == Entrance(r, f.kind \notin {"run_bronze", "compile_dbt"})
           q == [Idle EXCEPT !.kind = f.kind, !.job = f.job, !.table = f.table,
                             !.refs = f.refs, !.pc = p]
<1>2. f \in [kind: Kinds, job: Jobs, table: Tables, refs: BOOLEAN]
  BY FormsAssumption
<1>3. Idle \in ReqT
  <2>1. (CHOOSE j \in Jobs : TRUE) \in Jobs /\ (CHOOSE t \in Tables : TRUE) \in Tables
    BY FormsAssumption, Zenon
  <2>2. "run" \in Kinds /\ "idle" \in PCs
    BY StagesAre DEF PCs
  <2> QED
    BY <2>1, <2>2, Zenon DEF Idle, ReqT
<1>4. p = (IF f.kind \notin {"run_bronze", "compile_dbt"} THEN "enter" ELSE "work") /\ p \in PCs
  BY DEF Entrance, PCs
<1>5. q \in ReqT /\ q.kind = f.kind /\ q.pc = p
  <2>1. p \in PCs
    BY <1>4
  <2> HIDE DEF p
  <2>2. q \in ReqT
    BY <1>2, <1>3, <2>1, Zenon DEF ReqT
  <2>3. q.kind = f.kind /\ q.pc = p
    BY <1>3, Zenon DEF ReqT
  <2> QED
    BY <2>2, <2>3
<1>6. q.stage = 1
  <2>1. Idle.stage = 1
    BY DEF Idle
  <2>2. q.stage = Idle.stage
    BY <1>3, Zenon DEF ReqT
  <2> QED
    BY <2>1, <2>2
<1>7. req' = [req EXCEPT ![r] = q]
  BY <1>1, Zenon
<1> HIDE DEF q
<1>8. req' \in [Requests -> ReqT] /\ req'[r] = q /\ \A i \in Requests \ {r} : req'[i] = req[i]
  BY <1>5, <1>7 DEF Locals, Functions
<1>9. UNCHANGED <<box, watch, erred>> /\ Local(r, req[r], box[r], watch[r], erred)
      /\ req[r].pc = "idle"
  BY DEF Post, Locals, At
<1>10. Functions' /\ Others(r)
  BY <1>8, <1>9 DEF Functions, Locals, Others
<1>11. Local(r, q, box[r], watch[r], erred)
  BY <1>4, <1>5, <1>6, <1>9
     DEF Local, LocalTypes, Containers, KillsAreDue, Tidy, Keeps, IsListed, IsDbt, DbtPCs, Alive,
         Over, PCs
<1> QED
  BY <1>4, <1>5, <1>6, <1>8, <1>9, <1>10, <1>11 DEF IsListed

(* A step of r that the registry need not notice, and one that neither the *)
(* files nor the tables notice.                                            *)
RegistryQuiet(r) ==
  /\ HasE(req'[r], watch'[r]) <=> HasE(req[r], watch[r])
  /\ OnShow(req'[r], box'[r], watch'[r]) <=> OnShow(req[r], box[r], watch[r])
  /\ HasE(req[r], watch[r]) => LabelIs(req'[r]) = LabelIs(req[r])
  /\ OnShow(req[r], box[r], watch[r]) =>
       req'[r].stage = req[r].stage /\ box'[r][req[r].stage] \in Alive

FilesQuiet(r) ==
  /\ DependsOn(req'[r], box'[r]) => DependsOn(req[r], box[r])
  /\ Wants(req'[r], box'[r]) => Wants(req[r], box[r])
  /\ req[r].pc # "idle" => SameForm(req'[r], req[r])
  /\ req'[r].seen \in {None, req[r].seen}
  /\ req'[r].pc \notin DbtPCs
  /\ req[r].pc \notin DbtPCs \ {"dbt", "commit"} /\ req'[r].pc # "idle"

LEMMA EntersIsLocal ==
  ASSUME Locals, NEW r \in Requests, Register(r) \/ Attach(r)
  PROVE  /\ Functions' /\ Others(r) /\ Local(r, req'[r], box'[r], watch'[r], erred')
         /\ UNCHANGED <<box, watch>> /\ SameForm(req'[r], req[r]) /\ req'[r].stage = req[r].stage
         /\ req'[r].pc = IF req[r].pc = "enter" THEN "work" ELSE "wait"
<1>1. Functions /\ Local(r, req[r], box[r], watch[r], erred)
  BY DEF Locals
<1>2. /\ req' \in [Requests -> ReqT] /\ \A i \in Requests \ {r} : req'[i] = req[i]
      /\ SameForm(req'[r], req[r]) /\ req'[r].stage = req[r].stage
      /\ req'[r].out = req[r].out
      /\ \/ req[r].pc = "enter" /\ req'[r].pc = "work"
         \/ req[r].pc = "attach" /\ req'[r].pc = "wait"
  BY <1>1, Goes DEF Functions, PCs, Register, Attach, At
<1>3. UNCHANGED <<box, watch, erred>>
  BY DEF Register, Attach, fileVars
<1> QED
  BY <1>1, <1>2, <1>3 DEF Functions, Others, Local, LocalTypes, Containers, KillsAreDue, Tidy, Keeps, IsListed, IsDbt,
     DbtPCs, Alive, Over, SameForm, TwoStages

(* The stages of dbt leave containers, watchers and errors alone. *)
LEMMA Sees ==
  ASSUME Functions, NEW r \in Requests, NEW t \in Requests \cup {None},
         req' = [req EXCEPT ![r].seen = t, ![r].pc = "commit"]
  PROVE  /\ req' \in [Requests -> ReqT] /\ \A i \in Requests \ {r} : req'[i] = req[i]
         /\ SameForm(req'[r], req[r]) /\ req'[r].pc = "commit"
         /\ req'[r].stage = req[r].stage /\ req'[r].out = req[r].out /\ req'[r].seen = t
<1> DEFINE q == [req[r] EXCEPT !.seen = t, !.pc = "commit"]
<1>1. req' = [req EXCEPT ![r] = q]
  BY Zenon
<1>2. req[r] \in ReqT /\ "commit" \in PCs
  BY DEF PCs, Functions
<1>3. q \in ReqT
  BY <1>2 DEF ReqT
<1>4. /\ SameForm(q, req[r]) /\ q.pc = "commit" /\ q.stage = req[r].stage
      /\ q.out = req[r].out /\ q.seen = t
  BY <1>2, Zenon DEF ReqT, SameForm
<1> HIDE DEF q
<1>5. req' \in [Requests -> ReqT] /\ req'[r] = q /\ \A i \in Requests \ {r} : req'[i] = req[i]
  BY <1>1, <1>3 DEF Functions
<1> QED
  BY <1>4, <1>5, Zenon

DbtStep(r) ==
  \/ DbtRefuse(r) \/ OpenModel(r) \/ WriteModel(r)
  \/ ReadSources(r) \/ OpenSources(r) \/ WriteSources(r)
  \/ DbtReads(r) \/ DbtCommits(r) \/ DbtFails(r)

(* Where each of them leads. *)
Leads(r) ==
  /\ DbtRefuse(r) => req[r].pc = "work" /\ req'[r].pc = "leave" /\ req'[r].out = "failed"
  /\ OpenModel(r) => req[r].pc = "work" /\ req'[r].pc = "write" /\ req'[r].out = req[r].out
  /\ WriteModel(r) => /\ req[r].pc = "write" /\ req'[r].out = req[r].out
                      /\ req'[r].pc = IF req[r].refs THEN "readsrc" ELSE "dbt"
  /\ ReadSources(r) => /\ req[r].pc = "readsrc" /\ req'[r].out = req[r].out
                       /\ req'[r].pc = IF r \in sources THEN "dbt" ELSE "opensrc"
  /\ OpenSources(r) => req[r].pc = "opensrc" /\ req'[r].pc = "writesrc" /\ req'[r].out = req[r].out
  /\ WriteSources(r) => req[r].pc = "writesrc" /\ req'[r].pc = "dbt" /\ req'[r].out = req[r].out
  /\ DbtReads(r) => /\ req[r].pc = "dbt" /\ req'[r].pc = "commit" /\ req'[r].out = req[r].out
                    /\ req'[r].seen = model[ModelFile(r)]
  /\ DbtCommits(r) => req[r].pc = "commit" /\ req'[r].pc = "leave" /\ req'[r].out = "ok"
  /\ DbtFails(r) => req[r].pc \in {"dbt", "commit"} /\ req'[r].pc = "leave" /\ req'[r].out = "failed"
  /\ ~DbtReads(r) => req'[r].seen = req[r].seen

LEMMA DbtIsLocal ==
  ASSUME Locals, model \in [Tables -> Requests \cup {None}], NEW r \in Requests, DbtStep(r)
  PROVE  /\ Functions' /\ Others(r) /\ Local(r, req'[r], box'[r], watch'[r], erred')
         /\ UNCHANGED <<box, watch, registryVars>> /\ SameForm(req'[r], req[r])
         /\ req'[r].stage = req[r].stage /\ IsDbt(req[r])
         /\ req'[r].pc \in DbtPCs \cup {"leave"} /\ Leads(r)
<1>1. Functions /\ Local(r, req[r], box[r], watch[r], erred)
  BY DEF Locals
<1>2. IsDbt(req[r]) /\ req[r].pc \in DbtPCs \cup {"work"} /\ r \in Requests
  BY <1>1, KeepsIs DEF DbtStep, DbtRefuse, OpenModel, WriteModel, ReadSources, OpenSources,
     WriteSources, DbtReads, DbtCommits, DbtFails, At, DbtPCs, Local, LocalTypes, Functions
<1>3. UNCHANGED <<box, watch, erred, registryVars>>
  BY DEF DbtStep, DbtRefuse, OpenModel, WriteModel, ReadSources, OpenSources, WriteSources,
     DbtReads, DbtCommits, DbtFails, fileVars
<1>4. /\ req' \in [Requests -> ReqT] /\ \A i \in Requests \ {r} : req'[i] = req[i]
      /\ SameForm(req'[r], req[r]) /\ req'[r].stage = req[r].stage
      /\ req'[r].pc \in DbtPCs \cup {"leave"}
  <2>1. CASE \E o \in {"ok", "failed"} : End(r, o)
    BY <1>1, <2>1, Ends DEF Functions
  <2>2. CASE \E p \in DbtPCs : Go(r, p)
    BY <1>1, <2>2, Goes DEF Functions, DbtPCs, PCs
  <2>3. CASE DbtReads(r)
    <3>1. model[ModelFile(r)] \in Requests \cup {None}
      BY <1>1 DEF ModelFile, Functions, ReqT
    <3> QED
      BY <1>1, <2>3, <3>1, Sees DEF DbtReads, DbtPCs
  <2>4. CASE DbtRefuse(r) \/ DbtCommits(r) \/ DbtFails(r)
    BY <2>1, <2>4 DEF DbtRefuse, DbtCommits, DbtFails
  <2>5. CASE OpenModel(r) \/ WriteModel(r) \/ ReadSources(r) \/ OpenSources(r) \/ WriteSources(r)
    BY <2>2, <2>5 DEF OpenModel, WriteModel, ReadSources, OpenSources, WriteSources, DbtPCs
  <2> QED
    BY <2>3, <2>4, <2>5 DEF DbtStep
<1>5. Leads(r)
  <2>1. DbtRefuse(r) \/ DbtFails(r) => req'[r].pc = "leave" /\ req'[r].out = "failed"
    BY <1>1, Ends DEF Functions, DbtRefuse, DbtFails
  <2>2. DbtCommits(r) => req'[r].pc = "leave" /\ req'[r].out = "ok"
    BY <1>1, Ends DEF Functions, DbtCommits
  <2>3. DbtRefuse(r) \/ DbtFails(r) \/ DbtCommits(r) => req'[r].seen = req[r].seen
    BY <1>1, Ends DEF Functions, DbtRefuse, DbtFails, DbtCommits
  <2>4. \A p \in PCs : Go(r, p) =>
          req'[r].pc = p /\ req'[r].out = req[r].out /\ req'[r].seen = req[r].seen
    BY <1>1, Goes DEF Functions
  <2>5. /\ OpenModel(r) => Go(r, "write")
        /\ WriteModel(r) => Go(r, IF req[r].refs THEN "readsrc" ELSE "dbt")
        /\ ReadSources(r) => Go(r, IF r \in sources THEN "dbt" ELSE "opensrc")
        /\ OpenSources(r) => Go(r, "writesrc")
        /\ WriteSources(r) => Go(r, "dbt")
    BY DEF OpenModel, WriteModel, ReadSources, OpenSources, WriteSources
  <2>6. {"write", "readsrc", "opensrc", "writesrc", "dbt"} \subseteq PCs
    BY DEF PCs
  <2>7. DbtReads(r) => /\ req'[r].pc = "commit" /\ req'[r].out = req[r].out
                       /\ req'[r].seen = model[ModelFile(r)]
    <3>1. model[ModelFile(r)] \in Requests \cup {None}
      BY <1>1 DEF ModelFile, Functions, ReqT
    <3> QED
      BY <1>1, <3>1, Sees DEF DbtReads
  <2>8. /\ DbtRefuse(r) => At(r, "work")
        /\ OpenModel(r) => At(r, "work")
        /\ WriteModel(r) => At(r, "write")
        /\ ReadSources(r) => At(r, "readsrc")
        /\ OpenSources(r) => At(r, "opensrc")
        /\ WriteSources(r) => At(r, "writesrc")
        /\ DbtReads(r) => At(r, "dbt")
        /\ DbtCommits(r) => At(r, "commit")
        /\ DbtFails(r) => At(r, "dbt") \/ At(r, "commit")
    BY DEF DbtRefuse, OpenModel, WriteModel, ReadSources, OpenSources, WriteSources, DbtReads,
       DbtCommits, DbtFails
  <2>9. OpenModel(r) => req'[r].pc = "write" /\ req'[r].out = req[r].out
    BY <2>4, <2>5, <2>6
  <2>10. WriteModel(r) => /\ req'[r].pc = (IF req[r].refs THEN "readsrc" ELSE "dbt")
                          /\ req'[r].out = req[r].out
    BY <2>4, <2>5, <2>6
  <2>11. ReadSources(r) => /\ req'[r].pc = (IF r \in sources THEN "dbt" ELSE "opensrc")
                           /\ req'[r].out = req[r].out
    BY <2>4, <2>5, <2>6
  <2>12. OpenSources(r) => req'[r].pc = "writesrc" /\ req'[r].out = req[r].out
    BY <2>4, <2>5, <2>6
  <2>13. WriteSources(r) => req'[r].pc = "dbt" /\ req'[r].out = req[r].out
    BY <2>4, <2>5, <2>6
  <2>14. ~DbtReads(r) => req'[r].seen = req[r].seen
    <3>1. OpenModel(r) \/ WriteModel(r) \/ ReadSources(r) \/ OpenSources(r) \/ WriteSources(r)
            => req'[r].seen = req[r].seen
      BY <2>4, <2>5, <2>6
    <3> QED
      BY <2>3, <3>1 DEF DbtStep
  <2> QED
    BY <2>1, <2>2, <2>7, <2>8, <2>9, <2>10, <2>11, <2>12, <2>13, <2>14 DEF Leads, At
<1> QED
  BY <1>1, <1>2, <1>3, <1>4, <1>5 DEF Functions, Others, Local, LocalTypes, Containers, KillsAreDue, Tidy, Keeps, IsListed, IsDbt,
     DbtPCs, Alive, Over, SameForm, TwoStages

(* Container stages, up to the end of the container. *)
ContainerStep(r) == Launch(r) \/ LaunchFail(r) \/ Waited(r) \/ WaitFail(r)

LEMMA ContainerIsLocal ==
  ASSUME Locals, NEW r \in Requests, ContainerStep(r)
  PROVE  /\ Functions' /\ Others(r) /\ Local(r, req'[r], box'[r], watch'[r], erred')
         /\ UNCHANGED <<registryVars, fileVars, gold>> /\ RegistryQuiet(r) /\ FilesQuiet(r)
<1>1. Functions /\ Local(r, req[r], box[r], watch[r], erred)
  BY DEF Locals
<1>2. UNCHANGED <<registryVars, fileVars, watch, gold>>
  BY DEF ContainerStep, Launch, LaunchFail, Waited, WaitFail, fileVars, registryVars
<1> USE KeepsIs DEF At, BoxOf, Stage
<1>3. /\ DbtStage(r) <=> IsDbt(req[r])
      /\ Listed(r) <=> IsListed(req[r])
      /\ req[r] \in ReqT /\ box[r] \in BoxT
  BY <1>1 DEF Functions
<1>4. CASE Launch(r)
  <2>1. req[r].pc = "work" /\ ~IsDbt(req[r]) /\ erred' = erred
    BY <1>3, <1>4 DEF Launch
  <2>2. /\ req' \in [Requests -> ReqT] /\ \A i \in Requests \ {r} : req'[i] = req[i]
        /\ SameForm(req'[r], req[r]) /\ req'[r].stage = req[r].stage
        /\ req'[r].out = req[r].out /\ req'[r].seen = req[r].seen
        /\ req'[r].pc = IF IsListed(req[r]) THEN "attach" ELSE "wait"
    BY <1>1, <1>3, <1>4, Goes DEF Launch, Functions, PCs
  <2>3. /\ box' \in [Requests -> BoxT] /\ \A i \in Requests \ {r} : box'[i] = box[i]
        /\ box'[r][req[r].stage] = "running"
        /\ \A i \in {1, 2} : i # req[r].stage => box'[r][i] = box[r][i]
    BY <1>1, <1>4, BoxIsSet DEF Launch, BoxStates
  <2>4. Functions' /\ Others(r) /\ Local(r, req'[r], box'[r], watch'[r], erred')
    BY <1>1, <1>2, <1>3, <2>1, <2>2, <2>3 DEF Functions, Others, ReqT, BoxT,
       Local, LocalTypes, Containers, KillsAreDue, Tidy, Keeps, IsListed, IsDbt,
       DbtPCs, Alive, Over, SameForm, TwoStages
  <2>5. RegistryQuiet(r)
    BY <1>1, <1>2, <1>3, <2>1, <2>2, <2>3 DEF RegistryQuiet, HasE, OnShow, LabelIs, ReqT,
       Local, LocalTypes, Containers, KillsAreDue, Tidy, Keeps, IsListed, IsDbt,
       DbtPCs, Alive, Over, SameForm, TwoStages
  <2>6. FilesQuiet(r)
    BY <1>1, <1>2, <1>3, <2>1, <2>2, <2>3 DEF FilesQuiet, DependsOn, Wants, DbtKinds, ReqT,
       Local, LocalTypes, Containers, KillsAreDue, Tidy, Keeps, IsListed, IsDbt,
       DbtPCs, Alive, Over, SameForm, TwoStages
  <2> QED
    BY <1>2, <2>4, <2>5, <2>6
<1>5. CASE LaunchFail(r)
  <2>1. req[r].pc = "work" /\ ~IsDbt(req[r])
    BY <1>3, <1>5 DEF LaunchFail
  <2>2. /\ req' \in [Requests -> ReqT] /\ \A i \in Requests \ {r} : req'[i] = req[i]
        /\ SameForm(req'[r], req[r]) /\ req'[r].stage = req[r].stage
        /\ req'[r].out = "failed" /\ req'[r].seen = req[r].seen /\ req'[r].pc = "leave"
    BY <1>1, <1>5, Ends DEF LaunchFail, Functions
  <2>3. /\ box' \in [Requests -> BoxT] /\ \A i \in Requests \ {r} : box'[i] = box[i]
        /\ box'[r][req[r].stage] \in {box[r][req[r].stage], "created"}
        /\ \A i \in {1, 2} : i # req[r].stage => box'[r][i] = box[r][i]
    <3>1. CASE box' = box
      BY <1>1, <3>1 DEF Functions
    <3>2. CASE SetBox(r, "created")
      BY <1>1, <3>2, BoxIsSet DEF BoxStates
    <3> QED
      BY <1>5, <3>1, <3>2 DEF LaunchFail
  <2>4. /\ erred' \subseteq Requests \X Calls /\ <<r, "run">> \in erred' /\ erred \subseteq erred'
        /\ \A i, k : i # r \/ k # "run" => (<<i, k>> \in erred' <=> <<i, k>> \in erred)
    BY <1>1, <1>5, ErrsOf DEF LaunchFail, Calls
  <2>5. Functions' /\ Others(r) /\ Local(r, req'[r], box'[r], watch'[r], erred')
    BY <1>1, <1>2, <1>3, <2>1, <2>2, <2>3, <2>4 DEF Functions, Others, ReqT, BoxT,
       Local, LocalTypes, Containers, KillsAreDue, Tidy, Keeps, IsListed, IsDbt,
       DbtPCs, Alive, Over, SameForm, TwoStages
  <2>6. RegistryQuiet(r)
    BY <1>1, <1>2, <1>3, <2>1, <2>2, <2>3 DEF RegistryQuiet, HasE, OnShow, LabelIs, ReqT,
       Local, LocalTypes, Containers, KillsAreDue, Tidy, Keeps, IsListed, IsDbt,
       DbtPCs, Alive, Over, SameForm, TwoStages
  <2>7. FilesQuiet(r)
    BY <1>1, <1>2, <1>3, <2>1, <2>2, <2>3 DEF FilesQuiet, DependsOn, Wants, DbtKinds, ReqT,
       Local, LocalTypes, Containers, KillsAreDue, Tidy, Keeps, IsListed, IsDbt,
       DbtPCs, Alive, Over, SameForm, TwoStages
  <2> QED
    BY <1>2, <2>5, <2>6, <2>7
<1>6. CASE Waited(r) \/ WaitFail(r)
  <2>1. /\ req[r].pc = "wait" /\ box' = box
        /\ box[r][req[r].stage] = "running" => WaitFail(r)
    BY <1>6 DEF Waited, WaitFail
  <2>2. /\ req' \in [Requests -> ReqT] /\ \A i \in Requests \ {r} : req'[i] = req[i]
        /\ SameForm(req'[r], req[r]) /\ req'[r].stage = req[r].stage
        /\ req'[r].seen = req[r].seen /\ req'[r].pc = "leave"
    BY <1>1, <1>6, Ends DEF Waited, WaitFail, Functions
  <2>3. /\ erred' \subseteq Requests \X Calls /\ erred \subseteq erred'
        /\ \A i, k : i # r \/ k # "wait" => (<<i, k>> \in erred' <=> <<i, k>> \in erred)
        /\ WaitFail(r) => <<r, "wait">> \in erred'
    <3>1. CASE Waited(r) /\ ~WaitFail(r)
      BY <1>1, <3>1 DEF Waited, Functions
    <3>2. CASE WaitFail(r)
      BY <1>1, <3>2, ErrsOf DEF WaitFail, Calls
    <3> QED
      BY <1>6, <3>1, <3>2
  <2>4. Functions' /\ Others(r) /\ Local(r, req'[r], box'[r], watch'[r], erred')
    BY <1>1, <1>2, <1>3, <2>1, <2>2, <2>3 DEF Functions, Others, ReqT, BoxT,
       Local, LocalTypes, Containers, KillsAreDue, Tidy, Keeps, IsListed, IsDbt,
       DbtPCs, Alive, Over, SameForm, TwoStages
  <2>5. RegistryQuiet(r)
    BY <1>1, <1>2, <1>3, <2>1, <2>2, <2>3 DEF RegistryQuiet, HasE, OnShow, LabelIs, ReqT,
       Local, LocalTypes, Containers, KillsAreDue, Tidy, Keeps, IsListed, IsDbt,
       DbtPCs, Alive, Over, SameForm, TwoStages
  <2>6. FilesQuiet(r)
    BY <1>1, <1>2, <1>3, <2>1, <2>2, <2>3 DEF FilesQuiet, DependsOn, Wants, DbtKinds, ReqT,
       Local, LocalTypes, Containers, KillsAreDue, Tidy, Keeps, IsListed, IsDbt,
       DbtPCs, Alive, Over, SameForm, TwoStages
  <2> QED
    BY <1>2, <2>4, <2>5, <2>6
<1> QED
  BY <1>4, <1>5, <1>6 DEF ContainerStep

LEMMA ExitIsLocal ==
  ASSUME Locals, NEW r \in Requests, BoxExits(r)
  PROVE  /\ Functions' /\ Others(r) /\ Local(r, req'[r], box'[r], watch'[r], erred')
         /\ UNCHANGED <<registryVars, fileVars, gold>> /\ RegistryQuiet(r) /\ FilesQuiet(r)
<1>1. Functions /\ Local(r, req[r], box[r], watch[r], erred)
  BY DEF Locals
<1>2. /\ UNCHANGED <<registryVars, fileVars, req, watch, gold, erred>>
      /\ box[r][req[r].stage] = "running"
  BY DEF BoxExits, BoxOf, Stage
<1>3. req[r] \in ReqT /\ box[r] \in BoxT
  BY <1>1 DEF Functions
<1>4. PICK st \in {"exit0", "exit1"} : SetBox(r, st)
  BY DEF BoxExits
<1>5. /\ box' \in [Requests -> BoxT] /\ \A i \in Requests \ {r} : box'[i] = box[i]
      /\ box'[r][req[r].stage] \in {"exit0", "exit1"}
      /\ \A i \in {1, 2} : i # req[r].stage => box'[r][i] = box[r][i]
  BY <1>1, <1>4, BoxIsSet DEF BoxStates
<1>6. req[r].pc \notin DbtPCs \cup {"idle"}
  BY <1>1, <1>2 DEF Local, LocalTypes, Containers
<1>7. Functions' /\ Others(r) /\ Local(r, req'[r], box'[r], watch'[r], erred')
  BY <1>1, <1>2, <1>3, <1>5 DEF Functions, Others, ReqT, BoxT,
     Local, LocalTypes, Containers, KillsAreDue, Tidy, Keeps, IsListed, IsDbt,
     DbtPCs, Alive, Over, SameForm, TwoStages
<1>8. RegistryQuiet(r)
  BY <1>1, <1>2, <1>3, <1>5 DEF RegistryQuiet, HasE, OnShow, LabelIs, ReqT,
     Local, LocalTypes, Containers, KillsAreDue, Tidy, Keeps, IsListed, IsDbt,
     DbtPCs, Alive, Over, SameForm, TwoStages
<1>9. FilesQuiet(r)
  BY <1>1, <1>2, <1>3, <1>5, <1>6 DEF FilesQuiet, DependsOn, Wants, DbtKinds, ReqT,
     Local, LocalTypes, Containers, KillsAreDue, Tidy, Keeps, IsListed, IsDbt,
     DbtPCs, Alive, Over, SameForm, TwoStages
<1> QED
  BY <1>2, <1>7, <1>8, <1>9

(* The end of a stage that keeps its entry, or has none any more. *)
StageEnds(r) == HandOver(r) \/ KeepEntry(r) \/ Clear(r) \/ ClearFail(r)

LEMMA EndIsLocal ==
  ASSUME Locals, NEW r \in Requests, StageEnds(r)
  PROVE  /\ Functions' /\ Others(r) /\ Local(r, req'[r], box'[r], watch'[r], erred')
         /\ UNCHANGED <<registryVars, fileVars, gold>> /\ RegistryQuiet(r) /\ FilesQuiet(r)
<1>1. Functions /\ Local(r, req[r], box[r], watch[r], erred)
  BY DEF Locals
<1>2. UNCHANGED <<registryVars, fileVars, gold>>
  BY DEF StageEnds, HandOver, KeepEntry, Clear, ClearFail
<1>3. /\ req[r] \in ReqT /\ box[r] \in BoxT
      /\ KeepsEntry(r) <=> Keeps(req[r])
      /\ GoesOn(r) <=> req[r].kind \in TwoStages /\ req[r].stage = 1 /\ req[r].out = "ok"
      /\ BoxOf(r) = box[r][req[r].stage] /\ Kind(r) = req[r].kind
  BY <1>1, KeepsIs DEF Functions, BoxOf, Kind, Stage
<1>4. CASE HandOver(r)
  <2>1. /\ req[r].pc = "leave" /\ req[r].kind = "run" /\ req[r].stage = 2
        /\ box[r][2] = "running" /\ watch' = [watch EXCEPT ![r] = "wait"]
        /\ UNCHANGED <<box, erred>>
    BY <1>3, <1>4 DEF HandOver, HandsOver, At, Kind, Stage
  <2>2. /\ req' \in [Requests -> ReqT] /\ \A i \in Requests \ {r} : req'[i] = req[i]
        /\ SameForm(req'[r], req[r]) /\ req'[r].stage = req[r].stage
        /\ req'[r].out = req[r].out /\ req'[r].seen = req[r].seen /\ req'[r].pc = "done"
    BY <1>1, <1>4, Goes DEF HandOver, Functions, PCs
  <2>5. Functions' /\ Others(r) /\ Local(r, req'[r], box'[r], watch'[r], erred')
    BY <1>1, <1>2, <1>3, <2>1, <2>2 DEF Functions, Others, ReqT, BoxT, BoxStates,
       Local, LocalTypes, Containers, KillsAreDue, Tidy, Keeps, IsListed, IsDbt,
       DbtPCs, Alive, Over, SameForm, TwoStages
  <2>6. RegistryQuiet(r)
    BY <1>1, <1>2, <1>3, <2>1, <2>2 DEF RegistryQuiet, HasE, OnShow, LabelIs, ReqT, Functions,
       Local, LocalTypes, Containers, KillsAreDue, Tidy, Keeps, IsListed, IsDbt,
       DbtPCs, Alive, Over, SameForm, TwoStages
  <2>7. FilesQuiet(r)
    BY <1>1, <1>2, <1>3, <2>1, <2>2 DEF FilesQuiet, DependsOn, Wants, DbtKinds, ReqT,
       Local, LocalTypes, Containers, KillsAreDue, Tidy, Keeps, IsListed, IsDbt,
       DbtPCs, Alive, Over, SameForm, TwoStages
  <2> QED
    BY <1>2, <2>5, <2>6, <2>7
<1>5. CASE KeepEntry(r)
  <2>1. req[r].pc = "leave" /\ Keeps(req[r]) /\ UNCHANGED <<box, watch, erred>>
    BY <1>3, <1>5 DEF KeepEntry, At
  <2>2. /\ req' \in [Requests -> ReqT] /\ \A i \in Requests \ {r} : req'[i] = req[i]
        /\ SameForm(req'[r], req[r]) /\ req'[r].stage = 2
        /\ req'[r].out = "none" /\ req'[r].seen = req[r].seen
        /\ req'[r].pc = IF Keeps(req[r]) THEN "work" ELSE "enter"
    BY <1>1, <1>5, Advances DEF KeepEntry, Functions
  <2>3. LabelIs(req'[r]) = LabelIs(req[r])
    BY <2>1, <2>2, StagesAre DEF LabelIs, SameForm, Keeps
  <2>5. Functions' /\ Others(r) /\ Local(r, req'[r], box'[r], watch'[r], erred')
    BY <1>1, <1>2, <1>3, <2>1, <2>2, <2>3 DEF Functions, Others, ReqT, BoxT, BoxStates,
       Local, LocalTypes, Containers, KillsAreDue, Tidy, Keeps, IsListed, IsDbt,
       DbtPCs, Alive, Over, SameForm, TwoStages
  <2>6. RegistryQuiet(r)
    BY <1>1, <1>2, <1>3, <2>1, <2>2, <2>3 DEF RegistryQuiet, HasE, OnShow, LabelIs, ReqT, Functions,
       Local, LocalTypes, Containers, KillsAreDue, Tidy, Keeps, IsListed, IsDbt,
       DbtPCs, Alive, Over, SameForm, TwoStages
  <2>7. FilesQuiet(r)
    BY <1>1, <1>2, <1>3, <2>1, <2>2, <2>3 DEF FilesQuiet, DependsOn, Wants, DbtKinds, ReqT,
       Local, LocalTypes, Containers, KillsAreDue, Tidy, Keeps, IsListed, IsDbt,
       DbtPCs, Alive, Over, SameForm, TwoStages
  <2> QED
    BY <1>2, <2>5, <2>6, <2>7
<1>6. CASE Clear(r) \/ ClearFail(r)
  <2>1. req[r].pc = "clear" /\ ~Keeps(req[r]) /\ watch' = watch
    BY <1>1, <1>6 DEF Clear, ClearFail, At, Local, LocalTypes
  <2>2. /\ req' \in [Requests -> ReqT] /\ \A i \in Requests \ {r} : req'[i] = req[i]
        /\ SameForm(req'[r], req[r]) /\ req'[r].seen = req[r].seen
        /\ \/ /\ req[r].kind \in TwoStages /\ req[r].stage = 1 /\ req[r].out = "ok"
              /\ req'[r].stage = 2 /\ req'[r].pc = "enter" /\ req'[r].out = "none"
           \/ req'[r].stage = req[r].stage /\ req'[r].pc = "done" /\ req'[r].out = req[r].out
    <3>1. CASE GoesOn(r) /\ NextStage(r)
      BY <1>1, <1>3, <2>1, <3>1, Advances DEF Functions
    <3>2. CASE Go(r, "done")
      BY <1>1, <3>2, Goes DEF Functions, PCs
    <3> QED
      BY <1>6, <3>1, <3>2 DEF Clear, ClearFail, Proceed
  <2>3. /\ box' \in [Requests -> BoxT] /\ \A i \in Requests \ {r} : box'[i] = box[i]
        /\ \A i \in {1, 2} : i # req[r].stage => box'[r][i] = box[r][i]
        /\ \/ /\ box'[r][req[r].stage] = "gone" /\ erred' = erred
              /\ box[r][req[r].stage] \in Alive
           \/ /\ box'[r][req[r].stage] = box[r][req[r].stage] /\ erred' = erred
              /\ box[r][req[r].stage] \notin Alive
           \/ box'[r][req[r].stage] = box[r][req[r].stage] /\ Raises(r, "remove")
    <3>1. CASE Clear(r) /\ HasBox(r)
      <4>1. SetBox(r, "gone") /\ erred' = erred /\ box[r][req[r].stage] \in Alive
        BY <1>3, <3>1 DEF Clear, HasBox, Alive
      <4> QED
        BY <1>1, <4>1, BoxIsSet DEF BoxStates
    <3>2. CASE Clear(r) /\ ~HasBox(r)
      <4>1. box' = box /\ erred' = erred
        BY <3>2 DEF Clear
      <4> QED
        BY <1>1, <1>3, <3>2, <4>1 DEF Functions, HasBox, Alive
    <3>3. CASE ClearFail(r)
      BY <1>1, <3>3 DEF ClearFail, Functions
    <3> QED
      BY <1>6, <3>1, <3>2, <3>3
  <2>4. /\ erred' \subseteq Requests \X Calls /\ erred \subseteq erred'
        /\ \A i, k : i # r \/ k # "remove" => (<<i, k>> \in erred' <=> <<i, k>> \in erred)
        /\ Raises(r, "remove") => <<r, "remove">> \in erred'
    <3>1. CASE erred' = erred
      BY <1>1, <3>1 DEF Functions, Raises
    <3>2. CASE Raises(r, "remove")
      BY <1>1, <3>2, ErrsOf DEF Calls
    <3> QED
      BY <2>3, <3>1, <3>2
  <2>5. Functions' /\ Others(r) /\ Local(r, req'[r], box'[r], watch'[r], erred')
    <3>1. Functions' /\ Others(r)
      BY <1>1, <2>1, <2>2, <2>3, <2>4 DEF Functions, Others
    <3>2. LocalTypes(req'[r], box'[r], watch'[r]) /\ Containers(req'[r], box'[r], watch'[r])
      BY <1>1, <1>3, <2>1, <2>2, <2>3, <3>1 DEF Functions, Local, LocalTypes, Containers, Keeps,
         IsListed, IsDbt, DbtPCs, SameForm, TwoStages, ReqT, Alive
    <3>3. KillsAreDue(r, req'[r], box'[r], watch'[r], erred')
      BY <1>1, <2>1, <2>2, <2>3, <2>4 DEF Local, KillsAreDue, Containers
    <3>4. Tidy(r, req'[r], box'[r], watch'[r], erred')
      <4>1. SUFFICES ASSUME <<r, "run">> \notin erred', <<r, "remove">> \notin erred'
                     PROVE  /\ box'[r][1] # "created" /\ box'[r][2] # "created"
                            /\ req'[r].stage = 2 => box'[r][1] \in Over
                            /\ req'[r].pc = "done" => box'[r][req'[r].stage] \in Over
        BY DEF Tidy
      <4>2. /\ box[r][1] # "created" /\ box[r][2] # "created"
            /\ req[r].stage = 2 => box[r][1] \in Over
            /\ req[r].stage \in {1, 2}
        BY <1>1, <2>4, <4>1 DEF Local, Tidy, Functions, ReqT
      <4>3. box[r][req[r].stage] \notin Alive => box[r][req[r].stage] \in Over
        BY <1>3, <4>2 DEF BoxT, BoxStates, Alive, Over
      <4>4. box'[r][req[r].stage] \in Over
        BY <2>3, <2>4, <4>1, <4>3 DEF Over
      <4> QED
        BY <2>2, <2>3, <4>2, <4>4 DEF Over
    <3> QED
      BY <3>1, <3>2, <3>3, <3>4 DEF Local
  <2>6. RegistryQuiet(r)
    BY <1>1, <1>2, <1>3, <2>1, <2>2, <2>3 DEF RegistryQuiet, HasE, OnShow, LabelIs, ReqT, Functions,
       Local, LocalTypes, Containers, KillsAreDue, Tidy, Keeps, IsListed, IsDbt,
       DbtPCs, Alive, Over, SameForm, TwoStages
  <2>7. FilesQuiet(r)
    BY <1>1, <1>2, <1>3, <2>1, <2>2, <2>3 DEF FilesQuiet, DependsOn, Wants, DbtKinds, ReqT,
       Local, LocalTypes, Containers, KillsAreDue, Tidy, Keeps, IsListed, IsDbt,
       DbtPCs, Alive, Over, SameForm, TwoStages
  <2> QED
    BY <1>2, <2>5, <2>6, <2>7
<1> QED
  BY <1>4, <1>5, <1>6 DEF StageEnds

(* The steps that take an entry off the list. *)
Removal(r) == Unlist(r) \/ ReloadFail(r) \/ WatcherUnlist(r)

LEMMA RemovalIsLocal ==
  ASSUME Locals, NEW r \in Requests, Removal(r)
  PROVE  /\ Functions' /\ Others(r) /\ Local(r, req'[r], box'[r], watch'[r], erred')
         /\ UNCHANGED <<shared, fileVars, gold>> /\ FilesQuiet(r)
         /\ ~HasE(req'[r], watch'[r]) /\ ~OnShow(req'[r], box'[r], watch'[r])
         /\ IF HasE(req[r], watch[r]) THEN active' = Without(Label(r)) ELSE active' = active
<1>1. Functions /\ Local(r, req[r], box[r], watch[r], erred)
  BY DEF Locals
<1>2. UNCHANGED <<shared, fileVars, gold>>
  BY DEF Removal, Unlist, ReloadFail, WatcherUnlist
<1>3. /\ req[r] \in ReqT /\ box[r] \in BoxT
      /\ KeepsEntry(r) <=> Keeps(req[r])
      /\ Listed(r) <=> IsListed(req[r])
      /\ BoxOf(r) = box[r][req[r].stage] /\ Kind(r) = req[r].kind
  BY <1>1, KeepsIs DEF Functions, BoxOf, Kind, Stage
<1>4. CASE Unlist(r) \/ ReloadFail(r)
  <2>1. /\ req[r].pc = "leave" /\ ~Keeps(req[r]) /\ watch' = watch /\ box' = box
        /\ req[r].kind = "run" /\ req[r].stage = 2 /\ box[r][2] = "running" => ReloadFail(r)
        /\ active' = IF IsListed(req[r]) THEN Without(Label(r)) ELSE active
    BY <1>3, <1>4 DEF Unlist, ReloadFail, HandsOver, At, Kind, Stage, Keeps, IsListed
  <2>2. /\ req' \in [Requests -> ReqT] /\ \A i \in Requests \ {r} : req'[i] = req[i]
        /\ SameForm(req'[r], req[r]) /\ req'[r].stage = req[r].stage
        /\ req'[r].out = req[r].out /\ req'[r].seen = req[r].seen /\ req'[r].pc = "clear"
    BY <1>1, <1>4, Goes DEF Unlist, ReloadFail, Functions, PCs
  <2>3. /\ erred' \subseteq Requests \X Calls /\ erred \subseteq erred'
        /\ \A i, k : i # r \/ k # "reload" => (<<i, k>> \in erred' <=> <<i, k>> \in erred)
        /\ ReloadFail(r) => <<r, "reload">> \in erred'
    <3>1. CASE Unlist(r) /\ ~ReloadFail(r)
      BY <1>1, <3>1 DEF Unlist, Functions
    <3>2. CASE ReloadFail(r)
      BY <1>1, <3>2, ErrsOf DEF ReloadFail, Calls
    <3> QED
      BY <1>4, <3>1, <3>2
  <2>5. Functions' /\ Others(r) /\ Local(r, req'[r], box'[r], watch'[r], erred')
    BY <1>1, <1>2, <1>3, <2>1, <2>2, <2>3 DEF Functions, Others, ReqT, BoxT, BoxStates,
       Local, LocalTypes, Containers, KillsAreDue, Tidy, Keeps, IsListed, IsDbt,
       DbtPCs, Alive, Over, SameForm, TwoStages
  <2>7. FilesQuiet(r)
    BY <1>1, <1>2, <1>3, <2>1, <2>2, <2>3 DEF FilesQuiet, DependsOn, Wants, DbtKinds, ReqT,
       Local, LocalTypes, Containers, KillsAreDue, Tidy, Keeps, IsListed, IsDbt,
       DbtPCs, Alive, Over, SameForm, TwoStages
  <2>8. watch[r] = "none"
    BY <1>1, <2>1 DEF Local, Containers, LocalTypes
  <2>9. /\ ~HasE(req'[r], watch'[r]) /\ ~OnShow(req'[r], box'[r], watch'[r])
        /\ HasE(req[r], watch[r]) <=> IsListed(req[r])
    BY <2>1, <2>2, <2>8 DEF HasE, OnShow
  <2> QED
    BY <1>2, <2>1, <2>5, <2>7, <2>9
<1>5. CASE WatcherUnlist(r)
  <2>1. /\ watch[r] = "wait" /\ watch' = [watch EXCEPT ![r] = "clear"] /\ req' = req /\ box' = box
        /\ active' = Without(Label(r))
        /\ req[r].pc = "done" /\ req[r].kind = "run" /\ req[r].stage = 2 /\ box[r][2] \in Alive
    BY <1>1, <1>5 DEF WatcherUnlist, Local, Containers
  <2>3. /\ erred' \subseteq Requests \X Calls /\ erred \subseteq erred'
        /\ \A i, k : i # r \/ k # "reload" => (<<i, k>> \in erred' <=> <<i, k>> \in erred)
        /\ box[r][2] = "running" => <<r, "reload">> \in erred'
    <3>1. CASE Raises(r, "reload")
      BY <1>1, <3>1, ErrsOf DEF Calls
    <3>2. CASE BoxOf(r) \in {"exit0", "exit1"} /\ erred' = erred
      BY <1>1, <1>3, <2>1, <3>2 DEF Functions
    <3> QED
      BY <1>5, <3>1, <3>2 DEF WatcherUnlist
  <2>5. Functions' /\ Others(r) /\ Local(r, req'[r], box'[r], watch'[r], erred')
    BY <1>1, <1>2, <1>3, <2>1, <2>3 DEF Functions, Others, ReqT, BoxT, BoxStates,
       Local, LocalTypes, Containers, KillsAreDue, Tidy, Keeps, IsListed, IsDbt,
       DbtPCs, Alive, Over, SameForm, TwoStages
  <2>7. FilesQuiet(r)
    BY <1>1, <1>2, <1>3, <2>1, <2>3 DEF FilesQuiet, DependsOn, Wants, DbtKinds, ReqT,
       Local, LocalTypes, Containers, KillsAreDue, Tidy, Keeps, IsListed, IsDbt,
       DbtPCs, Alive, Over, SameForm, TwoStages
  <2>8. /\ ~HasE(req'[r], watch'[r]) /\ ~OnShow(req'[r], box'[r], watch'[r])
        /\ HasE(req[r], watch[r])
    BY <1>1, <2>1 DEF HasE, OnShow, Functions
  <2> QED
    BY <1>2, <2>1, <2>5, <2>7, <2>8
<1> QED
  BY <1>4, <1>5 DEF Removal

LEMMA WatcherClearIsLocal ==
  ASSUME Locals, NEW r \in Requests, WatcherClear(r)
  PROVE  /\ Functions' /\ Others(r) /\ Local(r, req'[r], box'[r], watch'[r], erred')
         /\ UNCHANGED <<registryVars, fileVars, gold>> /\ RegistryQuiet(r) /\ FilesQuiet(r)
<1>1. Functions /\ Local(r, req[r], box[r], watch[r], erred)
  BY DEF Locals
<1>2. UNCHANGED <<registryVars, fileVars, gold, req>>
  BY DEF WatcherClear
<1>3. /\ req[r] \in ReqT /\ box[r] \in BoxT
      /\ watch[r] = "clear" /\ watch' = [watch EXCEPT ![r] = "none"]
      /\ req[r].pc = "done" /\ req[r].kind = "run" /\ req[r].stage = 2 /\ box[r][2] \in Alive
  BY <1>1 DEF Functions, WatcherClear, Local, Containers
<1>4. /\ box' \in [Requests -> BoxT] /\ \A i \in Requests \ {r} : box'[i] = box[i]
      /\ box'[r][1] = box[r][1]
      /\ \/ box'[r][2] = "gone" /\ erred' = erred
         \/ box'[r][2] = box[r][2] /\ Raises(r, "remove")
  <2>1. CASE SetBox(r, "gone") /\ erred' = erred
    BY <1>1, <1>3, <2>1, BoxIsSet DEF BoxStates
  <2>2. CASE box' = box /\ Raises(r, "remove")
    BY <1>1, <2>2 DEF Functions
  <2> QED
    BY <2>1, <2>2 DEF WatcherClear
<1>5. /\ erred' \subseteq Requests \X Calls /\ erred \subseteq erred'
      /\ \A i, k : i # r \/ k # "remove" => (<<i, k>> \in erred' <=> <<i, k>> \in erred)
      /\ Raises(r, "remove") => <<r, "remove">> \in erred'
  <2>1. CASE erred' = erred
    BY <1>1, <2>1 DEF Functions, Raises
  <2>2. CASE Raises(r, "remove")
    BY <1>1, <2>2, ErrsOf DEF Calls
  <2> QED
    BY <1>4, <2>1, <2>2
<1>6. Functions' /\ Others(r) /\ Local(r, req'[r], box'[r], watch'[r], erred')
  BY <1>1, <1>2, <1>3, <1>4, <1>5 DEF Functions, Others, ReqT, BoxT,
     Local, LocalTypes, Containers, KillsAreDue, Tidy, Keeps, IsListed, IsDbt,
     DbtPCs, Alive, Over, SameForm, TwoStages
<1>7. RegistryQuiet(r)
  BY <1>1, <1>2, <1>3, <1>4 DEF RegistryQuiet, HasE, OnShow, LabelIs, ReqT, Functions,
     Local, LocalTypes, Containers, KillsAreDue, Tidy, Keeps, IsListed, IsDbt,
     DbtPCs, Alive, Over, SameForm, TwoStages
<1>8. FilesQuiet(r)
  BY <1>1, <1>2, <1>3, <1>4 DEF FilesQuiet, DependsOn, Wants, DbtKinds, ReqT,
     Local, LocalTypes, Containers, KillsAreDue, Tidy, Keeps, IsListed, IsDbt,
     DbtPCs, Alive, Over, SameForm, TwoStages
<1> QED
  BY <1>2, <1>6, <1>7, <1>8

(* Nobody but the registry notices that a request enters, nothing at all   *)
(* that the registry would notice happens in a dbt stage.                  *)
LEMMA EntersQuietly ==
  ASSUME Locals, NEW r \in Requests, Register(r) \/ Attach(r)
  PROVE  FilesQuiet(r)
<1>1. Local(r, req[r], box[r], watch[r], erred)
  BY DEF Locals
<1>2. /\ UNCHANGED <<box, watch>> /\ SameForm(req'[r], req[r]) /\ req'[r].stage = req[r].stage
      /\ req'[r].pc = IF req[r].pc = "enter" THEN "work" ELSE "wait"
      /\ req[r].pc \in {"enter", "attach"}
  BY EntersIsLocal DEF Register, Attach, At
<1>3. req'[r].seen = req[r].seen
  BY Goes DEF Locals, Functions, Register, Attach, PCs
<1>4. req'[r].kind = req[r].kind
  BY <1>2 DEF SameForm
<1>5. /\ req[r].pc = "enter" /\ req[r].kind = "transform_load" => req[r].stage = 1
      /\ req[r].stage = 2 => req[r].kind \in TwoStages
      /\ req[r].pc = "attach" => ~IsDbt(req[r])
  BY <1>1 DEF Local, LocalTypes
<1>6. DependsOn(req'[r], box'[r]) => DependsOn(req[r], box[r])
  BY <1>2, <1>4, <1>5 DEF DependsOn, DbtKinds, TwoStages, IsDbt
<1>7. Wants(req'[r], box'[r]) => Wants(req[r], box[r])
  BY <1>2, <1>4, <1>6 DEF Wants
<1> QED
  BY <1>2, <1>3, <1>6, <1>7 DEF FilesQuiet, DbtPCs

LEMMA DbtIsQuiet ==
  ASSUME Locals, model \in [Tables -> Requests \cup {None}], NEW r \in Requests, DbtStep(r)
  PROVE  RegistryQuiet(r)
<1>1. Local(r, req[r], box[r], watch[r], erred) /\ req[r] \in ReqT
  BY DEF Locals, Functions
<1>2. /\ UNCHANGED <<box, watch>> /\ SameForm(req'[r], req[r])
      /\ req'[r].stage = req[r].stage /\ IsDbt(req[r])
      /\ req'[r].pc \in DbtPCs \cup {"leave"} /\ Leads(r)
  BY DbtIsLocal
<1>3. req[r].pc \in DbtPCs \cup {"work"}
  BY <1>2 DEF Leads, DbtStep, DbtPCs
<1> QED
  BY <1>1, <1>2, <1>3 DEF RegistryQuiet, HasE, OnShow, LabelIs, SameForm, DbtPCs, Local, Containers,
     IsListed, Alive, ReqT

-----------------------------------------------------------------------------
(* The registry: every entry is somebody's, who works under its label and   *)
(* shows his own container; whoever nobody met finds himself listed; and    *)
(* two of the same label have met.                                          *)
Entries ==
  \A l \in DOMAIN active :
    /\ active[l] \in [by: Requests, box: Boxes \cup {None}]
    /\ HasE(req[active[l].by], watch[active[l].by]) /\ l = LabelIs(req[active[l].by])
    /\ active[l].box # None =>
         \E r \in Requests :
           /\ active[l].box = <<r, req[r].stage>> /\ OnShow(req[r], box[r], watch[r])
           /\ l = LabelIs(req[r]) /\ box[r][req[r].stage] \in Alive

Listing ==
  \A r \in Requests :
    HasE(req[r], watch[r]) /\ r \notin shared =>
      /\ LabelIs(req[r]) \in DOMAIN active
      /\ active[LabelIs(req[r])].by = r
      /\ OnShow(req[r], box[r], watch[r]) =>
           active[LabelIs(req[r])].box = <<r, req[r].stage>>

Met ==
  \A r, s \in Requests :
    /\ r # s /\ LabelIs(req[r]) = LabelIs(req[s])
    /\ HasE(req[r], watch[r]) /\ HasE(req[s], watch[s])
    => r \in shared /\ s \in shared

Registry == Entries /\ Listing /\ Met /\ shared \subseteq Requests

LEMMA QuietKeepsRegistry ==
  ASSUME Locals, Registry, UNCHANGED registryVars, \A i \in Requests : RegistryQuiet(i)
  PROVE  Registry'
<1>1. active' = active /\ shared' = shared
  BY DEF registryVars
<1>2. ASSUME NEW i \in Requests
      PROVE  OnShow(req[i], box[i], watch[i]) => HasE(req[i], watch[i])
  BY DEF OnShow, HasE
<1>3. Entries'
  <2>1. SUFFICES ASSUME NEW l \in DOMAIN active
                 PROVE  /\ HasE(req'[active[l].by], watch'[active[l].by])
                        /\ l = LabelIs(req'[active[l].by])
                        /\ active[l].box # None =>
                             \E r \in Requests :
                               /\ active[l].box = <<r, req'[r].stage>>
                               /\ OnShow(req'[r], box'[r], watch'[r])
                               /\ l = LabelIs(req'[r]) /\ box'[r][req'[r].stage] \in Alive
    BY <1>1 DEF Entries, Registry
  <2>2. active[l].by \in Requests /\ HasE(req[active[l].by], watch[active[l].by])
        /\ l = LabelIs(req[active[l].by])
    BY DEF Registry, Entries
  <2>3. HasE(req'[active[l].by], watch'[active[l].by]) /\ l = LabelIs(req'[active[l].by])
    BY <2>2 DEF RegistryQuiet
  <2>4. ASSUME active[l].box # None
        PROVE  \E r \in Requests :
                 /\ active[l].box = <<r, req'[r].stage>>
                 /\ OnShow(req'[r], box'[r], watch'[r])
                 /\ l = LabelIs(req'[r]) /\ box'[r][req'[r].stage] \in Alive
    <3>1. PICK r \in Requests :
            /\ active[l].box = <<r, req[r].stage>> /\ OnShow(req[r], box[r], watch[r])
            /\ l = LabelIs(req[r]) /\ box[r][req[r].stage] \in Alive
      BY <2>4 DEF Registry, Entries
    <3> QED
      BY <1>2, <3>1 DEF RegistryQuiet
  <2> QED
    BY <2>3, <2>4
<1>4. Listing'
  BY <1>1, <1>2 DEF Registry, Listing, RegistryQuiet
<1>5. Met'
  BY <1>1, <1>2 DEF Registry, Met, RegistryQuiet
<1> QED
  BY <1>1, <1>3, <1>4, <1>5 DEF Registry

LEMMA OthersAreQuiet ==
  ASSUME NEW r \in Requests, Others(r), Locals
  PROVE  \A i \in Requests \ {r} :
           /\ req'[i] = req[i] /\ box'[i] = box[i] /\ watch'[i] = watch[i]
           /\ (OnShow(req[i], box[i], watch[i]) => box[i][req[i].stage] \in Alive) => RegistryQuiet(i)
           /\ OnShow(req[i], box[i], watch[i]) =>
                box[i][req[i].stage] \in Alive /\ HasE(req[i], watch[i])
  BY DEF Others, RegistryQuiet, Locals, Local, LocalTypes, Containers, OnShow, HasE

LEMMA LabelsAre ==
  ASSUME Functions, NEW r \in Requests
  PROVE  /\ Label(r) = LabelIs(req[r])
         /\ \A s \in Requests : SameJob(r, s) <=> LabelIs(req[r]) = LabelIs(req[s])
  BY DEF Label, LabelIs, SameJob, TypeOf, Kind, Stage

LEMMA MeetingIs ==
  ASSUME Locals, NEW r \in Requests
  PROVE  \A s \in Requests :
           s \in Meeting(r) <=> /\ s # r /\ HasE(req[s], watch[s])
                                /\ LabelIs(req[r]) = LabelIs(req[s])
<1> TAKE s \in Requests
<1>1. HasEntry(s) <=> HasE(req[s], watch[s])
  BY DEF HasEntry, HasE, Listed, IsListed, Kind, At
<1>2. HasE(req[s], watch[s]) => ~At(s, "idle")
  BY DEF HasE, At, Locals, Local, LocalTypes
<1> QED
  BY <1>1, <1>2, LabelsAre DEF Meeting, Locals

(* A request enters: it overwrites the entry of its label, and whoever it   *)
(* meets there is as lost as itself.                                        *)
LEMMA RegisterKeeps ==
  ASSUME Locals, Registry, NEW r \in Requests, Register(r)
  PROVE  Registry'
<1> DEFINE k == LabelIs(req[r])
<1>1. /\ Others(r) /\ UNCHANGED <<box, watch>> /\ SameForm(req'[r], req[r])
      /\ req'[r].stage = req[r].stage /\ req'[r].pc = "work" /\ req[r].pc = "enter"
  BY EntersIsLocal DEF Register, At
<1>2. /\ Local(r, req[r], box[r], watch[r], erred) /\ Functions
      /\ watch[r] = "none" /\ IsListed(req[r])
  BY <1>1 DEF Locals, Local, LocalTypes, Containers, Functions
<1>3. /\ LabelIs(req'[r]) = k /\ HasE(req'[r], watch'[r]) /\ ~OnShow(req'[r], box'[r], watch'[r])
      /\ ~HasE(req[r], watch[r]) /\ ~OnShow(req[r], box[r], watch[r])
  BY <1>1, <1>2 DEF LabelIs, SameForm, HasE, OnShow, IsListed
<1>4. \A i \in Requests \ {r} :
        /\ req'[i] = req[i] /\ box'[i] = box[i] /\ watch'[i] = watch[i]
        /\ OnShow(req[i], box[i], watch[i]) => HasE(req[i], watch[i])
  BY <1>1, OthersAreQuiet
<1>5. /\ DOMAIN active' = DOMAIN active \cup {k}
      /\ active'[k] = [by |-> r, box |-> None]
      /\ \A l \in DOMAIN active : l # k => active'[l] = active[l]
  BY <1>2, LabelsAre DEF Register
<1>6. \A s \in Requests : s \in Meeting(r) <=> s # r /\ HasE(req[s], watch[s]) /\ LabelIs(req[s]) = k
  BY MeetingIs
<1>7. /\ shared' = IF Meeting(r) = {} THEN shared \ {r} ELSE shared \cup Meeting(r) \cup {r}
      /\ Meeting(r) \subseteq Requests /\ shared \subseteq Requests
  BY DEF Register, Meeting, Registry
<1> HIDE DEF k
<1>8. Entries'
  <2>1. SUFFICES ASSUME NEW l \in DOMAIN active'
                 PROVE  /\ active'[l] \in [by: Requests, box: Boxes \cup {None}]
                        /\ HasE(req'[active'[l].by], watch'[active'[l].by])
                        /\ l = LabelIs(req'[active'[l].by])
                        /\ active'[l].box # None =>
                             \E i \in Requests :
                               /\ active'[l].box = <<i, req'[i].stage>>
                               /\ OnShow(req'[i], box'[i], watch'[i])
                               /\ l = LabelIs(req'[i]) /\ box'[i][req'[i].stage] \in Alive
    BY DEF Entries
  <2>2. CASE l = k
    <3>1. active'[l].by = r /\ active'[l].box = None
      BY <1>5, <2>2
    <3>2. active'[l] \in [by: Requests, box: Boxes \cup {None}]
      BY <1>5, <2>2
    <3> QED
      BY <1>3, <2>2, <3>1, <3>2
  <2>3. CASE l # k
    <3>1. l \in DOMAIN active /\ active'[l] = active[l]
      BY <1>5, <2>1, <2>3
    <3>2. /\ active[l] \in [by: Requests, box: Boxes \cup {None}] /\ active[l].by \in Requests
          /\ HasE(req[active[l].by], watch[active[l].by]) /\ l = LabelIs(req[active[l].by])
      BY <3>1 DEF Registry, Entries
    <3>3. active[l].by # r
      BY <1>3, <3>2
    <3>4. ASSUME active[l].box # None
          PROVE  \E i \in Requests :
                   /\ active[l].box = <<i, req'[i].stage>>
                   /\ OnShow(req'[i], box'[i], watch'[i])
                   /\ l = LabelIs(req'[i]) /\ box'[i][req'[i].stage] \in Alive
      <4>1. PICK i \in Requests :
              /\ active[l].box = <<i, req[i].stage>> /\ OnShow(req[i], box[i], watch[i])
              /\ l = LabelIs(req[i]) /\ box[i][req[i].stage] \in Alive
        BY <3>1, <3>4 DEF Registry, Entries
      <4>2. i # r
        BY <1>3, <4>1
      <4> QED
        BY <1>4, <4>1, <4>2
    <3> QED
      BY <1>4, <3>1, <3>2, <3>3, <3>4
  <2> QED
    BY <2>2, <2>3
<1>9. Listing'
  <2>1. SUFFICES ASSUME NEW i \in Requests, HasE(req'[i], watch'[i]), i \notin shared'
                 PROVE  /\ LabelIs(req'[i]) \in DOMAIN active'
                        /\ active'[LabelIs(req'[i])].by = i
                        /\ OnShow(req'[i], box'[i], watch'[i]) =>
                             active'[LabelIs(req'[i])].box = <<i, req'[i].stage>>
    BY DEF Listing
  <2>2. CASE i = r
    BY <1>3, <1>5, <2>2
  <2>3. CASE i # r
    <3>1. /\ req'[i] = req[i] /\ box'[i] = box[i] /\ watch'[i] = watch[i]
          /\ HasE(req[i], watch[i]) /\ i \notin shared /\ i \notin Meeting(r)
      BY <1>4, <1>7, <2>1, <2>3
    <3>2. LabelIs(req[i]) # k
      BY <1>6, <2>3, <3>1
    <3> QED
      BY <1>5, <3>1, <3>2 DEF Registry, Listing
  <2> QED
    BY <2>2, <2>3
<1>10. Met'
  <2>1. SUFFICES ASSUME NEW i \in Requests, NEW s \in Requests, i # s,
                        LabelIs(req'[i]) = LabelIs(req'[s]),
                        HasE(req'[i], watch'[i]), HasE(req'[s], watch'[s])
                 PROVE  i \in shared' /\ s \in shared'
    BY DEF Met
  <2>2. CASE i = r \/ s = r
    <3>1. PICK x \in {i, s} : x # r
      BY <2>1
    <3>2. x \in Meeting(r)
      BY <1>3, <1>4, <1>6, <2>1, <2>2, <3>1
    <3> QED
      BY <1>7, <2>2, <3>1, <3>2
  <2>3. CASE i # r /\ s # r
    <3>1. i \in shared /\ s \in shared
      BY <1>4, <2>1, <2>3 DEF Registry, Met
    <3> QED
      BY <1>7, <2>3, <3>1
  <2> QED
    BY <2>2, <2>3
<1> QED
  BY <1>7, <1>8, <1>9, <1>10 DEF Registry

(* A request shows its container: under its label, be it its own entry or  *)
(* that of a request it has met.                                           *)
LEMMA AttachKeeps ==
  ASSUME Locals, Registry, NEW r \in Requests, Attach(r)
  PROVE  Registry'
<1> DEFINE k == LabelIs(req[r])
<1>1. /\ Others(r) /\ UNCHANGED <<box, watch>> /\ SameForm(req'[r], req[r])
      /\ req'[r].stage = req[r].stage /\ req'[r].pc = "wait" /\ req[r].pc = "attach"
  BY EntersIsLocal DEF Attach, At
<1>2. /\ Local(r, req[r], box[r], watch[r], erred) /\ Functions
      /\ watch[r] = "none" /\ IsListed(req[r]) /\ box[r][req[r].stage] \in Alive
      /\ req[r].stage \in {1, 2}
  BY <1>1 DEF Locals, Local, LocalTypes, Containers, Functions, ReqT
<1>3. /\ LabelIs(req'[r]) = k /\ HasE(req'[r], watch'[r]) /\ OnShow(req'[r], box'[r], watch'[r])
      /\ HasE(req[r], watch[r]) /\ ~OnShow(req[r], box[r], watch[r])
      /\ box'[r][req'[r].stage] \in Alive
  BY <1>1, <1>2 DEF LabelIs, SameForm, HasE, OnShow, IsListed
<1>4. \A i \in Requests \ {r} :
        /\ req'[i] = req[i] /\ box'[i] = box[i] /\ watch'[i] = watch[i]
        /\ OnShow(req[i], box[i], watch[i]) => HasE(req[i], watch[i])
  BY <1>1, OthersAreQuiet
<1>5. /\ active' = IF k \in DOMAIN active THEN [active EXCEPT ![k].box = <<r, req[r].stage>>]
                   ELSE active
      /\ shared' = shared
  BY <1>2, LabelsAre DEF Attach, Stage
<1>6. \A l \in DOMAIN active : active[l] \in [by: Requests, box: Boxes \cup {None}]
  BY DEF Registry, Entries
<1> DEFINE e == [active[k] EXCEPT !.box = <<r, req[r].stage>>]
<1>7. k \in DOMAIN active =>
        /\ e \in [by: Requests, box: Boxes \cup {None}]
        /\ e.by = active[k].by /\ e.box = <<r, req[r].stage>>
  <2>1. <<r, req[r].stage>> \in Boxes
    BY <1>2 DEF Boxes
  <2> QED
    BY <1>6, <2>1
<1>8. /\ DOMAIN active' = DOMAIN active
      /\ \A l \in DOMAIN active : active'[l] = IF l = k THEN e ELSE active[l]
  <2>1. CASE k \in DOMAIN active
    <3>1. active' = [active EXCEPT ![k] = e]
      BY <1>5, <2>1, Zenon
    <3> HIDE DEF e
    <3> QED
      BY <2>1, <3>1
  <2>2. CASE k \notin DOMAIN active
    BY <1>5, <2>2
  <2> QED
    BY <2>1, <2>2
<1> HIDE DEF k, e
<1>9. Entries'
  <2>1. SUFFICES ASSUME NEW l \in DOMAIN active
                 PROVE  /\ active'[l] \in [by: Requests, box: Boxes \cup {None}]
                        /\ HasE(req'[active'[l].by], watch'[active'[l].by])
                        /\ l = LabelIs(req'[active'[l].by])
                        /\ active'[l].box # None =>
                             \E i \in Requests :
                               /\ active'[l].box = <<i, req'[i].stage>>
                               /\ OnShow(req'[i], box'[i], watch'[i])
                               /\ l = LabelIs(req'[i]) /\ box'[i][req'[i].stage] \in Alive
    BY <1>8 DEF Entries
  <2>2. /\ active[l].by \in Requests /\ HasE(req[active[l].by], watch[active[l].by])
        /\ l = LabelIs(req[active[l].by])
    BY DEF Registry, Entries
  <2>3. active'[l].by = active[l].by /\ active'[l] \in [by: Requests, box: Boxes \cup {None}]
    BY <1>6, <1>7, <1>8
  <2>4. HasE(req'[active[l].by], watch'[active[l].by]) /\ l = LabelIs(req'[active[l].by])
    BY <1>3, <1>4, <2>2 DEF k
  <2>5. ASSUME active'[l].box # None
        PROVE  \E i \in Requests :
                 /\ active'[l].box = <<i, req'[i].stage>>
                 /\ OnShow(req'[i], box'[i], watch'[i])
                 /\ l = LabelIs(req'[i]) /\ box'[i][req'[i].stage] \in Alive
    <3>1. CASE l = k
      <4>1. active'[l].box = <<r, req'[r].stage>>
        BY <1>1, <1>7, <1>8, <3>1
      <4> QED
        BY <1>3, <3>1, <4>1
    <3>2. CASE l # k
      <4>1. PICK i \in Requests :
              /\ active[l].box = <<i, req[i].stage>> /\ OnShow(req[i], box[i], watch[i])
              /\ l = LabelIs(req[i]) /\ box[i][req[i].stage] \in Alive
        BY <1>8, <2>5, <3>2 DEF Registry, Entries
      <4>2. i # r
        BY <1>3, <4>1
      <4> QED
        BY <1>4, <1>8, <3>2, <4>1, <4>2
    <3> QED
      BY <3>1, <3>2
  <2> QED
    BY <2>3, <2>4, <2>5
<1>10. Listing'
  <2>1. SUFFICES ASSUME NEW i \in Requests, HasE(req'[i], watch'[i]), i \notin shared'
                 PROVE  /\ LabelIs(req'[i]) \in DOMAIN active'
                        /\ active'[LabelIs(req'[i])].by = i
                        /\ OnShow(req'[i], box'[i], watch'[i]) =>
                             active'[LabelIs(req'[i])].box = <<i, req'[i].stage>>
    BY DEF Listing
  <2>2. CASE i = r
    <3>1. k \in DOMAIN active /\ active[k].by = r
      BY <1>3, <1>5, <2>1, <2>2 DEF Registry, Listing, k
    <3> QED
      BY <1>1, <1>3, <1>7, <1>8, <2>2, <3>1
  <2>3. CASE i # r
    <3>1. /\ req'[i] = req[i] /\ box'[i] = box[i] /\ watch'[i] = watch[i]
          /\ HasE(req[i], watch[i]) /\ i \notin shared
      BY <1>4, <1>5, <2>1, <2>3
    <3>2. LabelIs(req[i]) # k
      BY <1>3, <2>3, <3>1 DEF Registry, Met, k
    <3> QED
      BY <1>8, <3>1, <3>2 DEF Registry, Listing
  <2> QED
    BY <2>2, <2>3
<1>11. Met'
  <2>1. \A i \in Requests : /\ HasE(req'[i], watch'[i]) <=> HasE(req[i], watch[i])
                            /\ LabelIs(req'[i]) = LabelIs(req[i])
    BY <1>3, <1>4 DEF k
  <2> QED
    BY <1>5, <2>1 DEF Registry, Met
<1> QED
  BY <1>5, <1>9, <1>10, <1>11 DEF Registry

(* An entry goes: no other is left that is the request's, or shows it. *)
LEMMA RemovalKeeps ==
  ASSUME Locals, Registry, NEW r \in Requests, Removal(r)
  PROVE  Registry'
<1> DEFINE k == LabelIs(req[r])
<1>1. /\ Others(r) /\ shared' = shared
      /\ ~HasE(req'[r], watch'[r]) /\ ~OnShow(req'[r], box'[r], watch'[r])
      /\ IF HasE(req[r], watch[r]) THEN active' = Without(k) ELSE active' = active
  BY RemovalIsLocal, LabelsAre DEF Locals
<1>2. \A i \in Requests \ {r} :
        /\ req'[i] = req[i] /\ box'[i] = box[i] /\ watch'[i] = watch[i]
        /\ OnShow(req[i], box[i], watch[i]) => HasE(req[i], watch[i])
  BY <1>1, OthersAreQuiet
<1>3. OnShow(req[r], box[r], watch[r]) => HasE(req[r], watch[r])
  BY DEF OnShow, HasE
<1> HIDE DEF k
<1>4. /\ \A l \in DOMAIN active' : l \in DOMAIN active /\ active'[l] = active[l]
      /\ \A l \in DOMAIN active : l # k => l \in DOMAIN active'
      /\ HasE(req[r], watch[r]) => k \notin DOMAIN active'
  BY <1>1 DEF Without
<1>5. Entries'
  <2>1. SUFFICES ASSUME NEW l \in DOMAIN active'
                 PROVE  /\ active[l] \in [by: Requests, box: Boxes \cup {None}]
                        /\ HasE(req'[active[l].by], watch'[active[l].by])
                        /\ l = LabelIs(req'[active[l].by])
                        /\ active[l].box # None =>
                             \E i \in Requests :
                               /\ active[l].box = <<i, req'[i].stage>>
                               /\ OnShow(req'[i], box'[i], watch'[i])
                               /\ l = LabelIs(req'[i]) /\ box'[i][req'[i].stage] \in Alive
    BY <1>4 DEF Entries
  <2>2. /\ l \in DOMAIN active /\ active[l] \in [by: Requests, box: Boxes \cup {None}]
        /\ active[l].by \in Requests
        /\ HasE(req[active[l].by], watch[active[l].by]) /\ l = LabelIs(req[active[l].by])
    BY <1>4 DEF Registry, Entries
  <2>3. active[l].by # r
    BY <1>4, <2>1, <2>2 DEF k
  <2>4. ASSUME active[l].box # None
        PROVE  \E i \in Requests :
                 /\ active[l].box = <<i, req'[i].stage>>
                 /\ OnShow(req'[i], box'[i], watch'[i])
                 /\ l = LabelIs(req'[i]) /\ box'[i][req'[i].stage] \in Alive
    <3>1. PICK i \in Requests :
            /\ active[l].box = <<i, req[i].stage>> /\ OnShow(req[i], box[i], watch[i])
            /\ l = LabelIs(req[i]) /\ box[i][req[i].stage] \in Alive
      BY <2>2, <2>4 DEF Registry, Entries
    <3>2. i # r
      BY <1>3, <1>4, <2>1, <3>1 DEF k
    <3> QED
      BY <1>2, <3>1, <3>2
  <2> QED
    BY <1>2, <2>2, <2>3, <2>4
<1>6. Listing'
  <2>1. SUFFICES ASSUME NEW i \in Requests, HasE(req'[i], watch'[i]), i \notin shared'
                 PROVE  /\ LabelIs(req'[i]) \in DOMAIN active'
                        /\ active'[LabelIs(req'[i])].by = i
                        /\ OnShow(req'[i], box'[i], watch'[i]) =>
                             active'[LabelIs(req'[i])].box = <<i, req'[i].stage>>
    BY DEF Listing
  <2>2. /\ i # r /\ req'[i] = req[i] /\ box'[i] = box[i] /\ watch'[i] = watch[i]
        /\ HasE(req[i], watch[i]) /\ i \notin shared
    BY <1>1, <1>2, <2>1
  <2>3. LabelIs(req[i]) \in DOMAIN active'
    <3>1. LabelIs(req[i]) \in DOMAIN active
      BY <2>2 DEF Registry, Listing
    <3>2. HasE(req[r], watch[r]) => LabelIs(req[i]) # k
      BY <2>2 DEF Registry, Met, k
    <3> QED
      BY <1>1, <1>4, <3>1, <3>2
  <2> QED
    BY <1>4, <2>2, <2>3 DEF Registry, Listing
<1>7. Met'
  BY <1>1, <1>2 DEF Registry, Met
<1> QED
  BY <1>1, <1>5, <1>6, <1>7 DEF Registry

LEMMA PostIsQuiet ==
  ASSUME Locals, NEW r \in Requests, Post(r)
  PROVE  RegistryQuiet(r) /\ UNCHANGED <<registryVars, fileVars, gold, box, watch>>
<1>1. /\ req'[r].pc = (IF IsListed(req'[r]) THEN "enter" ELSE "work")
      /\ Local(r, req[r], box[r], watch[r], erred)
  BY PostIsLocal DEF Locals
<1>2. UNCHANGED <<registryVars, fileVars, gold, box, watch>> /\ req[r].pc = "idle"
  BY DEF Post, At
<1>3. watch[r] = "none" /\ watch'[r] = "none"
  BY <1>1, <1>2 DEF Local, LocalTypes
<1>4. ~HasE(req[r], watch[r]) /\ ~OnShow(req[r], box[r], watch[r])
  BY <1>2, <1>3 DEF HasE, OnShow
<1>5. ~HasE(req'[r], watch'[r]) /\ ~OnShow(req'[r], box'[r], watch'[r])
  BY <1>1, <1>3 DEF HasE, OnShow
<1> QED
  BY <1>2, <1>4, <1>5 DEF RegistryQuiet

-----------------------------------------------------------------------------
(* The files and the tables, and every step of the system. *)
FileTypes ==
  /\ model \in [Tables -> Requests \cup {None}]
  /\ sources \subseteq Requests /\ copy \in [Requests -> SUBSET Requests]
  /\ silver \in [Tables -> Requests \cup {Old}]
  /\ gold \in [Requests -> Requests \cup {None, Old}]
  /\ raced \subseteq Requests /\ srcRaced \in BOOLEAN

Quiet(r) == Post(r) \/ ContainerStep(r) \/ BoxExits(r) \/ StageEnds(r) \/ WatcherClear(r)

LEMMA StepsAre ==
  ASSUME NEW r \in Requests,
         \/ Post(r) \/ RequestStep(r) \/ WatcherStep(r)
         \/ GoldReads(r) \/ SilverBuilds(r) \/ BoxExits(r)
  PROVE  \/ Quiet(r) \/ Register(r) \/ Attach(r) \/ DbtStep(r) \/ Removal(r) \/ GoldReads(r)
         \/ SilverBuilds(r)
  BY Zenon DEF RequestStep, WatcherStep, Quiet, ContainerStep, StageEnds, DbtStep, Removal

(* dbt in the container of /run-silver: only the rows of its table change.  *)
LEMMA SilverIsLocal ==
  ASSUME Functions, NEW r \in Requests, SilverBuilds(r)
  PROVE  /\ req' \in [Requests -> ReqT] /\ \A i \in Requests \ {r} : req'[i] = req[i]
         /\ SameForm(req'[r], req[r]) /\ req'[r].pc = req[r].pc
         /\ req'[r].stage = req[r].stage /\ req'[r].out = req[r].out /\ req'[r].seen = r
         /\ req[r].kind = "run_silver" /\ req[r].table \in Tables
         /\ UNCHANGED <<box, watch, erred, gold, registryVars, model, sources, copy, srcRaced>>
<1> DEFINE q == [req[r] EXCEPT !.seen = r]
<1>1. req' = [req EXCEPT ![r] = q]
  BY Zenon DEF SilverBuilds
<1>2. req[r] \in ReqT
  BY DEF Functions
<1>3. q \in ReqT
  BY <1>2 DEF ReqT
<1>4. /\ SameForm(q, req[r]) /\ q.pc = req[r].pc /\ q.stage = req[r].stage
      /\ q.out = req[r].out /\ q.seen = r
  BY <1>2, Zenon DEF ReqT, SameForm
<1> HIDE DEF q
<1>5. req' \in [Requests -> ReqT] /\ req'[r] = q /\ \A i \in Requests \ {r} : req'[i] = req[i]
  BY <1>1, <1>3 DEF Functions
<1>6. /\ req[r].kind = "run_silver" /\ req[r].table \in Tables
      /\ UNCHANGED <<box, watch, erred, gold, registryVars, model, sources, copy, srcRaced>>
  BY <1>2 DEF SilverBuilds, Kind, registryVars, ReqT
<1> QED
  BY <1>4, <1>5, <1>6, Zenon

LEMMA SilverKeepsLocals ==
  ASSUME Locals, NEW r \in Requests, SilverBuilds(r)
  PROVE  Functions' /\ Others(r) /\ Local(r, req'[r], box'[r], watch'[r], erred')
         /\ RegistryQuiet(r)
<1>1. /\ Functions /\ Local(r, req[r], box[r], watch[r], erred)
      /\ OnShow(req[r], box[r], watch[r]) => box[r][req[r].stage] \in Alive
  BY DEF Locals, Local, LocalTypes, Containers, OnShow
<1>2. /\ req' \in [Requests -> ReqT] /\ \A i \in Requests \ {r} : req'[i] = req[i]
      /\ SameForm(req'[r], req[r]) /\ req'[r].pc = req[r].pc
      /\ req'[r].stage = req[r].stage /\ req'[r].out = req[r].out
      /\ UNCHANGED <<box, watch, erred>>
  BY <1>1, SilverIsLocal
<1>3. Functions' /\ Others(r)
  BY <1>1, <1>2 DEF Functions, Others
<1>4. Local(r, req'[r], box'[r], watch'[r], erred')
  BY <1>1, <1>2 DEF Local, LocalTypes, Containers, KillsAreDue, Tidy, Keeps, IsListed, IsDbt, SameForm
<1>5. RegistryQuiet(r)
  BY <1>1, <1>2 DEF RegistryQuiet, HasE, OnShow, LabelIs, IsListed, SameForm
<1> QED
  BY <1>3, <1>4, <1>5

LEMMA QuietIsLocal ==
  ASSUME Locals, NEW r \in Requests, Quiet(r)
  PROVE  /\ Functions' /\ Others(r) /\ Local(r, req'[r], box'[r], watch'[r], erred')
         /\ UNCHANGED <<registryVars, fileVars, gold>> /\ RegistryQuiet(r)
<1>1. CASE Post(r)
  BY <1>1, PostIsLocal, PostIsQuiet
<1>2. CASE ContainerStep(r)
  BY <1>2, ContainerIsLocal
<1>3. CASE BoxExits(r)
  BY <1>3, ExitIsLocal
<1>4. CASE StageEnds(r)
  BY <1>4, EndIsLocal
<1>5. CASE WatcherClear(r)
  BY <1>5, WatcherClearIsLocal
<1> QED
  BY <1>1, <1>2, <1>3, <1>4, <1>5 DEF Quiet

LEMMA LocalIsEnough ==
  ASSUME Locals, NEW r \in Requests,
         Functions', Others(r), Local(r, req'[r], box'[r], watch'[r], erred')
  PROVE  Locals'
<1>1. ASSUME NEW i \in Requests \ {r}
      PROVE  Local(i, req'[i], box'[i], watch'[i], erred')
  <2>1. /\ req'[i] = req[i] /\ box'[i] = box[i] /\ watch'[i] = watch[i]
        /\ \A c : <<i, c>> \in erred' <=> <<i, c>> \in erred
    BY DEF Others
  <2>2. Local(i, req[i], box[i], watch[i], erred)
    BY DEF Locals
  <2> QED
    BY <2>1, <2>2 DEF Local, KillsAreDue, Tidy
<1> QED
  BY <1>1 DEF Locals

LEMMA LocalsKept ==
  ASSUME Locals, FileTypes, NEW r \in Requests,
         \/ Post(r) \/ RequestStep(r) \/ WatcherStep(r)
         \/ GoldReads(r) \/ SilverBuilds(r) \/ BoxExits(r)
  PROVE  Locals'
<1>1. CASE Quiet(r)
  BY <1>1, QuietIsLocal, LocalIsEnough
<1>2. CASE Register(r) \/ Attach(r)
  BY <1>2, EntersIsLocal, LocalIsEnough
<1>3. CASE DbtStep(r)
  BY <1>3, DbtIsLocal, LocalIsEnough DEF FileTypes
<1>4. CASE Removal(r)
  BY <1>4, RemovalIsLocal, LocalIsEnough
<1>5. CASE GoldReads(r)
  BY <1>5 DEF GoldReads, Locals, Functions, Local, LocalTypes, Containers, KillsAreDue, Tidy
<1>6. CASE SilverBuilds(r)
  BY <1>6, SilverKeepsLocals, LocalIsEnough
<1> QED
  BY <1>1, <1>2, <1>3, <1>4, <1>5, <1>6, StepsAre

LEMMA RegistryKept ==
  ASSUME Locals, FileTypes, Registry, NEW r \in Requests,
         \/ Post(r) \/ RequestStep(r) \/ WatcherStep(r)
         \/ GoldReads(r) \/ SilverBuilds(r) \/ BoxExits(r)
  PROVE  Registry'
<1>1. CASE Quiet(r) \/ DbtStep(r) \/ SilverBuilds(r)
  <2>1. Others(r) /\ UNCHANGED registryVars /\ RegistryQuiet(r)
    <3>1. CASE Quiet(r) \/ DbtStep(r)
      BY <3>1, QuietIsLocal, DbtIsLocal, DbtIsQuiet DEF FileTypes
    <3>2. CASE SilverBuilds(r)
      BY <3>2, SilverKeepsLocals, SilverIsLocal DEF Locals
    <3> QED
      BY <1>1, <3>1, <3>2
  <2>2. \A i \in Requests : RegistryQuiet(i)
    BY <2>1, OthersAreQuiet
  <2> QED
    BY <2>1, <2>2, QuietKeepsRegistry
<1>2. CASE GoldReads(r)
  BY <1>2 DEF GoldReads, registryVars, Registry, Entries, Listing, Met
<1> QED
  BY <1>1, <1>2, StepsAre, RegisterKeeps, AttachKeeps, RemovalKeeps

LEMMA FileTypesKept ==
  ASSUME Locals, FileTypes, NEW r \in Requests,
         \/ Post(r) \/ RequestStep(r) \/ WatcherStep(r)
         \/ GoldReads(r) \/ SilverBuilds(r) \/ BoxExits(r)
  PROVE  FileTypes'
<1>1. req[r] \in ReqT /\ req[r].table \in Tables /\ req[r].seen \in Requests \cup {None}
  BY DEF Locals, Functions, ReqT
<1>2. CASE UNCHANGED <<fileVars, gold>>
  BY <1>2 DEF fileVars, FileTypes
<1>3. CASE Quiet(r) \/ Register(r) \/ Attach(r) \/ Removal(r)
  <2>1. Register(r) \/ Attach(r) => UNCHANGED <<fileVars, gold>>
    BY DEF Register, Attach
  <2> QED
    BY <1>2, <1>3, <2>1, QuietIsLocal, RemovalIsLocal
<1>4. CASE GoldReads(r)
  BY <1>1, <1>4 DEF GoldReads, FileTypes, fileVars
<1>5. CASE DbtRefuse(r) \/ DbtReads(r) \/ DbtFails(r)
  BY <1>2, <1>5 DEF DbtRefuse, DbtReads, DbtFails
<1>6. CASE OpenModel(r)
  <2>1. Racing(r) \subseteq Requests
    BY DEF Racing
  <2> QED
    BY <1>1, <1>6, <2>1 DEF OpenModel, FileTypes
<1>7. CASE WriteModel(r)
  BY <1>1, <1>7 DEF WriteModel, FileTypes
<1>8. CASE ReadSources(r)
  BY <1>1, <1>8 DEF ReadSources, Extended, FileTypes
<1>9. CASE OpenSources(r) \/ WriteSources(r)
  BY <1>1, <1>9 DEF OpenSources, WriteSources, FileTypes
<1>10. CASE DbtCommits(r)
  BY <1>1, <1>10 DEF DbtCommits, FileTypes
<1>11. CASE SilverBuilds(r)
  <2>1. Counting(r) \subseteq Requests
    BY DEF Counting, Racing
  <2> QED
    BY <1>1, <1>11, <2>1 DEF SilverBuilds, FileTypes
<1> QED
  BY <1>3, <1>4, <1>5, <1>6, <1>7, <1>8, <1>9, <1>10, <1>11, StepsAre DEF DbtStep

-----------------------------------------------------------------------------
(* The inductive invariant. *)
IInv == Locals /\ Registry /\ FileTypes

LEMMA InitIsGood ==
  ASSUME Init
  PROVE  IInv
<1>1. /\ (CHOOSE j \in Jobs : TRUE) \in Jobs /\ (CHOOSE t \in Tables : TRUE) \in Tables
      /\ "run" \in Kinds /\ "idle" \in PCs
  BY FormsAssumption, StagesAre, Zenon DEF PCs
<1>2. Idle \in ReqT
  BY <1>1, Zenon DEF Idle, ReqT
<1>3. /\ Idle.kind = "run" /\ Idle.stage = 1 /\ Idle.pc = "idle"
  BY DEF Idle
<1> DEFINE b == [i \in {1, 2} |-> "none"]
<1>4. b \in BoxT /\ b[1] = "none" /\ b[2] = "none"
  BY DEF BoxT, BoxStates
<1>5. req = [r \in Requests |-> Idle] /\ box = [r \in Requests |-> b]
      /\ watch = [r \in Requests |-> "none"] /\ erred = {}
  BY DEF Init
<1> HIDE DEF b
<1>6. Functions
  BY <1>2, <1>4, <1>5 DEF Functions
<1>7. ASSUME NEW r \in Requests
      PROVE  Local(r, Idle, b, "none", {})
  BY <1>2, <1>3, <1>4 DEF Local, LocalTypes, Containers, KillsAreDue, Tidy, Keeps, DbtPCs, Over
<1>8. Locals
  <2>1. \A r \in Requests : req[r] = Idle /\ box[r] = b /\ watch[r] = "none"
    BY <1>5
  <2> QED
    BY <1>5, <1>6, <1>7, <2>1 DEF Locals
<1>9. Registry
  <2>1. \A r \in Requests : ~HasE(req[r], watch[r])
    BY <1>3, <1>5 DEF HasE
  <2>2. DOMAIN active = {}
    BY DEF Init
  <2> QED
    BY <2>1, <2>2 DEF Init, Registry, Entries, Listing, Met
<1>10. FileTypes
  BY DEF Init, FileTypes
<1> QED
  BY <1>8, <1>9, <1>10 DEF IInv

LEMMA StepIsGood ==
  ASSUME IInv, [Next]_vars
  PROVE  IInv'
<1>1. CASE UNCHANGED vars
  BY <1>1 DEF vars, IInv, Locals, Functions, Local, LocalTypes, Containers, KillsAreDue, Tidy,
     Registry, Entries, Listing, Met, FileTypes
<1>2. CASE Next
  <2>1. PICK r \in Requests :
          \/ Post(r) \/ RequestStep(r) \/ WatcherStep(r)
          \/ GoldReads(r) \/ SilverBuilds(r) \/ BoxExits(r)
    BY <1>2 DEF Next
  <2> QED
    BY <2>1, LocalsKept, RegistryKept, FileTypesKept DEF IInv
<1> QED
  BY <1>1, <1>2

(* The inductive invariant holds in every behaviour. *)
THEOREM Invariance == Spec => []IInv
<1>1. Init => IInv
  BY InitIsGood
<1>2. IInv /\ [Next]_vars => IInv'
  BY StepIsGood
<1> QED
  BY <1>1, <1>2, PTL DEF Spec


(* TypeOK: every variable keeps its range, and a request that attaches to or *)
(* waits for a container has one.                                          *)
THEOREM TypeCorrect == Spec => []TypeOK
<1>1. ASSUME IInv
      PROVE  TypeOK
  <2>1. Functions /\ FileTypes /\ Registry
    BY <1>1 DEF IInv, Locals
  <2>2. ASSUME NEW l \in DOMAIN active
        PROVE  l \in Jobs \X Types /\ active[l] \in [by: Requests, box: Boxes \cup {None}]
    <3>1. active[l] \in [by: Requests, box: Boxes \cup {None}] /\ l = LabelIs(req[active[l].by])
      BY <2>1 DEF Registry, Entries
    <3>2. PICK r \in Requests : r = active[l].by
      BY <3>1
    <3>3. req[r] \in ReqT /\ LocalTypes(req[r], box[r], watch[r])
      BY <1>1 DEF IInv, Locals, Local, LocalTypes
    <3>4. /\ req[r].kind \in Kinds /\ req[r].job \in Jobs
          /\ req[r].stage \in 1..Len(Stages[req[r].kind])
      BY <3>3, StagesAre DEF ReqT, LocalTypes
    <3>5. DOMAIN Stages[req[r].kind] = 1..Len(Stages[req[r].kind])
      BY <3>4, StagesAre DEF Stages
    <3>6. Stages[req[r].kind][req[r].stage] \in Types
      BY <3>4, <3>5 DEF Types
    <3> QED
      BY <3>1, <3>2, <3>4, <3>6 DEF LabelIs
  <2>3. ASSUME NEW r \in Requests
        PROVE  /\ Stage(r) <= Len(Stages[Kind(r)])
               /\ At(r, "attach") \/ At(r, "wait") => BoxOf(r) \in {"running", "exit0", "exit1"}
    <3>1. req[r] \in ReqT /\ LocalTypes(req[r], box[r], watch[r])
      BY <1>1 DEF IInv, Locals, Local, LocalTypes
    <3>2. /\ req[r].stage <= Len(Stages[req[r].kind])
          /\ req[r].pc \in {"attach", "wait"} => box[r][req[r].stage] \in Alive
      BY <3>1, StagesAre DEF ReqT, LocalTypes
    <3> QED
      BY <3>2 DEF Stage, Kind, At, BoxOf, Alive
  <2> QED
    BY <2>1, <2>2, <2>3 DEF TypeOK, Functions, FileTypes, Registry, ReqT, BoxT, Calls
<1> QED
  BY <1>1, Invariance, PTL

(* EntryHasItsRun: behind every entry of the list of active jobs stands a   *)
(* stage of its label, and the container it shows works for that label.    *)
THEOREM NoGhosts == Spec => []EntryHasItsRun
<1>1. ASSUME IInv
      PROVE  EntryHasItsRun
  <2>1. SUFFICES ASSUME NEW l \in DOMAIN active
                 PROVE  /\ HasEntry(active[l].by) /\ l = Label(active[l].by)
                        /\ active[l].box # None =>
                             /\ l = <<req[active[l].box[1]].job,
                                      Stages[Kind(active[l].box[1])][active[l].box[2]]>>
                             /\ box[active[l].box[1]][active[l].box[2]] \in Alive
    BY DEF EntryHasItsRun, LogsOf, Alive
  <2>2. /\ active[l].by \in Requests /\ l = LabelIs(req[active[l].by])
        /\ HasE(req[active[l].by], watch[active[l].by])
    BY <1>1 DEF IInv, Registry, Entries
  <2>3. HasEntry(active[l].by) /\ l = Label(active[l].by)
    BY <2>2 DEF HasEntry, HasE, Listed, IsListed, Kind, At, Label, LabelIs, TypeOf, Stage
  <2>4. ASSUME active[l].box # None
        PROVE  /\ l = <<req[active[l].box[1]].job,
                        Stages[Kind(active[l].box[1])][active[l].box[2]]>>
               /\ box[active[l].box[1]][active[l].box[2]] \in Alive
    <3>1. PICK r \in Requests :
            /\ active[l].box = <<r, req[r].stage>>
            /\ l = LabelIs(req[r]) /\ box[r][req[r].stage] \in Alive
      BY <1>1, <2>4 DEF IInv, Registry, Entries
    <3>2. active[l].box[1] = r /\ active[l].box[2] = req[r].stage
      BY <3>1
    <3> QED
      BY <3>1, <3>2 DEF LabelIs, Kind
  <2> QED
    BY <2>3, <2>4
<1> QED
  BY <1>1, Invariance, PTL

(* RunIsListed: a stage that no other one of its job and type has met finds *)
(* its own entry and its own container on the list.                        *)
THEOREM RunsAreListed == Spec => []RunIsListed
<1>1. ASSUME IInv
      PROVE  RunIsListed
  <2>1. SUFFICES ASSUME NEW r \in Requests, HasEntry(r), r \notin shared
                 PROVE  /\ Label(r) \in DOMAIN active
                        /\ active[Label(r)].by = r
                        /\ At(r, "wait") \/ watch[r] = "wait" =>
                             active[Label(r)].box = <<r, Stage(r)>>
    BY DEF RunIsListed
  <2>2. HasE(req[r], watch[r]) /\ Label(r) = LabelIs(req[r])
    BY <2>1 DEF HasEntry, HasE, Listed, IsListed, Kind, At, Label, LabelIs, TypeOf, Stage
  <2>3. At(r, "wait") \/ watch[r] = "wait" => OnShow(req[r], box[r], watch[r])
    BY <2>2 DEF At, HasE, OnShow
  <2> QED
    BY <1>1, <2>1, <2>2, <2>3 DEF IInv, Registry, Listing, Stage
<1> QED
  BY <1>1, Invariance, PTL

(* NothingLeft: a request that is over leaves no container, unless the call *)
(* that starts or the one that removes a container has raised.             *)
THEOREM ContainersAreGone == Spec => []NothingLeft
<1>1. ASSUME IInv
      PROVE  NothingLeft
  <2>1. ASSUME NEW r \in Requests, req[r].pc = "done", watch[r] = "none",
               <<r, "run">> \notin erred, <<r, "remove">> \notin erred
        PROVE  box[r][1] \in Over /\ box[r][2] \in Over
    <3>1. /\ req[r].stage \in {1, 2} /\ Containers(req[r], box[r], watch[r])
          /\ Tidy(r, req[r], box[r], watch[r], erred)
      BY <1>1 DEF IInv, Locals, Functions, ReqT, Local
    <3> QED
      BY <2>1, <3>1 DEF Containers, Tidy, Over
  <2> QED
    BY <2>1 DEF NothingLeft, At, Over
<1> QED
  BY <1>1, Invariance, PTL

(* NoKilledRun: only its own request, or the watcher of its container, ends *)
(* a running container, and only after a call that follows it has raised.  *)
THEOREM RunsAreNotKilled == Spec => NoKilledRun
<1> DEFINE Kept(r, i) ==
      box[r][i] = "running" /\ box'[r][i] = "gone" =>
        IF Kind(r) = "run" /\ i = 2 THEN <<r, "reload">> \in erred
                                    ELSE <<r, "wait">> \in erred
<1>1. ASSUME IInv, [Next]_vars, NEW r \in Requests, NEW i \in {1, 2}
      PROVE  Kept(r, i)
  <2>1. /\ Functions /\ req[r].stage \in {1, 2}
        /\ KillsAreDue(r, req[r], box[r], watch[r], erred)
        /\ Containers(req[r], box[r], watch[r])
    BY <1>1 DEF IInv, Locals, Local, Functions, ReqT
  <2>2. CASE UNCHANGED box
    BY <2>2
  <2>3. ASSUME NEW s \in Requests, NEW st \in BoxStates, SetBox(s, st), st # "gone" \/ s # r
        PROVE  Kept(r, i)
    BY <2>1, <2>3, BoxIsSet
  <2>4. CASE Clear(r)
    <3>1. CASE SetBox(r, "gone")
      <4>1. \A j \in {1, 2} : j # req[r].stage => box'[r][j] = box[r][j]
        BY <2>1, <3>1, BoxIsSet DEF BoxStates
      <4> QED
        BY <2>1, <2>4, <4>1 DEF Clear, At, Kind, KillsAreDue
    <3> QED
      BY <2>2, <2>4, <3>1 DEF Clear
  <2>5. CASE WatcherClear(r)
    <3>1. /\ watch[r] = "clear" /\ req[r].kind = "run" /\ req[r].stage = 2
      BY <2>1, <2>5 DEF WatcherClear, Containers
    <3>2. CASE SetBox(r, "gone")
      <4>1. box'[r][1] = box[r][1]
        BY <2>1, <3>1, <3>2, BoxIsSet DEF BoxStates
      <4> QED
        BY <2>1, <3>1, <4>1 DEF Kind, KillsAreDue
    <3> QED
      BY <2>2, <2>5, <3>2 DEF WatcherClear
  <2>6. ASSUME NEW s \in Requests,
               \/ Post(s) \/ RequestStep(s) \/ WatcherStep(s)
               \/ GoldReads(s) \/ SilverBuilds(s) \/ BoxExits(s)
        PROVE  Kept(r, i)
    <3>1. CASE Launch(s) \/ LaunchFail(s) \/ BoxExits(s)
      BY <2>2, <2>3, <3>1 DEF Launch, LaunchFail, BoxExits, BoxStates
    <3>2. CASE Clear(s) \/ WatcherClear(s)
      <4>1. CASE s # r
        BY <2>2, <2>3, <3>2, <4>1 DEF Clear, WatcherClear, BoxStates
      <4> QED
        BY <2>4, <2>5, <3>2, <4>1
    <3>3. CASE DbtStep(s)
      BY <2>2, <3>3, DbtIsLocal, <1>1 DEF IInv, FileTypes
    <3>4. CASE Register(s) \/ Attach(s)
      BY <2>2, <3>4 DEF Register, Attach
    <3>5. CASE Removal(s)
      BY <2>2, <3>5 DEF Removal, Unlist, ReloadFail, WatcherUnlist
    <3>6. CASE Post(s) \/ GoldReads(s) \/ SilverBuilds(s)
      BY <2>2, <3>6 DEF Post, GoldReads, SilverBuilds
    <3>7. CASE Waited(s) \/ WaitFail(s) \/ HandOver(s) \/ KeepEntry(s) \/ ClearFail(s)
      BY <2>2, <3>7 DEF Waited, WaitFail, HandOver, KeepEntry, ClearFail
    <3> QED
      BY <2>6, <3>1, <3>2, <3>3, <3>4, <3>5, <3>6, <3>7, StepsAre
         DEF Quiet, ContainerStep, StageEnds
  <2>7. CASE UNCHANGED vars
    BY <2>2, <2>7 DEF vars
  <2> QED
    BY <1>1, <2>6, <2>7 DEF Next
<1>2. IInv /\ [Next]_vars => [\A r \in Requests, i \in {1, 2} : Kept(r, i)]_vars
  BY <1>1
<1> QED
  BY <1>2, Invariance, PTL DEF Spec, NoKilledRun

-----------------------------------------------------------------------------
(* Who may write a table's model or rows, and what a request that nobody    *)
(* raced finds of its own there.                                           *)
Holds(q, b) == q.pc \in DbtPCs \/ Wants(q, b)

Pairs ==
  \A r, s \in Requests :
    /\ r # s /\ req[r].table = req[s].table
    /\ Holds(req[r], box[r]) /\ Holds(req[s], box[s])
    => r \in raced

Owns(r) ==
  /\ req[r].pc \in {"readsrc", "opensrc", "writesrc", "dbt"} => model[req[r].table] = r
  /\ req[r].seen \in {None, r}
  /\ req[r].pc = "commit" => req[r].seen = r
  /\ Wants(req[r], box[r]) => silver[req[r].table] = r
  /\ req[r].kind = "transform_load" => gold[r] \in {None, r}

Owned ==
  /\ Pairs
  /\ \A r \in Requests : req[r].pc = "idle" => gold[r] = None
  /\ \A r \in Requests \ raced : Owns(r)

(* The sources file while no two requests update it at a time. *)
Declared ==
  ~srcRaced =>
    /\ \A r, s \in Requests : Updating(r) /\ Updating(s) => r = s
    /\ \A r \in Requests : req[r].pc = "opensrc" => copy[r] = sources \cup {r}
    /\ \A r \in Requests : req[r].pc = "writesrc" => sources = {}
    /\ \A t \in Tables : model[t] # None =>
         /\ req[model[t]].pc # "idle"
         /\ req[model[t]].refs =>
              \/ model[t] \in sources
              \/ req[model[t]].pc \in {"readsrc", "opensrc"}
              \/ \E u \in Requests : req[u].pc = "writesrc" /\ model[t] \in copy[u]

LEMMA PostSees ==
  ASSUME Locals, NEW r \in Requests, Post(r)
  PROVE  req'[r].seen = None
<1>1. PICK f \in Forms :
        req' = [req EXCEPT ![r] =
          [Idle EXCEPT !.kind = f.kind, !.job = f.job, !.table = f.table, !.refs = f.refs,
             !.pc = Entrance(r, f.kind \notin {"run_bronze", "compile_dbt"})]]
  BY DEF Post
<1> DEFINE q == [Idle EXCEPT !.kind = f.kind, !.job = f.job, !.table = f.table, !.refs = f.refs,
                   !.pc = Entrance(r, f.kind \notin {"run_bronze", "compile_dbt"})]
<1>2. q.seen = None
  BY DEF Idle
<1>3. req' = [req EXCEPT ![r] = q]
  BY <1>1, Zenon
<1> HIDE DEF q
<1> QED
  BY <1>2, <1>3 DEF Locals, Functions

(* What the files notice of a step that does not touch them. *)
Apart(r) ==
  /\ Others(r) /\ UNCHANGED fileVars
  /\ Wants(req'[r], box'[r]) => Wants(req[r], box[r])
  /\ req[r].pc # "idle" => SameForm(req'[r], req[r])
  /\ req'[r].seen \in {None, req[r].seen}
  /\ req'[r].pc \notin DbtPCs /\ req'[r].pc # "idle"
  /\ req[r].pc \notin {"readsrc", "opensrc", "writesrc"}

LEMMA ApartSteps ==
  ASSUME Locals, FileTypes, NEW r \in Requests,
         Quiet(r) \/ Register(r) \/ Attach(r) \/ Removal(r) \/ DbtRefuse(r) \/ DbtFails(r)
  PROVE  Apart(r) /\ gold' = gold
<1>1. CASE Post(r)
  <2>1. Others(r) /\ UNCHANGED <<fileVars, gold>> /\ req[r].pc = "idle"
    BY <1>1, PostIsLocal, PostIsQuiet DEF Post, At
  <2>2. /\ req'[r].pc = (IF IsListed(req'[r]) THEN "enter" ELSE "work") /\ req'[r].stage = 1
        /\ req'[r].seen = None
    BY <1>1, PostIsLocal, PostSees
  <2>3. req'[r].pc \in {"enter", "work"}
    BY <2>2
  <2>4. ~Wants(req'[r], box'[r])
    BY <2>2, <2>3 DEF Wants
  <2> QED
    BY <2>1, <2>2, <2>3, <2>4 DEF Apart, DbtPCs
<1>2. CASE FilesQuiet(r) /\ Others(r) /\ UNCHANGED <<fileVars, gold>>
  BY <1>2 DEF FilesQuiet, Apart, DbtPCs
<1>3. CASE ContainerStep(r)
  BY <1>2, <1>3, ContainerIsLocal
<1>4. CASE BoxExits(r)
  BY <1>2, <1>4, ExitIsLocal
<1>5. CASE StageEnds(r)
  BY <1>2, <1>5, EndIsLocal
<1>6. CASE WatcherClear(r)
  BY <1>2, <1>6, WatcherClearIsLocal
<1>7. CASE Register(r) \/ Attach(r)
  <2>1. UNCHANGED <<fileVars, gold>>
    BY <1>7 DEF Register, Attach
  <2> QED
    BY <1>2, <1>7, <2>1, EntersIsLocal, EntersQuietly
<1>8. CASE Removal(r)
  BY <1>2, <1>8, RemovalIsLocal
<1>9. CASE DbtRefuse(r) \/ DbtFails(r)
  <2>1. /\ Others(r) /\ SameForm(req'[r], req[r]) /\ Leads(r) /\ IsDbt(req[r])
        /\ req'[r].stage = req[r].stage /\ ~DbtReads(r)
    <3>1. ~DbtReads(r)
      <4>1. req'[r].pc = "leave"
        BY <1>9, DbtIsLocal DEF DbtStep, FileTypes, Leads
      <4>2. DbtReads(r) => req'[r].pc = "commit"
        BY DbtIsLocal DEF DbtStep, FileTypes, Leads
      <4> QED
        BY <4>1, <4>2
    <3> QED
      BY <1>9, <3>1, DbtIsLocal DEF DbtStep, FileTypes
  <2>2. UNCHANGED <<fileVars, gold>>
    BY <1>9 DEF DbtRefuse, DbtFails
  <2>3. /\ req[r].pc \in {"work", "dbt", "commit"} /\ req'[r].pc = "leave"
        /\ req'[r].out = "failed" /\ req'[r].seen = req[r].seen
    BY <1>9, <2>1 DEF Leads
  <2>4. req'[r].kind = req[r].kind
    BY <2>1 DEF SameForm
  <2>5. ~Wants(req'[r], box'[r])
    BY <2>1, <2>3, <2>4 DEF Wants, IsDbt
  <2> QED
    BY <2>1, <2>2, <2>3, <2>5 DEF Apart, DbtPCs
<1> QED
  BY <1>1, <1>3, <1>4, <1>5, <1>6, <1>7, <1>8, <1>9 DEF Quiet

LEMMA ApartKeepsOwned ==
  ASSUME Locals, Owned, NEW r \in Requests, Apart(r), gold' = gold
  PROVE  Owned'
<1>1. UNCHANGED <<model, silver, raced, gold>>
  BY DEF Apart, fileVars
<1>2. \A i \in Requests \ {r} : req'[i] = req[i] /\ box'[i] = box[i]
  BY DEF Apart, Others
<1>3. req[r].pc = "idle" => req[r].kind = "run"
  BY DEF Locals, Local, LocalTypes
<1>4. Holds(req'[r], box'[r]) => Wants(req[r], box[r]) /\ req'[r].table = req[r].table
  BY <1>3 DEF Holds, Apart, SameForm, Wants
<1>5. Pairs'
  BY <1>1, <1>2, <1>4 DEF Pairs, Owned, Holds
<1>6. ASSUME NEW i \in Requests \ raced
      PROVE  Owns(i)'
  <2>1. Owns(i) /\ (req[i].pc = "idle" => gold[i] = None)
    BY DEF Owned
  <2>2. CASE i = r
    <3>1. /\ req'[r].pc \notin {"readsrc", "opensrc", "writesrc", "dbt", "commit"}
          /\ req'[r].seen \in {None, r}
      BY <2>1, <2>2 DEF Apart, DbtPCs, Owns
    <3>2. Wants(req'[r], box'[r]) => silver[req'[r].table] = r
      BY <1>4, <2>1, <2>2 DEF Holds, Owns
    <3>3. req'[r].kind = "transform_load" => gold[r] \in {None, r}
      BY <2>1, <2>2 DEF Apart, SameForm, Owns
    <3> QED
      BY <1>1, <2>2, <3>1, <3>2, <3>3 DEF Owns
  <2>3. CASE i # r
    BY <1>1, <1>2, <2>1, <2>3 DEF Owns
  <2> QED
    BY <2>2, <2>3
<1>7. \A i \in Requests : req'[i].pc = "idle" => gold'[i] = None
  BY <1>1, <1>2 DEF Apart, Owned
<1> QED
  BY <1>1, <1>5, <1>6, <1>7 DEF Owned

LEMMA ApartKeepsDeclared ==
  ASSUME Locals, FileTypes, Declared, NEW r \in Requests, Apart(r)
  PROVE  Declared'
<1>1. UNCHANGED <<model, sources, copy, srcRaced>>
  BY DEF Apart, fileVars
<1>2. \A i \in Requests \ {r} : req'[i] = req[i]
  BY DEF Apart, Others
<1>3. /\ req'[r].pc \notin {"readsrc", "opensrc", "writesrc", "idle"}
      /\ req[r].pc \notin {"readsrc", "opensrc", "writesrc"}
      /\ req[r].pc # "idle" => req'[r].refs = req[r].refs
  BY DEF Apart, DbtPCs, SameForm
<1>4. SUFFICES ASSUME ~srcRaced
               PROVE  Declared'
  BY <1>1 DEF Declared
<1>5. \A i \in Requests : /\ Updating(i)' <=> Updating(i)
                          /\ req'[i].pc = "opensrc" <=> req[i].pc = "opensrc"
                          /\ req'[i].pc = "readsrc" <=> req[i].pc = "readsrc"
                          /\ req'[i].pc = "writesrc" <=> req[i].pc = "writesrc"
  BY <1>2, <1>3 DEF Updating, At
<1>6. ASSUME NEW t \in Tables, model[t] # None
      PROVE  /\ req'[model[t]].pc # "idle"
             /\ req'[model[t]].refs =>
                  \/ model[t] \in sources
                  \/ req'[model[t]].pc \in {"readsrc", "opensrc"}
                  \/ \E u \in Requests : req'[u].pc = "writesrc" /\ model[t] \in copy[u]
  <2>1. model[t] \in Requests
    BY <1>6 DEF FileTypes
  <2>2. /\ req[model[t]].pc # "idle"
        /\ req[model[t]].refs =>
             \/ model[t] \in sources
             \/ req[model[t]].pc \in {"readsrc", "opensrc"}
             \/ \E u \in Requests : req[u].pc = "writesrc" /\ model[t] \in copy[u]
    BY <1>4, <1>6 DEF Declared
  <2>3. req'[model[t]].pc # "idle" /\ req'[model[t]].refs = req[model[t]].refs
    BY <1>2, <1>3, <2>1, <2>2
  <2> QED
    BY <1>5, <2>1, <2>2, <2>3
<1> QED
  BY <1>1, <1>4, <1>5, <1>6 DEF Declared


(* The steps of dbt that touch the files or the tables. *)
Touches(r) ==
  \/ OpenModel(r) \/ WriteModel(r) \/ ReadSources(r) \/ OpenSources(r) \/ WriteSources(r)
  \/ DbtReads(r) \/ DbtCommits(r)

LEMMA TouchesAre ==
  ASSUME Locals, FileTypes, NEW r \in Requests, Touches(r)
  PROVE  /\ \A i \in Requests \ {r} : req'[i] = req[i] /\ box'[i] = box[i]
         /\ UNCHANGED <<box, gold>> /\ SameForm(req'[r], req[r])
         /\ req'[r].stage = req[r].stage /\ IsDbt(req[r])
         /\ req'[r].pc \in DbtPCs \cup {"leave"} /\ Leads(r)
         /\ req[r].table \in Tables /\ req[r].pc \in DbtPCs \cup {"work"}
         /\ ModelFile(r) = req[r].table
<1>1. DbtStep(r) /\ UNCHANGED <<box, gold>>
  BY DEF Touches, DbtStep, OpenModel, WriteModel, ReadSources, OpenSources, WriteSources,
         DbtReads, DbtCommits
<1>2. /\ Others(r) /\ SameForm(req'[r], req[r])
      /\ req'[r].stage = req[r].stage /\ IsDbt(req[r])
      /\ req'[r].pc \in DbtPCs \cup {"leave"} /\ Leads(r)
  BY <1>1, DbtIsLocal DEF FileTypes
<1>3. req[r].table \in Tables
  BY DEF Locals, Functions, ReqT
<1>4. req[r].pc \in DbtPCs \cup {"work"}
  BY <1>2 DEF Touches, Leads, DbtPCs
<1> QED
  BY <1>1, <1>2, <1>3, <1>4 DEF Others, ModelFile

(* Whoever depends on a table's model is met by the next one that writes it. *)
LEMMA RacingIs ==
  ASSUME Locals, NEW r \in Requests
  PROVE  /\ Racing(r) \subseteq Requests
         /\ \A s \in Requests \ {r} :
              Holds(req[s], box[s]) /\ req[s].table = req[r].table => s \in Racing(r)
<1>1. Racing(r) \subseteq Requests
  BY DEF Racing
<1>2. ASSUME NEW s \in Requests \ {r}, Holds(req[s], box[s]), req[s].table = req[r].table
      PROVE  s \in Racing(r)
  <2>1. LocalTypes(req[s], box[s], watch[s])
    BY DEF Locals, Local
  <2>2. req[s].kind \in DbtKinds /\ DependsOn(req[s], box[s])
    <3>1. CASE Wants(req[s], box[s])
      BY <3>1 DEF Wants, DependsOn, DbtKinds
    <3>2. CASE req[s].pc \in DbtPCs
      BY <2>1, <3>2 DEF LocalTypes, IsDbt, DependsOn, DbtKinds, DbtPCs
    <3> QED
      BY <1>2, <3>1, <3>2 DEF Holds
  <2>3. req[s].pc # "idle"
    BY <2>1, <2>2 DEF LocalTypes, DbtKinds
  <2> QED
    BY <1>2, <2>2, <2>3 DEF Racing, Depends, DependsOn, At, Kind, Stage
<1> QED
  BY <1>1, <1>2

LEMMA OpenKeepsOwned ==
  ASSUME Locals, FileTypes, Owned, NEW r \in Requests, OpenModel(r)
  PROVE  Owned'
<1>1. /\ \A i \in Requests \ {r} : req'[i] = req[i] /\ box'[i] = box[i]
      /\ UNCHANGED <<box, gold>> /\ SameForm(req'[r], req[r]) /\ Leads(r)
      /\ req[r].table \in Tables /\ ModelFile(r) = req[r].table
  BY TouchesAre DEF Touches
<1>2. /\ req[r].pc = "work" /\ req'[r].pc = "write" /\ req'[r].seen = req[r].seen
  <2>1. req[r].pc = "work" /\ req'[r].pc = "write"
    BY <1>1 DEF Leads
  <2>2. ~DbtReads(r)
    BY <2>1 DEF DbtReads, At
  <2> QED
    BY <1>1, <2>1, <2>2 DEF Leads
<1>3. req'[r].table = req[r].table /\ req'[r].kind = req[r].kind
  BY <1>1 DEF SameForm
<1>4. /\ model' = [model EXCEPT ![req[r].table] = None]
      /\ raced' = (IF Racing(r) = {} THEN raced ELSE raced \cup Racing(r) \cup {r})
      /\ UNCHANGED silver
  BY <1>1 DEF OpenModel
<1>5. /\ raced \subseteq raced' /\ Racing(r) \subseteq raced'
      /\ Racing(r) # {} => r \in raced'
  BY <1>4
<1>6. Pairs'
  <2>1. SUFFICES ASSUME NEW i \in Requests, NEW s \in Requests, i # s,
                        req'[i].table = req'[s].table,
                        Holds(req'[i], box'[i]), Holds(req'[s], box'[s])
                 PROVE  i \in raced'
    BY DEF Pairs
  <2>2. CASE i = r
    BY <1>1, <1>3, <1>5, <2>1, <2>2, RacingIs
  <2>3. CASE s = r
    BY <1>1, <1>3, <1>5, <2>1, <2>3, RacingIs
  <2>4. CASE i # r /\ s # r
    BY <1>1, <1>5, <2>1, <2>4 DEF Owned, Pairs
  <2> QED
    BY <2>2, <2>3, <2>4
<1>7. ASSUME NEW i \in Requests \ raced'
      PROVE  Owns(i)'
  <2>1. Owns(i) /\ i \notin Racing(r)
    BY <1>5, <1>7 DEF Owned
  <2>2. CASE i = r
    <3>1. ~Wants(req'[r], box'[r])
      <4>1. IsDbt(req[r]) /\ req'[r].stage = req[r].stage
        BY TouchesAre DEF Touches
      <4> QED
        BY <1>2, <1>3, <4>1 DEF Wants, IsDbt
    <3> QED
      BY <1>1, <1>2, <1>3, <2>1, <2>2, <3>1 DEF Owns
  <2>3. CASE i # r
    <3>1. req'[i] = req[i] /\ box'[i] = box[i]
      BY <1>1, <2>3
    <3>2. req[i].pc \in DbtPCs => req[i].table # req[r].table
      BY <2>1, <2>3, RacingIs DEF Holds
    <3>3. req[i].pc \in {"readsrc", "opensrc", "writesrc", "dbt"} => model'[req[i].table] = i
      <4>1. req[i].table \in Tables
        BY DEF Locals, Functions, ReqT
      <4> QED
        BY <1>4, <2>1, <3>2, <4>1 DEF Owns, DbtPCs, FileTypes
    <3> QED
      BY <1>1, <1>4, <2>1, <3>1, <3>3 DEF Owns
  <2> QED
    BY <2>2, <2>3
<1>8. \A i \in Requests : req'[i].pc = "idle" => gold'[i] = None
  BY <1>1, <1>2 DEF Owned
<1> QED
  BY <1>6, <1>7, <1>8 DEF Owned

(* No step of a dbt stage but the first makes a new pair. *)
LEMMA TouchKeepsPairs ==
  ASSUME Locals, FileTypes, Pairs, NEW r \in Requests, Touches(r), ~OpenModel(r)
  PROVE  Pairs' /\ raced' = raced /\ req[r].pc \in DbtPCs
<1>1. /\ \A i \in Requests \ {r} : req'[i] = req[i] /\ box'[i] = box[i]
      /\ SameForm(req'[r], req[r]) /\ Leads(r)
  BY TouchesAre
<1>2. raced' = raced
  BY DEF Touches, WriteModel, ReadSources, OpenSources, WriteSources, DbtReads, DbtCommits, fileVars
<1>3. req[r].pc \in DbtPCs
  BY <1>1 DEF Touches, Leads, DbtPCs
<1>4. Holds(req[r], box[r]) /\ req'[r].table = req[r].table
  BY <1>1, <1>3 DEF Holds, SameForm
<1> QED
  BY <1>1, <1>2, <1>3, <1>4 DEF Pairs

LEMMA TouchKeepsOwned ==
  ASSUME Locals, FileTypes, Owned, NEW r \in Requests, Touches(r), ~OpenModel(r)
  PROVE  Owned'
<1>1. /\ \A i \in Requests \ {r} : req'[i] = req[i] /\ box'[i] = box[i]
      /\ UNCHANGED <<box, gold>> /\ SameForm(req'[r], req[r]) /\ Leads(r) /\ IsDbt(req[r])
      /\ req'[r].stage = req[r].stage /\ req'[r].pc \in DbtPCs \cup {"leave"}
      /\ req[r].table \in Tables /\ ModelFile(r) = req[r].table
  BY TouchesAre
<1>2. Pairs' /\ raced' = raced /\ req[r].pc \in DbtPCs /\ Pairs
  BY TouchKeepsPairs DEF Owned
<1>3. req'[r].table = req[r].table /\ req'[r].kind = req[r].kind
  BY <1>1 DEF SameForm
<1>4. \A i \in Requests : req'[i].pc = "idle" => gold'[i] = None
  BY <1>1 DEF Owned, DbtPCs
<1>5. \A t \in Tables : t # req[r].table => model'[t] = model[t] /\ silver'[t] = silver[t]
  BY <1>1 DEF FileTypes, Touches, WriteModel, ReadSources, OpenSources, WriteSources,
              DbtReads, DbtCommits, fileVars
<1>6. ASSUME NEW i \in Requests \ raced, i # r
      PROVE  Owns(i)'
  <2>1. Owns(i) /\ req'[i] = req[i] /\ box'[i] = box[i] /\ req[i].table \in Tables
    BY <1>1, <1>6 DEF Owned, Locals, Functions, ReqT
  <2>2. Holds(req[i], box[i]) => req[i].table # req[r].table
    BY <1>2, <1>6 DEF Pairs, Holds
  <2>3. req[i].pc \in {"readsrc", "opensrc", "writesrc", "dbt"} => model'[req[i].table] = i
    BY <1>5, <2>1, <2>2 DEF Owns, Holds, DbtPCs
  <2>4. Wants(req[i], box[i]) => silver'[req[i].table] = i
    BY <1>5, <2>1, <2>2 DEF Owns, Holds
  <2> QED
    BY <1>1, <2>1, <2>3, <2>4 DEF Owns
<1>7. ASSUME r \notin raced
      PROVE  Owns(r)'
  <2>1. Owns(r)
    BY <1>7 DEF Owned
  <2>2. CASE WriteModel(r) \/ ReadSources(r) \/ OpenSources(r) \/ WriteSources(r)
    <3>1. req'[r].pc \in {"readsrc", "opensrc", "writesrc", "dbt"}
      BY <1>1, <2>2 DEF Leads
    <3>2. req'[r].seen = req[r].seen
      <4>1. ~DbtReads(r)
        BY <1>1, <3>1 DEF Leads
      <4> QED
        BY <1>1, <4>1 DEF Leads
    <3>3. model'[req[r].table] = r
      <4>1. CASE WriteModel(r)
        BY <1>1, <4>1 DEF WriteModel, FileTypes
      <4>2. CASE ~WriteModel(r)
        <5>1. req[r].pc \in {"readsrc", "opensrc", "writesrc"} /\ model' = model
          BY <1>1, <2>2, <4>2 DEF Leads, ReadSources, OpenSources, WriteSources
        <5> QED
          BY <2>1, <5>1 DEF Owns
      <4> QED
        BY <4>1, <4>2
    <3>4. ~Wants(req'[r], box'[r])
      BY <1>1, <1>3, <3>1 DEF Wants, IsDbt
    <3> QED
      BY <1>1, <1>3, <2>1, <3>1, <3>2, <3>3, <3>4 DEF Owns
  <2>3. CASE DbtReads(r)
    <3>1. req[r].pc = "dbt" /\ req'[r].pc = "commit" /\ req'[r].seen = model[req[r].table]
      BY <1>1, <2>3 DEF Leads
    <3>2. ~Wants(req'[r], box'[r])
      BY <1>1, <1>3, <3>1 DEF Wants, IsDbt
    <3> QED
      BY <1>1, <1>3, <2>1, <3>1, <3>2 DEF Owns
  <2>4. CASE DbtCommits(r)
    <3>1. req[r].pc = "commit" /\ req'[r].pc = "leave"
      BY <1>1, <2>4 DEF Leads
    <3>2. req'[r].seen = req[r].seen /\ req[r].seen = r /\ r # None
      <4>1. ~DbtReads(r)
        BY <1>1, <3>1 DEF Leads
      <4> QED
        BY <1>1, <2>1, <3>1, <4>1, FormsAssumption DEF Leads, Owns
    <3>3. Wants(req'[r], box'[r]) => silver'[req[r].table] = r
      <4>1. Wants(req'[r], box'[r]) => req[r].kind # "compile_dbt"
        BY <1>3 DEF Wants
      <4>2. req[r].kind # "compile_dbt" => silver' = [silver EXCEPT ![req[r].table] = r]
        BY <2>4, <3>2 DEF DbtCommits, Kind
      <4> QED
        BY <1>1, <4>1, <4>2 DEF FileTypes
    <3> QED
      BY <1>1, <1>3, <2>1, <3>1, <3>2, <3>3 DEF Owns
  <2> QED
    BY <2>2, <2>3, <2>4 DEF Touches
<1> QED
  BY <1>2, <1>4, <1>6, <1>7 DEF Owned

LEMMA GoldKeepsOwned ==
  ASSUME Locals, FileTypes, Owned, NEW r \in Requests, GoldReads(r)
  PROVE  Owned'
<1>1. /\ UNCHANGED <<req, box, fileVars>> /\ gold' = [gold EXCEPT ![r] = silver[req[r].table]]
      /\ GoldStage(r) /\ box[r][req[r].stage] = "running"
  BY DEF GoldReads, BoxOf, Stage
<1>2. UNCHANGED <<model, silver, raced>>
  BY <1>1 DEF fileVars
<1>3. Local(r, req[r], box[r], watch[r], erred)
  BY DEF Locals
<1>4. req[r].pc # "idle"
  BY <1>1, <1>3 DEF Local, LocalTypes, Containers
<1>5. \A i \in Requests : gold'[i] = IF i = r THEN silver[req[r].table] ELSE gold[i]
  BY <1>1 DEF FileTypes
<1>6. req[r].kind = "transform_load" => Wants(req[r], box[r])
  <2>1. req[r].kind = "transform_load" => req[r].stage = 2
    BY <1>1 DEF GoldStage, Kind, Stage, IsDbt
  <2> QED
    BY <1>1, <1>3, <2>1 DEF Wants, DependsOn, DbtKinds, Local, LocalTypes
<1>7. Pairs'
  BY <1>1, <1>2 DEF Owned, Pairs
<1>8. ASSUME NEW i \in Requests \ raced
      PROVE  Owns(i)'
  <2>1. Owns(i)
    BY DEF Owned
  <2> QED
    BY <1>1, <1>2, <1>5, <1>6, <2>1 DEF Owns
<1>9. \A i \in Requests : req'[i].pc = "idle" => gold'[i] = None
  BY <1>1, <1>4, <1>5 DEF Owned
<1> QED
  BY <1>2, <1>7, <1>8, <1>9 DEF Owned


(* A /run-silver container marks whoever counts on the rows it replaces, and *)
(* knows nothing of the model files and the sources file.                  *)
LEMMA SilverKeepsOwned ==
  ASSUME Locals, FileTypes, Owned, NEW r \in Requests, SilverBuilds(r)
  PROVE  Owned'
<1>1. /\ \A i \in Requests \ {r} : req'[i] = req[i]
      /\ SameForm(req'[r], req[r]) /\ req'[r].pc = req[r].pc /\ req'[r].stage = req[r].stage
      /\ req'[r].seen = r /\ req[r].kind = "run_silver" /\ req[r].table \in Tables
      /\ UNCHANGED <<box, gold, model>>
  BY SilverIsLocal DEF Locals
<1>2. /\ silver' = [silver EXCEPT ![req[r].table] = r]
      /\ raced' = raced \cup Counting(r)
  BY DEF SilverBuilds
<1>3. req[r].pc \notin DbtPCs
  BY <1>1 DEF Locals, Local, LocalTypes, IsDbt
<1>4. /\ ~Holds(req'[r], box'[r]) /\ ~Wants(req'[r], box'[r])
      /\ req'[r].kind = "run_silver"
  BY <1>1, <1>3 DEF Holds, Wants, SameForm
<1>5. Pairs'
  BY <1>1, <1>2, <1>4 DEF Owned, Pairs
<1>6. \A i \in Requests : req'[i].pc = "idle" => gold'[i] = None
  BY <1>1 DEF Owned
<1>7. ASSUME NEW i \in Requests \ raced'
      PROVE  Owns(i)'
  <2>1. Owns(i) /\ i \notin Counting(r)
    BY <1>2, <1>7 DEF Owned
  <2>2. CASE i = r
    BY <1>1, <1>3, <1>4, <2>2 DEF Owns, DbtPCs
  <2>3. CASE i # r
    <3>1. Wants(req[i], box[i]) => req[i].table # req[r].table
      <4>1. ASSUME Wants(req[i], box[i]), req[i].table = req[r].table
            PROVE  i \in Counting(r)
        BY <2>3, <4>1, RacingIs DEF Counting, Holds, Wants, Stage
      <4> QED
        BY <2>1, <4>1
    <3>2. Wants(req[i], box[i]) => silver'[req[i].table] = i
      <4>1. req[i].table \in Tables
        BY DEF Locals, Functions, ReqT
      <4> QED
        BY <1>2, <2>1, <3>1, <4>1 DEF Owns, FileTypes
    <3> QED
      BY <1>1, <2>1, <2>3, <3>2 DEF Owns
  <2> QED
    BY <2>2, <2>3
<1> QED
  BY <1>5, <1>6, <1>7 DEF Owned

LEMMA SilverKeepsDeclared ==
  ASSUME Locals, FileTypes, Declared, NEW r \in Requests, SilverBuilds(r)
  PROVE  Declared'
<1>1. /\ \A i \in Requests \ {r} : req'[i] = req[i]
      /\ SameForm(req'[r], req[r]) /\ req'[r].pc = req[r].pc
      /\ UNCHANGED <<model, sources, copy, srcRaced>>
  BY SilverIsLocal DEF Locals
<1>2. \A i \in Requests : req'[i].pc = req[i].pc /\ req'[i].refs = req[i].refs
  BY <1>1 DEF SameForm
<1>3. \A i \in Requests : Updating(i)' <=> Updating(i)
  BY <1>2 DEF Updating, At
<1>4. \A t \in Tables : model[t] # None => model[t] \in Requests
  BY DEF FileTypes
<1> QED
  BY <1>1, <1>2, <1>3, <1>4 DEF Declared

(* What a step of a dbt stage does to the sources file. *)
LEMMA TouchKeepsDeclared ==
  ASSUME Locals, FileTypes, Declared, NEW r \in Requests, Touches(r)
  PROVE  Declared'
<1>1. /\ \A i \in Requests \ {r} : req'[i] = req[i]
      /\ SameForm(req'[r], req[r]) /\ Leads(r) /\ req'[r].pc \in DbtPCs \cup {"leave"}
      /\ req[r].table \in Tables /\ ModelFile(r) = req[r].table
      /\ req[r].pc \in DbtPCs \cup {"work"}
  BY TouchesAre
<1>2. /\ req'[r].refs = req[r].refs /\ req[r].pc # "idle" /\ req'[r].pc # "idle"
  BY <1>1 DEF SameForm, DbtPCs
<1>3. SUFFICES ASSUME ~srcRaced'
               PROVE  /\ \A i, s \in Requests : Updating(i)' /\ Updating(s)' => i = s
                      /\ \A i \in Requests : req'[i].pc = "opensrc" => copy'[i] = sources' \cup {i}
                      /\ \A i \in Requests : req'[i].pc = "writesrc" => sources' = {}
                      /\ \A t \in Tables : model'[t] # None =>
                           /\ req'[model'[t]].pc # "idle"
                           /\ req'[model'[t]].refs =>
                                \/ model'[t] \in sources'
                                \/ req'[model'[t]].pc \in {"readsrc", "opensrc"}
                                \/ \E u \in Requests :
                                     req'[u].pc = "writesrc" /\ model'[t] \in copy'[u]
  BY DEF Declared
<1>4. ~srcRaced
  BY <1>3 DEF Touches, OpenModel, WriteModel, ReadSources, OpenSources, WriteSources,
              DbtReads, DbtCommits, fileVars
<1>5. /\ \A i, s \in Requests : Updating(i) /\ Updating(s) => i = s
      /\ \A i \in Requests : req[i].pc = "opensrc" => copy[i] = sources \cup {i}
      /\ \A i \in Requests : req[i].pc = "writesrc" => sources = {}
      /\ \A t \in Tables : model[t] # None =>
           /\ model[t] \in Requests /\ req[model[t]].pc # "idle"
           /\ req[model[t]].refs =>
                \/ model[t] \in sources
                \/ req[model[t]].pc \in {"readsrc", "opensrc"}
                \/ \E u \in Requests : req[u].pc = "writesrc" /\ model[t] \in copy[u]
  BY <1>4 DEF Declared, FileTypes
<1>6. \A i \in Requests : /\ Updating(i) <=> req[i].pc \in {"opensrc", "writesrc"}
                          /\ Updating(i)' <=> req'[i].pc \in {"opensrc", "writesrc"}
  BY DEF Updating, At
<1>7. CASE OpenModel(r) \/ WriteModel(r)
  <2>1. /\ UNCHANGED <<sources, copy>> /\ req[r].pc \in {"work", "write"}
        /\ req'[r].pc \in {"write", "readsrc", "dbt"}
        /\ WriteModel(r) => req'[r].pc = IF req[r].refs THEN "readsrc" ELSE "dbt"
    BY <1>1, <1>7 DEF Leads, OpenModel, WriteModel
  <2>2. \A t \in Tables : model'[t] # None =>
          model'[t] = model[t] \/ (WriteModel(r) /\ model'[t] = r)
    BY <1>1, <1>7 DEF OpenModel, WriteModel, FileTypes
  <2>3. ASSUME NEW t \in Tables, model'[t] # None
        PROVE  /\ req'[model'[t]].pc # "idle"
               /\ req'[model'[t]].refs =>
                    \/ model'[t] \in sources'
                    \/ req'[model'[t]].pc \in {"readsrc", "opensrc"}
                    \/ \E u \in Requests : req'[u].pc = "writesrc" /\ model'[t] \in copy'[u]
    <3>1. CASE model'[t] = model[t]
      <4>1. model[t] \in Requests /\ (model[t] = r => req[r].pc # "readsrc")
        BY <1>5, <2>1, <2>3, <3>1
      <4>2. \A u \in Requests : req[u].pc = "writesrc" => req'[u].pc = "writesrc"
        BY <1>1, <2>1
      <4> QED
        BY <1>1, <1>2, <1>5, <2>1, <2>3, <3>1, <4>1, <4>2
    <3>2. CASE WriteModel(r) /\ model'[t] = r
      BY <1>2, <2>1, <3>2
    <3> QED
      BY <2>2, <2>3, <3>1, <3>2
  <2> QED
    BY <1>1, <1>5, <1>6, <2>1, <2>3
<1>8. CASE ReadSources(r)
  <2>1. /\ sources' = sources /\ model' = model /\ req[r].pc = "readsrc"
        /\ req'[r].pc = IF r \in sources THEN "dbt" ELSE "opensrc"
        /\ copy' = [copy EXCEPT ![r] = sources \cup {r}]
        /\ \A i \in Requests : ~Updating(i)
    BY <1>1, <1>3, <1>8 DEF Leads, ReadSources, Extended
  <2>2. \A i \in Requests : copy'[i] = IF i = r THEN sources \cup {r} ELSE copy[i]
    BY <2>1 DEF FileTypes
  <2>3. \A i \in Requests : req'[i].pc # "writesrc" /\ (req'[i].pc = "opensrc" => i = r)
    BY <1>1, <1>6, <2>1
  <2>4. \A i \in Requests : /\ req'[i].refs = req[i].refs
                            /\ req'[i].pc # "idle" \/ req[i].pc = "idle"
                            /\ req[i].pc \in {"readsrc", "opensrc"} =>
                                 i \in sources \/ req'[i].pc \in {"readsrc", "opensrc"}
    BY <1>1, <1>2, <2>1
  <2> QED
    BY <1>5, <1>6, <2>1, <2>2, <2>3, <2>4
<1>9. CASE OpenSources(r)
  <2>1. /\ sources' = {} /\ model' = model /\ copy' = copy
        /\ req[r].pc = "opensrc" /\ req'[r].pc = "writesrc"
    BY <1>1, <1>9 DEF Leads, OpenSources
  <2>2. \A i \in Requests \ {r} : req[i].pc \notin {"opensrc", "writesrc"} /\ req'[i] = req[i]
    BY <1>1, <1>5, <1>6, <2>1
  <2>3. \A i \in sources \cup {r} : i \in copy'[r]
    BY <1>5, <2>1
  <2>4. \A t \in Tables : model[t] # None =>
          /\ req'[model[t]].pc # "idle"
          /\ req'[model[t]].refs =>
               \/ req'[model[t]].pc \in {"readsrc", "opensrc"}
               \/ req'[r].pc = "writesrc" /\ model[t] \in copy'[r]
    BY <1>2, <1>5, <2>1, <2>2, <2>3
  <2>5. \A i, s \in Requests : Updating(i)' /\ Updating(s)' => i = s
    BY <1>6, <2>2
  <2>6. \A i \in Requests : req'[i].pc # "opensrc"
    BY <2>1, <2>2
  <2> QED
    BY <2>1, <2>4, <2>5, <2>6
<1>10. CASE WriteSources(r)
  <2>1. /\ sources' = copy[r] /\ model' = model /\ copy' = copy
        /\ req[r].pc = "writesrc" /\ req'[r].pc = "dbt" /\ sources = {}
    BY <1>1, <1>5, <1>10 DEF Leads, WriteSources
  <2>2. \A i \in Requests \ {r} : req[i].pc \notin {"opensrc", "writesrc"} /\ req'[i] = req[i]
    BY <1>1, <1>5, <1>6, <2>1
  <2>3. \A i \in Requests : req'[i].pc \notin {"opensrc", "writesrc"}
    BY <2>1, <2>2
  <2>4. \A t \in Tables : model[t] # None =>
          /\ req'[model[t]].pc # "idle"
          /\ req'[model[t]].refs =>
               model[t] \in sources' \/ req'[model[t]].pc \in {"readsrc", "opensrc"}
    BY <1>2, <1>5, <2>1, <2>2
  <2> QED
    BY <1>6, <2>1, <2>3, <2>4
<1>11. CASE DbtReads(r) \/ DbtCommits(r)
  <2>1. /\ UNCHANGED <<sources, model, copy>> /\ req[r].pc \in {"dbt", "commit"}
        /\ req'[r].pc \in {"commit", "leave"}
    BY <1>1, <1>11 DEF Leads, DbtReads, DbtCommits, fileVars
  <2>2. \A i \in Requests : /\ req'[i].refs = req[i].refs
                            /\ req[i].pc # "idle" => req'[i].pc # "idle"
                            /\ req[i].pc = "readsrc" <=> req'[i].pc = "readsrc"
                            /\ req[i].pc = "opensrc" <=> req'[i].pc = "opensrc"
                            /\ req[i].pc = "writesrc" <=> req'[i].pc = "writesrc"
    BY <1>1, <1>2, <2>1
  <2> QED
    BY <1>5, <1>6, <2>1, <2>2
<1> QED
  BY <1>7, <1>8, <1>9, <1>10, <1>11 DEF Touches

-----------------------------------------------------------------------------
(* The files keep what the requests and the registry know of themselves. *)
FInv == IInv /\ Owned /\ Declared

LEMMA InitFiles ==
  ASSUME Init
  PROVE  FInv
<1>1. IInv
  BY InitIsGood
<1>2. Idle.kind = "run" /\ Idle.pc = "idle" /\ Idle.seen = None
  BY DEF Idle
<1>3. \A r \in Requests : req[r] = Idle
  BY DEF Init
<1>4. \A r \in Requests : ~Holds(req[r], box[r])
  BY <1>2, <1>3 DEF Holds, Wants, DbtPCs
<1>5. Owned
  BY <1>2, <1>3, <1>4 DEF Init, Owned, Pairs, Owns, Holds
<1>6. Declared
  BY <1>2, <1>3 DEF Init, Declared, Updating, At
<1> QED
  BY <1>1, <1>5, <1>6 DEF FInv

LEMMA StepFiles ==
  ASSUME FInv, [Next]_vars
  PROVE  FInv'
<1>1. IInv' /\ Locals /\ FileTypes /\ Owned /\ Declared
  BY StepIsGood DEF FInv, IInv
<1>2. CASE UNCHANGED vars
  <2>1. Owned'
    BY <1>1, <1>2 DEF vars, Owned, Pairs, Owns
  <2>2. Declared'
    BY <1>1, <1>2 DEF vars, Declared, Updating, At
  <2> QED
    BY <1>1, <2>1, <2>2 DEF FInv
<1>3. CASE Next
  <2>1. PICK r \in Requests :
          \/ Post(r) \/ RequestStep(r) \/ WatcherStep(r)
          \/ GoldReads(r) \/ SilverBuilds(r) \/ BoxExits(r)
    BY <1>3 DEF Next
  <2>2. CASE Quiet(r) \/ Register(r) \/ Attach(r) \/ Removal(r) \/ DbtRefuse(r) \/ DbtFails(r)
    BY <1>1, <2>2, ApartSteps, ApartKeepsOwned, ApartKeepsDeclared DEF FInv
  <2>3. CASE Touches(r)
    BY <1>1, <2>3, OpenKeepsOwned, TouchKeepsOwned, TouchKeepsDeclared DEF FInv
  <2>4. CASE GoldReads(r)
    <3>1. Declared'
      BY <1>1, <2>4 DEF GoldReads, fileVars, Declared, Updating, At
    <3> QED
      BY <1>1, <2>4, <3>1, GoldKeepsOwned DEF FInv
  <2>5. CASE SilverBuilds(r)
    BY <1>1, <2>5, SilverKeepsOwned, SilverKeepsDeclared DEF FInv
  <2> QED
    BY <2>1, <2>2, <2>3, <2>4, <2>5, StepsAre DEF DbtStep, Touches
<1> QED
  BY <1>2, <1>3

(* The invariant of the files holds in every behaviour. *)
THEOREM FilesInvariance == Spec => []FInv
<1>1. Init => FInv
  BY InitFiles
<1>2. FInv /\ [Next]_vars => FInv'
  BY StepFiles
<1> QED
  BY <1>1, <1>2, PTL DEF Spec

(* OwnWork: a request that no other one raced runs its own SQL, and its Gold *)
(* container publishes the rows it has produced.                           *)
THEOREM WorkIsOwn == Spec => []OwnWork
<1>1. ASSUME FInv
      PROVE  OwnWork
  BY <1>1 DEF FInv, Owned, Owns, OwnWork, Kind
<1> QED
  BY <1>1, FilesInvariance, PTL

(* SourcesDeclared: as long as requests update the sources file one after    *)
(* the other, every model that needs a declaration finds it there, or its  *)
(* own request is about to add it.                                         *)
THEOREM SourcesStayDeclared == Spec => []SourcesDeclared
<1>1. ASSUME FInv
      PROVE  SourcesDeclared
  <2>1. SUFFICES ASSUME ~srcRaced, \A s \in Requests : ~At(s, "writesrc"), NEW t \in Undeclared
                 PROVE  At(model[t], "readsrc") \/ At(model[t], "opensrc")
    BY DEF SourcesDeclared
  <2> QED
    BY <1>1, <2>1 DEF FInv, Declared, Undeclared, At
<1> QED
  BY <1>1, FilesInvariance, PTL

=============================================================================
