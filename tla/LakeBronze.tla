----------------------------- MODULE LakeBronze -----------------------------
(***************************************************************************)
(* The Lake table and the Bronze table of one application, and the batch   *)
(* jobs that write them: ingestion (ingestion/main/pipeline.py with        *)
(* sink/minio_writer.py) and the Bronze pipeline (bronze_layer/).  Every   *)
(* request starts a container of its own, so that jobs of both kinds, for  *)
(* any dates, overlap.  A table is known to the metastore (HMS) or not, or *)
(* HMS points to metadata that are gone (pyfiles/iceberg_repair.py).       *)
(***************************************************************************)
EXTENDS Naturals, FiniteSets, FiniteSetsExt

CONSTANTS Jobs,      \* containers that may run at a time
          LastDate,  \* dates are 1..LastDate
          Keys,      \* primary keys
          Rows,      \* rows a source may hold: records with a key and a ts, 0 for null
          Batches,   \* what one read of the source may return
          MaxRuns    \* bound on the number of runs

ASSUME BatchesAssumption ==
  /\ LastDate \in Nat \ {0} /\ MaxRuns \in Nat
  /\ \A row \in Rows : row.key \in Keys /\ row.ts \in Nat
  /\ Batches \subseteq SUBSET Rows /\ IsFiniteSet(Rows)

Dates == 1..LastDate
LakeModes == {"append", "overwrite", "replace"}
BronzeModes == {"full", "delta"}

VARIABLES
  meta,      \* what the application's metadata name: keys and a timestamp column
             \* ("timed"), keys only ("keyed") or neither ("none")
  hms,       \* per layer: "absent", "ok" or "stale"
  lake,      \* per ingest_date, the rows of the Lake partition
  bronze,    \* per snapshot_date, the rows of the Bronze partition
  job,       \* the containers
  runs,      \* number of runs started
  by,        \* history: the kind of run that wrote a snapshot
  current,   \* history: snapshots whose sources are still what they were built from
  lost       \* history: there has been no Lake table since the start, the loss of its
             \* metadata or a replace that failed

dataVars == <<hms, lake, bronze>>
vars == <<meta, hms, lake, bronze, job, runs, by, current, lost>>

KeysOf(S) == {row.key : row \in S}
None == [d \in Dates |-> {}]

Idle == [mode |-> "append", date |-> 1, pc |-> "idle", rows |-> {},
         exists |-> FALSE, sound |-> TRUE]

Layer(j) == IF job[j].mode \in LakeModes THEN "lake" ELSE "bronze"
At(j, pc) == job[j].pc = pc

Init ==
  /\ meta \in {"timed", "keyed", "none"}
  /\ hms = [l \in {"lake", "bronze"} |-> "absent"]
  /\ lake = None /\ bronze = None
  /\ job = [j \in Jobs |-> Idle]
  /\ runs = 0
  /\ by = [d \in Dates |-> "none"] /\ current = {} /\ lost = TRUE

-----------------------------------------------------------------------------
\* History: a change of Lake partitions L and snapshots B is noticed by the
\* snapshots built from them and by the jobs that have read them.

Affected(L, B) == {d \in Dates : d \in L \/ \E b \in B : b < d}

Stale(L, B) ==
  [j \in Jobs |-> IF Layer(j) = "bronze" /\ job[j].date \in Affected(L, B)
                  THEN [job[j] EXCEPT !.sound = FALSE] ELSE job[j]]

-----------------------------------------------------------------------------
\* What a job reads

\* resolve_s3_key, read_s3_file and the checks end with a batch or an error;
\* an empty batch is refused.
IngestRead(j) ==
  /\ At(j, "read") /\ Layer(j) = "lake"
  /\ \E b \in Batches \ {{}} :
       job' = [job EXCEPT ![j].rows = b, ![j].pc = "check"]
  /\ UNCHANGED <<meta, dataVars, runs, by, current, lost>>

HasRows(d) == lake[d] # {}

\* Rows no other row of their key is newer than; nulls are oldest.
Best(S) ==
  {row \in S : meta = "timed" => \A x \in S : x.key = row.key => x.ts <= row.ts}

\* _dedup: one row per key, any of the best ones; without keys all rows.
Dedups(S) ==
  IF meta = "none" THEN {S}
  ELSE {T \in SUBSET Best(S) :
          KeysOf(T) = KeysOf(S) /\ Cardinality(T) = Cardinality(KeysOf(S))}

BronzeRead(j) ==
  /\ At(j, "read") /\ Layer(j) = "bronze"
  /\ hms["lake"] = "ok" /\ HasRows(job[j].date)
  /\ \E T \in Dedups(lake[job[j].date]) :
       job' = [job EXCEPT ![j].rows = T, ![j].sound = TRUE,
                          ![j].pc = IF job[j].mode = "full" THEN "check" ELSE "look"]
  /\ UNCHANGED <<meta, dataVars, runs, by, current, lost>>

\* Fault: a row of today wins whatever its timestamp.
NewerToday(p, n) == FALSE

\* A previous row beats an incoming one only by a later timestamp.
Newer(p, n) == meta = "timed" /\ p.ts > n.ts

\* The union of both sets, one row per key, the incoming one on a tie.
Merged(new, prev) ==
  IF meta = "none" THEN new \cup prev
  ELSE {n \in new : \A p \in prev : p.key = n.key => ~Newer(p, n)}
       \cup {p \in prev : \A n \in new : p.key = n.key => Newer(p, n)}

Earlier(d) == {e \in Dates : e < d /\ bronze[e] # {}}

\* The latest snapshot strictly before a date.
Previous(d) == bronze[Max(Earlier(d))]

\* run_delta after the read of the Lake: without a Bronze table, or without
\* an earlier snapshot, the batch is the snapshot.
Look(j) ==
  LET d == job[j].date IN
  /\ At(j, "look")
  /\ job' = [job EXCEPT ![j].pc = "check",
               ![j].rows = IF hms["bronze"] # "ok" \/ Earlier(d) = {} THEN @
                           ELSE Merged(@, Previous(d))]
  /\ UNCHANGED <<meta, dataVars, runs, by, current, lost>>

\* Any error of the test for the Bronze table counts as "no such table".
LookFails(j) ==
  /\ At(j, "look")
  /\ job' = [job EXCEPT ![j].pc = "check", ![j].sound = FALSE]
  /\ UNCHANGED <<meta, dataVars, runs, by, current, lost>>

-----------------------------------------------------------------------------
\* table_exists_safe and drop_table_safe

DropsFirst(j) == job[j].mode = "replace" /\ job[j].exists

Drop(l) == hms' = [hms EXCEPT ![l] = "absent"]

\* The test tells whether the table is readable; a stale entry is dropped
\* (after a stub for its metadata has been written) and counts as missing.
Check(j) ==
  /\ At(j, "check") /\ hms[Layer(j)] # "stale"
  /\ job' = [job EXCEPT ![j].exists = (hms[Layer(j)] = "ok"), ![j].pc = "write"]
  /\ UNCHANGED <<meta, dataVars, runs, by, current, lost>>

CheckStale(j) ==
  /\ At(j, "check") /\ hms[Layer(j)] = "stale"
  /\ job' = [job EXCEPT ![j].exists = FALSE, ![j].pc = "write"]
  /\ Drop(Layer(j)) \/ UNCHANGED hms
  /\ UNCHANGED <<meta, lake, bronze, runs, by, current, lost>>

\* A replace drops the table with all its dates; an error of the drop is
\* logged and ignored.
LakeDrop(j) ==
  /\ At(j, "write") /\ DropsFirst(j)
  /\ \/ /\ Drop("lake")
        /\ lake' = None
        /\ current' = {}
        /\ job' = [Stale(Dates, {}) EXCEPT ![j].exists = FALSE]
     \/ /\ job' = [job EXCEPT ![j].exists = FALSE]
        /\ UNCHANGED <<hms, lake, current>>
  /\ UNCHANGED <<meta, bronze, runs, by, lost>>

-----------------------------------------------------------------------------
\* What a job writes: one Iceberg commit

Finish(f, j) == [f EXCEPT ![j] = [Idle EXCEPT !.mode = f[j].mode, !.date = f[j].date]]

\* append adds, overwritePartitions replaces the partition of the date.
LakeAfter(j) ==
  [lake EXCEPT ![job[j].date] =
     IF job[j].mode = "append" THEN @ \cup job[j].rows ELSE job[j].rows]

LakeWrite(j) ==
  /\ At(j, "write") /\ Layer(j) = "lake" /\ ~DropsFirst(j)
  /\ job[j].exists /\ hms["lake"] = "ok"
  /\ lake' = LakeAfter(j)
  /\ current' = current \ {job[j].date}
  /\ job' = Finish(Stale({job[j].date}, {}), j)
  /\ UNCHANGED <<meta, hms, bronze, runs, by, lost>>

\* Fault: the table is created or replaced.
LakeCreateOrReplace(j) ==
  /\ At(j, "write") /\ Layer(j) = "lake" /\ ~job[j].exists
  /\ hms' = [hms EXCEPT !["lake"] = "ok"]
  /\ lake' = [None EXCEPT ![job[j].date] = job[j].rows]
  /\ current' = {}
  /\ job' = Finish(Stale(Dates, {}), j)
  /\ lost' = FALSE
  /\ UNCHANGED <<meta, bronze, runs, by>>

\* create fails when another job has created the table.
LakeCreate(j) ==
  /\ At(j, "write") /\ Layer(j) = "lake" /\ ~job[j].exists
  /\ hms["lake"] = "absent"
  /\ hms' = [hms EXCEPT !["lake"] = "ok"]
  /\ lake' = [None EXCEPT ![job[j].date] = job[j].rows]
  /\ current' = {}
  /\ job' = Finish(Stale(Dates, {}), j)
  /\ lost' = FALSE
  /\ UNCHANGED <<meta, bronze, runs, by>>

\* The snapshot is there; those built on its date's predecessor are not current.
Written(j, kept) ==
  LET d == job[j].date IN
  /\ by' = [by EXCEPT ![d] = job[j].mode]
  /\ current' = {e \in kept : e < d} \cup (IF job[j].sound THEN {d} ELSE {})
  /\ job' = Finish(Stale({}, {d}), j)

\* Fault: the snapshot is added to the partition.
BronzeAfterAdd(j) == [bronze EXCEPT ![job[j].date] = @ \cup job[j].rows]

BronzeAfter(j) == [bronze EXCEPT ![job[j].date] = job[j].rows]

BronzeWrite(j) ==
  /\ At(j, "write") /\ Layer(j) = "bronze"
  /\ job[j].exists /\ hms["bronze"] = "ok"
  /\ bronze' = BronzeAfter(j)
  /\ Written(j, current)
  /\ UNCHANGED <<meta, hms, lake, runs, lost>>

BronzeCreate(j) ==
  /\ At(j, "write") /\ Layer(j) = "bronze" /\ ~job[j].exists
  /\ hms["bronze"] = "absent"
  /\ hms' = [hms EXCEPT !["bronze"] = "ok"]
  /\ bronze' = [None EXCEPT ![job[j].date] = job[j].rows]
  /\ Written(j, {})
  /\ UNCHANGED <<meta, lake, runs, lost>>

-----------------------------------------------------------------------------
\* The rest of a container's life

Start(j) ==
  /\ At(j, "idle") /\ runs < MaxRuns
  /\ \E m \in LakeModes \cup BronzeModes, d \in Dates :
       job' = [job EXCEPT ![j] = [Idle EXCEPT !.mode = m, !.date = d, !.pc = "read"]]
  /\ runs' = runs + 1
  /\ UNCHANGED <<meta, dataVars, by, current, lost>>

\* An exception anywhere ends the container with exit code 1; a kill or a
\* crash ends it too.
Fail(j) ==
  /\ ~At(j, "idle")
  /\ job' = Finish(job, j)
  /\ lost' = (lost \/ (/\ At(j, "write") /\ job[j].mode = "replace"
                       /\ hms["lake"] = "absent"))
  /\ UNCHANGED <<meta, dataVars, runs, by, current>>

\* The bucket with the table's metadata is emptied; HMS keeps its entry.
LoseMetadata(l) ==
  /\ hms[l] = "ok"
  /\ hms' = [hms EXCEPT ![l] = "stale"]
  /\ IF l = "lake" THEN lake' = None /\ UNCHANGED bronze
                   ELSE bronze' = None /\ UNCHANGED lake
  /\ current' = {}
  /\ job' = Stale(IF l = "lake" THEN Dates ELSE {}, IF l = "lake" THEN {} ELSE {0})
  /\ lost' = (lost \/ l = "lake")
  /\ UNCHANGED <<meta, runs, by>>

JobStep(j) ==
  \/ IngestRead(j) \/ BronzeRead(j) \/ Look(j) \/ LookFails(j)
  \/ Check(j) \/ CheckStale(j) \/ LakeDrop(j)
  \/ LakeWrite(j) \/ LakeCreate(j) \/ BronzeWrite(j) \/ BronzeCreate(j)
  \/ Start(j) \/ Fail(j)

Next ==
  \/ \E j \in Jobs : JobStep(j)
  \/ \E l \in {"lake", "bronze"} : LoseMetadata(l)

Spec == Init /\ [][Next]_vars

-----------------------------------------------------------------------------
\* Every variable keeps its range; only a table that HMS knows holds rows,
\* and no snapshot is built from an empty date.
TypeOK ==
  /\ meta \in {"timed", "keyed", "none"}
  /\ hms \in [{"lake", "bronze"} -> {"absent", "ok", "stale"}]
  /\ lake \in [Dates -> SUBSET Rows] /\ bronze \in [Dates -> SUBSET Rows]
  /\ \A j \in Jobs :
       /\ job[j] \in [mode: LakeModes \cup BronzeModes, date: Dates,
            pc: {"idle", "read", "look", "check", "write"},
            rows: SUBSET Rows, exists: BOOLEAN, sound: BOOLEAN]
       /\ At(j, "check") \/ At(j, "write") => job[j].rows # {}
  /\ runs \in 0..MaxRuns
  /\ by \in [Dates -> BronzeModes \cup {"none"}]
  /\ current \subseteq Dates /\ lost \in BOOLEAN
  /\ hms["lake"] # "ok" => lake = None
  /\ hms["bronze"] # "ok" => bronze = None

\* A snapshot has one row per primary key, whatever duplicates, replays and
\* late batches the Lake and the previous snapshot hold.
OneRowPerKey ==
  meta # "none" => \A d \in Dates : \A x, y \in bronze[d] : x.key = y.key => x = y

\* What the layer promises of a snapshot S built from the rows "new" of its
\* date and the rows "old" of the snapshot before: every key, in its newest
\* version; the date's own row unless an old one is newer.
LatestState(S, new, old) ==
  /\ KeysOf(S) = KeysOf(new \cup old)
  /\ \A s \in S :
       /\ s \in new \cup old
       /\ CASE meta = "timed" -> \A x \in new \cup old : x.key = s.key => x.ts <= s.ts
            [] meta = "none" -> new \cup old \subseteq S
            [] OTHER -> TRUE
       /\ meta # "none" /\ s \notin new =>
            \A n \in new : n.key = s.key => meta = "timed" /\ n.ts < s.ts

\* Full and delta runs in any order, over any batches, leave the promised
\* state in every snapshot whose Lake date and earlier snapshots have not
\* been written since its run began to read them.  (A back-fill of an earlier
\* date does not reach later snapshots until they are run again, and a delta
\* run whose look at the Bronze table fails forgets the previous snapshot.)
SnapshotsAreLatestState ==
  \A d \in current :
    LatestState(bronze[d], lake[d],
      IF by[d] = "full" \/ Earlier(d) = {} THEN {} ELSE Previous(d))

\* Rows leave the Lake table only by the drop of a replace that has found it,
\* by an overwrite of their date or with the table's metadata: whatever other
\* runs did between a run's test for the table and its write, what the run
\* has found, even if it no longer holds, costs no rows of theirs.
LakeKeepsRows ==
  [][\A d \in Dates :
       \/ lake[d] \subseteq lake'[d]
       \/ hms'["lake"] = "stale"
       \/ \E j \in Jobs :
            /\ job'[j] # job[j] /\ At(j, "write") /\ job[j].exists
            /\ \/ job[j].mode = "replace"
               \/ job[j].mode = "overwrite" /\ job[j].date = d]_vars

\* Once there has been a Lake table, it is missing only while a replace is
\* between its drop and its create, or after one that failed there, or after
\* its metadata were lost; then the next run of any mode starts it afresh.
LakeGoneOnlyInReplace ==
  hms["lake"] = "absent" /\ ~lost =>
    \E j \in Jobs : At(j, "write") /\ job[j].mode = "replace"
=============================================================================
