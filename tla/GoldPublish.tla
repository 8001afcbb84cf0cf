---------------------------- MODULE GoldPublish -----------------------------
(***************************************************************************)
(* publish of gold_layer/gold_loader.py: containers that publish one       *)
(* Silver table to one Gold table through Trino, a statement at a time,    *)
(* while dbt rebuilds the Silver table.  No lock keeps two of them apart.  *)
(***************************************************************************)
EXTENDS Naturals, FiniteSets, Bags

CONSTANTS Jobs, Days, Versions, MaxCols, NoTable,
          SilverTables,  \* states dbt may leave the Silver table in
          MaxRuns,       \* bound on publications
          MaxRebuilds    \* bound on changes of Silver

ASSUME GoldAssumption ==
  /\ 0 \notin Days /\ 1 \in Days /\ MaxCols \in Nat \ {0}
  /\ MaxRuns \in Nat /\ MaxRebuilds \in Nat
  /\ NoTable \in SilverTables
  /\ \A s \in SilverTables \ {NoTable} :
       s.cols \in 1..MaxCols /\ s.rows \subseteq (Days \cup {0}) \X Versions

VARIABLES
  silver,    \* NoTable, or its columns and its rows, each a day and a version
  gold,      \* NoTable, or its columns and its bag of rows
  job,       \* the containers
  runs, rebuilds

vars == <<silver, gold, job, runs, rebuilds>>

Strategies == {"replace", "append", "delete_and_insert"}

\* target: the Gold table as it was looked up; base and batch: what the
\* statement reads; fresh and raced (history): Silver is still as it was
\* counted, another publication has ended since the look at Gold.
Idle == [strategy |-> "replace", day |-> 1, pc |-> "idle", cols |-> 1,
         target |-> FALSE, base |-> EmptyBag, batch |-> {},
         fresh |-> TRUE, raced |-> FALSE]

At(j, pc) == job[j].pc = pc

Init ==
  /\ silver \in SilverTables
  /\ gold = NoTable
  /\ job = [j \in Jobs |-> Idle]
  /\ runs = 0 /\ rebuilds = 0

-----------------------------------------------------------------------------
\* The statements of one publication

\* resolve_tables and the tests of the arguments have passed.
Start(j) ==
  /\ At(j, "idle") /\ runs < MaxRuns
  /\ \E s \in Strategies, d \in Days :
       job' = [job EXCEPT ![j] = [Idle EXCEPT !.strategy = s, !.day = d, !.pc = "columns"]]
  /\ runs' = runs + 1
  /\ UNCHANGED <<silver, gold, rebuilds>>

ReadColumns(j) ==
  /\ At(j, "columns") /\ silver # NoTable
  /\ job' = [job EXCEPT ![j].cols = silver.cols, ![j].pc = "count"]
  /\ UNCHANGED <<silver, gold, runs, rebuilds>>

\* The predicate on the date column: rows without a date match no day.
Selected(j) ==
  IF job[j].strategy = "delete_and_insert"
  THEN {e \in silver.rows : e[1] = job[j].day} ELSE silver.rows

\* Fault: an empty selection is published too.
GoesAheadAlways(j) == TRUE

GoesAhead(j) == Selected(j) # {}

\* An empty append ends here; an empty replacement is an error, see Fail.
Count(j) ==
  /\ At(j, "count") /\ silver # NoTable
  /\ job' = IF GoesAhead(j)
            THEN [job EXCEPT ![j].pc = "look", ![j].fresh = TRUE]
            ELSE [job EXCEPT ![j] = Idle]
  /\ UNCHANGED <<silver, gold, runs, rebuilds>>

Compatible(j) == job[j].strategy = "replace" \/ job[j].cols = gold.cols

LookTarget(j) ==
  /\ At(j, "look") /\ (gold # NoTable => Compatible(j))
  /\ job' = [job EXCEPT ![j].target = (gold # NoTable), ![j].pc = "query", ![j].raced = FALSE]
  /\ UNCHANGED <<silver, gold, runs, rebuilds>>

Inserts(j) == job[j].strategy = "append" /\ job[j].target
KeepsOthers(j) == job[j].strategy = "delete_and_insert" /\ job[j].target

Batch(j) == {[day |-> e[1], version |-> e[2], cols |-> job[j].cols] : e \in Selected(j)}

\* Fault: rows without a date are not kept.
KeptDated(d, row) == row.day \notin {0, d}

Kept(d, row) == row.day # d

\* A row keeps its columns among those read; the others are null anyway.
Projected(j, row) == [row EXCEPT !.cols = IF job[j].cols < @ THEN job[j].cols ELSE @]

\* The rows of other days and those without a date ...
Others(j) == [row \in {r \in BagToSet(gold.rows) : Kept(job[j].day, r)} |-> gold.rows[row]]

\* ... in the columns read: if the table has got more, rows may become alike.
Existing(j) ==
  LET As(row) == Projected(j, row)
  IN  IF job[j].cols = gold.cols THEN Others(j) ELSE BagOfAll(As, Others(j))

\* The statement starts: it reads one snapshot of each table.
Query(j) ==
  /\ At(j, "query")
  /\ silver # NoTable /\ job[j].cols <= silver.cols
  /\ Inserts(j) \/ KeepsOthers(j) => gold # NoTable /\ job[j].cols <= gold.cols
  /\ job' = [job EXCEPT ![j].batch = Batch(j), ![j].pc = "commit",
                        ![j].base = IF KeepsOthers(j) THEN Existing(j) ELSE EmptyBag]
  /\ UNCHANGED <<silver, gold, runs, rebuilds>>

\* A publication ended: the others that had looked were overtaken.
Ended(j) ==
  [i \in Jobs |-> IF i = j THEN Idle
                  ELSE [job[i] EXCEPT !.raced = At(i, "query") \/ At(i, "commit")]]

\* INSERT adds to the table as it is now.
Insert(j) ==
  /\ At(j, "commit") /\ Inserts(j)
  /\ gold # NoTable /\ job[j].cols <= gold.cols
  /\ gold' = [gold EXCEPT !.rows = @ (+) SetToBag(job[j].batch)]
  /\ job' = Ended(j)
  /\ UNCHANGED <<silver, runs, rebuilds>>

\* CREATE OR REPLACE TABLE AS swaps the metadata, whatever the table is now.
CreateOrReplace(j) ==
  /\ At(j, "commit") /\ ~Inserts(j)
  /\ gold' = [cols |-> job[j].cols, rows |-> job[j].base (+) SetToBag(job[j].batch)]
  /\ job' = Ended(j)
  /\ UNCHANGED <<silver, runs, rebuilds>>

\* A refusal, an error of Trino, a conflict it detects or a kill.
Fail(j) ==
  /\ ~At(j, "idle")
  /\ job' = [job EXCEPT ![j] = Idle]
  /\ UNCHANGED <<silver, gold, runs, rebuilds>>

\* dbt rebuilds Silver: in between the table, or a day of it, is missing.
Rebuild ==
  /\ rebuilds < MaxRebuilds
  /\ silver' \in SilverTables \ {silver}
  /\ job' = [j \in Jobs |-> [job[j] EXCEPT !.fresh = @ /\ ~(At(j, "look") \/ At(j, "query"))]]
  /\ rebuilds' = rebuilds + 1
  /\ UNCHANGED <<gold, runs>>

JobStep(j) ==
  \/ Start(j) \/ ReadColumns(j) \/ Count(j) \/ LookTarget(j) \/ Query(j)
  \/ Insert(j) \/ CreateOrReplace(j) \/ Fail(j)

Next == Rebuild \/ \E j \in Jobs : JobStep(j)

Spec == Init /\ [][Next]_vars

-----------------------------------------------------------------------------
\* Every variable keeps its range; a Gold table has rows in no more columns
\* than its own.
TypeOK ==
  /\ silver \in SilverTables
  /\ gold # NoTable =>
       /\ gold.cols \in 1..MaxCols
       /\ \A row \in BagToSet(gold.rows) :
            row \in [day: Days \cup {0}, version: Versions, cols: 1..gold.cols]
  /\ \A j \in Jobs :
       /\ job[j].strategy \in Strategies /\ job[j].day \in Days
       /\ job[j].pc \in {"idle", "columns", "count", "look", "query", "commit"}
       /\ job[j].cols \in 1..MaxCols /\ job[j].target \in BOOLEAN
       /\ job[j].fresh \in BOOLEAN /\ job[j].raced \in BOOLEAN
  /\ runs \in 0..MaxRuns /\ rebuilds \in 0..MaxRebuilds

\* "Refusing an empty Gold replacement; existing Gold data has been
\* preserved": a publication leaves rows in what it replaces or adds to,
\* unless Silver was rebuilt between its count and its statement.
NeverEmptied ==
  [][\A j \in Jobs :
       (At(j, "commit") /\ gold' # gold /\ job'[j].pc = "idle" /\ job[j].fresh)
       => \E row \in BagToSet(gold'.rows) :
            job[j].strategy = "delete_and_insert" => row.day = job[j].day]_vars

\* Publications that do not overlap implement GoldTable: each does what was
\* asked for; a replacement swaps all rows, an append keeps them, a day is
\* replaced alone.
Promised == INSTANCE GoldTable WITH
  table <- gold,
  asked <- {[strategy |-> job[j].strategy, day |-> job[j].day] : j \in {i \in Jobs : At(i, "commit")}},
  open  <- \E j \in Jobs : job[j].raced
OnePublicationAfterTheOther == Promised!Spec
=============================================================================
