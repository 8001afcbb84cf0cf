------------------------- MODULE GoldPublishProofs --------------------------
(***************************************************************************)
(* Proofs about GoldPublish, for any number of containers, days, versions  *)
(* and states of Silver: type correctness; a publication whose Silver has  *)
(* not been rebuilt since its count leaves rows; and publications that do  *)
(* not overlap implement GoldTable, each ending as it was asked for.       *)
(***************************************************************************)
EXTENDS GoldPublish, TLAPS

Fields == {"strategy", "day", "pc", "cols", "target", "base", "batch", "fresh", "raced"}

GoldRows(c) == [day: Days \cup {0}, version: Versions, cols: 1..c]

SelectedOf(s, r) ==
  IF r.strategy = "delete_and_insert" THEN {e \in s.rows : e[1] = r.day} ELSE s.rows

(* A container's record, over the Silver table s: what it will write has   *)
(* the columns it has read; and while Silver is as it was counted there is *)
(* something to publish, of the day that it replaces.                      *)
RecordTypes(r) ==
  /\ DOMAIN r = Fields
  /\ r.strategy \in Strategies /\ r.day \in Days
  /\ r.pc \in {"idle", "columns", "count", "look", "query", "commit"}
  /\ r.cols \in 1..MaxCols /\ r.target \in BOOLEAN
  /\ r.fresh \in BOOLEAN /\ r.raced \in BOOLEAN

HasRowsToPublish(s, r) ==
  /\ r.pc \in {"look", "query"} /\ r.fresh => s # NoTable /\ SelectedOf(s, r) # {}
  /\ r.pc = "commit" =>
       /\ DOMAIN r.base \subseteq GoldRows(r.cols) /\ r.batch \subseteq GoldRows(r.cols)
       /\ r.fresh => r.batch # {}
       /\ r.strategy = "delete_and_insert" => \A row \in r.batch : row.day = r.day

RecordInv(s, r) == RecordTypes(r) /\ HasRowsToPublish(s, r)

TablesT ==
  /\ silver \in SilverTables
  /\ gold # NoTable =>
       /\ DOMAIN gold = {"cols", "rows"} /\ gold.cols \in 1..MaxCols
       /\ DOMAIN gold.rows \subseteq GoldRows(gold.cols)
  /\ runs \in 0..MaxRuns /\ rebuilds \in 0..MaxRebuilds

IInv ==
  /\ TablesT
  /\ DOMAIN job = Jobs
  /\ \A j \in Jobs : RecordInv(silver, job[j])

-----------------------------------------------------------------------------
(* An idle container has nothing to publish. *)
LEMMA IdleInv == \A s : RecordInv(s, Idle)
  BY GoldAssumption DEF RecordInv, RecordTypes, HasRowsToPublish, Idle, Fields, Strategies

LEMMA InitIInv == Init => IInv
  BY IdleInv, GoldAssumption DEF Init, IInv, TablesT

(* A step of one container that leaves the others and Silver alone. *)
LEMMA OneMoves ==
  ASSUME IInv, NEW j \in Jobs, NEW q, job' = [job EXCEPT ![j] = q], silver' = silver,
         RecordInv(silver, q), TablesT'
  PROVE  IInv'
  BY DEF IInv

LEMMA StartKeeps ==
  ASSUME IInv, NEW j \in Jobs, Start(j)
  PROVE  IInv'
<1>1. PICK s \in Strategies, d \in Days :
        job' = [job EXCEPT ![j] = [Idle EXCEPT !.strategy = s, !.day = d, !.pc = "columns"]]
  BY DEF Start
<1> DEFINE q == [Idle EXCEPT !.strategy = s, !.day = d, !.pc = "columns"]
<1>2. RecordInv(silver, q)
  BY GoldAssumption DEF RecordInv, RecordTypes, HasRowsToPublish, Idle, Fields
<1>3. TablesT' /\ silver' = silver
  BY GoldAssumption DEF IInv, TablesT, Start
<1> HIDE DEF q
<1> QED
  BY <1>1, <1>2, <1>3, OneMoves DEF q

LEMMA ReadColumnsKeeps ==
  ASSUME IInv, NEW j \in Jobs, ReadColumns(j)
  PROVE  IInv'
<1> DEFINE q == [job[j] EXCEPT !.cols = silver.cols, !.pc = "count"]
<1>1. RecordInv(silver, job[j]) /\ DOMAIN job = Jobs /\ TablesT
  BY DEF IInv
<1>2. silver.cols \in 1..MaxCols
  BY <1>1, GoldAssumption DEF TablesT, ReadColumns
<1>3. RecordInv(silver, q)
  BY <1>1, <1>2 DEF RecordInv, RecordTypes, HasRowsToPublish, Fields
<1>4. job' = [job EXCEPT ![j] = q]
  BY <1>1, Zenon DEF ReadColumns
<1>5. TablesT' /\ silver' = silver
  BY <1>1 DEF TablesT, ReadColumns
<1> HIDE DEF q
<1> QED
  BY <1>3, <1>4, <1>5, OneMoves

LEMMA CountKeeps ==
  ASSUME IInv, NEW j \in Jobs, Count(j)
  PROVE  IInv'
<1> DEFINE q == [job[j] EXCEPT !.pc = "look", !.fresh = TRUE]
<1>1. RecordInv(silver, job[j]) /\ DOMAIN job = Jobs /\ TablesT
  BY DEF IInv
<1>2. TablesT' /\ silver' = silver /\ silver # NoTable
  BY <1>1 DEF TablesT, Count
<1>3. CASE GoesAhead(j)
  <2>1. SelectedOf(silver, job[j]) # {}
    BY <1>3 DEF GoesAhead, Selected, SelectedOf
  <2>2. RecordInv(silver, q)
    BY <1>1, <1>2, <2>1 DEF RecordInv, RecordTypes, HasRowsToPublish, Fields, SelectedOf
  <2>3. job' = [job EXCEPT ![j] = q]
    BY <1>1, <1>3, Zenon DEF Count
  <2> HIDE DEF q
  <2> QED
    BY <1>2, <2>2, <2>3, OneMoves
<1>4. CASE ~GoesAhead(j)
  <2>1. job' = [job EXCEPT ![j] = Idle]
    BY <1>4 DEF Count
  <2> QED
    BY <1>2, <2>1, IdleInv, OneMoves
<1> QED
  BY <1>3, <1>4

LEMMA LookTargetKeeps ==
  ASSUME IInv, NEW j \in Jobs, LookTarget(j)
  PROVE  IInv'
<1>1. RecordInv(silver, job[j]) /\ DOMAIN job = Jobs /\ TablesT /\ job[j].pc = "look"
  BY DEF IInv, LookTarget, At
<1>2. PICK b \in BOOLEAN :
        job' = [job EXCEPT ![j].target = b, ![j].pc = "query", ![j].raced = FALSE]
  <2>1. (gold # NoTable) \in BOOLEAN
    OBVIOUS
  <2> QED
    BY <2>1, Zenon DEF LookTarget
<1> DEFINE q == [job[j] EXCEPT !.target = b, !.pc = "query", !.raced = FALSE]
<1>3. RecordInv(silver, q)
  BY <1>1 DEF RecordInv, RecordTypes, HasRowsToPublish, Fields, SelectedOf
<1>4. job' = [job EXCEPT ![j] = q]
  BY <1>1, <1>2, Zenon
<1>5. TablesT' /\ silver' = silver
  BY <1>1 DEF TablesT, LookTarget
<1> HIDE DEF q
<1> QED
  BY <1>3, <1>4, <1>5, OneMoves

(* The rows of a statement: of the columns read, and of the day replaced. *)
LEMMA BatchIs ==
  ASSUME TablesT, NEW j \in Jobs, RecordTypes(job[j]), silver # NoTable
  PROVE  /\ Batch(j) \subseteq GoldRows(job[j].cols)
         /\ SelectedOf(silver, job[j]) # {} => Batch(j) # {}
         /\ job[j].strategy = "delete_and_insert" =>
              \A row \in Batch(j) : row.day = job[j].day
<1>1. silver.rows \subseteq (Days \cup {0}) \X Versions
  BY GoldAssumption DEF TablesT
<1>2. Selected(j) = SelectedOf(silver, job[j]) /\ Selected(j) \subseteq silver.rows
  BY DEF Selected, SelectedOf
<1>3. job[j].cols \in 1..job[j].cols
  BY GoldAssumption DEF RecordTypes
<1>4. \A e \in Selected(j) :
        [day |-> e[1], version |-> e[2], cols |-> job[j].cols] \in GoldRows(job[j].cols)
  BY <1>1, <1>2, <1>3 DEF GoldRows
<1>5. Batch(j) \subseteq GoldRows(job[j].cols)
  BY <1>4 DEF Batch
<1>6. Selected(j) # {} => Batch(j) # {}
  BY DEF Batch
<1>7. job[j].strategy = "delete_and_insert" => \A row \in Batch(j) : row.day = job[j].day
  <2>1. job[j].strategy = "delete_and_insert" => \A e \in Selected(j) : e[1] = job[j].day
    BY DEF Selected
  <2> QED
    BY <2>1 DEF Batch
<1> QED
  BY <1>2, <1>5, <1>6, <1>7

LEMMA ExistingIs ==
  ASSUME TablesT, gold # NoTable, NEW j \in Jobs, RecordTypes(job[j])
  PROVE  DOMAIN Existing(j) \subseteq GoldRows(job[j].cols)
<1>1. DOMAIN Others(j) \subseteq GoldRows(gold.cols)
  BY DEF TablesT, Others, BagToSet
<1>2. CASE job[j].cols = gold.cols
  BY <1>1, <1>2 DEF Existing
<1>3. CASE job[j].cols # gold.cols
  <2>1. DOMAIN Existing(j) = {Projected(j, row) : row \in DOMAIN Others(j)}
    BY <1>3 DEF Existing, BagOfAll, BagToSet
  <2>2. job[j].cols \in 1..MaxCols /\ gold.cols \in 1..MaxCols
    BY DEF RecordTypes, TablesT
  <2>3. ASSUME NEW row \in GoldRows(gold.cols)
        PROVE  Projected(j, row) \in GoldRows(job[j].cols)
    <3>1. row.cols \in 1..gold.cols
      BY DEF GoldRows
    <3>2. (IF job[j].cols < row.cols THEN job[j].cols ELSE row.cols) \in 1..job[j].cols
      BY <2>2, <3>1, GoldAssumption
    <3> QED
      BY <3>2 DEF Projected, GoldRows
  <2> QED
    BY <1>1, <2>1, <2>3
<1> QED
  BY <1>2, <1>3

LEMMA QueryKeeps ==
  ASSUME IInv, NEW j \in Jobs, Query(j)
  PROVE  IInv'
<1> DEFINE base == IF KeepsOthers(j) THEN Existing(j) ELSE EmptyBag
           q == [job[j] EXCEPT !.batch = Batch(j), !.pc = "commit", !.base = base]
<1>1. RecordInv(silver, job[j]) /\ DOMAIN job = Jobs /\ TablesT /\ job[j].pc = "query"
  BY DEF IInv, Query, At
<1>2. /\ Batch(j) \subseteq GoldRows(job[j].cols)
      /\ SelectedOf(silver, job[j]) # {} => Batch(j) # {}
      /\ job[j].strategy = "delete_and_insert" => \A row \in Batch(j) : row.day = job[j].day
  BY <1>1, BatchIs DEF Query, RecordInv
<1>3. DOMAIN base \subseteq GoldRows(job[j].cols)
  BY <1>1, ExistingIs DEF Query, RecordInv, EmptyBag, SetToBag
<1>4. job' = [job EXCEPT ![j] = q]
  BY <1>1, Zenon DEF Query
<1> HIDE DEF base
<1>5. RecordInv(silver, q)
  BY <1>1, <1>2, <1>3 DEF RecordInv, RecordTypes, HasRowsToPublish, Fields
<1>6. TablesT' /\ silver' = silver
  BY <1>1 DEF TablesT, Query
<1> HIDE DEF q
<1> QED
  BY <1>4, <1>5, <1>6, OneMoves

(* The other containers learn that they were overtaken. *)
LEMMA EndedIs ==
  ASSUME IInv, NEW j \in Jobs, job' = Ended(j), silver' = silver, TablesT'
  PROVE  IInv' /\ job'[j].pc = "idle"
<1>1. DOMAIN job' = Jobs /\ job'[j] = Idle
  BY DEF Ended
<1>2. ASSUME NEW i \in Jobs, i # j
      PROVE  RecordInv(silver, job'[i])
  <2>1. RecordInv(silver, job[i])
    BY DEF IInv
  <2>2. PICK b \in BOOLEAN : job'[i] = [job[i] EXCEPT !.raced = b]
    <3>1. (At(i, "query") \/ At(i, "commit")) \in BOOLEAN
      OBVIOUS
    <3> QED
      BY <1>2, <3>1, Zenon DEF Ended
  <2> QED
    BY <2>1, <2>2 DEF RecordInv, RecordTypes, HasRowsToPublish, Fields, SelectedOf
<1>3. \A i \in Jobs : RecordInv(silver', job'[i])
  BY <1>1, <1>2, IdleInv, Zenon
<1>4. job'[j].pc = "idle"
  BY <1>1 DEF Idle
<1> QED
  BY <1>1, <1>3, <1>4 DEF IInv

LEMMA InsertKeeps ==
  ASSUME IInv, NEW j \in Jobs, Insert(j)
  PROVE  IInv' /\ job'[j].pc = "idle"
<1>1. RecordInv(silver, job[j]) /\ TablesT /\ job[j].pc = "commit"
  BY DEF IInv, Insert, At
<1>2. /\ gold.cols \in 1..MaxCols /\ job[j].cols \in 1..MaxCols /\ job[j].cols <= gold.cols
      /\ DOMAIN gold.rows \subseteq GoldRows(gold.cols)
      /\ job[j].batch \subseteq GoldRows(job[j].cols)
  BY <1>1 DEF Insert, TablesT, RecordInv, RecordTypes, HasRowsToPublish
<1>3. GoldRows(job[j].cols) \subseteq GoldRows(gold.cols)
  <2>1. 1..job[j].cols \subseteq 1..gold.cols
    BY <1>2, GoldAssumption
  <2> QED
    BY <2>1 DEF GoldRows
<1> DEFINE R == gold.rows (+) SetToBag(job[j].batch)
<1>4. DOMAIN R = DOMAIN gold.rows \cup job[j].batch
  BY DEF SetToBag, (+)
<1>5. gold' = [gold EXCEPT !.rows = R]
  BY DEF Insert
<1> HIDE DEF R
<1>6. DOMAIN gold = {"cols", "rows"}
  BY <1>1 DEF TablesT, Insert
<1>7. DOMAIN gold' = {"cols", "rows"} /\ gold'.cols = gold.cols /\ gold'.rows = R
  BY <1>5, <1>6
<1>8. TablesT'
  <2>1. DOMAIN gold'.rows \subseteq GoldRows(gold'.cols)
    BY <1>2, <1>3, <1>4, <1>7
  <2> QED
    BY <1>1, <1>2, <1>7, <2>1 DEF TablesT, Insert
<1>9. job' = Ended(j) /\ silver' = silver
  BY DEF Insert
<1> QED
  BY <1>8, <1>9, EndedIs

LEMMA CreateOrReplaceKeeps ==
  ASSUME IInv, NEW j \in Jobs, CreateOrReplace(j)
  PROVE  IInv' /\ job'[j].pc = "idle"
<1>1. RecordInv(silver, job[j]) /\ TablesT /\ job[j].pc = "commit"
  BY DEF IInv, CreateOrReplace, At
<1>2. /\ job[j].cols \in 1..MaxCols /\ DOMAIN job[j].base \subseteq GoldRows(job[j].cols)
      /\ job[j].batch \subseteq GoldRows(job[j].cols)
  BY <1>1 DEF RecordInv, RecordTypes, HasRowsToPublish
<1> DEFINE R == job[j].base (+) SetToBag(job[j].batch)
<1>3. DOMAIN R = DOMAIN job[j].base \cup job[j].batch
  BY DEF SetToBag, (+)
<1>4. gold' = [cols |-> job[j].cols, rows |-> R]
  BY DEF CreateOrReplace
<1> HIDE DEF R
<1>5. DOMAIN gold' = {"cols", "rows"} /\ gold'.cols = job[j].cols /\ gold'.rows = R
  BY <1>4
<1>6. TablesT'
  <2>1. DOMAIN gold'.rows \subseteq GoldRows(gold'.cols)
    BY <1>2, <1>3, <1>5
  <2> QED
    BY <1>1, <1>2, <1>5, <2>1 DEF TablesT, CreateOrReplace
<1>7. job' = Ended(j) /\ silver' = silver
  BY DEF CreateOrReplace
<1> QED
  BY <1>6, <1>7, EndedIs

LEMMA FailKeeps ==
  ASSUME IInv, NEW j \in Jobs, Fail(j)
  PROVE  IInv'
<1>1. job' = [job EXCEPT ![j] = Idle] /\ silver' = silver /\ TablesT'
  BY DEF Fail, IInv, TablesT
<1> QED
  BY <1>1, IdleInv, OneMoves

(* A rebuild of Silver ends the freshness of who has counted its rows. *)
LEMMA RebuildKeeps ==
  ASSUME IInv, Rebuild
  PROVE  IInv'
<1>1. TablesT'
  BY GoldAssumption DEF IInv, TablesT, Rebuild
<1>2. ASSUME NEW i \in Jobs
      PROVE  RecordInv(silver', job'[i])
  <2>1. RecordInv(silver, job[i])
    BY DEF IInv
  <2>2. PICK b \in BOOLEAN :
          /\ job'[i] = [job[i] EXCEPT !.fresh = b]
          /\ b => job[i].fresh /\ job[i].pc \notin {"look", "query"}
    <3> DEFINE b == job[i].fresh /\ ~(At(i, "look") \/ At(i, "query"))
    <3>1. job'[i] = [job[i] EXCEPT !.fresh = b]
      BY Zenon DEF Rebuild
    <3>2. b \in BOOLEAN /\ (b => job[i].fresh /\ job[i].pc \notin {"look", "query"})
      BY DEF At
    <3> HIDE DEF b
    <3> QED
      BY <3>1, <3>2
  <2> QED
    BY <2>1, <2>2 DEF RecordInv, RecordTypes, HasRowsToPublish, Fields, SelectedOf
<1>3. DOMAIN job' = Jobs
  BY DEF Rebuild
<1> QED
  BY <1>1, <1>2, <1>3 DEF IInv

LEMMA NextIInv == IInv /\ [Next]_vars => IInv'
<1> SUFFICES ASSUME IInv, [Next]_vars PROVE IInv'
  OBVIOUS
<1>1. ASSUME NEW j \in Jobs, JobStep(j)
      PROVE  IInv'
  BY <1>1, StartKeeps, ReadColumnsKeeps, CountKeeps, LookTargetKeeps, QueryKeeps, InsertKeeps,
     CreateOrReplaceKeeps, FailKeeps DEF JobStep
<1>2. CASE Rebuild
  BY <1>2, RebuildKeeps
<1>3. CASE UNCHANGED vars
  BY <1>3 DEF vars, IInv, TablesT
<1> QED
  BY <1>1, <1>2, <1>3 DEF Next

-----------------------------------------------------------------------------
(* A container's rows are of the columns it has read, and while Silver is  *)
(* as it was counted there is something to publish.                        *)
THEOREM Invariance == Spec => []IInv
<1> QED
  BY InitIInv, NextIInv, PTL DEF Spec

(* Silver, Gold and the records of the containers keep their ranges, and a *)
(* Gold table has no row with more columns than the table itself, though   *)
(* replaces, appends and day replacements overlap.                         *)
THEOREM TypeCorrect == Spec => []TypeOK
<1>1. IInv => TypeOK
  BY DEF IInv, TablesT, RecordInv, RecordTypes, TypeOK, BagToSet, GoldRows
<1> QED
  BY <1>1, Invariance, PTL

(* Only the commit of container j takes it from "commit" to "idle" and     *)
(* changes Gold.                                                           *)
LEMMA WhoCommits ==
  ASSUME IInv, Next, NEW j \in Jobs, job[j].pc = "commit", gold' # gold, job'[j].pc = "idle"
  PROVE  Insert(j) \/ CreateOrReplace(j)
<1>1. PICK i \in Jobs : Insert(i) \/ CreateOrReplace(i)
  BY DEF Next, Rebuild, JobStep, Start, ReadColumns, Count, LookTarget, Query, Fail
<1>2. job' = Ended(i)
  BY <1>1 DEF Insert, CreateOrReplace
<1>3. CASE i # j
  <2>1. DOMAIN job[j] = Fields
    BY DEF IInv, RecordInv, RecordTypes
  <2>2. \A b : [job[j] EXCEPT !.raced = b].pc = job[j].pc
    BY <2>1 DEF Fields
  <2>3. job'[j] = [job[j] EXCEPT !.raced = At(j, "query") \/ At(j, "commit")]
    BY <1>2, <1>3, Zenon DEF Ended
  <2> QED
    BY <2>2, <2>3
<1> QED
  BY <1>1, <1>3

(* "Refusing an empty Gold replacement": what a publication replaces or    *)
(* adds to has rows afterwards, of its day if it replaces one, unless      *)
(* Silver was rebuilt between its count and its statement.                 *)
THEOREM NeverEmptiedEver == Spec => NeverEmptied
<1>1. IInv /\ [Next]_vars =>
        [\A j \in Jobs :
           (At(j, "commit") /\ gold' # gold /\ job'[j].pc = "idle" /\ job[j].fresh)
           => \E row \in BagToSet(gold'.rows) :
                job[j].strategy = "delete_and_insert" => row.day = job[j].day]_vars
  <2> SUFFICES ASSUME IInv, Next, NEW j \in Jobs, job[j].pc = "commit", gold' # gold,
                      job'[j].pc = "idle", job[j].fresh
               PROVE  \E row \in BagToSet(gold'.rows) :
                        job[j].strategy = "delete_and_insert" => row.day = job[j].day
    BY DEF At
  <2>1. RecordInv(silver, job[j]) /\ TablesT
    BY DEF IInv
  <2>2. PICK row \in job[j].batch :
          job[j].strategy = "delete_and_insert" => row.day = job[j].day
    BY <2>1 DEF RecordInv, HasRowsToPublish
  <2>3. row \in DOMAIN gold'.rows
    <3>1. CASE Insert(j)
      <4> DEFINE R == gold.rows (+) SetToBag(job[j].batch)
      <4>1. row \in DOMAIN R
        BY DEF SetToBag, (+)
      <4>2. gold' = [gold EXCEPT !.rows = R] /\ "rows" \in DOMAIN gold
        BY <2>1, <3>1 DEF Insert, TablesT
      <4> HIDE DEF R
      <4> QED
        BY <4>1, <4>2
    <3>2. CASE CreateOrReplace(j)
      <4> DEFINE R == job[j].base (+) SetToBag(job[j].batch)
      <4>1. row \in DOMAIN R
        BY DEF SetToBag, (+)
      <4>2. gold' = [cols |-> job[j].cols, rows |-> R]
        BY <3>2 DEF CreateOrReplace
      <4> HIDE DEF R
      <4> QED
        BY <4>1, <4>2
    <3> QED
      BY <3>1, <3>2, WhoCommits
  <2> QED
    BY <2>2, <2>3 DEF BagToSet
<1> QED
  BY <1>1, Invariance, PTL DEF Spec, NeverEmptied

-----------------------------------------------------------------------------
(* Publications that do not overlap. *)

OthersOf(g, d) == [row \in {r \in DOMAIN g.rows : r.day # d} |-> g.rows[row]]

Keeps(r) == r.strategy = "delete_and_insert" /\ r.target

(* What a container knows of the Gold table g.  As long as no publication  *)
(* has ended since its look, the table is there if it was, it has the      *)
(* columns that were compared, and its rows of other days are those that   *)
(* the statement has read.                                                 *)
UpToDate(g, r) ==
  /\ r.pc \in {"query", "commit"} /\ ~r.raced =>
       /\ r.target <=> g # NoTable
       /\ r.target /\ r.strategy # "replace" => r.cols = g.cols
  /\ r.pc = "commit" =>
       /\ r.batch \subseteq [day: Days \cup {0}, version: Versions, cols: {r.cols}]
       /\ ~Keeps(r) => r.base = EmptyBag
       /\ Keeps(r) /\ ~r.raced => r.base = OthersOf(g, r.day)

LookInv == \A j \in Jobs : UpToDate(gold, job[j])

(* A step of one container that leaves Gold alone. *)
LEMMA LookerMoves ==
  ASSUME IInv, LookInv, NEW j \in Jobs, NEW q, job' = [job EXCEPT ![j] = q],
         gold' = gold, UpToDate(gold, q)
  PROVE  LookInv'
  BY DEF IInv, LookInv

(* A container that is not between its look and its commit knows nothing   *)
(* that could be out of date.                                              *)
LEMMA NotLooking ==
  ASSUME NEW g, NEW r, r.pc \notin {"query", "commit"}
  PROVE  UpToDate(g, r)
  BY DEF UpToDate

LEMMA BeforeTheLook ==
  ASSUME IInv, LookInv, NEW j \in Jobs,
         Start(j) \/ ReadColumns(j) \/ Count(j) \/ Fail(j)
  PROVE  LookInv'
<1>1. DOMAIN job[j] = Fields /\ DOMAIN Idle = Fields
  BY DEF IInv, RecordInv, RecordTypes, Idle, Fields
<1>2. gold' = gold
  BY DEF Start, ReadColumns, Count, Fail
<1>3. CASE Start(j)
  <2>1. PICK s \in Strategies, d \in Days :
          job' = [job EXCEPT ![j] = [Idle EXCEPT !.strategy = s, !.day = d, !.pc = "columns"]]
    BY <1>3 DEF Start
  <2> DEFINE q == [Idle EXCEPT !.strategy = s, !.day = d, !.pc = "columns"]
  <2>2. q.pc = "columns"
    BY <1>1 DEF Fields
  <2> HIDE DEF q
  <2> QED
    BY <1>2, <2>1, <2>2, NotLooking, LookerMoves DEF q
<1>4. CASE ReadColumns(j)
  <2> DEFINE q == [job[j] EXCEPT !.cols = silver.cols, !.pc = "count"]
  <2>1. q.pc = "count"
    BY <1>1 DEF Fields
  <2>2. job' = [job EXCEPT ![j] = q]
    BY <1>4, Zenon DEF ReadColumns
  <2> HIDE DEF q
  <2> QED
    BY <1>2, <2>1, <2>2, NotLooking, LookerMoves
<1>5. CASE Count(j) /\ GoesAhead(j)
  <2> DEFINE q == [job[j] EXCEPT !.pc = "look", !.fresh = TRUE]
  <2>1. q.pc = "look"
    BY <1>1 DEF Fields
  <2>2. job' = [job EXCEPT ![j] = q]
    BY <1>5, Zenon DEF Count
  <2> HIDE DEF q
  <2> QED
    BY <1>2, <2>1, <2>2, NotLooking, LookerMoves
<1>6. CASE (Count(j) /\ ~GoesAhead(j)) \/ Fail(j)
  <2>1. job' = [job EXCEPT ![j] = Idle] /\ Idle.pc = "idle"
    BY <1>6 DEF Count, Fail, Idle
  <2> QED
    BY <1>2, <2>1, NotLooking, LookerMoves
<1> QED
  BY <1>3, <1>4, <1>5, <1>6

(* The look itself: an existing table that is kept has the same columns. *)
LEMMA LookIsUpToDate ==
  ASSUME IInv, LookInv, NEW j \in Jobs, LookTarget(j)
  PROVE  LookInv'
<1>1. DOMAIN job[j] = Fields
  BY DEF IInv, RecordInv, RecordTypes
<1>2. PICK b \in BOOLEAN :
        /\ job' = [job EXCEPT ![j].target = b, ![j].pc = "query", ![j].raced = FALSE]
        /\ b <=> gold # NoTable
  <2>1. (gold # NoTable) \in BOOLEAN
    OBVIOUS
  <2> QED
    BY <2>1, Zenon DEF LookTarget
<1> DEFINE q == [job[j] EXCEPT !.target = b, !.pc = "query", !.raced = FALSE]
<1>3. /\ q.pc = "query" /\ q.target = b
      /\ q.strategy = job[j].strategy /\ q.cols = job[j].cols
  BY <1>1 DEF Fields
<1>4. job' = [job EXCEPT ![j] = q]
  BY <1>2, Zenon
<1> HIDE DEF q
<1>5. UpToDate(gold, q)
  BY <1>2, <1>3 DEF UpToDate, LookTarget, Compatible
<1>6. gold' = gold
  BY DEF LookTarget
<1> QED
  BY <1>4, <1>5, <1>6, LookerMoves

(* The statement reads rows of the columns read, and of a table that is as *)
(* it was looked up the rows of other days.                                *)
LEMMA QueryIsUpToDate ==
  ASSUME IInv, LookInv, NEW j \in Jobs, Query(j)
  PROVE  LookInv'
<1> DEFINE base == IF KeepsOthers(j) THEN Existing(j) ELSE EmptyBag
           q == [job[j] EXCEPT !.batch = Batch(j), !.pc = "commit", !.base = base]
<1>1. /\ DOMAIN job[j] = Fields /\ TablesT /\ job[j].pc = "query" /\ silver # NoTable
      /\ UpToDate(gold, job[j])
  BY DEF IInv, RecordInv, RecordTypes, LookInv, Query, At
<1>2. Batch(j) \subseteq [day: Days \cup {0}, version: Versions, cols: {job[j].cols}]
  <2>1. Selected(j) \subseteq (Days \cup {0}) \X Versions
    BY <1>1, GoldAssumption DEF TablesT, Selected
  <2> QED
    BY <2>1 DEF Batch
<1>3. ~KeepsOthers(j) => base = EmptyBag
  OBVIOUS
<1>4. ASSUME KeepsOthers(j), ~job[j].raced
      PROVE  base = OthersOf(gold, job[j].day)
  <2>1. job[j].cols = gold.cols
    BY <1>1, <1>4 DEF UpToDate, KeepsOthers
  <2> QED
    BY <1>4, <2>1 DEF Existing, Others, OthersOf, Kept, BagToSet
<1> HIDE DEF base
<1>5. /\ q.pc = "commit" /\ q.batch = Batch(j) /\ q.base = base
      /\ q.target = job[j].target /\ q.strategy = job[j].strategy
      /\ q.cols = job[j].cols /\ q.day = job[j].day /\ q.raced = job[j].raced
  BY <1>1 DEF Fields
<1>6. job' = [job EXCEPT ![j] = q]
  BY Zenon DEF Query, base
<1> HIDE DEF q
<1>7. UpToDate(gold, q)
  BY <1>1, <1>2, <1>3, <1>4, <1>5 DEF UpToDate, Keeps, KeepsOthers
<1>8. gold' = gold
  BY DEF Query
<1> QED
  BY <1>6, <1>7, <1>8, LookerMoves

(* A commit leaves every other container that has looked out of date, and  *)
(* marked so.                                                              *)
LEMMA EndedIsUpToDate ==
  ASSUME IInv, LookInv, NEW j \in Jobs, job' = Ended(j)
  PROVE  LookInv'
<1>1. ASSUME NEW i \in Jobs, i # j
      PROVE  UpToDate(gold', job'[i])
  <2>1. DOMAIN job[i] = Fields /\ UpToDate(gold, job[i])
    BY DEF IInv, RecordInv, RecordTypes, LookInv
  <2>2. PICK b \in BOOLEAN : /\ job'[i] = [job[i] EXCEPT !.raced = b]
                             /\ b <=> job[i].pc \in {"query", "commit"}
    <3> DEFINE b == At(i, "query") \/ At(i, "commit")
    <3>1. job'[i] = [job[i] EXCEPT !.raced = b]
      BY <1>1, Zenon DEF Ended
    <3>2. b \in BOOLEAN /\ (b <=> job[i].pc \in {"query", "commit"})
      BY DEF At
    <3> HIDE DEF b
    <3> QED
      BY <3>1, <3>2
  <2>3. /\ job'[i].pc = job[i].pc /\ job'[i].raced = b /\ job'[i].batch = job[i].batch
        /\ job'[i].base = job[i].base /\ job'[i].cols = job[i].cols
        /\ job'[i].target = job[i].target /\ job'[i].strategy = job[i].strategy
    BY <2>1, <2>2 DEF Fields
  <2> QED
    BY <2>1, <2>2, <2>3 DEF UpToDate, Keeps
<1>2. job'[j] = Idle /\ Idle.pc = "idle"
  BY DEF Ended, Idle
<1>3. UpToDate(gold', job'[j])
  BY <1>2, NotLooking
<1> QED
  BY <1>1, <1>3 DEF LookInv

LEMMA RebuildIsUpToDate ==
  ASSUME IInv, LookInv, Rebuild
  PROVE  LookInv'
<1>1. ASSUME NEW i \in Jobs
      PROVE  UpToDate(gold', job'[i])
  <2>1. DOMAIN job[i] = Fields /\ UpToDate(gold, job[i])
    BY DEF IInv, RecordInv, RecordTypes, LookInv
  <2>2. \E b : job'[i] = [job[i] EXCEPT !.fresh = b]
    BY Zenon DEF Rebuild
  <2>3. /\ job'[i].pc = job[i].pc /\ job'[i].raced = job[i].raced
        /\ job'[i].batch = job[i].batch /\ job'[i].base = job[i].base
        /\ job'[i].cols = job[i].cols /\ job'[i].target = job[i].target
        /\ job'[i].strategy = job[i].strategy /\ job'[i].day = job[i].day
    BY <2>1, <2>2 DEF Fields
  <2> QED
    BY <2>1, <2>3 DEF UpToDate, Keeps, Rebuild
<1> QED
  BY <1>1 DEF LookInv

LEMMA NextLookInv == IInv /\ LookInv /\ [Next]_vars => LookInv'
<1> SUFFICES ASSUME IInv, LookInv, [Next]_vars PROVE LookInv'
  OBVIOUS
<1>1. ASSUME NEW j \in Jobs, JobStep(j)
      PROVE  LookInv'
  <2>1. Insert(j) \/ CreateOrReplace(j) => job' = Ended(j)
    BY DEF Insert, CreateOrReplace
  <2> QED
    BY <1>1, <2>1, BeforeTheLook, LookIsUpToDate, QueryIsUpToDate, EndedIsUpToDate
    DEF JobStep
<1>2. CASE Rebuild
  BY <1>2, RebuildIsUpToDate
<1>3. CASE UNCHANGED vars
  BY <1>3 DEF vars, LookInv
<1> QED
  BY <1>1, <1>2, <1>3 DEF Next

(* What a container has read of Gold and of Silver is what its statement   *)
(* assumes, unless another publication has ended in the meantime.          *)
THEOREM LookInvariance == Spec => []LookInv
<1>1. Init => LookInv
  BY NotLooking DEF Init, LookInv, Idle
<1> QED
  BY <1>1, NextLookInv, Invariance, PTL DEF Spec

-----------------------------------------------------------------------------
(* Publications implement GoldTable. *)

LEMMA NothingAdded == \A S : EmptyBag (+) SetToBag(S) = SetToBag(S)
  BY DEF EmptyBag, SetToBag, (+)

(* What is asked of the table when a container is about to commit. *)
LEMMA IsAsked ==
  ASSUME NEW j \in Jobs, job[j].pc = "commit"
  PROVE  \E p \in {[strategy |-> job[i].strategy, day |-> job[i].day] :
                   i \in {k \in Jobs : At(k, "commit")}} :
           p.strategy = job[j].strategy /\ p.day = job[j].day
<1> DEFINE p == [strategy |-> job[j].strategy, day |-> job[j].day]
<1>1. p.strategy = job[j].strategy /\ p.day = job[j].day
  OBVIOUS
<1>2. p \in {[strategy |-> job[i].strategy, day |-> job[i].day] :
               i \in {k \in Jobs : At(k, "commit")}}
  BY DEF At
<1> QED
  BY <1>1, <1>2

(* An INSERT whose look is up to date adds rows in the table's columns. *)
LEMMA InsertAppends ==
  ASSUME IInv, LookInv, NEW j \in Jobs, Insert(j), ~job[j].raced
  PROVE  Promised!Publish
<1>1. /\ job[j].pc = "commit" /\ gold # NoTable /\ job[j].strategy = "append"
      /\ job[j].target /\ UpToDate(gold, job[j])
  BY DEF Insert, Inserts, At, LookInv
<1>2. job[j].batch \in SUBSET Promised!Row(gold.cols)
  BY <1>1 DEF UpToDate, Promised!Row
<1>3. Promised!Append
  BY <1>2 DEF Insert, Promised!Append, Promised!(+), Promised!SetToBag, (+), SetToBag
<1> QED
  BY <1>1, <1>3, IsAsked DEF Promised!Publish

(* CREATE OR REPLACE of a whole table, or of one that was missing. *)
LEMMA ReplaceReplaces ==
  ASSUME IInv, LookInv, NEW j \in Jobs, CreateOrReplace(j), ~job[j].raced, ~Keeps(job[j])
  PROVE  Promised!Publish
<1>1. /\ job[j].pc = "commit" /\ UpToDate(gold, job[j]) /\ job[j].cols \in 1..MaxCols
      /\ job[j].strategy \in Strategies
  BY DEF IInv, RecordInv, RecordTypes, CreateOrReplace, At, LookInv
<1>2. job[j].strategy = "replace" \/ gold = NoTable
  BY <1>1 DEF UpToDate, Keeps, CreateOrReplace, Inserts, Strategies
<1>3. job[j].batch \in SUBSET Promised!Row(job[j].cols)
  BY <1>1 DEF UpToDate, Promised!Row
<1>4. gold' = [cols |-> job[j].cols, rows |-> SetToBag(job[j].batch)]
  BY <1>1, NothingAdded DEF UpToDate, CreateOrReplace
<1>5. Promised!Replace
  BY <1>1, <1>3, <1>4 DEF Promised!Replace, Promised!SetToBag, SetToBag
<1> QED
  BY <1>1, <1>2, <1>5, IsAsked DEF Promised!Publish

(* CREATE OR REPLACE with the rows of other days: these are the table's. *)
LEMMA DayIsReplaced ==
  ASSUME IInv, LookInv, NEW j \in Jobs, CreateOrReplace(j), ~job[j].raced, Keeps(job[j])
  PROVE  Promised!Publish
<1>1. /\ job[j].pc = "commit" /\ UpToDate(gold, job[j]) /\ RecordInv(silver, job[j]) /\ TablesT
  BY DEF IInv, CreateOrReplace, At, LookInv
<1>2. /\ gold # NoTable /\ job[j].strategy = "delete_and_insert" /\ job[j].cols = gold.cols
      /\ job[j].base = OthersOf(gold, job[j].day)
  BY <1>1 DEF UpToDate, Keeps
<1>3. job[j].batch \in SUBSET Promised!OfDay(Promised!Row(gold.cols), job[j].day)
  BY <1>1, <1>2 DEF UpToDate, RecordInv, HasRowsToPublish, Promised!OfDay, Promised!Row
<1> DEFINE K == [e \in BagToSet(gold.rows) \ Promised!OfDay(BagToSet(gold.rows), job[j].day)
                   |-> gold.rows[e]]
           R == K (+) SetToBag(job[j].batch)
<1>4. K = job[j].base
  BY <1>2 DEF OthersOf, BagToSet, Promised!OfDay
<1>5. gold' = [cols |-> gold.cols, rows |-> R]
  BY <1>2, <1>4 DEF CreateOrReplace
<1>6. [gold EXCEPT !.rows = R] = [cols |-> gold.cols, rows |-> R]
  <2>1. DOMAIN gold = {"cols", "rows"}
    BY <1>1, <1>2 DEF TablesT
  <2> HIDE DEF R
  <2> QED
    BY <2>1
<1>7. Promised!ReplaceDay(job[j].day)
  BY <1>3, <1>5, <1>6
  DEF Promised!ReplaceDay, Promised!BagToSet, Promised!(+), Promised!SetToBag, BagToSet, (+),
      SetToBag
<1> QED
  BY <1>1, <1>2, <1>7, IsAsked DEF Promised!Publish

(* Every step is a publication of what is asked, of a table that is up to  *)
(* date, or one that was overtaken, or leaves Gold alone.                  *)
LEMMA StepPublishes ==
  ASSUME IInv, LookInv, [Next]_vars
  PROVE  [Promised!Next]_(Promised!vars)
<1>1. ASSUME NEW j \in Jobs, Insert(j) \/ CreateOrReplace(j)
      PROVE  Promised!Next
  <2>1. CASE job[j].raced
    <3>1. gold'.cols \in 1..MaxCols
      <4>1. CASE Insert(j)
        <5>1. DOMAIN gold = {"cols", "rows"} /\ gold.cols \in 1..MaxCols
          BY <4>1 DEF IInv, TablesT, Insert
        <5> QED
          BY <4>1, <5>1 DEF Insert
      <4>2. CASE CreateOrReplace(j)
        BY <4>2 DEF IInv, RecordInv, RecordTypes, CreateOrReplace
      <4> QED
        BY <1>1, <4>1, <4>2
    <3> QED
      BY <2>1, <3>1 DEF Promised!Next, Promised!Raced
  <2>2. CASE ~job[j].raced
    BY <1>1, <2>2, InsertAppends, ReplaceReplaces, DayIsReplaced DEF Promised!Next
  <2> QED
    BY <2>1, <2>2
<1>2. CASE gold' = gold
  BY <1>2 DEF Promised!Next
<1>3. (\E j \in Jobs : Insert(j) \/ CreateOrReplace(j)) \/ gold' = gold
  BY DEF Next, Rebuild, JobStep, Start, ReadColumns, Count, LookTarget, Query, Fail, vars
<1> QED
  BY <1>1, <1>2, <1>3

(* Publications that do not overlap do to the table what was asked: the    *)
(* statements of publish, each on its own snapshot, are one atomic change. *)
THEOREM PublishesAsAsked == Spec => OnePublicationAfterTheOther
<1>1. Init => Promised!Init
  BY DEF Init, Promised!Init, Idle, At
<1>2. IInv /\ LookInv /\ [Next]_vars => [Promised!Next]_(Promised!vars)
  BY StepPublishes
<1> QED
  BY <1>1, <1>2, Invariance, LookInvariance, PTL
  DEF Spec, OnePublicationAfterTheOther, Promised!Spec
=============================================================================
