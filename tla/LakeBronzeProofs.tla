-------------------------- MODULE LakeBronzeProofs --------------------------
(***************************************************************************)
(* Proofs about LakeBronze, for any number of containers and dates and     *)
(* any rows: type correctness; a snapshot has one row per key; it is the   *)
(* promised state of what it was built from; Lake rows leave only by the   *)
(* steps that may take them; and the Lake table is missing only in the     *)
(* middle of a replace or after a loss.                                    *)
(***************************************************************************)
EXTENDS LakeBronze, FunctionTheorems, FiniteSetTheorems, WellFoundedInduction, TLAPS

OneRow(S) == \A x, y \in S : x.key = y.key => x = y

\* Earlier, the snapshot that a run of mode m on date d starts from, Dedups and
\* LatestState, for given tables and metadata.
EarlierIn(br, d) == {e \in Dates : e < d /\ br[e] # {}}
OldIn(br, m, d) ==
  IF m = "full" \/ EarlierIn(br, d) = {} THEN {} ELSE br[Max(EarlierIn(br, d))]
BestOf(mt, S) ==
  {row \in S : mt = "timed" => \A x \in S : x.key = row.key => x.ts <= row.ts}
DedupsOf(mt, S) ==
  IF mt = "none" THEN {S}
  ELSE {T \in SUBSET BestOf(mt, S) :
          KeysOf(T) = KeysOf(S) /\ Cardinality(T) = Cardinality(KeysOf(S))}
Latest(mt, S, new, old) ==
  /\ KeysOf(S) = KeysOf(new \cup old)
  /\ \A s \in S :
       /\ s \in new \cup old
       /\ CASE mt = "timed" -> \A x \in new \cup old : x.key = s.key => x.ts <= s.ts
            [] mt = "none" -> new \cup old \subseteq S
            [] OTHER -> TRUE
       /\ mt # "none" /\ s \notin new =>
            \A n \in new : n.key = s.key => mt = "timed" /\ n.ts < s.ts

-----------------------------------------------------------------------------
(* Max, of the library, is the largest element of a bounded set. *)
LEMMA NatWellFounded == IsWellFoundedOn({ss \in Nat \X Nat : ss[1] < ss[2]}, Nat)
  BY NatLessThanWellFounded DEF OpToRel

LEMMA Largest ==
  ASSUME NEW n \in Nat, NEW E \in SUBSET (0..n), E # {}
  PROVE  Max(E) \in E /\ \A e \in E : e <= Max(E)
<1> DEFINE R == {ss \in Nat \X Nat : ss[1] < ss[2]}
           D == {n - e : e \in E}
<1>1. IsWellFoundedOn(R, Nat)
  BY NatWellFounded
<1>2. D \subseteq Nat /\ D # {}
  <2>1. PICK x \in E : TRUE
    OBVIOUS
  <2>2. n - x \in D
    BY <2>1
  <2>3. \A x2 \in E : n - x2 \in Nat
    OBVIOUS
  <2> QED
    BY <2>2, <2>3
<1> HIDE DEF R
<1>3. PICK m \in D : \A y \in D : <<y, m>> \notin R
  <2> HIDE DEF D
  <2> QED BY <1>1, <1>2, WFMin
<1>4. \A y \in D : ~(y < m)
  BY <1>2, <1>3 DEF R
<1>5. PICK e \in E : m = n - e
  BY <1>3
<1>6. ASSUME NEW x \in E
      PROVE  e >= x
  <2>1. n - x \in D
    OBVIOUS
  <2>2. ~(n - x < n - e)
    BY <1>4, <1>5, <2>1
  <2> HIDE DEF D
  <2> QED
    BY <2>2
<1>7. \E x \in E : \A y \in E : x >= y
  BY <1>6
<1>8. Max(E) = CHOOSE x \in E : \A y \in E : x >= y
  BY DEF Max
<1>9. Max(E) \in E /\ \A x \in E : Max(E) >= x
  BY <1>7, <1>8, Zenon
<1> QED
  BY <1>9

(* The previous snapshot is one of an earlier date. *)
LEMMA PreviousIsEarlier ==
  ASSUME NEW d \in Dates, Earlier(d) # {}
  PROVE  /\ Max(Earlier(d)) \in Earlier(d) /\ Max(Earlier(d)) \in Dates
         /\ Max(Earlier(d)) < d
<1>1. LastDate \in Nat /\ Earlier(d) \in SUBSET (0..LastDate)
  BY BatchesAssumption DEF Earlier, Dates
<1>2. Max(Earlier(d)) \in Earlier(d)
  BY <1>1, Largest
<1> QED
  BY <1>2 DEF Earlier

-----------------------------------------------------------------------------
(* The algorithms of the Bronze pipeline, for all sets of rows. *)

(* Facts about rows and their keys. *)
LEMMA RowsTypes == \A r \in Rows : r.key \in Keys /\ r.ts \in Nat
  BY BatchesAssumption

LEMMA KeysOfIs == \A S, k : k \in KeysOf(S) <=> \E r \in S : r.key = k
  BY DEF KeysOf

(* _dedup leaves one row per key: its rows are as many as their keys. *)
LEMMA DedupsOneRow ==
  ASSUME NEW S \in SUBSET Rows, NEW T \in Dedups(S), meta # "none"
  PROVE  T \subseteq S /\ KeysOf(T) = KeysOf(S) /\ OneRow(T) /\ T \subseteq Best(S)
<1>1. T \subseteq Best(S) /\ KeysOf(T) = KeysOf(S) /\ Cardinality(T) = Cardinality(KeysOf(T))
  BY DEF Dedups
<1>2. T \subseteq S /\ T \in SUBSET Rows
  BY <1>1 DEF Best
<1>3. IsFiniteSet(T)
  BY <1>2, FS_Subset, BatchesAssumption
<1> DEFINE f == [r \in T |-> r.key]
<1>4. f \in [T -> KeysOf(T)] /\ \A k \in KeysOf(T) : \E r \in T : f[r] = k
  BY DEF KeysOf
<1>5. f \in Surjection(T, KeysOf(T))
  <2> HIDE DEF f
  <2> QED
    BY <1>4, Fun_IsSurj
<1>6. f \in Injection(T, KeysOf(T))
  <2> HIDE DEF f
  <2> QED
    BY <1>1, <1>3, <1>5, FS_SurjSameCardinalityImpliesInj
<1>7. \A a, b \in T : f[a] = f[b] => a = b
  <2> HIDE DEF f
  <2> QED
    BY <1>6, Fun_InjectionProperties
<1>8. OneRow(T)
  BY <1>7 DEF OneRow
<1> QED
  BY <1>1, <1>2, <1>8

(* The promised state of a table with keys, and of one without. *)
LEMMA LatestWithKeys ==
  ASSUME NEW S, NEW new, NEW old, meta # "none",
         KeysOf(S) = KeysOf(new \cup old), S \subseteq new \cup old,
         \A s \in S : meta = "timed" =>
            \A x \in new \cup old : x.key = s.key => x.ts <= s.ts,
         \A s \in S : s \notin new =>
            \A n \in new : n.key = s.key => meta = "timed" /\ n.ts < s.ts
  PROVE  LatestState(S, new, old)
<1>1. CASE meta = "timed"
  BY <1>1 DEF LatestState
<1>2. CASE meta # "timed"
  BY <1>2 DEF LatestState
<1> QED
  BY <1>1, <1>2

LEMMA LatestWithoutKeys ==
  ASSUME NEW new, NEW old, meta = "none"
  PROVE  LatestState(new \cup old, new, old)
<1>1. \A s \in new \cup old :
        CASE meta = "timed" -> \A x \in new \cup old : x.key = s.key => x.ts <= s.ts
          [] meta = "none" -> new \cup old \subseteq new \cup old
          [] OTHER -> TRUE
  OBVIOUS
<1> QED
  BY <1>1 DEF LatestState

(* A full run publishes the newest rows of its date. *)
LEMMA DedupIsLatest ==
  ASSUME NEW S \in SUBSET Rows, NEW T \in Dedups(S)
  PROVE  LatestState(T, S, {}) /\ T \in SUBSET Rows /\ (S # {} => T # {})
<1>1. CASE meta = "none"
  <2>1. T = S \cup {} /\ T = S
    BY <1>1 DEF Dedups
  <2> QED
    BY <1>1, <2>1, LatestWithoutKeys
<1>2. CASE meta # "none"
  <2>1. T \subseteq S /\ KeysOf(T) = KeysOf(S) /\ T \subseteq Best(S)
    BY <1>2, DedupsOneRow
  <2>2. S \cup {} = S
    OBVIOUS
  <2>3. \A s \in T : meta = "timed" => \A x \in S \cup {} : x.key = s.key => x.ts <= s.ts
    BY <2>1 DEF Best
  <2>4. S # {} => T # {}
    <3>1. \A r \in S : r.key \in KeysOf(T)
      BY <2>1 DEF KeysOf
    <3> QED
      BY <3>1 DEF KeysOf
  <2>5. /\ KeysOf(T) = KeysOf(S \cup {}) /\ T \subseteq S \cup {}
        /\ \A s \in T : s \notin S =>
             \A n \in S : n.key = s.key => meta = "timed" /\ n.ts < s.ts
    <3>1. KeysOf(S \cup {}) = KeysOf(S)
      BY <2>2, Zenon
    <3> QED
      BY <2>1, <3>1
  <2>6. LatestState(T, S, {})
    BY <1>2, <2>3, <2>5, LatestWithKeys
  <2> QED
    BY <2>1, <2>4, <2>6
<1> QED
  BY <1>1, <1>2

(* The merge of run_delta keeps every key of both sets, in one row each. *)
LEMMA MergedOneRow ==
  ASSUME NEW new \in SUBSET Rows, NEW prev \in SUBSET Rows,
         meta # "none", OneRow(new), OneRow(prev)
  PROVE  /\ OneRow(Merged(new, prev))
         /\ Merged(new, prev) \subseteq new \cup prev
         /\ KeysOf(Merged(new, prev)) = KeysOf(new \cup prev)
<1> DEFINE N == {n \in new : \A p \in prev : p.key = n.key => ~Newer(p, n)}
           P == {p \in prev : \A n \in new : p.key = n.key => Newer(p, n)}
<1>1. Merged(new, prev) = N \cup P
  BY DEF Merged
<1>2. OneRow(N \cup P) /\ N \cup P \subseteq new \cup prev
  BY DEF OneRow
<1>3. ASSUME NEW r \in new
      PROVE  \E s \in N \cup P : s.key = r.key
  <2>1. CASE r \in N
    BY <2>1
  <2>2. CASE r \notin N
    <3>1. PICK p \in prev : p.key = r.key /\ Newer(p, r)
      BY <2>2
    <3>2. \A n \in new : p.key = n.key => n = r
      BY <3>1 DEF OneRow
    <3> QED
      BY <3>1, <3>2
  <2> QED
    BY <2>1, <2>2
<1>4. ASSUME NEW r \in prev
      PROVE  \E s \in N \cup P : s.key = r.key
  <2>1. CASE r \in P
    BY <2>1
  <2>2. CASE r \notin P
    <3>1. PICK n \in new : n.key = r.key
      BY <2>2
    <3> QED
      BY <1>3, <3>1
  <2> QED
    BY <2>1, <2>2
<1>5. KeysOf(N \cup P) = KeysOf(new \cup prev)
  <2>1. \A k \in KeysOf(N \cup P) : k \in KeysOf(new \cup prev)
    BY <1>2, KeysOfIs
  <2>2. \A k \in KeysOf(new \cup prev) : k \in KeysOf(N \cup P)
    BY <1>3, <1>4, KeysOfIs
  <2> QED
    BY <2>1, <2>2
<1> QED
  BY <1>1, <1>2, <1>5

(* A delta run publishes the promised state of its date's rows and of the  *)
(* snapshot before.                                                        *)
LEMMA MergeIsLatest ==
  ASSUME NEW new \in SUBSET Rows, NEW prev \in SUBSET Rows,
         NEW T \in Dedups(new), meta # "none" => OneRow(prev)
  PROVE  LatestState(Merged(T, prev), new, prev)
<1>1. CASE meta = "none"
  <2>1. Merged(T, prev) = new \cup prev
    BY <1>1 DEF Merged, Dedups
  <2> QED
    BY <1>1, <2>1, LatestWithoutKeys
<1>2. CASE meta # "none"
  <2> DEFINE M == Merged(T, prev)
  <2>1. T \subseteq new /\ KeysOf(T) = KeysOf(new) /\ OneRow(T) /\ T \subseteq Best(new)
    BY <1>2, DedupsOneRow
  <2>2. T \in SUBSET Rows
    BY <2>1
  <2>3. M \subseteq T \cup prev /\ KeysOf(M) = KeysOf(T \cup prev)
    BY <1>2, <2>1, <2>2, MergedOneRow
  <2>4. KeysOf(M) = KeysOf(new \cup prev) /\ M \subseteq new \cup prev
    <3>1. KeysOf(T \cup prev) = KeysOf(T) \cup KeysOf(prev)
      BY Zenon DEF KeysOf
    <3>2. KeysOf(new \cup prev) = KeysOf(new) \cup KeysOf(prev)
      BY Zenon DEF KeysOf
    <3> QED
      BY <2>1, <2>3, <3>1, <3>2
  <2>5. \A x \in new : \E t \in T : t.key = x.key /\ (meta = "timed" => x.ts <= t.ts)
    <3> TAKE x \in new
    <3>1. PICK t \in T : t.key = x.key
      BY <2>1, KeysOfIs
    <3> QED
      BY <2>1, <3>1 DEF Best
  <2>6. \A s \in M : \/ s \in T /\ \A p \in prev : p.key = s.key => ~Newer(p, s)
                     \/ s \in prev /\ \A n \in T : s.key = n.key => Newer(s, n)
    BY <1>2 DEF Merged
  <2>7. \A s \in M : meta = "timed" => \A x \in new \cup prev : x.key = s.key => x.ts <= s.ts
    <3> SUFFICES ASSUME NEW s \in M, meta = "timed", NEW x \in new \cup prev, x.key = s.key
                 PROVE  x.ts <= s.ts
      OBVIOUS
    <3>1. x.ts \in Nat /\ s.ts \in Nat
      BY <2>4, RowsTypes
    <3>2. CASE s \in T /\ \A p \in prev : p.key = s.key => ~Newer(p, s)
      <4>1. CASE x \in new
        BY <2>1, <3>2, <4>1 DEF Best
      <4>2. CASE x \in prev
        BY <3>1, <3>2, <4>2 DEF Newer
      <4> QED
        BY <4>1, <4>2
    <3>3. CASE s \in prev /\ \A n \in T : s.key = n.key => Newer(s, n)
      <4>1. CASE x \in new
        <5>1. PICK t \in T : t.key = x.key /\ x.ts <= t.ts
          BY <2>5, <4>1
        <5>2. t.ts \in Nat /\ s.ts > t.ts
          BY <2>2, <3>3, <5>1, RowsTypes DEF Newer
        <5> QED
          BY <3>1, <5>1, <5>2
      <4>2. CASE x \in prev
        BY <1>2, <3>1, <3>3, <4>2 DEF OneRow
      <4> QED
        BY <4>1, <4>2
    <3> QED
      BY <2>6, <3>2, <3>3
  <2>8. \A s \in M : s \notin new =>
          \A n \in new : n.key = s.key => meta = "timed" /\ n.ts < s.ts
    <3> SUFFICES ASSUME NEW s \in M, s \notin new, NEW n \in new, n.key = s.key
                 PROVE  meta = "timed" /\ n.ts < s.ts
      OBVIOUS
    <3>1. s \in prev /\ \A t \in T : s.key = t.key => Newer(s, t)
      BY <2>1, <2>6
    <3>2. PICK t \in T : t.key = n.key /\ (meta = "timed" => n.ts <= t.ts)
      BY <2>5
    <3>3. meta = "timed" /\ s.ts > t.ts
      BY <3>1, <3>2 DEF Newer
    <3>4. n.ts \in Nat /\ t.ts \in Nat /\ s.ts \in Nat
      BY <2>2, <3>1, RowsTypes
    <3> QED
      BY <3>2, <3>3, <3>4
  <2>9. LatestState(M, new, prev)
    <3> HIDE DEF M
    <3> QED
      BY <1>2, <2>4, <2>7, <2>8, LatestWithKeys
  <2> QED
    BY <2>9
<1> QED
  BY <1>1, <1>2

-----------------------------------------------------------------------------
(* The containers' records. *)
JobT == [mode: LakeModes \cup BronzeModes, date: Dates,
         pc: {"idle", "read", "look", "check", "write"},
         rows: SUBSET Rows, exists: BOOLEAN, sound: BOOLEAN]

(* Container i goes on as before, though what it has read may be stale. *)
Kept(i) ==
  /\ job'[i].mode = job[i].mode /\ job'[i].date = job[i].date /\ job'[i].pc = job[i].pc
  /\ job'[i].rows = job[i].rows /\ job'[i].exists = job[i].exists
  /\ job'[i].sound => job[i].sound

(* Container j gets to another place, with some rows, all others go on. *)
Moves(j, m, d, p, R) ==
  /\ job' \in [Jobs -> JobT]
  /\ job'[j].mode = m /\ job'[j].date = d /\ job'[j].pc = p /\ job'[j].rows = R
  /\ \A i \in Jobs \ {j} : Kept(i)

JobsAre == job \in [Jobs -> JobT]

LEMMA IdleTypes == Idle \in JobT
<1>1. 1 \in Dates
  BY BatchesAssumption DEF Dates
<1> QED
  BY <1>1, Zenon DEF Idle, JobT, LakeModes

LEMMA Updated ==
  ASSUME JobsAre, NEW j \in Jobs, NEW r \in JobT, job' = [job EXCEPT ![j] = r]
  PROVE  Moves(j, r.mode, r.date, r.pc, r.rows) /\ job'[j] = r
         /\ \A i \in Jobs \ {j} : job'[i] = job[i]
  BY DEF JobsAre, Moves, Kept

LEMMA StaleKeeps ==
  ASSUME JobsAre, NEW L, NEW B
  PROVE  /\ Stale(L, B) \in [Jobs -> JobT]
         /\ \A i \in Jobs :
              /\ Stale(L, B)[i].mode = job[i].mode /\ Stale(L, B)[i].date = job[i].date
              /\ Stale(L, B)[i].pc = job[i].pc /\ Stale(L, B)[i].rows = job[i].rows
              /\ Stale(L, B)[i].exists = job[i].exists
              /\ Stale(L, B)[i].sound =>
                   job[i].sound /\ ~(Layer(i) = "bronze" /\ job[i].date \in Affected(L, B))
<1> DEFINE c(i) == Layer(i) = "bronze" /\ job[i].date \in Affected(L, B)
           s(i) == [job[i] EXCEPT !.sound = FALSE]
<1>1. ASSUME NEW i \in Jobs
      PROVE  /\ s(i) \in JobT
             /\ s(i).mode = job[i].mode /\ s(i).date = job[i].date /\ s(i).pc = job[i].pc
             /\ s(i).rows = job[i].rows /\ s(i).exists = job[i].exists
             /\ s(i).sound = FALSE
  <2>1. job[i] \in JobT
    BY DEF JobsAre
  <2> QED
    BY <2>1, Zenon DEF JobT
<1>2. Stale(L, B) = [i \in Jobs |-> IF c(i) THEN s(i) ELSE job[i]]
  BY DEF Stale
<1>3. \A i \in Jobs : ~c(i) <=> ~(Layer(i) = "bronze" /\ job[i].date \in Affected(L, B))
  OBVIOUS
<1> HIDE DEF s, c
<1>4. \A i \in Jobs : Stale(L, B)[i] = IF c(i) THEN s(i) ELSE job[i]
  BY <1>2
<1>5. Stale(L, B) \in [Jobs -> JobT]
  BY <1>1, <1>2 DEF JobsAre
<1> QED
  BY <1>1, <1>3, <1>4, <1>5

LEMMA Finished ==
  ASSUME NEW f \in [Jobs -> JobT], NEW j \in Jobs
  PROVE  /\ Finish(f, j) \in [Jobs -> JobT]
         /\ Finish(f, j)[j].pc = "idle" /\ Finish(f, j)[j].rows = {}
         /\ Finish(f, j)[j].mode = f[j].mode /\ Finish(f, j)[j].date = f[j].date
         /\ \A i \in Jobs \ {j} : Finish(f, j)[i] = f[i]
<1> DEFINE q == [Idle EXCEPT !.mode = f[j].mode, !.date = f[j].date]
<1>1. f[j].mode \in LakeModes \cup BronzeModes /\ f[j].date \in Dates
  BY DEF JobT
<1>2. /\ q \in JobT /\ q.mode = f[j].mode /\ q.date = f[j].date /\ q.pc = "idle"
      /\ q.rows = {}
  <2>1. q \in JobT
    BY <1>1, IdleTypes, Zenon DEF JobT
  <2> QED
    BY <2>1 DEF Idle
<1>3. Finish(f, j) = [f EXCEPT ![j] = q]
  BY DEF Finish
<1> HIDE DEF q
<1> QED
  BY <1>2, <1>3

(* A container that ends after a change of partitions: the others notice. *)
LEMMA FinishedStale ==
  ASSUME JobsAre, NEW j \in Jobs, NEW L, NEW B, job' = Finish(Stale(L, B), j)
  PROVE  /\ Moves(j, job[j].mode, job[j].date, "idle", {})
         /\ \A i \in Jobs \ {j} : job'[i].sound =>
              ~(Layer(i) = "bronze" /\ job[i].date \in Affected(L, B))
<1>1. Stale(L, B) \in [Jobs -> JobT]
  BY StaleKeeps
<1> QED
  BY <1>1, StaleKeeps, Finished DEF Moves, Kept

(* What the steps that only concern their own container do with it. *)
LEMMA IngestReads ==
  ASSUME JobsAre, NEW j \in Jobs, IngestRead(j)
  PROVE  \E b \in Batches \ {{}} : b \in SUBSET Rows /\ Moves(j, job[j].mode, job[j].date, "check", b)
<1>1. PICK b \in Batches \ {{}} : job' = [job EXCEPT ![j].rows = b, ![j].pc = "check"]
  BY DEF IngestRead
<1>2. b \in SUBSET Rows
  BY BatchesAssumption
<1> DEFINE q == [job[j] EXCEPT !.rows = b, !.pc = "check"]
<1>3. job' = [job EXCEPT ![j] = q]
  BY <1>1, Zenon DEF JobsAre
<1>4. job[j] \in JobT
  BY DEF JobsAre
<1>5. q \in JobT /\ q.mode = job[j].mode /\ q.date = job[j].date /\ q.pc = "check" /\ q.rows = b
  BY <1>2, <1>4, Zenon DEF JobT
<1> HIDE DEF q
<1>6. Moves(j, q.mode, q.date, q.pc, q.rows)
  BY <1>3, <1>5, Updated
<1>7. Moves(j, job[j].mode, job[j].date, "check", b)
  BY <1>5, <1>6, Zenon
<1> QED
  BY <1>2, <1>7

LEMMA BronzeReads ==
  ASSUME JobsAre, lake \in [Dates -> SUBSET Rows], NEW j \in Jobs, BronzeRead(j)
  PROVE  \E T \in Dedups(lake[job[j].date]) :
           /\ T \in SUBSET Rows /\ T # {}
           /\ Moves(j, job[j].mode, job[j].date, IF job[j].mode = "full" THEN "check" ELSE "look", T)
<1> DEFINE p == IF job[j].mode = "full" THEN "check" ELSE "look"
<1>1. PICK T \in Dedups(lake[job[j].date]) :
        job' = [job EXCEPT ![j].rows = T, ![j].sound = TRUE, ![j].pc = p]
  BY DEF BronzeRead
<1>2. job[j] \in JobT /\ job[j].date \in Dates
  BY DEF JobsAre, JobT
<1>3. lake[job[j].date] \in SUBSET Rows /\ lake[job[j].date] # {}
  BY <1>2 DEF BronzeRead, HasRows
<1>4. T \in SUBSET Rows /\ T # {}
  BY <1>3, DedupIsLatest
<1> DEFINE q == [job[j] EXCEPT !.rows = T, !.sound = TRUE, !.pc = p]
<1>5. job' = [job EXCEPT ![j] = q]
  BY <1>1, Zenon DEF JobsAre
<1>6. p \in {"idle", "read", "look", "check", "write"}
  OBVIOUS
<1> HIDE DEF p
<1>7. q \in JobT /\ q.mode = job[j].mode /\ q.date = job[j].date /\ q.pc = p /\ q.rows = T
  BY <1>2, <1>4, <1>6, Zenon DEF JobT
<1> HIDE DEF q
<1>8. Moves(j, job[j].mode, job[j].date, p, T)
  BY <1>5, <1>7, Updated
<1> QED
  BY <1>4, <1>8 DEF p

LEMMA LookMoves ==
  ASSUME JobsAre, NEW j \in Jobs, LookFails(j)
  PROVE  Moves(j, job[j].mode, job[j].date, "check", job[j].rows) /\ job'[j].sound = FALSE
<1> DEFINE q == [job[j] EXCEPT !.pc = "check", !.sound = FALSE]
<1>1. job' = [job EXCEPT ![j] = q]
  BY Zenon DEF JobsAre, LookFails
<1>2. job[j] \in JobT
  BY DEF JobsAre
<1>3. /\ q \in JobT /\ q.mode = job[j].mode /\ q.date = job[j].date /\ q.pc = "check"
      /\ q.rows = job[j].rows /\ q.sound = FALSE
  BY <1>2, Zenon DEF JobT
<1> HIDE DEF q
<1> QED
  BY <1>1, <1>3, Updated

LEMMA Looks ==
  ASSUME JobsAre, bronze \in [Dates -> SUBSET Rows], NEW j \in Jobs, Look(j)
  PROVE  LET R == IF hms["bronze"] # "ok" \/ Earlier(job[j].date) = {} THEN job[j].rows
                  ELSE Merged(job[j].rows, Previous(job[j].date))
         IN  /\ Moves(j, job[j].mode, job[j].date, "check", R) /\ R \in SUBSET Rows
             /\ job'[j].sound = job[j].sound
<1> DEFINE R == IF hms["bronze"] # "ok" \/ Earlier(job[j].date) = {} THEN job[j].rows
                ELSE Merged(job[j].rows, Previous(job[j].date))
           q == [job[j] EXCEPT !.pc = "check", !.rows = R]
<1>1. job' = [job EXCEPT ![j] = q]
  BY Zenon DEF JobsAre, Look
<1>2. job[j] \in JobT
  BY DEF JobsAre
<1>3. job[j].rows \in SUBSET Rows /\ job[j].date \in Dates
  BY <1>2, Zenon DEF JobT
<1>4. Earlier(job[j].date) # {} => Previous(job[j].date) \in SUBSET Rows
  BY <1>3, PreviousIsEarlier DEF Previous
<1>5. R \in SUBSET Rows
  BY <1>3, <1>4 DEF Merged
<1> HIDE DEF R
<1>6. /\ q \in JobT /\ q.mode = job[j].mode /\ q.date = job[j].date /\ q.pc = "check"
      /\ q.rows = R /\ q.sound = job[j].sound
  BY <1>2, <1>5, Zenon DEF JobT
<1> HIDE DEF q
<1>7. Moves(j, q.mode, q.date, q.pc, q.rows) /\ job'[j] = q
  BY <1>1, <1>6, Updated
<1>8. Moves(j, job[j].mode, job[j].date, "check", R) /\ job'[j].sound = job[j].sound
  BY <1>6, <1>7, Zenon
<1> QED
  BY <1>5, <1>8, Zenon DEF R

LEMMA Checks ==
  ASSUME JobsAre, NEW j \in Jobs, Check(j) \/ CheckStale(j)
  PROVE  Moves(j, job[j].mode, job[j].date, "write", job[j].rows)
         /\ job'[j].sound = job[j].sound
<1>1. job[j] \in JobT
  BY DEF JobsAre
<1>2. PICK e \in BOOLEAN : job' = [job EXCEPT ![j].exists = e, ![j].pc = "write"]
  <2>1. (hms[Layer(j)] = "ok") \in BOOLEAN
    OBVIOUS
  <2> QED
    BY <2>1, Zenon DEF Check, CheckStale
<1> DEFINE q == [job[j] EXCEPT !.exists = e, !.pc = "write"]
<1>3. job' = [job EXCEPT ![j] = q]
  BY <1>2, Zenon DEF JobsAre
<1>4. /\ q \in JobT /\ q.mode = job[j].mode /\ q.date = job[j].date /\ q.pc = "write"
      /\ q.rows = job[j].rows /\ q.sound = job[j].sound
  BY <1>1, Zenon DEF JobT
<1> HIDE DEF q
<1>5. Moves(j, q.mode, q.date, q.pc, q.rows) /\ job'[j] = q
  BY <1>3, <1>4, Updated
<1> QED
  BY <1>4, <1>5, Zenon

LEMMA Drops ==
  ASSUME JobsAre, NEW j \in Jobs, LakeDrop(j)
  PROVE  /\ Moves(j, job[j].mode, job[j].date, job[j].pc, job[j].rows)
         /\ job'[j].exists = FALSE
         /\ \/ UNCHANGED <<hms, lake, current>>
            \/ /\ Drop("lake") /\ lake' = None /\ current' = {}
               /\ \A i \in Jobs \ {j} : job'[i].sound =>
                    ~(Layer(i) = "bronze" /\ job[i].date \in Affected(Dates, {}))
<1>1. PICK f \in [Jobs -> JobT] :
        /\ job' = [f EXCEPT ![j].exists = FALSE]
        /\ \/ f = job /\ UNCHANGED <<hms, lake, current>>
           \/ f = Stale(Dates, {}) /\ Drop("lake") /\ lake' = None /\ current' = {}
  BY StaleKeeps, Zenon DEF LakeDrop, JobsAre
<1>2. /\ f[j].mode = job[j].mode /\ f[j].date = job[j].date /\ f[j].pc = job[j].pc
      /\ f[j].rows = job[j].rows
      /\ \A i \in Jobs : /\ f[i].mode = job[i].mode /\ f[i].date = job[i].date
                         /\ f[i].pc = job[i].pc /\ f[i].rows = job[i].rows
                         /\ f[i].exists = job[i].exists
                         /\ f[i].sound => job[i].sound
  BY <1>1, StaleKeeps
<1> DEFINE q == [f[j] EXCEPT !.exists = FALSE]
<1>3. job' = [f EXCEPT ![j] = q]
  BY <1>1, Zenon
<1>4. /\ q \in JobT /\ q.mode = f[j].mode /\ q.date = f[j].date /\ q.pc = f[j].pc
      /\ q.rows = f[j].rows /\ q.exists = FALSE
  BY Zenon DEF JobT
<1> HIDE DEF q
<1>5. job' \in [Jobs -> JobT] /\ job'[j] = q /\ \A i \in Jobs \ {j} : job'[i] = f[i]
  BY <1>3, <1>4
<1>6. Moves(j, job[j].mode, job[j].date, job[j].pc, job[j].rows)
  <2>1. \A i \in Jobs \ {j} : Kept(i)
    BY <1>2, <1>5 DEF Kept
  <2>2. /\ job'[j].mode = job[j].mode /\ job'[j].date = job[j].date
        /\ job'[j].pc = job[j].pc /\ job'[j].rows = job[j].rows
    BY <1>2, <1>4, <1>5
  <2> QED
    BY <1>5, <2>1, <2>2 DEF Moves
<1>7. CASE f = job /\ UNCHANGED <<hms, lake, current>>
  BY <1>4, <1>5, <1>6, <1>7
<1>8. CASE f = Stale(Dates, {}) /\ Drop("lake") /\ lake' = None /\ current' = {}
  <2>1. \A i \in Jobs \ {j} : job'[i].sound =>
          ~(Layer(i) = "bronze" /\ job[i].date \in Affected(Dates, {}))
    BY <1>5, <1>8, StaleKeeps
  <2> QED
    BY <1>4, <1>5, <1>6, <1>8, <2>1
<1> QED
  BY <1>1, <1>7, <1>8

LEMMA Starts ==
  ASSUME JobsAre, NEW j \in Jobs, Start(j)
  PROVE  \E m \in LakeModes \cup BronzeModes, d \in Dates : Moves(j, m, d, "read", {})
<1>1. PICK m \in LakeModes \cup BronzeModes, d \in Dates :
        job' = [job EXCEPT ![j] = [Idle EXCEPT !.mode = m, !.date = d, !.pc = "read"]]
  BY DEF Start
<1> DEFINE q == [Idle EXCEPT !.mode = m, !.date = d, !.pc = "read"]
<1>2. q \in JobT
  BY IdleTypes, Zenon DEF JobT
<1>3. q.mode = m /\ q.date = d /\ q.pc = "read" /\ q.rows = {}
  BY DEF Idle
<1>4. job' = [job EXCEPT ![j] = q]
  BY <1>1
<1> HIDE DEF q
<1>5. Moves(j, q.mode, q.date, q.pc, q.rows)
  BY <1>2, <1>4, Updated
<1>6. Moves(j, m, d, "read", {})
  BY <1>3, <1>5, Zenon
<1> QED
  BY <1>6

LEMMA Fails ==
  ASSUME JobsAre, NEW j \in Jobs, Fail(j)
  PROVE  Moves(j, job[j].mode, job[j].date, "idle", {})
  BY Finished DEF Fail, JobsAre, Moves, Kept

-----------------------------------------------------------------------------
(* The inductive invariant. *)

\* The containers have rows to write when they look for their table, a
\* delta run alone looks at Bronze, and a stale entry of the Lake is a loss.
Types ==
  /\ TypeOK /\ JobsAre
  /\ \A j \in Jobs : At(j, "look") => job[j].rows # {} /\ job[j].mode = "delta"
  /\ hms["lake"] = "stale" => lost

\* What a Bronze container is about to write has one row per key, ...
JobsHaveOneRow ==
  meta # "none" =>
    \A j \in Jobs : Layer(j) = "bronze" /\ ~At(j, "idle") => OneRow(job[j].rows)

\* ... and is what its snapshot is to be, while its sources are as it read them.
RecordIsSound(r, lk, br, mt) ==
  r.mode \notin LakeModes /\ r.sound =>
    /\ r.pc = "look" => r.rows \in DedupsOf(mt, lk[r.date])
    /\ r.pc \in {"check", "write"} =>
         Latest(mt, r.rows, lk[r.date], OldIn(br, r.mode, r.date))

JobsAreSound == \A j \in Jobs : RecordIsSound(job[j], lake, bronze, meta)

SnapshotsIn(lk, br, b, C, mt) ==
  \A d \in C : Latest(mt, br[d], lk[d], OldIn(br, b[d], d))

IInv ==
  Types /\ JobsHaveOneRow /\ OneRowPerKey /\ JobsAreSound /\ SnapshotsAreLatestState
    /\ LakeGoneOnlyInReplace

LEMMA InitTypes == Init => Types
<1> SUFFICES ASSUME Init PROVE Types
  OBVIOUS
<1>1. Idle \in JobT /\ job \in [Jobs -> JobT]
  BY IdleTypes DEF Init
<1>2. \A j \in Jobs : job[j].pc = "idle"
  BY DEF Init, Idle
<1>3. runs \in 0..MaxRuns
  BY BatchesAssumption DEF Init
<1>4. hms \in [{"lake", "bronze"} -> {"absent", "ok", "stale"}] /\ hms["lake"] = "absent"
  BY DEF Init
<1>5. None \in [Dates -> SUBSET Rows]
  BY DEF None
<1> QED
  BY <1>1, <1>2, <1>3, <1>4, <1>5 DEF Init, Types, TypeOK, JobsAre, JobT, At

(* One container has moved: what TypeOK says of all is true again. *)
LEMMA JobsTypes ==
  ASSUME Types, NEW j \in Jobs, NEW m, NEW d, NEW p, NEW R, Moves(j, m, d, p, R),
         p \in {"check", "write"} => R # {},
         p = "look" => R # {} /\ m = "delta"
  PROVE  /\ JobsAre'
         /\ \A i \in Jobs : job'[i] \in JobT
         /\ \A i \in Jobs : (At(i, "check") \/ At(i, "write"))' => job'[i].rows # {}
         /\ \A i \in Jobs : At(i, "look")' => job'[i].rows # {} /\ job'[i].mode = "delta"
<1>1. job' \in [Jobs -> JobT]
  BY DEF Moves
<1>2. \A i \in Jobs : job'[i] \in JobT
  BY <1>1
<1>3. ASSUME NEW i \in Jobs, i # j
      PROVE  /\ job'[i].pc = job[i].pc /\ job'[i].rows = job[i].rows /\ job'[i].mode = job[i].mode
             /\ job[i].pc \in {"check", "write"} => job[i].rows # {}
             /\ job[i].pc = "look" => job[i].rows # {} /\ job[i].mode = "delta"
  BY <1>3 DEF Moves, Kept, Types, TypeOK, At
<1>4. job'[j].pc = p /\ job'[j].rows = R /\ job'[j].mode = m
  BY DEF Moves
<1> QED
  BY <1>1, <1>2, <1>3, <1>4 DEF JobsAre, At

(* The parts of TypeOK that speak of no container. *)
TablesT ==
  /\ meta \in {"timed", "keyed", "none"}
  /\ hms \in [{"lake", "bronze"} -> {"absent", "ok", "stale"}]
  /\ lake \in [Dates -> SUBSET Rows] /\ bronze \in [Dates -> SUBSET Rows]
  /\ runs \in 0..MaxRuns
  /\ by \in [Dates -> BronzeModes \cup {"none"}]
  /\ current \subseteq Dates /\ lost \in BOOLEAN
  /\ hms["lake"] # "ok" => lake = None
  /\ hms["bronze"] # "ok" => bronze = None
  /\ hms["lake"] = "stale" => lost

LEMMA TypesParts ==
  Types <=> /\ TablesT /\ JobsAre
            /\ \A i \in Jobs : job[i] \in JobT
            /\ \A i \in Jobs : At(i, "check") \/ At(i, "write") => job[i].rows # {}
            /\ \A i \in Jobs : At(i, "look") => job[i].rows # {} /\ job[i].mode = "delta"
  BY DEF Types, TypeOK, TablesT, JobT

LEMMA TypesPartsPrimed ==
  ASSUME TablesT', JobsAre',
         \A i \in Jobs : job'[i] \in JobT,
         \A i \in Jobs : (At(i, "check") \/ At(i, "write"))' => job'[i].rows # {},
         \A i \in Jobs : At(i, "look")' => job'[i].rows # {} /\ job'[i].mode = "delta"
  PROVE  Types'
  BY DEF Types, TypeOK, TablesT, JobT

(* The tables of a step that only its container and the counts feel. *)
LEMMA TablesKept ==
  ASSUME TablesT, UNCHANGED <<meta, dataVars, by, current>>, lost => lost',
         lost' \in BOOLEAN, runs' \in 0..MaxRuns
  PROVE  TablesT'
  BY DEF TablesT, dataVars

LEMMA TablesOfJobStep ==
  ASSUME Types, NEW j \in Jobs, JobStep(j)
  PROVE  TablesT'
<1>1. TablesT /\ job[j] \in JobT
  BY TypesParts
<1>2. /\ job[j].date \in Dates /\ job[j].rows \in SUBSET Rows
      /\ job[j].mode \in LakeModes \cup BronzeModes /\ Layer(j) \in {"lake", "bronze"}
      /\ Layer(j) = "bronze" => job[j].mode \in BronzeModes
  BY <1>1, Zenon DEF JobT, Layer
<1>3. None \in [Dates -> SUBSET Rows]
  BY DEF None
<1>4. CASE IngestRead(j) \/ BronzeRead(j) \/ Look(j) \/ LookFails(j) \/ Check(j)
  BY <1>1, <1>4, TablesKept DEF IngestRead, BronzeRead, Look, LookFails, Check, TablesT
<1>5. CASE CheckStale(j)
  BY <1>1, <1>2, <1>5 DEF CheckStale, Drop, TablesT
<1>6. CASE LakeDrop(j)
  BY <1>1, <1>3, <1>6 DEF LakeDrop, Drop, TablesT
<1>7. CASE LakeWrite(j)
  BY <1>1, <1>2, <1>7 DEF LakeWrite, LakeAfter, TablesT
<1>8. CASE LakeCreate(j)
  BY <1>1, <1>2, <1>3, <1>8 DEF LakeCreate, TablesT
<1>9. CASE BronzeWrite(j)
  BY <1>1, <1>2, <1>9 DEF BronzeWrite, BronzeAfter, Written, TablesT
<1>10. CASE BronzeCreate(j)
  BY <1>1, <1>2, <1>3, <1>10 DEF BronzeCreate, Written, TablesT
<1>11. CASE Start(j)
  <2>1. runs' \in 0..MaxRuns
    BY <1>1, <1>11, BatchesAssumption DEF Start, TablesT
  <2> QED
    BY <1>1, <1>11, <2>1, TablesKept DEF Start, TablesT
<1>12. CASE Fail(j)
  <2>1. runs' \in 0..MaxRuns /\ lost' \in BOOLEAN /\ (lost => lost')
    BY <1>1, <1>12 DEF Fail, TablesT
  <2> QED
    BY <1>1, <1>12, <2>1, TablesKept DEF Fail
<1> QED
  BY <1>4, <1>5, <1>6, <1>7, <1>8, <1>9, <1>10, <1>11, <1>12 DEF JobStep

-----------------------------------------------------------------------------
(* Types, step by step. *)

LEMMA MergedNotEmpty ==
  ASSUME NEW new \in SUBSET Rows, NEW prev \in SUBSET Rows, new # {},
         meta # "none" => OneRow(new) /\ OneRow(prev)
  PROVE  Merged(new, prev) # {}
<1>1. CASE meta = "none"
  BY <1>1 DEF Merged
<1>2. CASE meta # "none"
  <2>1. KeysOf(Merged(new, prev)) = KeysOf(new \cup prev)
    BY <1>2, MergedOneRow
  <2>2. \A r \in new : r.key \in KeysOf(Merged(new, prev))
    BY <2>1 DEF KeysOf
  <2> QED
    BY <2>2 DEF KeysOf
<1> QED
  BY <1>1, <1>2

(* What a delta run finds before it: rows, one per key. *)
LEMMA PreviousOneRow ==
  ASSUME Types, OneRowPerKey, NEW d \in Dates, Earlier(d) # {}
  PROVE  Previous(d) \in SUBSET Rows /\ (meta # "none" => OneRow(Previous(d)))
<1>1. Max(Earlier(d)) \in Dates /\ Previous(d) = bronze[Max(Earlier(d))]
  BY PreviousIsEarlier DEF Previous
<1> QED
  BY <1>1 DEF Types, TypeOK, OneRowPerKey, OneRow

(* The commits, and what the other containers then know. *)
LEMMA LakeWrites ==
  ASSUME JobsAre, NEW j \in Jobs, LakeWrite(j)
  PROVE  /\ Moves(j, job[j].mode, job[j].date, "idle", {})
         /\ \A i \in Jobs \ {j} : job'[i].sound =>
              ~(Layer(i) = "bronze" /\ job[i].date = job[j].date)
<1>1. job' = Finish(Stale({job[j].date}, {}), j)
  BY DEF LakeWrite
<1>2. /\ Moves(j, job[j].mode, job[j].date, "idle", {})
      /\ \A i \in Jobs \ {j} : job'[i].sound =>
           ~(Layer(i) = "bronze" /\ job[i].date \in Affected({job[j].date}, {}))
  BY <1>1, FinishedStale
<1>3. \A i \in Jobs : job[i].date \in Dates
  BY DEF JobsAre, JobT
<1> QED
  BY <1>2, <1>3 DEF Affected

LEMMA LakeCreates ==
  ASSUME JobsAre, NEW j \in Jobs, LakeCreate(j)
  PROVE  /\ Moves(j, job[j].mode, job[j].date, "idle", {})
         /\ \A i \in Jobs \ {j} : Layer(i) = "bronze" => ~job'[i].sound
<1>1. job' = Finish(Stale(Dates, {}), j)
  BY DEF LakeCreate
<1>2. /\ Moves(j, job[j].mode, job[j].date, "idle", {})
      /\ \A i \in Jobs \ {j} : job'[i].sound =>
           ~(Layer(i) = "bronze" /\ job[i].date \in Affected(Dates, {}))
  BY <1>1, FinishedStale
<1>3. \A i \in Jobs : job[i].date \in Dates
  BY DEF JobsAre, JobT
<1> QED
  BY <1>2, <1>3 DEF Affected

LEMMA BronzeCommits ==
  ASSUME JobsAre, NEW j \in Jobs, BronzeWrite(j) \/ BronzeCreate(j)
  PROVE  /\ Moves(j, job[j].mode, job[j].date, "idle", {})
         /\ \A i \in Jobs \ {j} : job'[i].sound =>
              ~(Layer(i) = "bronze" /\ job[j].date < job[i].date)
<1>1. job' = Finish(Stale({}, {job[j].date}), j)
  BY DEF BronzeWrite, BronzeCreate, Written
<1>2. /\ Moves(j, job[j].mode, job[j].date, "idle", {})
      /\ \A i \in Jobs \ {j} : job'[i].sound =>
           ~(Layer(i) = "bronze" /\ job[i].date \in Affected({}, {job[j].date}))
  BY <1>1, FinishedStale
<1>3. \A i \in Jobs : job[i].date \in Dates
  BY DEF JobsAre, JobT
<1> QED
  BY <1>2, <1>3 DEF Affected

LEMMA JobStepTypes ==
  ASSUME Types, JobsHaveOneRow, OneRowPerKey, NEW j \in Jobs, JobStep(j)
  PROVE  Types'
<1>1. TablesT /\ JobsAre /\ job[j] \in JobT
  BY TypesParts
<1>2. lake \in [Dates -> SUBSET Rows] /\ bronze \in [Dates -> SUBSET Rows]
  BY <1>1 DEF TablesT
<1>3. /\ job[j].rows \in SUBSET Rows /\ job[j].mode \in LakeModes \cup BronzeModes
      /\ job[j].date \in Dates
  BY <1>1, Zenon DEF JobT
<1>4. /\ At(j, "look") => job[j].rows # {} /\ job[j].mode = "delta"
      /\ At(j, "check") \/ At(j, "write") => job[j].rows # {}
  BY TypesParts
<1>5. \E m, d, p, R : /\ Moves(j, m, d, p, R)
                      /\ p \in {"check", "write"} => R # {}
                      /\ p = "look" => R # {} /\ m = "delta"
  <2>1. CASE IngestRead(j)
    BY <1>1, <2>1, IngestReads
  <2>2. CASE BronzeRead(j)
    <3>1. PICK T \in Dedups(lake[job[j].date]) :
            /\ T \in SUBSET Rows /\ T # {}
            /\ Moves(j, job[j].mode, job[j].date, IF job[j].mode = "full" THEN "check" ELSE "look", T)
      BY <1>1, <1>2, <2>2, BronzeReads
    <3>2. job[j].mode \in BronzeModes
      BY <1>3, <2>2 DEF BronzeRead, Layer
    <3> QED
      BY <3>1, <3>2 DEF BronzeModes
  <2>3. CASE Look(j)
    <3> DEFINE R == IF hms["bronze"] # "ok" \/ Earlier(job[j].date) = {} THEN job[j].rows
                    ELSE Merged(job[j].rows, Previous(job[j].date))
    <3>1. Moves(j, job[j].mode, job[j].date, "check", R)
      BY <1>1, <1>2, <2>3, Looks
    <3>2. job[j].rows # {} /\ At(j, "look") /\ job[j].mode = "delta" /\ Layer(j) = "bronze"
      BY <1>4, <2>3 DEF Look, Layer, LakeModes
    <3>3. meta # "none" => OneRow(job[j].rows)
      BY <3>2 DEF JobsHaveOneRow, At
    <3>4. R # {}
      BY <1>3, <3>2, <3>3, MergedNotEmpty, PreviousOneRow
    <3> QED
      BY <3>1, <3>4
  <2>4. CASE LookFails(j)
    BY <1>1, <1>4, <2>4, LookMoves DEF LookFails
  <2>5. CASE Check(j) \/ CheckStale(j)
    BY <1>1, <1>4, <2>5, Checks DEF Check, CheckStale
  <2>6. CASE LakeDrop(j)
    BY <1>1, <1>4, <2>6, Drops DEF LakeDrop, At
  <2>7. CASE LakeWrite(j)
    BY <1>1, <2>7, LakeWrites
  <2>8. CASE LakeCreate(j)
    BY <1>1, <2>8, LakeCreates
  <2>9. CASE BronzeWrite(j) \/ BronzeCreate(j)
    BY <1>1, <2>9, BronzeCommits
  <2>10. CASE Start(j)
    BY <1>1, <2>10, Starts
  <2>11. CASE Fail(j)
    BY <1>1, <2>11, Fails
  <2> QED
    BY <2>1, <2>2, <2>3, <2>4, <2>5, <2>6, <2>7, <2>8, <2>9, <2>10, <2>11 DEF JobStep
<1>6. TablesT'
  BY TablesOfJobStep
<1>7. PICK m, d, p, R : /\ Moves(j, m, d, p, R)
                        /\ p \in {"check", "write"} => R # {}
                        /\ p = "look" => R # {} /\ m = "delta"
  BY <1>5
<1>8. /\ JobsAre'
      /\ \A i \in Jobs : job'[i] \in JobT
      /\ \A i \in Jobs : (At(i, "check") \/ At(i, "write"))' => job'[i].rows # {}
      /\ \A i \in Jobs : At(i, "look")' => job'[i].rows # {} /\ job'[i].mode = "delta"
  BY <1>7, JobsTypes
<1> QED
  BY <1>6, <1>8, TypesPartsPrimed

LEMMA LoseTypes ==
  ASSUME Types, NEW l \in {"lake", "bronze"}, LoseMetadata(l)
  PROVE  Types' /\ \A i \in Jobs : Kept(i)
<1>1. TablesT /\ JobsAre
  BY TypesParts
<1>2. None \in [Dates -> SUBSET Rows]
  BY DEF None
<1>3. TablesT'
  <2>1. CASE l = "lake"
    BY <1>1, <1>2, <2>1 DEF LoseMetadata, TablesT
  <2>2. CASE l = "bronze"
    BY <1>1, <1>2, <2>2 DEF LoseMetadata, TablesT
  <2> QED
    BY <2>1, <2>2
<1>4. PICK L, B : job' = Stale(L, B)
  BY DEF LoseMetadata
<1>5. job' \in [Jobs -> JobT] /\ \A i \in Jobs : Kept(i)
  BY <1>1, <1>4, StaleKeeps DEF Kept
<1>6. /\ JobsAre' /\ \A i \in Jobs : job'[i] \in JobT
      /\ \A i \in Jobs : (At(i, "check") \/ At(i, "write"))' => job'[i].rows # {}
      /\ \A i \in Jobs : At(i, "look")' => job'[i].rows # {} /\ job'[i].mode = "delta"
  BY <1>5, TypesParts DEF JobsAre, At, Kept
<1> QED
  BY <1>3, <1>5, <1>6, TypesPartsPrimed

-----------------------------------------------------------------------------
(* One row per key: in what a container is to write, and in the snapshots. *)
LEMMA OneRowKept ==
  ASSUME Types, JobsHaveOneRow, OneRowPerKey, NEW j \in Jobs, JobStep(j)
  PROVE  JobsHaveOneRow' /\ OneRowPerKey'
<1>1. TablesT /\ JobsAre /\ job[j] \in JobT
  BY TypesParts
<1>2. lake \in [Dates -> SUBSET Rows] /\ bronze \in [Dates -> SUBSET Rows] /\ meta' = meta
  BY <1>1 DEF TablesT, JobStep, IngestRead, BronzeRead, Look, LookFails, Check, CheckStale,
     LakeDrop, LakeWrite, LakeCreate, BronzeWrite, BronzeCreate, Start, Fail
<1>3. /\ job[j].rows \in SUBSET Rows /\ job[j].mode \in LakeModes \cup BronzeModes
      /\ job[j].date \in Dates /\ (Layer(j) = "bronze" <=> job[j].mode \notin LakeModes)
      /\ Layer(j) = "bronze" /\ ~At(j, "idle") /\ meta # "none" => OneRow(job[j].rows)
  <2>1. /\ job[j].rows \in SUBSET Rows /\ job[j].mode \in LakeModes \cup BronzeModes
        /\ job[j].date \in Dates
    BY <1>1, Zenon DEF JobT
  <2> QED
    BY <2>1 DEF Layer, JobsHaveOneRow
<1>4. \E m, d, p, R : /\ Moves(j, m, d, p, R)
                      /\ meta # "none" /\ m \notin LakeModes /\ p # "idle" => OneRow(R)
  <2>0. OneRow({})
    BY DEF OneRow
  <2>1. CASE IngestRead(j)
    BY <1>1, <1>3, <2>1, IngestReads DEF IngestRead
  <2>2. CASE BronzeRead(j)
    <3>1. PICK T \in Dedups(lake[job[j].date]) :
            Moves(j, job[j].mode, job[j].date, IF job[j].mode = "full" THEN "check" ELSE "look", T)
      BY <1>1, <1>2, <2>2, BronzeReads
    <3>2. meta # "none" => OneRow(T)
      BY <1>2, <1>3, DedupsOneRow
    <3> QED
      BY <3>1, <3>2
  <2>3. CASE Look(j)
    <3> DEFINE R == IF hms["bronze"] # "ok" \/ Earlier(job[j].date) = {} THEN job[j].rows
                    ELSE Merged(job[j].rows, Previous(job[j].date))
    <3>1. Moves(j, job[j].mode, job[j].date, "check", R)
      BY <1>1, <1>2, <2>3, Looks
    <3>2. job[j].mode \notin LakeModes /\ ~At(j, "idle")
      BY <2>3, TypesParts DEF Look, At, LakeModes
    <3>3. meta # "none" => OneRow(R)
      BY <1>3, <3>2, MergedOneRow, PreviousOneRow
    <3> QED
      BY <3>1, <3>3
  <2>4. CASE LookFails(j)
    BY <1>1, <1>3, <2>4, LookMoves DEF LookFails, At
  <2>5. CASE Check(j) \/ CheckStale(j)
    BY <1>1, <1>3, <2>5, Checks DEF Check, CheckStale, At
  <2>6. CASE LakeDrop(j)
    BY <1>1, <1>3, <2>6, Drops DEF LakeDrop, At
  <2>7. CASE LakeWrite(j)
    BY <1>1, <2>7, LakeWrites
  <2>8. CASE LakeCreate(j)
    BY <1>1, <2>8, LakeCreates
  <2>9. CASE BronzeWrite(j) \/ BronzeCreate(j)
    BY <1>1, <2>9, BronzeCommits
  <2>10. CASE Start(j)
    BY <1>1, <2>0, <2>10, Starts
  <2>11. CASE Fail(j)
    BY <1>1, <2>11, Fails
  <2> QED
    BY <2>1, <2>2, <2>3, <2>4, <2>5, <2>6, <2>7, <2>8, <2>9, <2>10, <2>11 DEF JobStep
<1>5. JobsHaveOneRow'
  <2>1. PICK m, d, p, R : /\ Moves(j, m, d, p, R)
                          /\ meta # "none" /\ m \notin LakeModes /\ p # "idle" => OneRow(R)
    BY <1>4
  <2>2. SUFFICES ASSUME meta # "none", NEW i \in Jobs, job'[i].mode \notin LakeModes,
                        job'[i].pc # "idle"
                 PROVE  OneRow(job'[i].rows)
    BY <1>2 DEF JobsHaveOneRow, Layer, At
  <2>3. CASE i = j
    BY <2>1, <2>2, <2>3 DEF Moves, OneRow
  <2>4. CASE i # j
    BY <2>1, <2>2, <2>4 DEF Moves, Kept, JobsHaveOneRow, Layer, At, OneRow
  <2> QED
    BY <2>3, <2>4
<1>6. OneRowPerKey'
  <2>1. CASE bronze' = bronze
    BY <1>2, <2>1 DEF OneRowPerKey
  <2>2. CASE BronzeWrite(j) \/ BronzeCreate(j)
    <3>1. meta # "none" => OneRow(job[j].rows)
      BY <1>3, <2>2 DEF BronzeWrite, BronzeCreate, At
    <3>2. \A d \in Dates : bronze'[d] \in {bronze[d], {}, job[j].rows}
      BY <1>2, <1>3, <2>2 DEF BronzeWrite, BronzeCreate, BronzeAfter, None
    <3> QED
      BY <1>2, <3>1, <3>2 DEF OneRowPerKey, OneRow
  <2> QED
    BY <2>1, <2>2 DEF JobStep, IngestRead, BronzeRead, Look, LookFails, Check, CheckStale,
       LakeDrop, LakeWrite, LakeCreate, Start, Fail, dataVars
<1> QED
  BY <1>5, <1>6

-----------------------------------------------------------------------------
(* The Lake table is missing only in a replace, or after a loss. *)
LEMMA LakeGoneKept ==
  ASSUME Types, LakeGoneOnlyInReplace, NEW j \in Jobs, JobStep(j)
  PROVE  LakeGoneOnlyInReplace'
<1>1. TablesT /\ JobsAre
  BY TypesParts
<1> USE DEF LakeGoneOnlyInReplace
<1>2. CASE UNCHANGED <<hms, lost>> /\ \E m, d, p, R : Moves(j, m, d, p, R)
           /\ (At(j, "write") => m = job[j].mode /\ p = "write")
  <2>1. PICK m, d, p, R : Moves(j, m, d, p, R) /\ (At(j, "write") => m = job[j].mode /\ p = "write")
    BY <1>2
  <2>2. \A i \in Jobs : At(i, "write") => job'[i].pc = "write" /\ job'[i].mode = job[i].mode
    BY <2>1 DEF Moves, Kept, At
  <2> QED
    BY <1>2, <2>2 DEF At
<1>3. CASE IngestRead(j) \/ Look(j) \/ LookFails(j) \/ BronzeRead(j) \/ Check(j) \/ Start(j)
  <2>1. UNCHANGED <<hms, lost>> /\ ~At(j, "write")
    BY <1>3 DEF IngestRead, Look, LookFails, BronzeRead, Check, Start, dataVars, At
  <2>2. \E m, d, p, R : Moves(j, m, d, p, R)
    BY <1>1, <1>3, IngestReads, Looks, LookMoves, BronzeReads, Checks, Starts DEF TablesT
  <2> QED
    BY <1>2, <2>1, <2>2
<1>4. CASE CheckStale(j)
  <2>1. Moves(j, job[j].mode, job[j].date, "write", job[j].rows) /\ lost' = lost
    BY <1>1, <1>4, Checks DEF CheckStale
  <2>2. hms'["lake"] = hms["lake"] \/ lost
    BY <1>1, <1>4 DEF CheckStale, Drop, TablesT
  <2>3. \A i \in Jobs : At(i, "write") => job'[i].pc = "write" /\ job'[i].mode = job[i].mode
    BY <2>1, <1>4 DEF Moves, Kept, At, CheckStale
  <2> QED
    BY <2>1, <2>2, <2>3 DEF At
<1>5. CASE LakeDrop(j)
  <2>1. job'[j].pc = "write" /\ job'[j].mode = "replace"
    BY <1>1, <1>5, Drops DEF LakeDrop, DropsFirst, At, Moves
  <2> QED
    BY <2>1 DEF At
<1>6. CASE LakeWrite(j) \/ LakeCreate(j)
  BY <1>1, <1>6 DEF LakeWrite, LakeCreate, TablesT
<1>7. CASE BronzeWrite(j) \/ BronzeCreate(j)
  <2>1. Moves(j, job[j].mode, job[j].date, "idle", {}) /\ Layer(j) = "bronze"
    BY <1>1, <1>7, BronzeCommits DEF BronzeWrite, BronzeCreate
  <2>2. hms'["lake"] = hms["lake"] /\ lost' = lost /\ job[j].mode # "replace"
    BY <1>1, <1>7, <2>1 DEF BronzeWrite, BronzeCreate, TablesT, Layer, LakeModes
  <2>3. \A i \in Jobs \ {j} : At(i, "write") => job'[i].pc = "write" /\ job'[i].mode = job[i].mode
    BY <2>1 DEF Moves, Kept, At
  <2> QED
    BY <2>2, <2>3 DEF At
<1>8. CASE Fail(j)
  <2>1. Moves(j, job[j].mode, job[j].date, "idle", {}) /\ hms' = hms
    BY <1>1, <1>8, Fails DEF Fail, dataVars
  <2>2. \A i \in Jobs \ {j} : At(i, "write") => job'[i].pc = "write" /\ job'[i].mode = job[i].mode
    BY <2>1 DEF Moves, Kept, At
  <2> QED
    BY <1>8, <2>1, <2>2 DEF Fail, At
<1> QED
  BY <1>3, <1>4, <1>5, <1>6, <1>7, <1>8 DEF JobStep

-----------------------------------------------------------------------------
(* The promised state. *)

LEMMA Abbreviations ==
  /\ \A S, new, old : LatestState(S, new, old) <=> Latest(meta, S, new, old)
  /\ \A S : Dedups(S) = DedupsOf(meta, S)
  /\ \A d : Earlier(d) = EarlierIn(bronze, d)
  /\ SnapshotsAreLatestState <=> SnapshotsIn(lake, bronze, by, current, meta)
<1>1. \A S, new, old : LatestState(S, new, old) <=> Latest(meta, S, new, old)
  BY Zenon DEF LatestState, Latest
<1>2. \A S : Dedups(S) = DedupsOf(meta, S)
  BY Zenon DEF Dedups, DedupsOf, Best, BestOf
<1>3. \A d : Earlier(d) = EarlierIn(bronze, d)
  BY Zenon DEF Earlier, EarlierIn
<1>4. SnapshotsAreLatestState <=> SnapshotsIn(lake, bronze, by, current, meta)
  BY Zenon DEF SnapshotsAreLatestState, SnapshotsIn, LatestState, Latest, Earlier, EarlierIn,
     Previous, OldIn
<1> QED
  BY <1>1, <1>2, <1>3, <1>4

LEMMA AbbreviationsPrimed ==
  SnapshotsIn(lake', bronze', by', current', meta') => SnapshotsAreLatestState'
  BY Zenon DEF SnapshotsAreLatestState, SnapshotsIn, LatestState, Latest, Earlier, EarlierIn,
     Previous, OldIn

(* What a snapshot starts from depends on the earlier ones alone. *)
LEMMA OldSame ==
  ASSUME NEW br, NEW cr, NEW d \in Dates, NEW m,
         \A e \in Dates : e < d => cr[e] = br[e]
  PROVE  OldIn(cr, m, d) = OldIn(br, m, d)
<1>1. EarlierIn(cr, d) = EarlierIn(br, d)
  BY DEF EarlierIn
<1>2. CASE m = "full" \/ EarlierIn(br, d) = {}
  BY <1>1, <1>2 DEF OldIn
<1>3. CASE m # "full" /\ EarlierIn(br, d) # {}
  <2> DEFINE E == EarlierIn(br, d)
  <2>1. E \in SUBSET (0..LastDate) /\ LastDate \in Nat
    BY BatchesAssumption DEF EarlierIn, Dates
  <2>2. Max(E) \in E
    BY <1>3, <2>1, Largest
  <2>3. cr[Max(E)] = br[Max(E)]
    BY <2>2 DEF EarlierIn
  <2> HIDE DEF E
  <2>4. EarlierIn(cr, d) = E /\ EarlierIn(br, d) = E
    BY <1>1 DEF E
  <2> QED
    BY <1>3, <2>3, <2>4, Zenon DEF OldIn
<1> QED
  BY <1>2, <1>3

(* A container that goes on, over tables that are the same where it looks. *)
LEMMA RecordStaysSound ==
  ASSUME JobsAre, NEW i \in Jobs, Kept(i), RecordIsSound(job[i], lake, bronze, meta), meta' = meta,
         job'[i].sound /\ job[i].mode \notin LakeModes =>
           /\ lake'[job[i].date] = lake[job[i].date]
           /\ \A e \in Dates : e < job[i].date => bronze'[e] = bronze[e]
  PROVE  RecordIsSound(job'[i], lake', bronze', meta')
<1>1. job[i].date \in Dates
  BY DEF JobsAre, JobT
<1> SUFFICES ASSUME job'[i].mode \notin LakeModes, job'[i].sound
             PROVE  /\ job'[i].pc = "look" => job'[i].rows \in DedupsOf(meta, lake'[job'[i].date])
                    /\ job'[i].pc \in {"check", "write"} =>
                         Latest(meta, job'[i].rows, lake'[job'[i].date],
                                OldIn(bronze', job'[i].mode, job'[i].date))
  BY Zenon DEF RecordIsSound
<1>2. /\ job'[i].mode = job[i].mode /\ job'[i].date = job[i].date /\ job'[i].pc = job[i].pc
      /\ job'[i].rows = job[i].rows /\ job[i].sound /\ job[i].mode \notin LakeModes
  BY DEF Kept
<1>3. /\ lake'[job[i].date] = lake[job[i].date]
      /\ OldIn(bronze', job[i].mode, job[i].date) = OldIn(bronze, job[i].mode, job[i].date)
  BY <1>1, <1>2, OldSame
<1> QED
  BY <1>2, <1>3, Zenon DEF RecordIsSound

(* A container that is not in the middle of a Bronze run promises nothing. *)
LEMMA NothingPromised ==
  ASSUME NEW r, NEW lk, NEW br, NEW mt,
         r.mode \in LakeModes \/ ~r.sound \/ r.pc \in {"idle", "read"}
  PROVE  RecordIsSound(r, lk, br, mt)
  BY DEF RecordIsSound

(* What the steps do to the tables, seen from a container of Bronze. *)
LEMMA OthersSee ==
  ASSUME Types, NEW j \in Jobs, JobStep(j), NEW i \in Jobs \ {j}
  PROVE  /\ Kept(i) /\ meta' = meta
         /\ job'[i].sound /\ job[i].mode \notin LakeModes =>
              /\ lake'[job[i].date] = lake[job[i].date]
              /\ \A e \in Dates : e < job[i].date => bronze'[e] = bronze[e]
<1>1. TablesT /\ JobsAre /\ job[i] \in JobT /\ job[j] \in JobT
  BY TypesParts
<1>2. /\ lake \in [Dates -> SUBSET Rows] /\ bronze \in [Dates -> SUBSET Rows]
      /\ hms["bronze"] # "ok" => bronze = None
  BY <1>1 DEF TablesT
<1>3. /\ job[i].date \in Dates /\ job[j].date \in Dates
      /\ job[i].mode \notin LakeModes => Layer(i) = "bronze"
  BY <1>1, Zenon DEF JobT, Layer
<1>4. \A e \in Dates : e \in Nat
  BY BatchesAssumption DEF Dates
<1>5. CASE IngestRead(j)
  BY <1>1, <1>5, IngestReads DEF Moves, IngestRead, dataVars
<1>6. CASE BronzeRead(j)
  BY <1>1, <1>2, <1>6, BronzeReads DEF Moves, BronzeRead, dataVars
<1>7. CASE Look(j)
  BY <1>1, <1>2, <1>7, Looks DEF Moves, Look, dataVars
<1>8. CASE LookFails(j)
  BY <1>1, <1>8, LookMoves DEF Moves, LookFails, dataVars
<1>9. CASE Check(j) \/ CheckStale(j)
  BY <1>1, <1>9, Checks DEF Moves, Check, CheckStale, dataVars
<1>10. CASE LakeDrop(j)
  <2>1. Kept(i) /\ meta' = meta /\ bronze' = bronze
    BY <1>1, <1>10, Drops DEF Moves, LakeDrop
  <2>2. \/ lake' = lake
        \/ job'[i].sound => ~(Layer(i) = "bronze" /\ job[i].date \in Affected(Dates, {}))
    BY <1>1, <1>10, Drops
  <2>3. job[i].date \in Affected(Dates, {})
    BY <1>3 DEF Affected
  <2> QED
    BY <1>3, <2>1, <2>2, <2>3
<1>11. CASE LakeWrite(j)
  <2>1. /\ Kept(i) /\ meta' = meta /\ bronze' = bronze
        /\ job'[i].sound => ~(Layer(i) = "bronze" /\ job[i].date = job[j].date)
    BY <1>1, <1>11, LakeWrites DEF Moves, LakeWrite
  <2>2. \A d \in Dates : d # job[j].date => lake'[d] = lake[d]
    BY <1>2, <1>11 DEF LakeWrite, LakeAfter
  <2> QED
    BY <1>3, <2>1, <2>2
<1>12. CASE LakeCreate(j)
  BY <1>1, <1>3, <1>12, LakeCreates DEF Moves, LakeCreate
<1>13. CASE BronzeWrite(j) \/ BronzeCreate(j)
  <2>1. /\ Kept(i) /\ meta' = meta /\ lake' = lake
        /\ job'[i].sound => ~(Layer(i) = "bronze" /\ job[j].date < job[i].date)
    BY <1>1, <1>13, BronzeCommits DEF Moves, BronzeWrite, BronzeCreate, Written
  <2>2. \A d \in Dates : d # job[j].date => bronze'[d] = bronze[d]
    BY <1>2, <1>3, <1>13 DEF BronzeWrite, BronzeCreate, BronzeAfter, None
  <2> QED
    BY <1>3, <2>1, <2>2
<1>14. CASE Start(j)
  BY <1>1, <1>14, Starts DEF Moves, Start, dataVars
<1>15. CASE Fail(j)
  BY <1>1, <1>15, Fails DEF Moves, Fail, dataVars
<1> QED
  BY <1>5, <1>6, <1>7, <1>8, <1>9, <1>10, <1>11, <1>12, <1>13, <1>14, <1>15 DEF JobStep

(* Without earlier snapshots a run starts from nothing. *)
LEMMA OldNone ==
  ASSUME NEW br, NEW m, NEW d, m = "full" \/ EarlierIn(br, d) = {}
  PROVE  OldIn(br, m, d) = {}
  BY DEF OldIn

(* The read of a full run is its snapshot; that of a delta run, its rows. *)
LEMMA ReadIsSound ==
  ASSUME Types, NEW j \in Jobs, BronzeRead(j)
  PROVE  RecordIsSound(job'[j], lake', bronze', meta')
<1>1. JobsAre /\ lake \in [Dates -> SUBSET Rows] /\ job[j] \in JobT
  BY TypesParts DEF TablesT
<1>2. PICK T \in Dedups(lake[job[j].date]) :
        Moves(j, job[j].mode, job[j].date, IF job[j].mode = "full" THEN "check" ELSE "look", T)
  BY <1>1, BronzeReads
<1>3. job[j].date \in Dates /\ job[j].mode \in LakeModes \cup BronzeModes
  BY <1>1, Zenon DEF JobT
<1> DEFINE S == lake[job[j].date]
<1>4. S \in SUBSET Rows
  BY <1>1, <1>3
<1>5. Latest(meta, T, S, {}) /\ T \in DedupsOf(meta, S)
  BY <1>4, DedupIsLatest, Abbreviations
<1>6. /\ job'[j].mode = job[j].mode /\ job'[j].date = job[j].date /\ job'[j].rows = T
      /\ job'[j].pc = IF job[j].mode = "full" THEN "check" ELSE "look"
  BY <1>2 DEF Moves
<1>7. lake' = lake /\ bronze' = bronze /\ meta' = meta
  BY DEF BronzeRead, dataVars
<1>8. job'[j].pc = "look" => job'[j].rows \in DedupsOf(meta, lake[job'[j].date])
  BY <1>5, <1>6
<1>9. ASSUME job'[j].pc \in {"check", "write"}
      PROVE  Latest(meta, job'[j].rows, lake[job'[j].date], OldIn(bronze, job'[j].mode, job'[j].date))
  <2>1. job[j].mode = "full"
    BY <1>6, <1>9
  <2>2. OldIn(bronze, job[j].mode, job[j].date) = {}
    BY <2>1, OldNone
  <2> QED
    BY <1>5, <1>6, <2>2, Zenon
<1> QED
  BY <1>7, <1>8, <1>9, Zenon DEF RecordIsSound

(* The look of a delta run makes its rows the promised snapshot. *)
LEMMA LookIsSound ==
  ASSUME Types, OneRowPerKey, JobsAreSound, NEW j \in Jobs, Look(j)
  PROVE  RecordIsSound(job'[j], lake', bronze', meta')
<1> DEFINE d == job[j].date
           R == IF hms["bronze"] # "ok" \/ Earlier(d) = {} THEN job[j].rows
                ELSE Merged(job[j].rows, Previous(d))
<1>1. /\ JobsAre /\ lake \in [Dates -> SUBSET Rows] /\ bronze \in [Dates -> SUBSET Rows]
      /\ hms["bronze"] # "ok" => bronze = None
      /\ job[j] \in JobT
  BY TypesParts DEF TablesT
<1>2. job[j].pc = "look" /\ job[j].mode = "delta" /\ d \in Dates
  BY <1>1, TypesParts DEF Look, At, JobT
<1>3. Moves(j, job[j].mode, job[j].date, "check", R) /\ job'[j].sound = job[j].sound
  BY <1>1, Looks
<1>4. /\ job'[j].mode = "delta" /\ job'[j].date = d /\ job'[j].rows = R /\ job'[j].pc = "check"
  BY <1>2, <1>3 DEF Moves
<1>5. lake' = lake /\ bronze' = bronze /\ meta' = meta
  BY DEF Look, dataVars
<1>6. lake[d] \in SUBSET Rows
  BY <1>1, <1>2
<1>7. ASSUME job[j].sound
      PROVE  Latest(meta, R, lake[d], OldIn(bronze, "delta", d))
  <2>1. job[j].rows \in Dedups(lake[d])
    <3>1. RecordIsSound(job[j], lake, bronze, meta)
      BY DEF JobsAreSound
    <3>2. job[j].rows \in DedupsOf(meta, lake[d])
      BY <1>2, <1>7, <3>1 DEF RecordIsSound, LakeModes
    <3> QED
      BY <3>2, Abbreviations
  <2>2. CASE hms["bronze"] # "ok" \/ Earlier(d) = {}
    <3>1. EarlierIn(bronze, d) = {}
      <4>1. CASE hms["bronze"] # "ok"
        BY <1>1, <4>1 DEF None, EarlierIn
      <4>2. CASE Earlier(d) = {}
        BY <4>2, Abbreviations
      <4> QED
        BY <2>2, <4>1, <4>2
    <3>2. R = job[j].rows /\ OldIn(bronze, "delta", d) = {}
      BY <2>2, <3>1, OldNone
    <3>3. Latest(meta, job[j].rows, lake[d], {})
      BY <1>6, <2>1, DedupIsLatest, Abbreviations
    <3> QED
      BY <3>2, <3>3, Zenon
  <2>3. CASE ~(hms["bronze"] # "ok" \/ Earlier(d) = {})
    <3>1. Previous(d) \in SUBSET Rows /\ (meta # "none" => OneRow(Previous(d)))
      BY <1>2, <2>3, PreviousOneRow
    <3>2. R = Merged(job[j].rows, Previous(d))
      BY <2>3
    <3>3. OldIn(bronze, "delta", d) = Previous(d)
      <4>1. EarlierIn(bronze, d) = Earlier(d) /\ Earlier(d) # {}
        BY <2>3, Abbreviations
      <4> QED
        BY <4>1, Zenon DEF OldIn, Previous
    <3>4. Latest(meta, Merged(job[j].rows, Previous(d)), lake[d], Previous(d))
      BY <1>6, <2>1, <3>1, MergeIsLatest, Abbreviations
    <3> QED
      BY <3>2, <3>3, <3>4, Zenon
  <2> QED
    BY <2>2, <2>3
<1> HIDE DEF d, R
<1>8. job'[j].sound => Latest(meta', job'[j].rows, lake'[job'[j].date],
                              OldIn(bronze', job'[j].mode, job'[j].date))
  BY <1>3, <1>4, <1>5, <1>7, Zenon
<1>9. job'[j].pc # "look"
  BY <1>4
<1> QED
  BY <1>8, <1>9, Zenon DEF RecordIsSound

(* The test for the table carries the promise on to the write. *)
LEMMA CheckIsSound ==
  ASSUME Types, JobsAreSound, NEW j \in Jobs, Check(j) \/ CheckStale(j)
  PROVE  RecordIsSound(job'[j], lake', bronze', meta')
<1>1. JobsAre /\ job[j] \in JobT
  BY TypesParts
<1>2. /\ job'[j].mode = job[j].mode /\ job'[j].date = job[j].date /\ job'[j].rows = job[j].rows
      /\ job'[j].pc = "write" /\ job'[j].sound = job[j].sound
  BY <1>1, Checks DEF Moves
<1>3. lake' = lake /\ bronze' = bronze /\ meta' = meta /\ job[j].pc = "check"
  BY DEF Check, CheckStale, dataVars, At
<1>4. RecordIsSound(job[j], lake, bronze, meta)
  BY DEF JobsAreSound
<1>5. job[j].mode \notin LakeModes /\ job[j].sound =>
        Latest(meta, job[j].rows, lake[job[j].date], OldIn(bronze, job[j].mode, job[j].date))
  BY <1>3, <1>4 DEF RecordIsSound
<1>6. job'[j].pc # "look"
  BY <1>2
<1> QED
  BY <1>2, <1>3, <1>5, <1>6, Zenon DEF RecordIsSound

LEMMA JobsStaySound ==
  ASSUME Types, OneRowPerKey, JobsAreSound, NEW j \in Jobs, JobStep(j)
  PROVE  JobsAreSound'
<1>1. TablesT /\ JobsAre /\ job[j] \in JobT
  BY TypesParts
<1>2. \A i \in Jobs \ {j} : RecordIsSound(job'[i], lake', bronze', meta')
  <2> TAKE i \in Jobs \ {j}
  <2>1. RecordIsSound(job[i], lake, bronze, meta)
    BY DEF JobsAreSound
  <2> QED
    BY <1>1, <2>1, OthersSee, RecordStaysSound
<1>3. RecordIsSound(job'[j], lake', bronze', meta')
  <2>1. CASE BronzeRead(j)
    BY <2>1, ReadIsSound
  <2>2. CASE Look(j)
    BY <2>2, LookIsSound
  <2>3. CASE Check(j) \/ CheckStale(j)
    BY <2>3, CheckIsSound
  <2>4. CASE job'[j].mode \in LakeModes \/ ~job'[j].sound \/ job'[j].pc \in {"idle", "read"}
    BY <2>4, NothingPromised
  <2>5. CASE IngestRead(j)
    <3>1. job[j].mode \in LakeModes
      BY <2>5 DEF IngestRead, Layer
    <3>2. job'[j].mode = job[j].mode
      BY <1>1, <2>5, IngestReads DEF Moves
    <3> QED
      BY <2>4, <3>1, <3>2
  <2>6. CASE LookFails(j)
    BY <1>1, <2>4, <2>6, LookMoves
  <2>7. CASE LakeDrop(j)
    <3>1. job[j].mode = "replace"
      BY <2>7 DEF LakeDrop, DropsFirst
    <3>2. job'[j].mode = job[j].mode
      BY <1>1, <2>7, Drops DEF Moves
    <3> QED
      BY <2>4, <3>1, <3>2 DEF LakeModes
  <2>8. CASE LakeWrite(j)
    BY <1>1, <2>4, <2>8, LakeWrites DEF Moves
  <2>9. CASE LakeCreate(j)
    BY <1>1, <2>4, <2>9, LakeCreates DEF Moves
  <2>10. CASE BronzeWrite(j) \/ BronzeCreate(j)
    BY <1>1, <2>4, <2>10, BronzeCommits DEF Moves
  <2>11. CASE Start(j)
    BY <1>1, <2>4, <2>11, Starts DEF Moves
  <2>12. CASE Fail(j)
    BY <1>1, <2>4, <2>12, Fails DEF Moves
  <2> QED
    BY <2>1, <2>2, <2>3, <2>5, <2>6, <2>7, <2>8, <2>9, <2>10, <2>11, <2>12 DEF JobStep
<1> QED
  BY <1>2, <1>3 DEF JobsAreSound

(* The snapshots that count after a step are still what they were built as. *)
LEMMA SnapshotStays ==
  ASSUME NEW d \in Dates, NEW mt, NEW br, NEW cr, NEW rows, NEW b, NEW c,
         Latest(mt, br[d], rows, OldIn(br, b, d)), cr[d] = br[d], c = b,
         \A e \in Dates : e < d => cr[e] = br[e]
  PROVE  Latest(mt, cr[d], rows, OldIn(cr, c, d))
<1>1. OldIn(cr, c, d) = OldIn(br, b, d)
  BY OldSame
<1> QED
  BY <1>1, Zenon

(* A commit to Bronze: the earlier snapshots that counted, and the new one. *)
LEMMA CommitIsLatest ==
  ASSUME Types, JobsAreSound, SnapshotsIn(lake, bronze, by, current, meta), NEW j \in Jobs,
         BronzeWrite(j) \/ BronzeCreate(j)
  PROVE  SnapshotsIn(lake', bronze', by', current', meta')
<1> DEFINE d == job[j].date
<1>1. /\ TablesT /\ job[j] \in JobT
      /\ lake \in [Dates -> SUBSET Rows] /\ bronze \in [Dates -> SUBSET Rows]
      /\ by \in [Dates -> BronzeModes \cup {"none"}] /\ current \subseteq Dates
      /\ hms["bronze"] # "ok" => bronze = None
  BY TypesParts DEF TablesT
<1>2. d \in Dates /\ job[j].rows \in SUBSET Rows
  BY <1>1, Zenon DEF JobT
<1>3. /\ lake' = lake /\ meta' = meta /\ bronze'[d] = job[j].rows
      /\ \A e \in Dates : e # d => bronze'[e] = bronze[e]
  BY <1>1, <1>2 DEF BronzeWrite, BronzeCreate, BronzeAfter, None
<1>4. by'[d] = job[j].mode /\ \A e \in Dates : e # d => by'[e] = by[e]
  BY <1>1, <1>2 DEF BronzeWrite, BronzeCreate, Written
<1>5. \A e \in current' : (e \in current /\ e < d) \/ (e = d /\ job[j].sound)
  BY DEF BronzeWrite, BronzeCreate, Written
<1>6. job[j].mode \notin LakeModes /\ job[j].pc = "write"
  BY DEF BronzeWrite, BronzeCreate, Layer, At
<1>7. \A e \in Dates : e \in Nat
  BY BatchesAssumption DEF Dates
<1> HIDE DEF d
<1>8. ASSUME NEW e \in current, e < d
      PROVE  Latest(meta, bronze'[e], lake[e], OldIn(bronze', by'[e], e))
  <2>1. e \in Dates /\ e # d /\ \A x \in Dates : x < e => x # d
    BY <1>1, <1>2, <1>7, <1>8
  <2>2. Latest(meta, bronze[e], lake[e], OldIn(bronze, by[e], e))
    BY DEF SnapshotsIn
  <2>3. /\ bronze'[e] = bronze[e] /\ by'[e] = by[e]
        /\ \A x \in Dates : x < e => bronze'[x] = bronze[x]
    BY <1>3, <1>4, <2>1
  <2> QED
    BY <2>1, <2>2, <2>3, SnapshotStays
<1>9. ASSUME job[j].sound
      PROVE  Latest(meta, bronze'[d], lake[d], OldIn(bronze', by'[d], d))
  <2>1. RecordIsSound(job[j], lake, bronze, meta)
    BY DEF JobsAreSound
  <2>2. Latest(meta, job[j].rows, lake[d], OldIn(bronze, job[j].mode, d))
    BY <1>6, <1>9, <2>1 DEF RecordIsSound, d
  <2>3. \A x \in Dates : x < d => bronze'[x] = bronze[x]
    BY <1>2, <1>3, <1>7
  <2>4. OldIn(bronze', job[j].mode, d) = OldIn(bronze, job[j].mode, d)
    BY <1>2, <2>3, OldSame
  <2> QED
    BY <1>3, <1>4, <2>2, <2>4, Zenon
<1> QED
  BY <1>3, <1>5, <1>8, <1>9, Zenon DEF SnapshotsIn

LEMMA SnapshotsStay ==
  ASSUME Types, JobsAreSound, SnapshotsIn(lake, bronze, by, current, meta), NEW j \in Jobs,
         JobStep(j)
  PROVE  SnapshotsIn(lake', bronze', by', current', meta')
<1>1. TablesT /\ JobsAre /\ job[j] \in JobT
  BY TypesParts
<1>2. CASE UNCHANGED <<meta, lake, bronze, by, current>>
  <2>1. lake' = lake /\ bronze' = bronze /\ by' = by /\ current' = current /\ meta' = meta
    BY <1>2
  <2> QED
    BY <2>1, Zenon
<1>3. CASE current' = {}
  BY <1>3 DEF SnapshotsIn
<1>4. CASE LakeWrite(j)
  <2>1. bronze' = bronze /\ by' = by /\ meta' = meta /\ current' = current \ {job[j].date}
    BY <1>4 DEF LakeWrite
  <2>2. \A d \in current' : lake'[d] = lake[d]
    BY <1>1, <1>4 DEF LakeWrite, LakeAfter, TablesT
  <2> QED
    BY <2>1, <2>2 DEF SnapshotsIn
<1>5. CASE LakeDrop(j)
  <2>1. meta' = meta /\ bronze' = bronze /\ by' = by
    BY <1>5 DEF LakeDrop
  <2>2. (lake' = lake /\ current' = current) \/ current' = {}
    BY <1>5 DEF LakeDrop
  <2> QED
    BY <1>2, <1>3, <2>1, <2>2
<1>6. CASE LakeCreate(j)
  BY <1>3, <1>6 DEF LakeCreate
<1>7. CASE BronzeWrite(j) \/ BronzeCreate(j)
  BY <1>7, CommitIsLatest
<1>8. CASE \/ IngestRead(j) \/ BronzeRead(j) \/ Look(j) \/ LookFails(j)
           \/ Check(j) \/ CheckStale(j) \/ Start(j) \/ Fail(j)
  <2>1. UNCHANGED <<meta, lake, bronze, by, current>>
    BY <1>8 DEF IngestRead, BronzeRead, Look, LookFails, Check, CheckStale, Start, Fail, dataVars
  <2> QED
    BY <1>2, <2>1
<1> QED
  BY <1>4, <1>5, <1>6, <1>7, <1>8 DEF JobStep

(* A loss of metadata: no snapshot counts any more, no reader is sound. *)
LEMMA LoseKeeps ==
  ASSUME IInv, NEW l \in {"lake", "bronze"}, LoseMetadata(l)
  PROVE  IInv'
<1>1. Types' /\ \A i \in Jobs : Kept(i)
  BY LoseTypes DEF IInv
<1>2. TablesT /\ JobsAre
  BY TypesParts DEF IInv
<1>3. meta' = meta /\ current' = {}
  BY DEF LoseMetadata
<1>4. SnapshotsAreLatestState'
  BY <1>3 DEF SnapshotsAreLatestState
<1>5. OneRowPerKey'
  <2>1. \A d \in Dates : bronze'[d] = bronze[d] \/ bronze'[d] = {}
    BY DEF LoseMetadata, None
  <2> QED
    BY <1>3, <2>1 DEF IInv, OneRowPerKey
<1>6. JobsHaveOneRow'
  BY <1>1, <1>3 DEF IInv, JobsHaveOneRow, Layer, At, Kept, OneRow
<1>7. JobsAreSound'
  <2>1. ASSUME NEW i \in Jobs
        PROVE  RecordIsSound(job'[i], lake', bronze', meta')
    <3>1. /\ job[i].date \in Dates
          /\ job[i].mode \notin LakeModes => Layer(i) = "bronze"
      BY <1>2 DEF JobsAre, JobT, Layer
    <3>2. CASE l = "lake"
      <4>1. job' = Stale(Dates, {})
        BY <3>2 DEF LoseMetadata
      <4>2. job[i].date \in Affected(Dates, {})
        BY <3>1 DEF Affected
      <4>3. job'[i].sound => ~(Layer(i) = "bronze" /\ job[i].date \in Affected(Dates, {}))
        BY <1>2, <4>1, StaleKeeps
      <4> QED
        BY <1>1, <3>1, <4>2, <4>3, NothingPromised DEF Kept
    <3>3. CASE l = "bronze"
      <4>1. job' = Stale({}, {0})
        BY <3>3 DEF LoseMetadata
      <4>2. job[i].date \in Affected({}, {0})
        BY <3>1, BatchesAssumption DEF Affected, Dates
      <4>3. job'[i].sound => ~(Layer(i) = "bronze" /\ job[i].date \in Affected({}, {0}))
        BY <1>2, <4>1, StaleKeeps
      <4> QED
        BY <1>1, <3>1, <4>2, <4>3, NothingPromised DEF Kept
    <3> QED
      BY <3>2, <3>3
  <2> QED
    BY <2>1 DEF JobsAreSound
<1>8. LakeGoneOnlyInReplace'
  <2>1. CASE l = "lake"
    BY <1>2, <2>1 DEF LoseMetadata, LakeGoneOnlyInReplace, TablesT
  <2>2. CASE l = "bronze"
    <3>1. hms'["lake"] = hms["lake"] /\ lost' = lost
      BY <1>2, <2>2 DEF LoseMetadata, TablesT
    <3> QED
      BY <1>1, <3>1 DEF IInv, LakeGoneOnlyInReplace, Kept, At
  <2> QED
    BY <2>1, <2>2
<1> QED
  BY <1>1, <1>4, <1>5, <1>6, <1>7, <1>8 DEF IInv

-----------------------------------------------------------------------------
(* What LakeKeepsRows allows a step to do with the rows of a date. *)
Allowed(d) ==
  \/ lake[d] \subseteq lake'[d]
  \/ hms'["lake"] = "stale"
  \/ \E j \in Jobs :
       /\ job'[j] # job[j] /\ At(j, "write") /\ job[j].exists
       /\ \/ job[j].mode = "replace"
          \/ job[j].mode = "overwrite" /\ job[j].date = d

(* A container takes rows away in its own drop or in its own date only. *)
LEMMA JobStepAllowed ==
  ASSUME Types, NEW j \in Jobs, JobStep(j), NEW d \in Dates
  PROVE  Allowed(d)
<1>1. TablesT /\ JobsAre /\ job[j] \in JobT
  BY TypesParts
<1>2. CASE lake' = lake
  BY <1>2 DEF Allowed
<1>3. CASE LakeDrop(j)
  <2>1. At(j, "write") /\ job[j].mode = "replace" /\ job[j].exists
    BY <1>3 DEF LakeDrop, DropsFirst
  <2>2. job'[j].exists = FALSE
    BY <1>1, <1>3, Drops
  <2>3. job'[j] # job[j]
    BY <2>1, <2>2
  <2> QED
    BY <2>1, <2>3 DEF Allowed
<1>4. CASE LakeWrite(j)
  <2>1. /\ At(j, "write") /\ job[j].exists /\ job[j].mode \in LakeModes
        /\ job[j].mode # "replace" /\ lake' = LakeAfter(j)
    BY <1>4 DEF LakeWrite, DropsFirst, Layer
  <2>2. job'[j] # job[j]
    BY <1>1, <1>4, <2>1, LakeWrites DEF Moves, At
  <2>3. CASE job[j].date # d
    BY <1>1, <2>1, <2>3 DEF LakeAfter, TablesT, Allowed
  <2>4. CASE job[j].date = d /\ job[j].mode = "append"
    BY <1>1, <2>1, <2>4 DEF LakeAfter, TablesT, Allowed
  <2>5. CASE job[j].date = d /\ job[j].mode = "overwrite"
    BY <2>1, <2>2, <2>5 DEF Allowed
  <2> QED
    BY <2>1, <2>3, <2>4, <2>5 DEF LakeModes
<1>5. CASE LakeCreate(j)
  BY <1>1, <1>5 DEF LakeCreate, TablesT, None, Allowed
<1>6. CASE \/ IngestRead(j) \/ BronzeRead(j) \/ Look(j) \/ LookFails(j)
           \/ Check(j) \/ CheckStale(j) \/ Start(j) \/ Fail(j)
           \/ BronzeWrite(j) \/ BronzeCreate(j)
  BY <1>2, <1>6 DEF IngestRead, BronzeRead, Look, LookFails, Check, CheckStale, Start,
                    Fail, BronzeWrite, BronzeCreate, dataVars
<1> QED
  BY <1>3, <1>4, <1>5, <1>6 DEF JobStep

(* The loss of metadata says that it is one. *)
LEMMA LoseAllowed ==
  ASSUME Types, NEW l \in {"lake", "bronze"}, LoseMetadata(l), NEW d \in Dates
  PROVE  Allowed(d)
<1>1. TablesT
  BY TypesParts
<1>2. CASE l = "lake"
  BY <1>1, <1>2 DEF LoseMetadata, TablesT, Allowed
<1>3. CASE l = "bronze"
  BY <1>3 DEF LoseMetadata, Allowed
<1> QED
  BY <1>2, <1>3

-----------------------------------------------------------------------------
LEMMA InitIInv == Init => IInv
<1> SUFFICES ASSUME Init PROVE IInv
  OBVIOUS
<1>1. Types
  BY InitTypes
<1>2. \A j \in Jobs : job[j].pc = "idle"
  BY DEF Init, Idle
<1>3. JobsHaveOneRow
  BY <1>2 DEF JobsHaveOneRow, At
<1>4. OneRowPerKey
  BY DEF Init, OneRowPerKey, None
<1>5. JobsAreSound
  BY <1>2, NothingPromised DEF JobsAreSound
<1>6. SnapshotsAreLatestState /\ LakeGoneOnlyInReplace
  BY DEF Init, SnapshotsAreLatestState, LakeGoneOnlyInReplace
<1> QED
  BY <1>1, <1>3, <1>4, <1>5, <1>6 DEF IInv

LEMMA NextIInv == IInv /\ [Next]_vars => IInv'
<1> SUFFICES ASSUME IInv, [Next]_vars PROVE IInv'
  OBVIOUS
<1>1. ASSUME NEW j \in Jobs, JobStep(j)
      PROVE  IInv'
  <2>1. /\ Types /\ JobsHaveOneRow /\ OneRowPerKey /\ JobsAreSound /\ LakeGoneOnlyInReplace
        /\ SnapshotsIn(lake, bronze, by, current, meta)
    BY Abbreviations DEF IInv
  <2>2. Types'
    BY <1>1, <2>1, JobStepTypes
  <2>3. JobsHaveOneRow' /\ OneRowPerKey'
    BY <1>1, <2>1, OneRowKept
  <2>4. JobsAreSound'
    BY <1>1, <2>1, JobsStaySound
  <2>5. SnapshotsAreLatestState'
    BY <1>1, <2>1, SnapshotsStay, AbbreviationsPrimed
  <2>6. LakeGoneOnlyInReplace'
    BY <1>1, <2>1, LakeGoneKept
  <2> QED
    BY <2>2, <2>3, <2>4, <2>5, <2>6 DEF IInv
<1>2. ASSUME NEW l \in {"lake", "bronze"}, LoseMetadata(l)
      PROVE  IInv'
  BY <1>2, LoseKeeps
<1>3. CASE UNCHANGED vars
  <2>1. /\ meta' = meta /\ hms' = hms /\ lake' = lake /\ bronze' = bronze /\ job' = job
        /\ runs' = runs /\ by' = by /\ current' = current /\ lost' = lost
    BY <1>3 DEF vars, dataVars
  <2>2. Types'
    BY <2>1, TypesParts, TypesPartsPrimed DEF IInv, TablesT, JobsAre, At
  <2>3. JobsHaveOneRow' /\ OneRowPerKey' /\ LakeGoneOnlyInReplace'
    BY <2>1 DEF IInv, JobsHaveOneRow, OneRowPerKey, LakeGoneOnlyInReplace, Layer, At
  <2>4. JobsAreSound'
    BY <2>1, Zenon DEF IInv, JobsAreSound
  <2>5. SnapshotsAreLatestState'
    <3>1. SnapshotsIn(lake, bronze, by, current, meta)
      BY Abbreviations DEF IInv
    <3>2. SnapshotsIn(lake', bronze', by', current', meta')
      BY <2>1, <3>1, Zenon
    <3> QED
      BY <3>2, AbbreviationsPrimed
  <2> QED
    BY <2>2, <2>3, <2>4, <2>5 DEF IInv
<1> QED
  BY <1>1, <1>2, <1>3 DEF Next

(* The inductive invariant holds in every reachable state: containers write *)
(* what they read, and a snapshot that counts has not been overtaken.       *)
THEOREM Invariance == Spec => []IInv
<1>1. Init => IInv
  BY InitIInv
<1>2. IInv /\ [Next]_vars => IInv'
  BY NextIInv
<1> QED
  BY <1>1, <1>2, PTL DEF Spec

(* The tables, the containers' records and the histories keep their types;  *)
(* only a table that the metastore knows holds rows (drop_table_safe).      *)
THEOREM TypeCorrect == Spec => []TypeOK
<1>1. IInv => TypeOK
  BY DEF IInv, Types
<1> QED
  BY <1>1, Invariance, PTL

(* run_full and run_delta publish one row per primary key, for any batches, *)
(* replays and late rows, and however the runs overlap.                     *)
THEOREM SnapshotsHaveOneRow == Spec => []OneRowPerKey
<1>1. IInv => OneRowPerKey
  BY DEF IInv
<1> QED
  BY <1>1, Invariance, PTL

(* A snapshot whose Lake date and earlier snapshots have not been written   *)
(* since its run began is the newest version of every key: _dedup and the   *)
(* merge of run_delta, in any order of runs.                                *)
THEOREM SnapshotsKeepPromise == Spec => []SnapshotsAreLatestState
<1>1. IInv => SnapshotsAreLatestState
  BY DEF IInv
<1> QED
  BY <1>1, Invariance, PTL

(* Of the rows of a date, a step of the system takes some away only in the  *)
(* drop of a replace or the overwrite of a run that has found the table, or *)
(* with the table's metadata: a run that meets a table another run has      *)
(* created or dropped since its test fails, and takes nothing.              *)
THEOREM RowsAreKept == Spec => LakeKeepsRows
<1>1. IInv /\ [Next]_vars => [\A d \in Dates : Allowed(d)]_vars
  <2> SUFFICES ASSUME IInv, Next, NEW d \in Dates
               PROVE  Allowed(d)
    OBVIOUS
  <2>1. Types
    BY DEF IInv
  <2> QED
    BY <2>1, JobStepAllowed, LoseAllowed DEF Next
<1>2. LakeKeepsRows <=> [][\A d \in Dates : Allowed(d)]_vars
  BY DEF LakeKeepsRows, Allowed
<1> QED
  BY <1>1, <1>2, Invariance, PTL DEF Spec

(* Once created, the Lake table is missing only between the drop and the    *)
(* create of a replace, after a replace that failed there, or after a loss. *)
THEOREM LakeStays == Spec => []LakeGoneOnlyInReplace
<1>1. IInv => LakeGoneOnlyInReplace
  BY DEF IInv
<1> QED
  BY <1>1, Invariance, PTL
=============================================================================
