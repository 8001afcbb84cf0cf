------------------------ MODULE TokenProviderProofs ------------------------
(***************************************************************************)
(* Proofs about TokenProvider, for every set of processes and every number *)
(* of tokens: type correctness; a request is never repeated with a token   *)
(* that was refused; and a process logs in only when every usable token it *)
(* has was refused.                                                        *)
(***************************************************************************)
EXTENDS TokenProvider, TLAPS

USE DEF Processes

-----------------------------------------------------------------------------
(* The inductive invariant.  It speaks of one process at a time, by its    *)
(* record, but for the tokens that are being saved.                        *)

(* The tokens a record has or remembers. *)
Tokens(r) == {r.cached, r.held} \cup r.refused

(* A token that is being saved is known to its process only. *)
NewIsUnknown ==
  \A q \in Processes : proc[q].at = "save" =>
    /\ proc[q].new # 0 /\ proc[q].new # file
    /\ explicit => proc[q].new # Explicit
    /\ \A p \in Processes :
         /\ proc[q].new \notin Tokens(proc[p])
         /\ p # q /\ proc[p].at = "save" => proc[p].new # proc[q].new

(* The file holds a minted token, if any. *)
FileIsMinted == explicit => issued > 0 /\ file # Explicit

(* Of the usable tokens refused to a process the file may hold only the    *)
(* one this process has cached.                                            *)
FileIsNew(r) == file \in r.refused \cap fresh => file = r.cached

(* A request is made with the cached token, or with the explicit one when  *)
(* nothing can replace it.                                                 *)
OnlyExplicit(t) == explicit /\ ~headless /\ t = Explicit

HeldIsCached(r) ==
  /\ r.at \in {"request", "again", "refresh"} => r.cached # 0
  /\ r.at \in {"request", "again"} => r.held = r.cached \/ OnlyExplicit(r.held)
  /\ r.at = "refresh" =>
       \/ r.cached \in r.refused
       \/ OnlyExplicit(Explicit) /\ Explicit \in r.refused
  /\ r.at = "again" /\ r.held \in r.refused => OnlyExplicit(r.held)
  /\ r.forced => r.at \in {"mint", "save"}

(* The explicit token comes first: what replaced it did so because it was  *)
(* refused or is no longer usable.                                         *)
ExplicitFirst(p, r) ==
  explicit /\ Usable(Explicit) =>
    /\ r.cached # 0 => r.cached = Explicit \/ Explicit \in r.refused
    /\ p \notin Helpers /\ r.at \in {"mint", "save"} => Explicit \in r.refused

RecordInv(p, r) == FileIsNew(r) /\ HeldIsCached(r) /\ ExplicitFirst(p, r)

TokenInv ==
  NewIsUnknown /\ FileIsMinted /\ \A p \in Processes : RecordInv(p, proc[p])

-----------------------------------------------------------------------------
(* The records of a process. *)

(* An update changes one process. *)
LEMMA Updates ==
  ASSUME TypeOK, NEW p \in Processes, NEW r, Update(p, r)
  PROVE  /\ proc'[p] = r
         /\ \A q \in Processes : q # p => proc'[q] = proc[q]
         /\ r \in Process => proc' \in [Processes -> Process]
  BY DEF Update, TypeOK

(* A process that is off knows no token. *)
LEMMA IdleRecord ==
  ASSUME issued \in Nat
  PROVE  /\ Idle \in Process
         /\ Idle.at = "off" /\ Idle.cached = 0 /\ Idle.held = 0 /\ Idle.new = 0
         /\ Idle.refused = {} /\ ~Idle.forced
  BY DEF Idle, Process

(* Between two calls a process keeps its cached token and what was refused. *)
LEMMA BetweenRecord ==
  ASSUME issued \in Nat, NEW r \in Process, NEW at \in {"get", "wait", "feed"},
         NEW op \in {"preflight", "validate", "snapshot"}
  PROVE  /\ Between(r, at, op) \in Process
         /\ Between(r, at, op).at = at
         /\ Between(r, at, op).cached = r.cached
         /\ Between(r, at, op).refused = r.refused
         /\ Between(r, at, op).held = 0
         /\ ~Between(r, at, op).forced
  <1>1. Idle \in Process
    BY IdleRecord
  <1>2. r.cached \in 0..issued /\ r.refused \in SUBSET (1..issued)
    BY DEF Process
  <1>3. Between(r, at, op) \in Process
    BY <1>1, <1>2 DEF Between, Process
  <1>4. Between(r, at, op).at = at /\ Between(r, at, op).cached = r.cached
    BY DEF Between, Idle
  <1>5. Between(r, at, op).refused = r.refused
    BY <1>1 DEF Between, Process
  <1>6. Between(r, at, op).held = 0
    BY DEF Between, Idle
  <1>7. ~Between(r, at, op).forced
    BY DEF Between, Idle
  <1>8. QED
    BY <1>3, <1>4, <1>5, <1>6, <1>7

(* A record that asks for nothing: it has forgotten everything or is       *)
(* between two calls.                                                      *)
Rests(r, s) ==
  /\ s.at \in {"off", "get", "wait", "feed"}
  /\ \/ s.cached = r.cached /\ s.refused = r.refused
     \/ s.cached = 0 /\ s.refused = {}
  /\ s.held = 0 /\ ~s.forced

(* Between leaves such a record, and so does an error. *)
LEMMA BetweenRests ==
  ASSUME issued \in Nat, NEW r \in Process, NEW at \in {"get", "wait", "feed"},
         NEW op \in {"preflight", "validate", "snapshot"}
  PROVE  Between(r, at, op) \in Process /\ Rests(r, Between(r, at, op))
  <1> DEFINE b == Between(r, at, op)
  <1>1. /\ b \in Process /\ b.at = at /\ b.cached = r.cached /\ b.refused = r.refused
        /\ b.held = 0 /\ ~b.forced
    BY BetweenRecord
  <1> HIDE DEF b
  <1>2. Rests(r, b)
    BY <1>1 DEF Rests
  <1>3. QED
    BY <1>1, <1>2 DEF b

LEMMA ErrorRests ==
  ASSUME TypeOK, NEW p \in Processes, NEW e
  PROVE  AfterError(p, e) \in Process /\ Rests(proc[p], AfterError(p, e))
  <1> DEFINE r == proc[p]
  <1>1. r \in Process /\ issued \in Nat
    BY TokenAssumption DEF TypeOK
  <1>2. r.op \in {"preflight", "validate", "snapshot"}
    BY <1>1 DEF Process
  <1>3. AfterError(p, e) \in {Idle, Between(r, "get", "validate"), Between(r, "wait", r.op)}
    BY DEF AfterError
  <1> HIDE DEF r
  <1>4. CASE AfterError(p, e) = Idle
    BY <1>1, <1>4, IdleRecord DEF Rests
  <1>5. CASE AfterError(p, e) = Between(r, "get", "validate")
    BY <1>1, <1>5, BetweenRests DEF r
  <1>6. CASE AfterError(p, e) = Between(r, "wait", r.op)
    BY <1>1, <1>2, <1>6, BetweenRests DEF r
  <1>7. QED
    BY <1>3, <1>4, <1>5, <1>6

(* get_token leads to a request with the token it returns, to the first    *)
(* try or, after a refresh, to the second.                                 *)
LEMMA ReturnedRecord ==
  ASSUME NEW r \in Process, NEW t \in 0..issued, issued \in Nat
  PROVE  /\ Returned(r, t) \in Process
         /\ r.at = "refresh" \/ r.forced => Returned(r, t).at = "again"
         /\ ~(r.at = "refresh" \/ r.forced) => Returned(r, t).at = "request"
         /\ Returned(r, t).held = t
         /\ Returned(r, t).cached = r.cached
         /\ Returned(r, t).refused = r.refused
         /\ ~Returned(r, t).forced
  <1>0. 0 \in 0..issued
    OBVIOUS
  <1>1. CASE r.at = "refresh" \/ r.forced
    <2> DEFINE s == [r EXCEPT !.at = "again", !.held = t, !.forced = FALSE, !.new = 0]
    <2>1. Returned(r, t) = s
      BY <1>1 DEF Returned
    <2>2. s \in Process /\ s.at = "again" /\ s.held = t
      BY <1>0, Zenon DEF Process
    <2>3. s.cached = r.cached /\ s.refused = r.refused
      BY DEF Process
    <2>4. ~s.forced
      BY DEF Process
    <2>5. QED
      BY <1>1, <2>1, <2>2, <2>3, <2>4
  <1>2. CASE ~(r.at = "refresh" \/ r.forced)
    <2> DEFINE s == [r EXCEPT !.at = "request", !.held = t, !.token = t, !.new = 0]
    <2>1. Returned(r, t) = s
      BY <1>2 DEF Returned
    <2>2. s \in Process /\ s.at = "request" /\ s.held = t
      BY <1>0, Zenon DEF Process
    <2>3. s.cached = r.cached /\ s.refused = r.refused
      BY DEF Process
    <2>4. s.forced = r.forced
      BY DEF Process
    <2>5. QED
      BY <1>2, <2>1, <2>2, <2>3, <2>4
  <1>3. QED
    BY <1>1, <1>2

-----------------------------------------------------------------------------
(* Steps that change one record only. *)

(* What such a step needs: the new record has no token that its process    *)
(* did not know or find in the file, and satisfies the invariant.          *)
Known(p) ==
  {0, file} \cup Tokens(proc[p]) \cup IF explicit THEN {Explicit} ELSE {}

Fits(p, s) ==
  s \in Process /\ s.at # "save" /\ Tokens(s) \subseteq Known(p) /\ RecordInv(p, s)

(* Such a step preserves the invariant. *)
LEMMA RecordStep ==
  ASSUME TypeOK, TokenInv, NEW p \in Processes, NEW s, Update(p, s), Fits(p, s),
         UNCHANGED <<settings, dhan, file>>
  PROVE  TypeOK' /\ TokenInv'
  <1> USE DEF settings, dhan
  <1>1. /\ proc'[p] = s /\ \A q \in Processes : q # p => proc'[q] = proc[q]
        /\ proc' \in [Processes -> Process]
    BY Updates DEF Fits
  <1>2. Process' = Process
    BY DEF Process
  <1>3. TypeOK'
    BY <1>1, <1>2 DEF TypeOK
  <1>4. ASSUME NEW q \in Processes
        PROVE  RecordInv(q, proc[q])'
    <2>1. RecordInv(q, proc'[q])
      BY <1>1 DEF Fits, TokenInv
    <2>2. QED
      BY <2>1 DEF RecordInv, FileIsNew, HeldIsCached, ExplicitFirst, OnlyExplicit, Usable,
                  Explicit
  <1>5. ASSUME NEW q \in Processes, proc'[q].at = "save"
        PROVE  /\ q # p /\ proc[q].at = "save" /\ proc'[q].new = proc[q].new
               /\ proc[q].new \notin Known(p)
    <2>1. q # p /\ proc[q].at = "save" /\ proc'[q].new = proc[q].new
      BY <1>1, <1>5 DEF Fits
    <2>2. proc[q].new # 0 /\ proc[q].new # file /\ proc[q].new \notin Tokens(proc[p])
      BY <2>1 DEF TokenInv, NewIsUnknown
    <2>3. explicit => proc[q].new # Explicit
      BY <2>1 DEF TokenInv, NewIsUnknown
    <2>4. QED
      BY <2>1, <2>2, <2>3 DEF Known
  <1>6. ASSUME NEW q \in Processes, proc'[q].at = "save",
               NEW w \in Processes
        PROVE  /\ proc'[q].new \notin Tokens(proc'[w])
               /\ w # q /\ proc'[w].at = "save" => proc'[w].new # proc'[q].new
    <2>1. CASE w = p
      BY <1>1, <1>5, <1>6, <2>1 DEF Fits
    <2>2. CASE w # p
      BY <1>1, <1>5, <1>6, <2>2 DEF TokenInv, NewIsUnknown
    <2>3. QED
      BY <2>1, <2>2
  <1>7. NewIsUnknown'
    <2>1. ASSUME NEW q \in Processes, proc'[q].at = "save"
          PROVE  proc'[q].new # 0 /\ proc'[q].new # file' /\ (explicit' => proc'[q].new # Explicit)
      BY <1>5, <2>1 DEF TokenInv, NewIsUnknown
    <2>2. QED
      BY <1>6, <2>1 DEF NewIsUnknown, Tokens, Explicit
  <1>8. FileIsMinted'
    BY DEF TokenInv, FileIsMinted, Explicit
  <1>9. QED
    BY <1>3, <1>4, <1>7, <1>8 DEF TokenInv

-----------------------------------------------------------------------------
(* The steps of a process change its record to one that fits. *)

(* A record that rests fits. *)
LEMMA RestFits ==
  ASSUME TypeOK, TokenInv, NEW p \in Processes, NEW s \in Process, Rests(proc[p], s)
  PROVE  Fits(p, s) /\ s.at \notin {"mint", "save"}
  <1> DEFINE r == proc[p]
  <1>1. RecordInv(p, r)
    BY DEF TokenInv
  <1> HIDE DEF r
  <1>2. /\ s.at \in {"off", "get", "wait", "feed"} /\ s.held = 0 /\ ~s.forced
        /\ \/ s.cached = r.cached /\ s.refused = r.refused
           \/ s.cached = 0 /\ s.refused = {}
    BY DEF Rests, r
  <1>3. s.at \notin {"mint", "save", "request", "again", "refresh"}
    BY <1>2
  <1>4. HeldIsCached(s)
    BY <1>2, <1>3 DEF HeldIsCached
  <1>5. FileIsNew(s) /\ ExplicitFirst(p, s)
    BY <1>1, <1>2, <1>3 DEF RecordInv, FileIsNew, ExplicitFirst
  <1>6. Tokens(s) \subseteq Known(p)
    BY <1>2 DEF Tokens, Known, r
  <1>7. QED
    BY <1>3, <1>4, <1>5, <1>6 DEF Fits, RecordInv

(* Steps after which the process rests. *)
Halts(p) ==
  \/ RejectFile(p) \/ CannotGenerate(p) \/ MintFails(p) \/ SaveFails(p) \/ NotEntitled(p)
  \/ Crash(p) \/ FeedLost(p) \/ Resume(p)
  \/ Start(p) /\ p \notin Helpers

LEMMA RestingSteps ==
  ASSUME TypeOK, NEW p \in Processes, Halts(p)
  PROVE  /\ UNCHANGED <<settings, dhan, file>>
         /\ \E s \in Process : Update(p, s) /\ Rests(proc[p], s)
  <1>1. proc[p] \in Process /\ issued \in Nat
    BY TokenAssumption DEF TypeOK
  <1>2. CASE RejectFile(p) \/ CannotGenerate(p) \/ SaveFails(p) \/ NotEntitled(p)
    BY <1>2, ErrorRests DEF RejectFile, CannotGenerate, SaveFails, NotEntitled
  <1>3. CASE MintFails(p)
    BY <1>3, ErrorRests DEF MintFails
  <1>4. CASE Crash(p)
    BY <1>1, <1>4, IdleRecord DEF Crash, Rests
  <1>5. CASE FeedLost(p)
    BY <1>1, <1>5, BetweenRests DEF FeedLost
  <1>6. CASE Resume(p)
    BY <1>1, <1>6, BetweenRests DEF Resume
  <1>7. CASE Start(p) /\ p \notin Helpers
    <2> DEFINE s == [Idle EXCEPT !.at = "get"]
    <2>1. s.at = "get" /\ s.cached = 0 /\ s.refused = {} /\ s.held = 0
      BY DEF Idle
    <2>2. ~s.forced
      BY DEF Idle
    <2>3. s \in Process
      BY <1>1, IdleRecord DEF Process
    <2>4. Update(p, s) /\ UNCHANGED <<settings, dhan, file>>
      BY <1>7 DEF Start
    <2> HIDE DEF s
    <2>5. Rests(proc[p], s)
      BY <2>1, <2>2 DEF Rests
    <2>6. QED
      BY <2>3, <2>4, <2>5
  <1>8. QED
    BY <1>2, <1>3, <1>4, <1>5, <1>6, <1>7 DEF Halts

(* The helper starts with nothing. *)
LEMMA HelperStart ==
  ASSUME TypeOK, TokenInv, NEW p \in Helpers, Start(p)
  PROVE  /\ UNCHANGED <<settings, dhan, file>>
         /\ \E s : Update(p, s) /\ Fits(p, s)
  <1> DEFINE s == [Idle EXCEPT !.at = "mint"]
  <1>0. issued \in Nat
    BY TokenAssumption DEF TypeOK
  <1>1. s.at = "mint" /\ s.cached = 0 /\ s.refused = {} /\ s.held = 0
    BY DEF Idle
  <1>2. s \in Process
    BY <1>0, IdleRecord DEF Process
  <1>3. Update(p, s) /\ UNCHANGED <<settings, dhan, file>>
    BY DEF Start
  <1> HIDE DEF s
  <1>4. RecordInv(p, s) /\ Tokens(s) \subseteq Known(p) /\ s.at # "save"
    BY <1>1 DEF RecordInv, FileIsNew, HeldIsCached, ExplicitFirst, Tokens, Known
  <1>5. QED
    BY <1>2, <1>3, <1>4 DEF Fits

(* The step changes the record to one that fits, and is no login. *)
Moves(p) ==
  /\ UNCHANGED <<settings, dhan, file>>
  /\ \E s : Update(p, s) /\ Fits(p, s) /\ s.at # "mint"

LEMMA HaltsMoves ==
  ASSUME TypeOK, TokenInv, NEW p \in Processes, Halts(p)
  PROVE  Moves(p)
  <1>1. PICK s \in Process : Update(p, s) /\ Rests(proc[p], s)
    BY RestingSteps
  <1>2. Fits(p, s) /\ s.at # "mint"
    BY <1>1, RestFits
  <1>3. QED
    BY <1>1, <1>2, RestingSteps DEF Moves

(* An accepted request leaves a process resting, or a job with another     *)
(* request of the same token.                                              *)
LEMMA AcceptMoves ==
  ASSUME TypeOK, TokenInv, NEW p \in Processes, Accept(p)
  PROVE  Moves(p)
  <1> DEFINE r == proc[p]
             s == [r EXCEPT !.at = "request", !.op = "snapshot"]
             b == Between(r, "feed", r.op)
             f == [b EXCEPT !.token = r.token]
             a == AfterSuccess(p)
  <1>1. r \in Process /\ issued \in Nat /\ r.at \in {"request", "again"}
    BY TokenAssumption DEF TypeOK, Accept
  <1>2. r.op \in {"preflight", "validate", "snapshot"} /\ r.token \in 0..issued
    BY <1>1 DEF Process
  <1>3. Update(p, a) /\ UNCHANGED <<settings, dhan, file>>
    BY DEF Accept
  <1>4. a \in {Between(r, "wait", r.op), Idle, s, f}
    BY DEF AfterSuccess
  <1>5. RecordInv(p, r)
    BY DEF TokenInv
  <1>6. CASE a \in Process /\ Rests(r, a)
    BY <1>3, <1>6, RestFits DEF Moves
  <1> HIDE DEF a
  <1>7. CASE a = Between(r, "wait", r.op)
    BY <1>1, <1>2, <1>6, <1>7, BetweenRests
  <1>8. CASE a = Idle
    BY <1>1, <1>6, <1>8, IdleRecord DEF Rests
  <1>9. CASE a = f
    <2>1. b \in Process /\ Rests(r, b)
      BY <1>1, <1>2, BetweenRests
    <2>2. /\ f \in Process /\ f.at = b.at /\ f.cached = b.cached /\ f.held = b.held
          /\ f.refused = b.refused
      BY <1>2, <2>1 DEF Process
    <2>3. f.forced = b.forced
      BY <2>1 DEF Process
    <2> HIDE DEF f, b
    <2>4. Rests(r, f)
      BY <2>1, <2>2, <2>3 DEF Rests
    <2>5. QED
      BY <1>6, <1>9, <2>2, <2>4
  <1>10. CASE a = s
    <2>1. /\ s \in Process /\ s.at = "request" /\ s.held = r.held
          /\ s.cached = r.cached /\ s.refused = r.refused
      BY <1>1 DEF Process
    <2>2. s.forced = r.forced
      BY <1>1 DEF Process
    <2> HIDE DEF s, r
    <2>3. ~s.forced
      BY <1>1, <1>5, <2>2 DEF RecordInv, HeldIsCached
    <2>4. FileIsNew(s) /\ ExplicitFirst(p, s)
      BY <1>5, <2>1 DEF RecordInv, FileIsNew, ExplicitFirst
    <2>5. HeldIsCached(s)
      BY <1>1, <1>5, <2>1, <2>3 DEF RecordInv, HeldIsCached
    <2>6. Tokens(s) \subseteq Known(p)
      BY <2>1 DEF Tokens, Known, r
    <2>7. Fits(p, s)
      BY <2>1, <2>4, <2>5, <2>6 DEF Fits, RecordInv
    <2>8. QED
      BY <1>3, <1>10, <2>1, <2>7 DEF Moves
  <1>11. QED
    BY <1>4, <1>7, <1>8, <1>9, <1>10

(* A refused request leads to the one refresh or to an error. *)
LEMMA RefuseMoves ==
  ASSUME TypeOK, TokenInv, NEW p \in Processes, Refuses(p) \/ Denies(p)
  PROVE  Moves(p)
  <1> DEFINE r == proc[p]
  <1>1. PICK e \in {"auth", "retry", "other"} : Refuse(p, e)
    BY DEF Refuses, Denies
  <1>2. r \in Process /\ issued \in Nat /\ UNCHANGED <<settings, dhan, file>>
    BY <1>1, TokenAssumption DEF Refuse, TypeOK
  <1>3. CASE r.at = "request" /\ RefreshedFor(e)
    <2> DEFINE s == [r EXCEPT !.at = "refresh", !.refused = @ \cup Refused(p, e)]
    <2>1. Update(p, s)
      BY <1>1, <1>3 DEF Refuse
    <2>2. Refused(p, e) = {r.held}
      BY <1>3 DEF Refused, RefreshedFor
    <2>3. RecordInv(p, r) /\ FileIsMinted
      BY DEF TokenInv
    <2>4. r.held = r.cached \/ OnlyExplicit(r.held)
      BY <1>3, <2>3 DEF RecordInv, HeldIsCached
    <2>5. r.held \in 1..issued
      <3>1. r.cached # 0 /\ r.cached \in 0..issued
        BY <1>2, <1>3, <2>3 DEF RecordInv, HeldIsCached, Process
      <3>2. explicit => Explicit \in 1..issued
        BY <1>2, <2>3 DEF FileIsMinted, Explicit
      <3>3. QED
        BY <1>2, <2>4, <3>1, <3>2 DEF OnlyExplicit
    <2>6. r.refused \in SUBSET (1..issued) /\ ~r.forced
      BY <1>2, <1>3, <2>3 DEF Process, RecordInv, HeldIsCached
    <2>7. s \in Process
      BY <1>2, <2>2, <2>5, <2>6 DEF Process
    <2>8. /\ s.at = "refresh" /\ s.cached = r.cached /\ s.held = r.held
          /\ s.refused = r.refused \cup {r.held}
      BY <1>2, <2>2 DEF Process
    <2>9. s.forced = r.forced
      BY <1>2 DEF Process
    <2> HIDE DEF s, r
    <2>10. FileIsNew(s)
      BY <2>3, <2>4, <2>8 DEF RecordInv, FileIsNew, FileIsMinted, OnlyExplicit
    <2>11. HeldIsCached(s)
      BY <1>3, <2>3, <2>4, <2>6, <2>8, <2>9 DEF RecordInv, HeldIsCached, OnlyExplicit
    <2>12. ExplicitFirst(p, s)
      BY <2>3, <2>8 DEF RecordInv, ExplicitFirst
    <2>13. Tokens(s) \subseteq Known(p)
      BY <2>8 DEF Tokens, Known, r
    <2>14. QED
      BY <1>2, <2>1, <2>7, <2>8, <2>10, <2>11, <2>12, <2>13 DEF Moves, Fits, RecordInv
  <1>4. CASE ~(r.at = "request" /\ RefreshedFor(e))
    <2>1. Update(p, AfterError(p, e))
      BY <1>1, <1>4 DEF Refuse
    <2>2. Fits(p, AfterError(p, e)) /\ AfterError(p, e).at # "mint"
      BY ErrorRests, RestFits
    <2>3. QED
      BY <1>2, <2>1, <2>2 DEF Moves
  <1>5. QED
    BY <1>3, <1>4

(* What get_token must return, and cache, for a request.  A second try is  *)
(* made with a token that was not refused, or with the explicit one.       *)
Serves(p, c, t) ==
  /\ c \in 1..issued /\ c \in Known(p)
  /\ t \in 0..issued /\ t \in Known(p)
  /\ t = c \/ OnlyExplicit(t)
  /\ Forced(p) /\ t \in proc[p].refused => OnlyExplicit(t)
  /\ file \in proc[p].refused \cap fresh => file = c
  /\ explicit /\ Usable(Explicit) => c = Explicit \/ Explicit \in proc[p].refused

(* get_token serves a token that was there. *)
LEMMA ServeMoves ==
  ASSUME TypeOK, TokenInv, NEW p \in Processes, Asked(p), NEW c, NEW t, Serves(p, c, t),
         Update(p, Returned([proc[p] EXCEPT !.cached = c], t)),
         UNCHANGED <<settings, dhan, file>>
  PROVE  Moves(p)
  <1> DEFINE r == proc[p]
             u == [r EXCEPT !.cached = c]
             s == Returned(u, t)
  <1>1. r \in Process /\ issued \in Nat /\ r.at \in {"get", "refresh"}
    BY TokenAssumption DEF TypeOK, Asked
  <1>2. c \in 1..issued /\ t \in 0..issued /\ c \in 0..issued /\ c # 0
    BY <1>1 DEF Serves
  <1>3. u \in Process /\ u.at = r.at /\ u.cached = c /\ u.refused = r.refused
    BY <1>1, <1>2 DEF Process
  <1>4. u.forced = r.forced
    BY <1>1 DEF Process
  <1>5. RecordInv(p, r)
    BY DEF TokenInv
  <1>6. ~u.forced
    BY <1>1, <1>4, <1>5 DEF RecordInv, HeldIsCached
  <1> HIDE DEF u
  <1>7. /\ s \in Process /\ s.held = t /\ s.cached = c /\ s.refused = r.refused
        /\ r.at = "refresh" => s.at = "again"
        /\ r.at # "refresh" => s.at = "request"
    BY <1>1, <1>2, <1>3, <1>6, ReturnedRecord
  <1>8. ~s.forced
    BY <1>1, <1>2, <1>3, ReturnedRecord
  <1> HIDE DEF s
  <1>9. HeldIsCached(s)
    BY <1>2, <1>7, <1>8 DEF HeldIsCached, Serves, Forced, r
  <1>10. FileIsNew(s) /\ ExplicitFirst(p, s)
    BY <1>7 DEF FileIsNew, ExplicitFirst, Serves, r
  <1>11. Tokens(s) \subseteq Known(p)
    <2>1. r.refused \subseteq Known(p) /\ c \in Known(p) /\ t \in Known(p)
      BY DEF Serves, Known, Tokens, r
    <2>2. QED
      BY <1>7, <2>1 DEF Tokens
  <1>12. Fits(p, s) /\ s.at # "mint"
    BY <1>7, <1>9, <1>10, <1>11 DEF Fits, RecordInv
  <1>13. QED
    BY <1>12 DEF Moves, s, u, r

(* What a process knows when it asks for a token. *)
LEMMA Asking ==
  ASSUME TypeOK, TokenInv, NEW p \in Processes, Asked(p)
  PROVE  /\ proc[p] \in Process /\ issued \in Nat /\ file \in 0..issued
         /\ fresh \subseteq 1..issued
         /\ proc[p].cached \in 0..issued
         /\ [proc[p] EXCEPT !.cached = proc[p].cached] = proc[p]
         /\ RecordInv(p, proc[p]) /\ FileIsMinted
         /\ proc[p].at = "get" \/ Forced(p)
  <1>1. proc[p] \in Process
    BY DEF TypeOK
  <1>2. proc[p].cached \in 0..issued /\ [proc[p] EXCEPT !.cached = proc[p].cached] = proc[p]
    BY <1>1 DEF Process
  <1>3. QED
    BY <1>1, <1>2, TokenAssumption DEF TypeOK, TokenInv, Asked, Forced

LEMMA UseCachedMoves ==
  ASSUME TypeOK, TokenInv, NEW p \in Processes, UseCached(p)
  PROVE  Moves(p)
  <1> DEFINE c == proc[p].cached
  <1>1. Asked(p) /\ CacheServes(p) /\ UNCHANGED <<settings, dhan, file>>
    BY DEF UseCached
  <1>2. c \in 1..issued /\ c # 0
    <2>1. c \in fresh
      BY <1>1 DEF CacheServes, Usable
    <2>2. fresh \subseteq 1..issued
      BY <1>1, Asking
    <2>3. c \in 1..issued
      BY <2>1, <2>2
    <2>4. QED
      BY <2>3
  <1>3. Serves(p, c, c)
    BY <1>1, <1>2, Asking
       DEF Serves, CacheServes, Known, Tokens, RecordInv, FileIsNew, ExplicitFirst
  <1>4. Update(p, Returned([proc[p] EXCEPT !.cached = c], c))
    BY <1>1, Asking DEF UseCached
  <1>5. QED
    BY <1>1, <1>3, <1>4, ServeMoves

LEMMA UseExplicitMoves ==
  ASSUME TypeOK, TokenInv, NEW p \in Processes, UseExplicit(p)
  PROVE  Moves(p)
  <1>1. Asked(p) /\ ExplicitServes(p) /\ UNCHANGED <<settings, dhan, file>>
    BY DEF UseExplicit
  <1>2. Explicit \in 1..issued /\ Explicit \in Known(p)
    BY <1>1, Asking DEF ExplicitServes, Usable, Known
  <1>3. file \notin proc[p].refused \cap fresh
    BY <1>1, Asking DEF ExplicitServes, Usable, RecordInv, FileIsNew
  <1>4. Serves(p, Explicit, Explicit)
    BY <1>1, <1>2, <1>3, Asking DEF Serves, ExplicitServes
  <1>5. QED
    BY <1>1, <1>4, ServeMoves DEF UseExplicit

(* A process that passes over the explicit token had it refused. *)
LEMMA PassedOver ==
  ASSUME TypeOK, TokenInv, NEW p \in Processes, Asked(p),
         ~CacheServes(p), ~ExplicitServes(p), explicit, Usable(Explicit)
  PROVE  Explicit \in proc[p].refused
  <1>1. Forced(p)
    BY DEF CacheServes, ExplicitServes
  <1>2. proc[p].cached # 0
    BY <1>1, Asking DEF Forced, RecordInv, HeldIsCached
  <1>3. proc[p].cached = Explicit \/ Explicit \in proc[p].refused
    BY <1>2, Asking DEF RecordInv, ExplicitFirst
  <1>4. proc[p].cached \in proc[p].refused \/ Explicit \in proc[p].refused
    BY <1>1, Asking DEF Forced, RecordInv, HeldIsCached
  <1>5. QED
    BY <1>3, <1>4

LEMMA UseFileMoves ==
  ASSUME TypeOK, TokenInv, NEW p \in Processes, UseFile(p)
  PROVE  Moves(p)
  <1>1. Asked(p) /\ FileServes(p) /\ UNCHANGED <<settings, dhan, file>>
    BY DEF UseFile
  <1>2. file \in 1..issued /\ file \in Known(p)
    BY <1>1, Asking DEF FileServes, Usable, Known
  <1>3. Forced(p) => file \notin proc[p].refused
    BY <1>1, Asking DEF FileServes, Usable, RecordInv, FileIsNew
  <1>4. explicit /\ Usable(Explicit) => Explicit \in proc[p].refused
    BY <1>1, PassedOver DEF FileServes
  <1>5. Serves(p, file, file)
    BY <1>1, <1>2, <1>3, <1>4, Asking DEF Serves
  <1>6. QED
    BY <1>1, <1>5, ServeMoves DEF UseFile

LEMMA RepeatExplicitMoves ==
  ASSUME TypeOK, TokenInv, NEW p \in Processes, RepeatExplicit(p)
  PROVE  Moves(p)
  <1> DEFINE c == proc[p].cached
  <1>1. /\ Asked(p) /\ Forced(p) /\ OnlyExplicit(Explicit) /\ UNCHANGED <<settings, dhan, file>>
    BY DEF RepeatExplicit, Asked, Forced, OnlyExplicit
  <1>2. c \in 1..issued /\ c # 0 /\ c \in Known(p)
    <2>1. c # 0
      BY <1>1, Asking DEF Forced, RecordInv, HeldIsCached
    <2>2. c \in 0..issued /\ issued \in Nat
      BY <1>1, Asking
    <2>3. c \in 1..issued
      BY <2>1, <2>2
    <2>4. QED
      BY <2>1, <2>3 DEF Known, Tokens
  <1>3. Explicit \in 0..issued /\ Explicit \in Known(p)
    <2>1. issued > 0 /\ issued \in Nat
      BY <1>1, Asking DEF OnlyExplicit, FileIsMinted
    <2>2. Explicit \in 0..issued
      BY <2>1 DEF Explicit
    <2>3. QED
      BY <1>1, <2>2 DEF OnlyExplicit, Known
  <1>4. Serves(p, c, Explicit)
    BY <1>1, <1>2, <1>3, Asking DEF Serves, RecordInv, FileIsNew, ExplicitFirst
  <1>5. Update(p, Returned([proc[p] EXCEPT !.cached = c], Explicit))
    BY <1>1, Asking DEF RepeatExplicit
  <1>6. QED
    BY <1>1, <1>4, <1>5, ServeMoves

(* A process that logs in had every usable token it has refused. *)
LEMMA GenerateStep ==
  ASSUME TypeOK, TokenInv, NEW p \in Processes, Generate(p)
  PROVE  /\ \E s : Update(p, s) /\ Fits(p, s)
         /\ UNCHANGED <<settings, dhan, file>>
         /\ ({proc[p].cached, file} \cup IF explicit THEN {Explicit} ELSE {}) \cap fresh
              \subseteq proc[p].refused
  <1> DEFINE r == proc[p]
             s == [r EXCEPT !.at = "mint", !.forced = Forced(p)]
  <1>1. Asked(p) /\ NothingServes(p) /\ headless /\ Update(p, s)
    BY DEF Generate
  <1>2. Forced(p) \in BOOLEAN
    BY DEF Forced
  <1>3. r \in Process
    BY <1>1, Asking
  <1>4. s \in Process
    BY <1>2, <1>3, Zenon DEF Process
  <1>5. s.at = "mint" /\ s.cached = r.cached /\ s.held = r.held /\ s.refused = r.refused
    BY <1>3 DEF Process
  <1>6. explicit /\ Usable(Explicit) => Explicit \in r.refused
    BY <1>1, PassedOver DEF NothingServes
  <1>7. RecordInv(p, r)
    BY <1>1, Asking
  <1>8. r.cached \in fresh => r.cached \in r.refused
    <2>1. CASE Forced(p)
      BY <1>1, <1>7, <2>1 DEF Forced, RecordInv, HeldIsCached, OnlyExplicit
    <2>2. CASE ~Forced(p)
      BY <1>1, <2>2 DEF NothingServes, CacheServes, Usable
    <2>3. QED
      BY <2>1, <2>2
  <1>9. file \in fresh => file \in r.refused
    BY <1>1, <1>8 DEF NothingServes, FileServes, Usable
  <1> HIDE DEF s
  <1>10. RecordInv(p, s)
    BY <1>5, <1>6, <1>7 DEF RecordInv, FileIsNew, HeldIsCached, ExplicitFirst
  <1>11. Tokens(s) \subseteq Known(p)
    BY <1>5 DEF Tokens, Known
  <1>12. Fits(p, s)
    BY <1>4, <1>5, <1>10, <1>11 DEF Fits
  <1>13. UNCHANGED <<settings, dhan, file>>
    BY DEF Generate
  <1>14. QED
    BY <1>1, <1>6, <1>8, <1>9, <1>12, <1>13 DEF Usable

-----------------------------------------------------------------------------
(* The steps that issue, save, age and revoke a token. *)

(* A minted token is new to everyone. *)
LEMMA MintStep ==
  ASSUME TypeOK, TokenInv, NEW p \in Processes, Mint(p)
  PROVE  TypeOK' /\ TokenInv'
  <1> DEFINE n == issued + 1
             r == proc[p]
             s == [r EXCEPT !.at = "save", !.new = n]
  <1>1. /\ r.at = "mint" /\ issued < MaxTokens /\ issued' = n
        /\ fresh' = fresh \cup {n} /\ live' = live \cup {n}
        /\ foreign' \subseteq foreign \cup {n}
        /\ Update(p, s) /\ UNCHANGED <<settings, file>>
    BY DEF Mint
  <1>2. issued \in Nat /\ MaxTokens \in Nat /\ n \in Nat /\ r \in Process
    BY TokenAssumption DEF TypeOK
  <1>3. 1..issued \subseteq 1..n /\ 0..issued \subseteq 0..n /\ n \in 1..n /\ n \in 0..n
        /\ n \notin 0..issued /\ n \notin 1..issued /\ n # 0
    BY <1>2
  <1>4. \A q \in Processes : proc[q] \in Process /\ proc[q] \in Process'
    <2>1. Process \subseteq Process'
      BY <1>1, <1>3, Zenon DEF Process
    <2>2. QED
      BY <2>1 DEF TypeOK
  <1>5. /\ s.at = "save" /\ s.new = n /\ s.cached = r.cached /\ s.held = r.held
        /\ s.refused = r.refused
    BY <1>2 DEF Process
  <1>6. s.forced = r.forced
    BY <1>2 DEF Process
  <1>7. s \in Process'
    <2>1. r \in Process' /\ n \in 0..issued'
      BY <1>1, <1>3, <1>4
    <2>2. QED
      BY <2>1, Zenon DEF Process
  <1>8. proc'[p] = s /\ \A q \in Processes : q # p => proc'[q] = proc[q]
    BY <1>1, Updates
  <1>9. proc' \in [Processes -> Process']
    <2>1. proc' = [proc EXCEPT ![p] = s] /\ proc \in [Processes -> Process']
      BY <1>1, <1>4 DEF Update, TypeOK
    <2>2. QED
      BY <1>7, <2>1
  <1> HIDE DEF s
  <1>10. TypeOK'
    <2>1. issued' \in 0..MaxTokens
      BY <1>1, <1>2
    <2>2. /\ fresh' \subseteq 1..issued' /\ live' \subseteq 1..issued'
          /\ foreign' \subseteq 1..issued' /\ file' \in 0..issued'
      BY <1>1, <1>3 DEF TypeOK
    <2>3. explicit' \in BOOLEAN /\ headless' \in BOOLEAN
      BY <1>1 DEF TypeOK, settings
    <2>4. QED
      BY <1>9, <2>1, <2>2, <2>3 DEF TypeOK
  <1>11. ASSUME NEW q \in Processes
         PROVE  n \notin Tokens(proc[q]) /\ n # proc[q].new
    <2>1. /\ proc[q].cached \in 0..issued /\ proc[q].held \in 0..issued
          /\ proc[q].new \in 0..issued /\ proc[q].refused \subseteq 1..issued
      BY <1>4 DEF Process
    <2>2. QED
      BY <1>3, <2>1 DEF Tokens
  <1>12. ASSUME NEW q \in Processes
         PROVE  Tokens(proc'[q]) = Tokens(proc[q])
    BY <1>5, <1>8 DEF Tokens
  <1>13. file # n /\ (explicit => n # Explicit)
    <2>1. file # n
      BY <1>3 DEF TypeOK
    <2>2. explicit => issued > 0
      BY DEF TokenInv, FileIsMinted
    <2>3. QED
      BY <1>2, <2>1, <2>2 DEF Explicit
  <1>14. NewIsUnknown'
    <2>1. ASSUME NEW q \in Processes, proc'[q].at = "save"
          PROVE  /\ proc'[q].new # 0 /\ proc'[q].new # file'
                 /\ explicit' => proc'[q].new # Explicit
                 /\ \A w \in Processes :
                      /\ proc'[q].new \notin Tokens(proc'[w])
                      /\ w # q /\ proc'[w].at = "save" => proc'[w].new # proc'[q].new
      <3>1. CASE q = p
        BY <1>1, <1>3, <1>5, <1>8, <1>11, <1>12, <1>13, <2>1, <3>1 DEF settings
      <3>2. CASE q # p
        <4>1. proc[q].at = "save" /\ proc'[q].new = proc[q].new
          BY <1>8, <2>1, <3>2
        <4>2. /\ proc[q].new # 0 /\ proc[q].new # file
              /\ explicit => proc[q].new # Explicit
              /\ \A w \in Processes :
                   /\ proc[q].new \notin Tokens(proc[w])
                   /\ w # q /\ proc[w].at = "save" => proc[w].new # proc[q].new
          BY <4>1 DEF TokenInv, NewIsUnknown
        <4>3. proc'[p].new # proc'[q].new
          BY <1>5, <1>8, <1>11, <4>1
        <4>4. QED
          BY <1>1, <1>8, <1>12, <4>1, <4>2, <4>3 DEF settings
      <3>3. QED
        BY <3>1, <3>2
    <2>2. QED
      BY <2>1 DEF NewIsUnknown, Tokens, Explicit
  <1>15. FileIsMinted'
    BY <1>1, <1>2 DEF TokenInv, FileIsMinted, Explicit, settings
  <1>16. Usable(Explicit)' /\ explicit => Usable(Explicit)
    BY <1>1, <1>13 DEF Usable, Explicit
  <1>17. ASSUME NEW q \in Processes
         PROVE  RecordInv(q, proc[q])'
    <2>1. RecordInv(q, proc[q])
      BY DEF TokenInv
    <2>2. FileIsNew(proc[q])'
      BY <1>1, <1>5, <1>8, <1>13, <2>1 DEF RecordInv, FileIsNew
    <2>3. HeldIsCached(proc[q])'
      <3>1. CASE q = p
        BY <1>1, <1>5, <1>6, <1>8, <2>1, <3>1
           DEF RecordInv, HeldIsCached, OnlyExplicit, Explicit, settings
      <3>2. CASE q # p
        BY <1>1, <1>8, <2>1, <3>2
           DEF RecordInv, HeldIsCached, OnlyExplicit, Explicit, settings
      <3>3. QED
        BY <3>1, <3>2
    <2>4. ExplicitFirst(q, proc[q])'
      BY <1>1, <1>5, <1>8, <1>16, <2>1 DEF RecordInv, ExplicitFirst, Explicit, settings
    <2>5. QED
      BY <2>2, <2>3, <2>4 DEF RecordInv
  <1>18. QED
    BY <1>10, <1>14, <1>15, <1>17 DEF TokenInv

(* The record of a process that has saved its token. *)
LEMMA SavedRecord ==
  ASSUME TypeOK, TokenInv, NEW p \in Processes, Save(p)
  PROVE  \E s \in Process :
           /\ Update(p, s) /\ HeldIsCached(s) /\ s.at \notin {"mint", "save"}
           /\ \/ s.cached = 0 /\ s.held = 0 /\ s.refused = {}
              \/ /\ s.cached = proc[p].new /\ s.held = proc[p].new
                 /\ s.refused = proc[p].refused /\ p \notin Helpers
  <1> DEFINE r == proc[p]
             u == [r EXCEPT !.cached = r.new]
             s == Returned(u, r.new)
  <1>1. r \in Process /\ issued \in Nat /\ r.at = "save"
    BY TokenAssumption DEF TypeOK, Save
  <1>2. CASE p \in Helpers
    <2>1. Update(p, Idle)
      BY <1>2 DEF Save
    <2>2. HeldIsCached(Idle)
      BY <1>1, IdleRecord DEF HeldIsCached
    <2>3. QED
      BY <1>1, <2>1, <2>2, IdleRecord
  <1>3. CASE p \notin Helpers
    <2>1. Update(p, s)
      BY <1>3 DEF Save
    <2>2. r.new \in 0..issued /\ r.new # 0 /\ r.new \notin Tokens(r)
      BY <1>1 DEF Process, TokenInv, NewIsUnknown
    <2>3. u \in Process /\ u.cached = r.new /\ u.refused = r.refused
      BY <1>1, <2>2 DEF Process
    <2> HIDE DEF u
    <2>4. /\ s \in Process /\ s.held = r.new /\ s.cached = r.new /\ s.refused = r.refused
          /\ s.at \in {"request", "again"}
      BY <1>1, <2>2, <2>3, ReturnedRecord
    <2>5. ~s.forced
      BY <1>1, <2>2, <2>3, ReturnedRecord
    <2> HIDE DEF s
    <2>6. HeldIsCached(s)
      BY <2>2, <2>4, <2>5 DEF HeldIsCached, Tokens
    <2>7. QED
      BY <1>3, <2>1, <2>4, <2>6
  <1>4. QED
    BY <1>2, <1>3

LEMMA SaveStep ==
  ASSUME TypeOK, TokenInv, NEW p \in Processes, Save(p)
  PROVE  /\ TypeOK' /\ TokenInv'
         /\ proc'[p].at # "mint" /\ \A q \in Processes : q # p => proc'[q] = proc[q]
  <1> USE DEF settings, dhan
  <1> DEFINE n == proc[p].new
             r == proc[p]
  <1>1. PICK s \in Process :
           /\ Update(p, s) /\ HeldIsCached(s) /\ s.at \notin {"mint", "save"}
           /\ \/ s.cached = 0 /\ s.held = 0 /\ s.refused = {}
              \/ s.cached = n /\ s.held = n /\ s.refused = r.refused /\ p \notin Helpers
    BY SavedRecord
  <1>2. r.at = "save" /\ file' = n /\ UNCHANGED <<settings, dhan>>
    BY DEF Save
  <1>3. /\ proc'[p] = s /\ \A q \in Processes : q # p => proc'[q] = proc[q]
        /\ proc' \in [Processes -> Process]
    BY <1>1, Updates
  <1>4. /\ n # 0 /\ (explicit => n # Explicit)
        /\ \A q \in Processes :
             /\ n \notin Tokens(proc[q])
             /\ q # p /\ proc[q].at = "save" => proc[q].new # n
    BY <1>2 DEF TokenInv, NewIsUnknown
  <1>5. TypeOK'
    <2>1. n \in 0..issued
      BY DEF TypeOK, Process
    <2>2. Process' = Process
      BY <1>2 DEF Process
    <2>3. QED
      BY <1>2, <1>3, <2>1, <2>2 DEF TypeOK
  <1>6. ASSUME NEW q \in Processes
        PROVE  Tokens(proc'[q]) \subseteq Tokens(proc[q]) \cup {0, n}
    BY <1>1, <1>3 DEF Tokens
  <1>7. NewIsUnknown'
    <2>1. ASSUME NEW q \in Processes, proc'[q].at = "save"
          PROVE  /\ proc'[q].new # 0 /\ proc'[q].new # file'
                 /\ explicit' => proc'[q].new # Explicit
                 /\ \A w \in Processes :
                      /\ proc'[q].new \notin Tokens(proc'[w])
                      /\ w # q /\ proc'[w].at = "save" => proc'[w].new # proc'[q].new
      <3>1. q # p /\ proc[q].at = "save" /\ proc'[q].new = proc[q].new
        BY <1>1, <1>3, <2>1
      <3>2. /\ proc[q].new # 0 /\ proc[q].new # n
            /\ explicit => proc[q].new # Explicit
            /\ \A w \in Processes :
                 /\ proc[q].new \notin Tokens(proc[w])
                 /\ w # q /\ proc[w].at = "save" => proc[w].new # proc[q].new
        BY <1>4, <3>1 DEF TokenInv, NewIsUnknown
      <3>3. \A w \in Processes : proc[q].new \notin Tokens(proc'[w])
        BY <1>6, <3>2
      <3>4. \A w \in Processes : w # q /\ proc'[w].at = "save" => proc'[w].new # proc[q].new
        BY <1>1, <1>3, <3>2
      <3>5. QED
        BY <1>2, <3>1, <3>2, <3>3, <3>4
    <2>2. QED
      BY <2>1 DEF NewIsUnknown, Tokens, Explicit
  <1>8. FileIsMinted'
    BY <1>2, <1>4 DEF TokenInv, FileIsMinted, Explicit
  <1>9. ASSUME NEW q \in Processes
        PROVE  RecordInv(q, proc[q])'
    <2>1. RecordInv(q, proc[q]) /\ RecordInv(p, r)
      BY DEF TokenInv
    <2>2. n \notin proc'[q].refused
      BY <1>1, <1>3, <1>4 DEF Tokens
    <2>3. FileIsNew(proc[q])'
      BY <1>2, <2>2 DEF FileIsNew
    <2>4. HeldIsCached(proc[q])'
      <3>1. HeldIsCached(proc'[q])
        BY <1>1, <1>3, <2>1 DEF RecordInv
      <3>2. QED
        BY <1>2, <3>1 DEF HeldIsCached, OnlyExplicit, Explicit
    <2>5. ExplicitFirst(q, proc[q])'
      <3>1. ExplicitFirst(q, proc'[q])
        <4>1. CASE q = p
          BY <1>1, <1>2, <1>3, <2>1, <4>1 DEF RecordInv, ExplicitFirst
        <4>2. CASE q # p
          BY <1>3, <2>1, <4>2 DEF RecordInv
        <4>3. QED
          BY <4>1, <4>2
      <3>2. QED
        BY <1>2, <3>1 DEF ExplicitFirst, Usable, Explicit
    <2>6. QED
      BY <2>3, <2>4, <2>5 DEF RecordInv
  <1>10. QED
    BY <1>1, <1>3, <1>5, <1>7, <1>8, <1>9 DEF TokenInv

(* A token nears its expiry or is no longer accepted. *)
LEMMA TimePasses ==
  ASSUME TypeOK, TokenInv, Age \/ Revoke
  PROVE  TypeOK' /\ TokenInv'
  <1> USE DEF settings
  <1>1. /\ fresh' \subseteq fresh /\ live' \subseteq live
        /\ UNCHANGED <<settings, issued, foreign, file, proc>>
    BY DEF Age, Revoke
  <1>2. Process' = Process
    BY <1>1 DEF Process
  <1>3. TypeOK'
    BY <1>1, <1>2 DEF TypeOK
  <1>4. NewIsUnknown' /\ FileIsMinted'
    BY <1>1 DEF TokenInv, NewIsUnknown, FileIsMinted, Tokens, Explicit
  <1>5. ASSUME NEW q \in Processes
        PROVE  RecordInv(q, proc[q])'
    <2>1. RecordInv(q, proc[q])
      BY DEF TokenInv
    <2>2. FileIsNew(proc[q])' /\ HeldIsCached(proc[q])'
      BY <1>1, <2>1 DEF RecordInv, FileIsNew, HeldIsCached, OnlyExplicit, Explicit
    <2>3. ExplicitFirst(q, proc[q])'
      BY <1>1, <2>1 DEF RecordInv, ExplicitFirst, Usable, Explicit
    <2>4. QED
      BY <2>2, <2>3 DEF RecordInv
  <1>6. QED
    BY <1>3, <1>4, <1>5 DEF TokenInv

-----------------------------------------------------------------------------
(* The theorems. *)

LEMMA Initially ==
  Init => TypeOK /\ TokenInv
  <1> SUFFICES ASSUME Init PROVE TypeOK /\ TokenInv
    OBVIOUS
  <1>1. issued \in Nat /\ issued \in 0..MaxTokens /\ file \in 0..issued
    BY TokenAssumption DEF Init
  <1>2. Idle \in Process
    BY <1>1, IdleRecord
  <1>3. \A p \in Processes : proc[p] = Idle
    BY DEF Init
  <1>4. TypeOK
    BY <1>1, <1>2 DEF Init, TypeOK
  <1>5. NewIsUnknown
    BY <1>1, <1>3, IdleRecord DEF NewIsUnknown
  <1>6. FileIsMinted
    BY DEF Init, FileIsMinted, Explicit
  <1>7. \A p \in Processes : RecordInv(p, proc[p])
    BY <1>1, <1>3, IdleRecord DEF RecordInv, FileIsNew, HeldIsCached, ExplicitFirst
  <1>8. QED
    BY <1>4, <1>5, <1>6, <1>7 DEF TokenInv

(* A process that logs in, other than a helper, does so by Generate: a     *)
(* step of the action property for one process.                            *)
LogsInRightly(p) ==
  proc[p].at # "mint" /\ proc'[p].at = "mint" =>
    ({proc[p].cached, file} \cup IF explicit THEN {Explicit} ELSE {}) \cap fresh
      \subseteq proc[p].refused

LEMMA ProcessStep ==
  ASSUME TypeOK, TokenInv, NEW p \in Processes, Proceed(p) \/ Trouble(p)
  PROVE  /\ TypeOK' /\ TokenInv'
         /\ \A q \in Processes \ Helpers : LogsInRightly(q)
  <1>1. CASE Moves(p)
    <2>1. PICK s : Update(p, s) /\ Fits(p, s) /\ s.at # "mint"
      BY <1>1 DEF Moves
    <2>2. TypeOK' /\ TokenInv'
      BY <1>1, <2>1, RecordStep DEF Moves
    <2>3. proc'[p] = s /\ \A q \in Processes : q # p => proc'[q] = proc[q]
      BY <2>1, Updates
    <2>4. QED
      BY <2>1, <2>2, <2>3 DEF LogsInRightly
  <1>2. CASE Start(p) /\ p \in Helpers
    <2>1. PICK s : Update(p, s) /\ Fits(p, s)
      BY <1>2, HelperStart
    <2>2. UNCHANGED <<settings, dhan, file>>
      BY <1>2, HelperStart
    <2>3. TypeOK' /\ TokenInv'
      BY <2>1, <2>2, RecordStep
    <2>4. \A q \in Processes : q # p => proc'[q] = proc[q]
      BY <2>1, Updates
    <2>5. QED
      BY <1>2, <2>3, <2>4 DEF LogsInRightly
  <1>3. CASE Generate(p)
    <2>1. PICK s : Update(p, s) /\ Fits(p, s)
      BY <1>3, GenerateStep
    <2>2. TypeOK' /\ TokenInv'
      BY <1>3, <2>1, GenerateStep, RecordStep
    <2>3. \A q \in Processes : q # p => proc'[q] = proc[q]
      BY <2>1, Updates
    <2>4. LogsInRightly(p)
      BY <1>3, GenerateStep DEF LogsInRightly
    <2>5. QED
      BY <2>2, <2>3, <2>4 DEF LogsInRightly
  <1>4. CASE Mint(p)
    <2>1. proc[p].at = "mint" /\ \A q \in Processes : q # p => proc'[q] = proc[q]
      BY <1>4 DEF Mint, Update, TypeOK
    <2>2. QED
      BY <1>4, <2>1, MintStep DEF LogsInRightly
  <1>5. CASE Save(p)
    BY <1>5, SaveStep DEF LogsInRightly
  <1>6. CASE Halts(p)
    BY <1>1, <1>6, HaltsMoves
  <1>7. CASE UseCached(p)
    BY <1>1, <1>7, UseCachedMoves
  <1>8. CASE UseExplicit(p)
    BY <1>1, <1>8, UseExplicitMoves
  <1>9. CASE UseFile(p)
    BY <1>1, <1>9, UseFileMoves
  <1>10. CASE RepeatExplicit(p)
    BY <1>1, <1>10, RepeatExplicitMoves
  <1>11. CASE Accept(p)
    BY <1>1, <1>11, AcceptMoves
  <1>12. CASE Refuses(p) \/ Denies(p)
    BY <1>1, <1>12, RefuseMoves
  <1>13. QED
    BY <1>2, <1>3, <1>4, <1>5, <1>6, <1>7, <1>8, <1>9, <1>10, <1>11, <1>12
       DEF Proceed, Trouble, Halts

LEMMA Preserved ==
  ASSUME TypeOK, TokenInv, [Next]_vars
  PROVE  /\ TypeOK' /\ TokenInv'
         /\ \A q \in Processes \ Helpers : LogsInRightly(q)
  <1>1. CASE \E p \in Processes : Proceed(p) \/ Trouble(p)
    BY <1>1, ProcessStep
  <1>2. CASE Age \/ Revoke
    <2>1. proc' = proc
      BY <1>2 DEF Age, Revoke
    <2>2. QED
      BY <1>2, <2>1, TimePasses DEF LogsInRightly
  <1>3. CASE UNCHANGED vars
    <2>1. UNCHANGED <<explicit, headless, issued, fresh, live, foreign, file, proc>>
      BY <1>3 DEF vars, settings, dhan
    <2>2. TypeOK'
      BY <2>1 DEF TypeOK, Process
    <2>3. TokenInv'
      BY <2>1 DEF TokenInv, NewIsUnknown, FileIsMinted, RecordInv, FileIsNew, HeldIsCached,
                  ExplicitFirst, OnlyExplicit, Usable, Explicit, Tokens
    <2>4. QED
      BY <2>1, <2>2, <2>3 DEF LogsInRightly
  <1>4. QED
    BY <1>1, <1>2, <1>3 DEF Next

(* The inductive invariant holds. *)
LEMMA Invariant ==
  Spec => [](TypeOK /\ TokenInv)
  <1>1. Init => TypeOK /\ TokenInv
    BY Initially
  <1>2. TypeOK /\ TokenInv /\ [Next]_vars => (TypeOK /\ TokenInv)'
    BY Preserved
  <1>3. QED
    BY <1>1, <1>2, PTL DEF Spec

(* Whatever processes share the file, every token they have was issued.    *)
THEOREM TypeCorrect == Spec => []TypeOK
  BY Invariant, PTL

(* _with_auth_refresh never repeats a request with a token that Dhan has   *)
(* refused to this process, unless all it has is the explicit one.         *)
THEOREM Retries == Spec => []RetryUsesAnotherToken
  <1>1. TypeOK /\ TokenInv => RetryUsesAnotherToken
    BY DEF TokenInv, RecordInv, HeldIsCached, OnlyExplicit, RetryUsesAnotherToken
  <1>2. QED
    BY <1>1, Invariant, PTL

(* get_token logs in only when Dhan has refused the process every usable   *)
(* token among its cached, the explicit and the saved one.                 *)
THEOREM LogsIn == Spec => LogsInOnlyWhenRefused
  <1>1. TypeOK /\ TokenInv /\ [Next]_vars =>
          [\A p \in Collectors \cup Jobs : LogsInRightly(p)]_vars
    BY Preserved, TokenAssumption
  <1>2. [\A p \in Collectors \cup Jobs : LogsInRightly(p)]_vars =>
          [\A p \in Collectors \cup Jobs :
             proc[p].at # "mint" /\ proc'[p].at = "mint" =>
               ({proc[p].cached, file} \cup IF explicit THEN {Explicit} ELSE {}) \cap fresh
                 \subseteq proc[p].refused]_vars
    BY DEF LogsInRightly
  <1>3. QED
    BY <1>1, <1>2, Invariant, PTL DEF Spec, LogsInOnlyWhenRefused
=============================================================================
