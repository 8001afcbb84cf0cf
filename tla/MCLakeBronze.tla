---------------------------- MODULE MCLakeBronze ----------------------------
(* LakeBronze for TLC: rows of two keys, one with a tie and a null.         *)
EXTENDS LakeBronze, TLC

(* The containers are alike.                                                *)
Symmetric == Permutations(Jobs)

Row(k, ts, v) == [key |-> k, ts |-> ts, val |-> v]

MCRows == {Row("k", 0, "a"), Row("k", 1, "a"), Row("k", 2, "a"), Row("k", 2, "b"),
           Row("l", 1, "a")}

(* An old row and a null, a newer row with another key, a tie.              *)
MCBatches ==
  {{}, {Row("k", 1, "a"), Row("k", 0, "a")}, {Row("k", 2, "a"), Row("l", 1, "a")},
   {Row("k", 2, "b")}}
=============================================================================
