--------------------------- MODULE MCGoldPublish ----------------------------
(* GoldPublish for TLC: Silver missing, without the rows of a day, complete *)
(* in two versions, and with one more column; one row has no date.          *)
EXTENDS GoldPublish, TLC

MCSilverTables ==
  {NoTable,
   [cols |-> 1, rows |-> {<<0, 1>>}],
   [cols |-> 1, rows |-> {<<0, 1>>, <<1, 1>>, <<2, 1>>}],
   [cols |-> 1, rows |-> {<<1, 2>>, <<2, 1>>}],
   [cols |-> 2, rows |-> {<<1, 2>>}]}

(* The containers are alike.                                                *)
Symmetric == Permutations(Jobs)
=============================================================================
