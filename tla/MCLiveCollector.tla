-------------------------- MODULE MCLiveCollector --------------------------
(* LiveCollector for TLC: three ticks over two receipt minutes. *)
EXTENDS LiveCollector

(* The second tick still belongs to the minute of the first. *)
MCMinuteOf == [t \in Ticks |-> IF t <= 2 THEN 1 ELSE 2]
=============================================================================
