---------------------------- MODULE MCScheduler ----------------------------
(* Scheduler for TLC: model values for jobs, cron expressions and requests. *)
EXTENDS Scheduler, TLC

CONSTANTS lake, mart, early, late, r1, r2

(* Cron expressions are interchangeable; the two jobs are of two layers. *)
MCSymmetry == Permutations(Crons)
=============================================================================
