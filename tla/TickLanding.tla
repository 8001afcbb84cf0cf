---------------------------- MODULE TickLanding ----------------------------
(***************************************************************************)
(* What the live collector promises about the ticks it accepts, without    *)
(* its threads, queue or files.  A tick that was accepted is held in       *)
(* memory until it is spooled on the local volume, and a spooled tick      *)
(* stays there until it has landed in the raw bucket.  Memory can be lost, *)
(* but only when a spool write fails or when the process ends; the spool   *)
(* and the bucket lose nothing.  A run that reports a clean end has landed *)
(* every tick there was to land.                                           *)
(***************************************************************************)
CONSTANTS Ticks

VARIABLES tick,   \* where each tick is
          run,    \* "running", "clean" (exit code 0) or "unclean"
          fault   \* a spool write has failed: "never", "earlier" or "now"

vars == <<tick, run, fault>>

TypeOK ==
  /\ tick \in [Ticks -> {"new", "memory", "spooled", "landed", "lost"}]
  /\ run \in {"running", "clean", "unclean"}
  /\ fault \in {"never", "earlier", "now"}

Init ==
  /\ tick = [t \in Ticks |-> "new"]
  /\ run = "running"
  /\ fault = "never"

(* The moves one step may make with one tick. *)
Forward(from, to) ==
  \/ from = to
  \/ from = "new" /\ to = "memory"
  \/ from = "memory" /\ to \in {"spooled", "lost"}
  \/ from = "spooled" /\ to = "landed"

(* Work on any number of ticks; memory is lost only if a spool write fails. *)
Progress ==
  /\ run = "running"
  /\ tick' \in [Ticks -> {"new", "memory", "spooled", "landed", "lost"}]
  /\ \A t \in Ticks : Forward(tick[t], tick'[t])
  /\ fault' \in {fault, "now"}
  /\ (\E t \in Ticks : tick[t] # "lost" /\ tick'[t] = "lost") => fault' = "now"
  /\ UNCHANGED run

(* The process ends in any way but exit code 0; what it remembered is lost. *)
StopUnclean ==
  /\ run = "running"
  /\ run' = "unclean"
  /\ tick' = [t \in Ticks |-> IF tick[t] = "memory" THEN "lost" ELSE tick[t]]
  /\ UNCHANGED fault

(* Exit code 0 says that nothing is left to land and nothing went wrong. *)
StopClean ==
  /\ run = "running"
  /\ \A t \in Ticks : tick[t] \in {"new", "landed", "lost"}
  /\ fault # "now"
  /\ run' = "clean"
  /\ UNCHANGED <<tick, fault>>

Restart ==
  /\ run # "running"
  /\ run' = "running"
  /\ fault' = IF fault = "never" THEN "never" ELSE "earlier"
  /\ UNCHANGED tick

Next == Progress \/ StopUnclean \/ StopClean \/ Restart

Spec == Init /\ [][Next]_vars
=============================================================================
