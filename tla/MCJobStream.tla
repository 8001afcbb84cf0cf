---------------------------- MODULE MCJobStream ----------------------------
(* The instance that TLC checks: a job of up to MaxLines lines.  The job   *)
(* and the response stop for good, so the run does not check deadlock; its  *)
(* liveness shows that they stop only when both are over.                  *)
EXTENDS JobStream
=============================================================================
