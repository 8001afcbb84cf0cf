-------------------------- MODULE MCTokenProvider --------------------------
(* The instance that TLC checks: the processes of docker-compose.yml. *)
EXTENDS TokenProvider

CONSTANTS collector, job, helper
=============================================================================
