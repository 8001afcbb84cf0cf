------------------------------- MODULE JobLog -------------------------------
(***************************************************************************)
(* What a job's log stream promises, without worker, queue or events.  A   *)
(* job prints lines and comes to an end of its own; the response shows the *)
(* lines in order and ends only when the job has and every line was shown, *)
(* with the job's error if it had one.  The browser may leave at any time, *)
(* which the job does not notice.                                          *)
(***************************************************************************)
EXTENDS Naturals

VARIABLES printed,   \* number of lines the job has printed
          job,       \* "waiting", "running", "returned" or "raised"
          shown,     \* number of lines the response has shown
          response   \* "open", "ended", "raised" or "closed"

vars == <<printed, job, shown, response>>

Init == printed = 0 /\ job = "waiting" /\ shown = 0 /\ response = "open"

StartJob ==
  /\ job = "waiting" /\ response = "open"
  /\ job' = "running"
  /\ UNCHANGED <<printed, shown, response>>

PrintLine ==
  /\ job = "running"
  /\ printed' = printed + 1
  /\ UNCHANGED <<job, shown, response>>

EndJob ==
  /\ job = "running"
  /\ job' \in {"returned", "raised"}
  /\ UNCHANGED <<printed, shown, response>>

ShowLine ==
  /\ response = "open" /\ shown < printed
  /\ shown' = shown + 1
  /\ UNCHANGED <<printed, job, response>>

EndResponse ==
  /\ response = "open" /\ shown = printed
  /\ \/ job = "returned" /\ response' = "ended"
     \/ job = "raised" /\ response' = "raised"
  /\ UNCHANGED <<printed, job, shown>>

CloseResponse ==
  /\ response = "open"
  /\ response' = "closed"
  /\ UNCHANGED <<printed, job, shown>>

Next ==
  \/ StartJob \/ PrintLine \/ EndJob
  \/ ShowLine \/ EndResponse \/ CloseResponse

Spec == Init /\ [][Next]_vars
=============================================================================
