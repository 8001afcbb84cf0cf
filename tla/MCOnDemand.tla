----------------------------- MODULE MCOnDemand -----------------------------
(* OnDemand for TLC: two requests, each with one of twelve forms. *)
EXTENDS OnDemand

CONSTANTS r1, r2, j1, j2, t1, t2

MCRequests == {r1, r2}
MCJobs == {j1, j2}
MCTables == {t1, t2}

F(k, j, t, refs) == [kind |-> k, job |-> j, table |-> t, refs |-> refs]

(* Every endpoint for one job and table; another date of the same table;    *)
(* another table, with a source to declare.                                 *)
MCForms ==
  {F(k, j1, t1, FALSE) : k \in Kinds}
  \cup {F("run", j2, t1, FALSE), F("run_transform", j2, t1, FALSE),
        F("transform_load", j2, t1, TRUE), F("run_transform", j2, t2, TRUE),
        F("compile_dbt", j2, t2, TRUE)}
=============================================================================
