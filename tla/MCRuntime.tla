----------------------------- MODULE MCRuntime -----------------------------
(* Model-checking instance of Runtime: three task containers.              *)
EXTENDS Runtime

CONSTANTS t1, t2, t3

MCTasks == {t1, t2, t3}

=============================================================================
