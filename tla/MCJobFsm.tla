------------------------------ MODULE MCJobFsm ------------------------------
(* Model-checking instance of JobFsm: two jobs, six ids.                  *)
EXTENDS JobFsm, TLC

CONSTANTS j1, j2, i1, i2, i3, i4, i5, i6

MCJobs == {j1, j2}
MCIDs == {i1, i2, i3, i4, i5, i6}

(* Five ids: enough for one failover with one failure.                     *)
MCIDs5 == {i1, i2, i3, i4, i5}

(* Jobs and ids are model values compared only for equality.              *)
Symmetry == Permutations(MCJobs) \cup Permutations(MCIDs5)

=============================================================================
