--------------------------- MODULE MCJobLifecycle ---------------------------
EXTENDS JobLifecycle, TLC

Sym == Permutations(Worker)

(* Bound: the second and third tenures claim one run each, the first none: *)
(* its recovery may stall and act late in either of them.                  *)
LateRuns == \A r \in Runs : run[r].token = r + 1
=============================================================================
