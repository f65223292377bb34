------------------------- MODULE MCWorkerLeadership -------------------------
EXTENDS WorkerLeadership, TLC

Sym == Permutations(Worker)
=============================================================================
