---------------------------- MODULE MCJobQueue ----------------------------
(* Values for the constants of JobQueue. *)
EXTENDS JobQueue, TLC

CONSTANTS w1, w2, k1, kbad

\* Every kind has the same stale threshold in the small instance.
MCZombieAge == [k \in Key |-> AgeCap - 1]
WorkerSymmetry == Permutations(Worker)
=============================================================================
