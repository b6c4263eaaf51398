----------------------------- MODULE MCJobQueue -----------------------------
(* JobQueue for TLC: jobs, worker slots and clients are interchangeable.    *)
EXTENDS JobQueue, TLC

Symmetry == Permutations(Jobs) \cup Permutations(Workers) \cup Permutations(Clients)
=============================================================================
