---------------------------- MODULE MCScheduler ----------------------------
(* Instances of Scheduler for TLC. *)
EXTENDS Scheduler, TLC

\* The tasks' fibers are interchangeable, and so are the pool's threads.
Symmetry == Permutations(Fibers) \cup Permutations(Pool)
=============================================================================
