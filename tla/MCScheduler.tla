----------------------------- MODULE MCScheduler -----------------------------
(* Instances of Scheduler for TLC.                                         *)
EXTENDS Scheduler, TLC

CONSTANTS t1, t2, t3

MCTasks == {t1, t2, t3}

\* The tasks are interchangeable: no module names one of them.
TaskSymmetry == Permutations(MCTasks)

=============================================================================
