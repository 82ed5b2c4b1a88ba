----------------------------- MODULE MCSlobAlloc -----------------------------
(* Instances of SlobAlloc for TLC.                                         *)
EXTENDS SlobAlloc

CONSTANTS p1, p2, t1, t2

MCPages == {p1, p2}
MCTasks == {t1, t2}
MCCaches == {[size |-> 2, align |-> 2]}

\* Neither frames nor tasks are told apart.
SlobSymmetry == Permutations(MCPages) \cup Permutations(MCTasks)

=============================================================================
