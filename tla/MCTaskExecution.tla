--------------------------- MODULE MCTaskExecution ---------------------------
(* TaskExecution on small instances: symmetry of the task ids and the slots. *)
EXTENDS TaskExecution, TLC

Symmetry == Permutations(Tasks) \cup Permutations(Workers)
=============================================================================
