----------------------------- MODULE MCExecutor -----------------------------
(* Executor with interchangeable runs and tasks. *)
EXTENDS Executor, TLC

Symmetry == Permutations(Run) \cup Permutations(Task)

=============================================================================
