------------------------------- MODULE MCRuns -------------------------------
(* Small instances of Runs for TLC. *)
EXTENDS Runs, TLC

Symmetry == Permutations(Run) \cup Permutations(Conn) \cup Permutations(Caller)

=============================================================================
