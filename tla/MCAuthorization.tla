-------------------------- MODULE MCAuthorization --------------------------
(* Small instances of Authorization for TLC. *)
EXTENDS Authorization, TLC

Symmetry == Permutations(Request) \cup Permutations(Click) \cup Permutations(Slot)

============================================================================
