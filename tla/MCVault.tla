------------------------------ MODULE MCVault ------------------------------
(* A small instance of Vault for TLC. *)
EXTENDS Vault, TLC

Symmetry == Permutations(Flow) \cup Permutations(Slot)
            \cup Permutations(Value) \cup Permutations(RowId)

============================================================================
