----------------------------- MODULE MCEnvFile -----------------------------
(* EnvFile with interchangeable processes. *)
EXTENDS EnvFile

Symmetry == Permutations(Proc)

=============================================================================
