----------------------------- MODULE MCAskUser -----------------------------
(* Small instances of AskUser for TLC. *)
EXTENDS AskUser

============================================================================
