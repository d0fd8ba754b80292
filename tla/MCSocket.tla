------------------------------ MODULE MCSocket ------------------------------
(* Socket for TLC, with two instances and two clients. *)
EXTENDS Socket

=============================================================================
