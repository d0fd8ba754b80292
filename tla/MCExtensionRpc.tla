-------------------------- MODULE MCExtensionRpc --------------------------
(* Small instances of ExtensionRpc for TLC. *)
EXTENDS ExtensionRpc

===========================================================================
