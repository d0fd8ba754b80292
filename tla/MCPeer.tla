------------------------------- MODULE MCPeer -------------------------------
(* Peer for TLC.  No symmetry: the run checks liveness. *)
EXTENDS Peer

=============================================================================
