----------------------------- MODULE MCPeerSync -----------------------------
(* The streams of one peer are interchangeable. *)
EXTENDS PeerSync, TLC

Streams == Permutations(Stream)
=============================================================================
