---------------------------- MODULE MCRelayClient ----------------------------
(* Two goroutines that open connections to the same peers over one relay client. *)
EXTENDS RelayClient, TLC

Callers == Permutations(Caller)
=============================================================================
