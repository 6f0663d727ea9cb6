-------------------------- MODULE MCEarlyMsgBuffer --------------------------
(* EarlyMsgBuffer with interchangeable peers and callers. *)
EXTENDS EarlyMsgBuffer, TLC

Symmetric == Permutations(PeerId) \cup Permutations(Caller)
=============================================================================
