---------------------------- MODULE MCRelayServer ----------------------------
(* A subscriber s1 and connections of the target, which may subscribe to itself. *)
EXTENDS RelayServer, TLC

CONSTANTS subscriber, target, s1, Subscribing

MCIdOf == [c \in Conn |-> IF c = s1 THEN subscriber ELSE target]
MCWants == [c \in Conn |-> IF c \in Subscribing THEN {target} ELSE {}]
TargetConns == Permutations(Conn \ {s1})
=============================================================================
