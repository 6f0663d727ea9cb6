---------------------------- MODULE SignalService ----------------------------
(***************************************************************************)
(* What the signal server's registry promises, with no handler in between: *)
(* a peer has at most one current stream, a stream becomes current at most *)
(* once, and the stream it takes over from is told to stop in the same     *)
(* step.                                                                   *)
(***************************************************************************)
CONSTANTS PeerId, Stream, KeyOf, None

VARIABLES
    current,    \* the stream a peer is reached through
    decided,    \* the streams whose registration was accepted or refused
    stopped,    \* the streams told to stop serving
    gone        \* the streams whose handler has let go of the peer

serviceVars == <<current, decided, stopped, gone>>

ServiceInit ==
    /\ current = [p \in PeerId |-> None]
    /\ decided = {}
    /\ stopped = {}
    /\ gone = {}

Join(s) ==
    /\ s \notin decided
    /\ decided' = decided \cup {s}
    /\ stopped' = stopped \cup ({current[KeyOf[s]]} \ {None})
    /\ current' = [current EXCEPT ![KeyOf[s]] = s]
    /\ UNCHANGED gone

Reject(s) ==
    /\ s \notin decided
    /\ current[KeyOf[s]] # None
    /\ decided' = decided \cup {s}
    /\ gone' = gone \cup {s}
    /\ UNCHANGED <<current, stopped>>

Stop(s) ==
    /\ s \in decided
    /\ stopped' = stopped \cup {s}
    /\ UNCHANGED <<current, decided, gone>>

\* A handler ends once, and takes away only its own entry.
Leave(s) ==
    /\ s \in decided \ gone
    /\ gone' = gone \cup {s}
    /\ current' = [current EXCEPT ![KeyOf[s]] = IF @ = s THEN None ELSE @]
    /\ UNCHANGED <<decided, stopped>>

\* A handler that fails after its registration leaves the entry as it is.
Abandon(s) ==
    /\ s \in decided \ gone
    /\ gone' = gone \cup {s}
    /\ UNCHANGED <<current, decided, stopped>>

ServiceNext == \E s \in Stream : Join(s) \/ Reject(s) \/ Stop(s) \/ Leave(s) \/ Abandon(s)

ServiceSpec == ServiceInit /\ [][ServiceNext]_serviceVars

=============================================================================
