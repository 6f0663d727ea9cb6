-------------------------- MODULE MCSignalRegistry --------------------------
EXTENDS SignalRegistry, TLC

CONSTANTS p1, p2

\* Every stream is one more connection of the same peer; the other peer stays away.
SamePeer == [s \in Stream |-> p1]

=============================================================================
