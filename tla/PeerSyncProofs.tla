---------------------------- MODULE PeerSyncProofs ----------------------------
(***************************************************************************)
(* Proofs about PeerSync for any number of streams of the peer, any limit  *)
(* and any length of time.                                                 *)
(***************************************************************************)
EXTENDS PeerSync, FiniteSetTheorems, TLAPS

Begun == {"serving", "leaving", "cancel", "disconnected", "done"}
Label == Connecting \cup Holding \cup {"idle", "admitted", "serving", "leaving", "done"}

(***************************************************************************)
(* The inductive invariant: types, the lock, what the marks of the streams *)
(* say about the peer's status, and what its channel and refresh depend on.*)
(***************************************************************************)

SyncTypes ==
    /\ now \in Time
    /\ stored \in BOOLEAN
    /\ status \in PeerStatus
    /\ channel \in Stream \cup {None} /\ closed \subseteq Stream
    /\ refresh \in Stream \cup {None}
    /\ listed \in BOOLEAN
    /\ lock \in Stream \cup {None}
    /\ pc \in [Stream -> Label]
    /\ start \in [Stream -> Time]

AdminTypes ==
    /\ apc \in {"idle", "deleted", "read", "saved", "done"}
    /\ read \in PeerStatus
    /\ overwritten \in BOOLEAN

\* A stream that is past the lock's acquisition and not yet at its release holds it.
HolderHasLock == \A s \in Stream : pc[s] \in Holding => lock = s

\* The clock is ahead of every stream, and the peer was seen since every stream that marked it.
SeenSinceMarked ==
    /\ \A s \in Stream : start[s] <= now
    /\ stored /\ ~overwritten =>
         \A s \in Stream : pc[s] \in Marked => start[s] <= status.lastSeen

\* A status is written back at most once, and only then may it be old.
OnceOverwritten == overwritten => apc \in {"saved", "done"}

\* The refresh belongs to a stream that has yet to end, the channel to one that was served,
\* and the list of ephemeral peers has exactly the peers without a refresh.
RoutinesTogether ==
    /\ refresh # None => pc[refresh] \in {"serving", "leaving", "cancel", "disconnected"}
    /\ channel # None => refresh # None /\ ~listed /\ pc[channel] \in Begun
    /\ stored /\ ~listed => refresh # None
    /\ channel \notin closed
    /\ \A s \in closed : pc[s] \in Begun

SyncInv ==
    /\ SyncTypes /\ AdminTypes /\ HolderHasLock /\ ConnectedHasOwner /\ SeenSinceMarked
    /\ OnceOverwritten /\ RoutinesTogether /\ ReplacedStreamNotices

LEMMA SyncInvInit == Init => SyncInv
<1> SUFFICES ASSUME Init PROVE SyncInv
  OBVIOUS
<1>1. status \in PeerStatus
  BY SyncConstants DEF Init, PeerStatus, Time
<1>2. now \in Time /\ 0 \in Time
  BY SyncConstants DEF Init, Time
<1>3. pc \in [Stream -> Label] /\ start \in [Stream -> Time]
  BY <1>2 DEF Init, Label
<1>4. SyncTypes
  BY <1>1, <1>2, <1>3 DEF Init, SyncTypes
<1>5. AdminTypes
  BY <1>1 DEF Init, AdminTypes
<1>6. HolderHasLock /\ ConnectedHasOwner /\ ReplacedStreamNotices
  BY DEF Init, HolderHasLock, ConnectedHasOwner, ReplacedStreamNotices, Holding
<1>7. SeenSinceMarked /\ OnceOverwritten /\ RoutinesTogether
  BY SyncConstants DEF Init, OnceOverwritten, SeenSinceMarked, RoutinesTogether, Marked
<1> QED
  BY <1>4, <1>5, <1>6, <1>7 DEF SyncInv

LEMMA SyncInvNext == SyncInv /\ [Next]_vars => SyncInv'
<1> SUFFICES ASSUME SyncInv, [Next]_vars PROVE SyncInv'
  OBVIOUS
<1> USE SyncConstants DEF SyncInv, OnceOverwritten, SyncTypes, AdminTypes, HolderHasLock, ConnectedHasOwner,
     SeenSinceMarked, RoutinesTogether, ReplacedStreamNotices, Label, Connecting, Holding, Marked,
     Begun, Time, PeerStatus, Goto, routines, adminVars
<1>1. ASSUME NEW s \in Stream, Admit(s) PROVE SyncInv'
  BY <1>1 DEF Admit
<1>2. ASSUME NEW s \in Stream, BeginSync(s) PROVE SyncInv'
  BY <1>2 DEF BeginSync, Reads
<1>3. ASSUME NEW s \in Stream, Reject(s) PROVE SyncInv'
  BY <1>3 DEF Reject
<1>4. ASSUME NEW s \in Stream, AcquirePeerLock(s) PROVE SyncInv'
  BY <1>4 DEF AcquirePeerLock
<1>5. ASSUME NEW s \in Stream, SyncPeerFails(s) PROVE SyncInv'
  BY <1>5 DEF SyncPeerFails
<1>6. ASSUME NEW s \in Stream, SyncAndMarkPeer(s) PROVE SyncInv'
  BY <1>6 DEF SyncAndMarkPeer, MarkPeerConnected
<1>7. ASSUME NEW s \in Stream, GetPeer(s) PROVE SyncInv'
  BY <1>7 DEF GetPeer
<1>8. ASSUME NEW s \in Stream, ConnectFails(s) PROVE SyncInv'
  BY <1>8 DEF ConnectFails
<1>9. ASSUME NEW s \in Stream, Serve(s) PROVE SyncInv'
  <2>1. SyncTypes' /\ AdminTypes' /\ OnceOverwritten' /\ HolderHasLock' /\ SeenSinceMarked'
    BY <1>9 DEF Serve, CreateChannel
  <2>2. ConnectedHasOwner'
    BY <1>9 DEF Serve, CreateChannel
  <2>3. RoutinesTogether' /\ ReplacedStreamNotices'
    BY <1>9 DEF Serve, CreateChannel
  <2> QED
    BY <2>1, <2>2, <2>3
<1>10. ASSUME NEW s \in Stream, ChannelClosed(s) PROVE SyncInv'
  BY <1>10 DEF ChannelClosed
<1>11. ASSUME NEW s \in Stream, StreamBreaks(s) PROVE SyncInv'
  BY <1>11 DEF StreamBreaks
<1>12. ASSUME NEW s \in Stream, OnPeerDisconnected(s) PROVE SyncInv'
  <2>1. now' \in Time /\ status' \in PeerStatus
    <3>1. CASE stored /\ status.lastSeen <= start[s]
      <4>1. PICK t \in Time : now' = t /\ status' = [connected |-> FALSE, lastSeen |-> t]
        BY <1>12, <3>1 DEF OnPeerDisconnected, Reads
      <4> QED
        BY <4>1
    <3>2. CASE ~(stored /\ status.lastSeen <= start[s])
      BY <1>12, <3>2 DEF OnPeerDisconnected
    <3> QED
      BY <3>1, <3>2
  <2>2. SyncTypes' /\ AdminTypes' /\ OnceOverwritten' /\ HolderHasLock'
    BY <1>12, <2>1 DEF OnPeerDisconnected, Disconnecting
  <2>3. ConnectedHasOwner'
    BY <1>12 DEF OnPeerDisconnected, Disconnecting, Reads
  <2>4. SeenSinceMarked'
    BY <1>12 DEF OnPeerDisconnected, Disconnecting, Reads
  <2>5. RoutinesTogether' /\ ReplacedStreamNotices'
    BY <1>12 DEF OnPeerDisconnected, Disconnecting
  <2> QED
    BY <2>2, <2>3, <2>4, <2>5
<1>13. ASSUME NEW s \in Stream, CancelPeerRoutines(s) PROVE SyncInv'
  BY <1>13 DEF CancelPeerRoutines, CloseChannel
<1>14. CASE DeletePeer
  BY <1>14 DEF DeletePeer
<1>15. CASE GetExpiredPeers
  BY <1>15 DEF GetExpiredPeers
<1>16. CASE ExpirePeer
  <2>1. SyncTypes' /\ HolderHasLock' /\ RoutinesTogether' /\ ReplacedStreamNotices'
    BY <1>16 DEF ExpirePeer
  <2>2. CASE read = status
    <3>1. status' = status /\ overwritten' = FALSE
      BY <1>16, <2>2 DEF ExpirePeer
    <3>2. ~overwritten
      BY <1>16 DEF ExpirePeer
    <3> QED
      BY <1>16, <2>1, <3>1, <3>2 DEF ExpirePeer
  <2>3. CASE read # status
    <3>1. overwritten' = TRUE
      BY <1>16, <2>3 DEF ExpirePeer
    <3> QED
      BY <1>16, <2>1, <3>1 DEF ExpirePeer
  <2> QED
    BY <2>2, <2>3
<1>17. CASE DisconnectPeers
  BY <1>17 DEF DisconnectPeers, CloseChannel
<1>18. CASE UNCHANGED vars
  BY <1>18 DEF vars
<1> QED
  BY <1>1, <1>2, <1>3, <1>4, <1>5, <1>6, <1>7, <1>8, <1>9, <1>10, <1>11, <1>12, <1>13, <1>14,
     <1>15, <1>16, <1>17, <1>18 DEF Next, Handler, Cancel

(***************************************************************************)
(* The count of Sync calls under way.                                      *)
(***************************************************************************)

Calls == {s \in Stream : pc[s] \in Connecting}

LEMMA CallsCount == Calls \subseteq Stream /\ IsFiniteSet(Calls) /\ Cardinality(Calls) \in Nat
  BY SyncConstants, FS_Subset, FS_CardinalityType DEF Calls

LEMMA SyncSemNext == SyncTypes /\ SyncSemCounts /\ [Next]_vars => SyncSemCounts'
<1> SUFFICES ASSUME SyncTypes, syncSem = Cardinality(Calls), [Next]_vars
             PROVE  syncSem' = Cardinality(Calls')
  BY DEF SyncSemCounts, Calls
<1>1. ASSUME NEW s \in Stream, BeginSync(s) PROVE syncSem' = Cardinality(Calls')
  <2>1. Calls' = Calls \cup {s} /\ s \notin Calls
    BY <1>1 DEF BeginSync, Goto, Calls, Connecting, SyncTypes
  <2> QED
    BY <1>1, <2>1, CallsCount, FS_AddElement DEF BeginSync
<1>2. ASSUME NEW s \in Stream, s \in Calls, Calls' = Calls \ {s}, syncSem' = syncSem - 1
      PROVE  syncSem' = Cardinality(Calls')
  BY <1>2, CallsCount, FS_RemoveElement
<1>3. ASSUME NEW s \in Stream, Reject(s) \/ SyncPeerFails(s) \/ ConnectFails(s) \/ Serve(s)
      PROVE  syncSem' = Cardinality(Calls')
  <2>1. s \in Calls /\ Calls' = Calls \ {s} /\ syncSem' = syncSem - 1
    BY <1>3 DEF Reject, SyncPeerFails, ConnectFails, Serve, Goto, Calls, Connecting, SyncTypes
  <2> QED
    BY <1>2, <2>1
<1>4. ASSUME NEW s \in Stream,
             \/ Admit(s) \/ AcquirePeerLock(s) \/ SyncAndMarkPeer(s) \/ GetPeer(s)
             \/ ChannelClosed(s) \/ StreamBreaks(s) \/ Cancel(s)
      PROVE  syncSem' = Cardinality(Calls')
  <2>1. Calls' = Calls /\ syncSem' = syncSem
    BY <1>4 DEF Admit, AcquirePeerLock, SyncAndMarkPeer, GetPeer, ChannelClosed, StreamBreaks,
       Cancel, OnPeerDisconnected, CancelPeerRoutines, Disconnecting, Goto, Calls, Connecting,
       SyncTypes
  <2> QED
    BY <2>1
<1>5. CASE DeletePeer \/ GetExpiredPeers \/ ExpirePeer \/ DisconnectPeers \/ UNCHANGED vars
  <2>1. pc' = pc /\ syncSem' = syncSem
    BY <1>5 DEF DeletePeer, GetExpiredPeers, ExpirePeer, DisconnectPeers, vars
  <2> QED
    BY <2>1 DEF Calls
<1> QED
  BY <1>1, <1>3, <1>4, <1>5 DEF Next, Handler

-----------------------------------------------------------------------------
\* At any moment syncSem is the number of Sync calls that have begun and are not yet served
\* or refused: no path loses or repeats its syncSem.Add(-1).
THEOREM SyncSemIsExact == Spec => []SyncSemCounts
<1>1. Init => SyncSemCounts
  <2>1. ASSUME Init PROVE {s \in Stream : pc[s] \in Connecting} = {}
    BY <2>1 DEF Init, Connecting
  <2> QED
    BY <2>1, FS_EmptySet DEF Init, SyncSemCounts
<1>2. SyncInv => SyncTypes
  BY DEF SyncInv
<1> QED
  BY SyncInvInit, SyncInvNext, SyncSemNext, <1>1, <1>2, PTL DEF Spec

\* Every variable keeps its type; in particular a closed update channel never stays in the
\* map, where the next CloseChannel would close it again, and syncSem is never negative.
THEOREM TypeCorrect == Spec => []TypeOK
<1>1. SyncInv /\ SyncSemCounts => TypeOK
  <2> SUFFICES ASSUME SyncInv, SyncSemCounts PROVE TypeOK
    OBVIOUS
  <2>1. syncSem \in Nat
    BY CallsCount DEF SyncSemCounts, Calls
  <2> QED
    BY <2>1 DEF SyncInv, SyncTypes, AdminTypes, RoutinesTogether, Label, TypeOK
<1>2. Spec => []SyncInv
  BY SyncInvInit, SyncInvNext, PTL DEF Spec
<1> QED
  BY <1>1, <1>2, SyncSemIsExact, PTL

\* With any number of streams, the peer is shown as connected only while the stream that
\* marked it has yet to mark it disconnected, or after a login expiration has written an
\* old status back.
THEOREM ConnectedIsOwned == Spec => []ConnectedHasOwner
<1>1. SyncInv => ConnectedHasOwner
  BY DEF SyncInv
<1> QED
  BY SyncInvInit, SyncInvNext, <1>1, PTL DEF Spec

\* A peer with an update channel has its credentials refreshed and is not to be deleted.
THEOREM RegisteredActive == Spec => []RegisteredIsActive
<1>1. SyncInv => RegisteredIsActive
  BY DEF SyncInv, RoutinesTogether, RegisteredIsActive
<1> QED
  BY SyncInvInit, SyncInvNext, <1>1, PTL DEF Spec

\* A served stream is the registered one or finds its channel closed.
THEOREM ReplacedNotices == Spec => []ReplacedStreamNotices
<1>1. SyncInv => ReplacedStreamNotices
  BY DEF SyncInv
<1> QED
  BY SyncInvInit, SyncInvNext, <1>1, PTL DEF Spec

\* When no stream is left, whatever the order in which they were replaced, failed and
\* ended, nothing of them is.
THEOREM NothingIsLeft == Spec => []EndedLeavesNothing
<1>1. SyncInv => EndedLeavesNothing
  BY SyncConstants DEF SyncInv, SyncTypes, RoutinesTogether, EndedLeavesNothing
<1> QED
  BY SyncInvInit, SyncInvNext, <1>1, PTL DEF Spec

\* A peer is marked disconnected only by the end of a stream it was last seen by.
THEOREM OwnerDisconnects == Spec => OnlyOwnerDisconnects
<1> DEFINE Owned == stored /\ status.connected /\ ~status'.connected /\ ~overwritten' =>
                      \E s \in Stream : Disconnecting(s) /\ start[s] = status.lastSeen
<1>1. SyncInv /\ [Next]_vars => [Owned]_vars
  <2> SUFFICES ASSUME SyncInv, Next, stored, status.connected, ~status'.connected, ~overwritten'
               PROVE  \E s \in Stream : Disconnecting(s) /\ start[s] = status.lastSeen
    BY DEF vars
  <2>1. ASSUME NEW s \in Stream, OnPeerDisconnected(s)
        PROVE  Disconnecting(s) /\ start[s] = status.lastSeen
    <3>1. status.lastSeen <= start[s] /\ Disconnecting(s) /\ ~overwritten
      BY <2>1 DEF OnPeerDisconnected, adminVars
    <3>2. start[s] <= status.lastSeen
      BY <3>1 DEF SyncInv, SeenSinceMarked, Disconnecting, Marked
    <3>3. start[s] \in Nat /\ status.lastSeen \in Nat
      BY DEF SyncInv, SyncTypes, PeerStatus, Time
    <3> QED
      BY <3>1, <3>2, <3>3
  <2>2. ASSUME NEW s \in Stream, SyncAndMarkPeer(s) PROVE FALSE
    BY <2>2 DEF SyncAndMarkPeer, MarkPeerConnected
  <2>3. ~ExpirePeer
    BY DEF ExpirePeer
  <2>4. status' # status
    OBVIOUS
  <2> QED
    BY <2>1, <2>2, <2>3, <2>4 DEF Next, Handler, Cancel, Admit, BeginSync, Reject,
       AcquirePeerLock, SyncPeerFails, GetPeer, ConnectFails, Serve, ChannelClosed,
       StreamBreaks, CancelPeerRoutines, DeletePeer, GetExpiredPeers, DisconnectPeers
<1> QED
  BY SyncInvInit, SyncInvNext, <1>1, PTL DEF Spec, OnlyOwnerDisconnects
=============================================================================
