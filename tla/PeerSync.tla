------------------------------- MODULE PeerSync -------------------------------
(***************************************************************************)
(* The Sync streams of one peer on the management server.  Every stream    *)
(* marks the peer connected, registers an update channel, starts the       *)
(* token refresh and takes the peer off the list of ephemeral peers to be  *)
(* deleted; when it ends it undoes all four.  Connect and disconnect run   *)
(* under the peer's lock, but everything they change is indexed by peer    *)
(* and not by stream, so a late disconnect meets what a newer stream set   *)
(* up.  Deleting the peer and expiring its login happen without the lock.  *)
(*                                                                         *)
(* Time is a clock that every reading may advance or find unchanged.  The  *)
(* updates themselves are left out: the client of a served stream may      *)
(* leave, or sending an update to it fail, at any moment.                  *)
(***************************************************************************)
EXTENDS Naturals, FiniteSets

CONSTANTS
    Stream,     \* calls of Server.Sync by the peer
    SyncLim,    \* Server.syncLim
    MaxTime,    \* bound on the clock
    None

ASSUME SyncConstants ==
    /\ IsFiniteSet(Stream) /\ None \notin Stream
    /\ SyncLim \in Nat /\ MaxTime \in Nat \ {0}

Time == 0 .. MaxTime
PeerStatus == [connected : BOOLEAN, lastSeen : Time]

VARIABLES
    now,        \* the last reading of the clock
    stored,     \* the peer's row exists
    status,     \* its PeerStatus: Connected and LastSeen
    channel,    \* peerChannels[peerID]: the stream it was created for
    closed,     \* streams whose update channel is closed
    refresh,    \* the stream whose refresh of credentials runs
    listed,     \* the peer is on the list of the EphemeralManager
    lock,       \* holder of the peer's lock
    pc, start,  \* progress of each stream, and its syncStart
    syncSem,    \* Server.syncSem
    apc, read,  \* progress of the administrator, and the status it has read
    overwritten \* expireAndUpdatePeers has saved a status that was no longer current

routines == <<channel, closed, refresh, listed>>
adminVars == <<apc, read, overwritten>>
vars == <<now, stored, status, routines, lock, pc, start, syncSem, adminVars>>

(* What a stream does between syncSem.Add(1) and syncSem.Add(-1). *)
Connecting == {"starting", "locked", "marked", "found"}
(* A stream holds the peer's lock in these. *)
Holding == {"locked", "marked", "found", "failed", "cancel", "disconnected"}
(* MarkPeerConnected was called for the stream, its OnPeerDisconnected was not. *)
Marked == {"marked", "found", "failed", "serving", "leaving", "cancel"}

TypeOK ==
    /\ now \in Time
    /\ stored \in BOOLEAN
    /\ status \in PeerStatus
    /\ channel \in Stream \cup {None} /\ closed \subseteq Stream
    /\ channel \notin closed
    /\ refresh \in Stream \cup {None}
    /\ listed \in BOOLEAN
    /\ lock \in Stream \cup {None}
    /\ pc \in [Stream -> Connecting \cup Holding \cup {"idle", "admitted", "serving", "leaving", "done"}]
    /\ start \in [Stream -> Time]
    /\ syncSem \in Nat
    /\ apc \in {"idle", "deleted", "read", "saved", "done"}
    /\ read \in PeerStatus
    /\ overwritten \in BOOLEAN

(* The server has just started: LoadInitialPeers has listed the peer, last seen at 0. *)
Init ==
    /\ now = 1
    /\ stored = TRUE /\ status = [connected |-> FALSE, lastSeen |-> 0]
    /\ channel = None /\ closed = {} /\ refresh = None /\ listed = TRUE
    /\ lock = None
    /\ pc = [s \in Stream |-> "idle"] /\ start = [s \in Stream |-> 0]
    /\ syncSem = 0
    /\ apc = "idle" /\ read = status /\ overwritten = FALSE

(* time.Now(): two readings may be equal. *)
Reads(t) == t \in {now, now + 1} /\ now' = t

Goto(s, l) == pc' = [pc EXCEPT ![s] = l]

-----------------------------------------------------------------------------
(* Sync up to the peer's lock *)

(* The limit is looked at first, and counted in a step of its own. *)
Admit(s) ==
    /\ pc[s] = "idle"
    /\ Goto(s, IF syncSem >= SyncLim THEN "done" ELSE "admitted")
    /\ UNCHANGED <<now, stored, status, routines, lock, start, syncSem, adminVars>>

BeginSync(s) ==
    /\ pc[s] = "admitted"
    /\ syncSem' = syncSem + 1
    /\ \E t \in Time : Reads(t) /\ start' = [start EXCEPT ![s] = t]
    /\ Goto(s, "starting")
    /\ UNCHANGED <<stored, status, routines, lock, adminVars>>

(* A bad request, an unknown peer, or one that the login filter blocks. *)
Reject(s) ==
    /\ pc[s] = "starting"
    /\ syncSem' = syncSem - 1
    /\ Goto(s, "done")
    /\ UNCHANGED <<now, stored, status, routines, lock, start, adminVars>>

AcquirePeerLock(s) ==
    /\ lock = None /\ lock' = s
    /\ \/ pc[s] = "starting" /\ Goto(s, "locked")
       \/ pc[s] = "leaving" /\ Goto(s, "cancel")
    /\ UNCHANGED <<now, stored, status, routines, start, syncSem, adminVars>>

-----------------------------------------------------------------------------
(* Sync with the lock held *)

(* The peer is gone, expired or blocked: Sync returns and gives the lock back. *)
SyncPeerFails(s) ==
    /\ pc[s] = "locked"
    /\ syncSem' = syncSem - 1
    /\ lock' = None
    /\ Goto(s, "done")
    /\ UNCHANGED <<now, stored, status, routines, start, adminVars>>

(* MarkPeerConnected: a stream that started before the last activity is stale. *)
MarkPeerConnected(s) ==
    status' = IF start[s] > status.lastSeen THEN [connected |-> TRUE, lastSeen |-> start[s]] ELSE status

SyncAndMarkPeer(s) ==
    /\ pc[s] = "locked" /\ stored
    /\ MarkPeerConnected(s)
    /\ Goto(s, "marked")
    /\ UNCHANGED <<now, stored, routines, lock, start, syncSem, adminVars>>

(* Controller.OnPeerConnected reads the peer, which may be deleted right after ... *)
GetPeer(s) ==
    /\ pc[s] = "marked" /\ stored
    /\ Goto(s, "found")
    /\ UNCHANGED <<now, stored, status, routines, lock, start, syncSem, adminVars>>

(* The initial sync cannot be sent, or the peer not be read: *)
(* cancelPeerRoutinesWithoutLock follows.                    *)
ConnectFails(s) ==
    /\ pc[s] = "marked"
    /\ syncSem' = syncSem - 1
    /\ Goto(s, "failed")
    /\ UNCHANGED <<now, stored, status, routines, lock, start, adminVars>>

(* Mutant: the channel of the older stream is forgotten, not closed. *)
ReplaceChannel(s) == channel' = s /\ UNCHANGED closed

CreateChannel(s) ==
    /\ channel' = s
    /\ closed' = IF channel = None THEN closed ELSE closed \cup {channel}

(* Mutant: the peer stays on the ephemeral list. *)
ServeListed(s) ==
    /\ pc[s] = "found"
    /\ CreateChannel(s)
    /\ refresh' = s
    /\ lock' = None
    /\ syncSem' = syncSem - 1
    /\ Goto(s, "serving")
    /\ UNCHANGED <<now, stored, status, listed, start, adminVars>>

(* ... takes it off the ephemeral list and creates its channel; SetupRefresh replaces a *)
(* refresh under way, and handleUpdates begins.                                         *)
Serve(s) ==
    /\ pc[s] = "found"
    /\ listed' = FALSE
    /\ CreateChannel(s)
    /\ refresh' = s
    /\ lock' = None
    /\ syncSem' = syncSem - 1
    /\ Goto(s, "serving")
    /\ UNCHANGED <<now, stored, status, start, adminVars>>

-----------------------------------------------------------------------------
(* handleUpdates and cancelPeerRoutines *)

(* The update channel was closed. *)
ChannelClosed(s) ==
    /\ pc[s] = "serving" /\ s \in closed
    /\ Goto(s, "leaving")
    /\ UNCHANGED <<now, stored, status, routines, lock, start, syncSem, adminVars>>

(* The client is gone, or an update cannot be encrypted or sent. *)
StreamBreaks(s) ==
    /\ pc[s] = "serving"
    /\ Goto(s, "leaving")
    /\ UNCHANGED <<now, stored, status, routines, lock, start, syncSem, adminVars>>

Disconnecting(s) == pc[s] \in {"cancel", "failed"}

(* Mutant: a stream that ends marks the peer disconnected whatever it was seen by since. *)
DisconnectAnyway(s) ==
    /\ Disconnecting(s)
    /\ \E t \in Time :
          Reads(t) /\ status' = IF stored THEN [connected |-> FALSE, lastSeen |-> t] ELSE status
    /\ Goto(s, "disconnected")
    /\ UNCHANGED <<stored, routines, lock, start, syncSem, adminVars>>

(* Mutant: the stream's own activity counts as newer. *)
DisconnectIfOlder(s) ==
    /\ Disconnecting(s)
    /\ IF stored /\ status.lastSeen < start[s]
       THEN \E t \in Time : Reads(t) /\ status' = [connected |-> FALSE, lastSeen |-> t]
       ELSE UNCHANGED <<now, status>>
    /\ Goto(s, "disconnected")
    /\ UNCHANGED <<stored, routines, lock, start, syncSem, adminVars>>

(* DefaultAccountManager.OnPeerDisconnected: newer activity is left alone. *)
OnPeerDisconnected(s) ==
    /\ Disconnecting(s)
    /\ IF stored /\ status.lastSeen <= start[s]
       THEN \E t \in Time : Reads(t) /\ status' = [connected |-> FALSE, lastSeen |-> t]
       ELSE UNCHANGED <<now, status>>
    /\ Goto(s, "disconnected")
    /\ UNCHANGED <<stored, routines, lock, start, syncSem, adminVars>>

CloseChannel ==
    /\ channel' = None
    /\ closed' = IF channel = None THEN closed ELSE closed \cup {channel}

(* Mutant: a stream cancels the refresh only if it is the registered one. *)
CancelIfRegistered(s) ==
    /\ pc[s] = "disconnected"
    /\ CloseChannel
    /\ listed' = (listed \/ stored)
    /\ refresh' = IF channel = s THEN None ELSE refresh
    /\ lock' = None
    /\ Goto(s, "done")
    /\ UNCHANGED <<now, stored, status, start, syncSem, adminVars>>

(* The rest of cancelPeerRoutines, for the peer and whatever stream it has by now. *)
CancelPeerRoutines(s) ==
    /\ pc[s] = "disconnected"
    /\ CloseChannel
    /\ listed' = (listed \/ stored)
    /\ refresh' = None
    /\ lock' = None
    /\ Goto(s, "done")
    /\ UNCHANGED <<now, stored, status, start, syncSem, adminVars>>

-----------------------------------------------------------------------------
(* Administrators and timers, which do not take the lock *)

(* DeletePeer commits, and OnPeersDeleted closes the channel later. *)
DeletePeer ==
    /\ apc = "idle" /\ stored
    /\ stored' = FALSE /\ apc' = "deleted"
    /\ UNCHANGED <<now, status, routines, lock, pc, start, syncSem, read, overwritten>>

(* An expiration job reads the peers ... *)
GetExpiredPeers ==
    /\ apc = "idle" /\ stored
    /\ read' = status /\ apc' = "read"
    /\ UNCHANGED <<now, stored, status, routines, lock, pc, start, syncSem, overwritten>>

(* ... and expireAndUpdatePeers writes back the status it was given. *)
ExpirePeer ==
    /\ apc = "read"
    /\ status' = read
    /\ overwritten' = (read # status)
    /\ apc' = "saved"
    /\ UNCHANGED <<now, stored, routines, lock, pc, start, syncSem, read>>

DisconnectPeers ==
    /\ apc \in {"deleted", "saved"}
    /\ CloseChannel
    /\ apc' = "done"
    /\ UNCHANGED <<now, stored, status, refresh, listed, lock, pc, start, syncSem, read, overwritten>>

-----------------------------------------------------------------------------
(* cancelPeerRoutines with the lock held *)
Cancel(s) == OnPeerDisconnected(s) \/ CancelPeerRoutines(s)

(* What a handler does once it has begun. *)
Handler(s) ==
    \/ Reject(s) \/ AcquirePeerLock(s) \/ SyncPeerFails(s) \/ SyncAndMarkPeer(s)
    \/ GetPeer(s) \/ ConnectFails(s) \/ Serve(s)
    \/ ChannelClosed(s) \/ StreamBreaks(s) \/ Cancel(s)

Next ==
    \/ \E s \in Stream : Admit(s) \/ BeginSync(s) \/ Handler(s)
    \/ DeletePeer \/ GetExpiredPeers \/ ExpirePeer \/ DisconnectPeers

Spec == Init /\ [][Next]_vars

-----------------------------------------------------------------------------
(* The peer is shown as connected only while the stream that marked it has still to mark *)
(* it disconnected (OnPeerDisconnected against MarkPeerConnected), unless an expiration  *)
(* job has written an old status back.                                                   *)
ConnectedHasOwner ==
    stored /\ status.connected /\ ~overwritten =>
        \E s \in Stream : start[s] = status.lastSeen /\ pc[s] \in Marked

(* Whenever nobody is connecting or disconnecting, a peer with an update channel has its *)
(* credentials refreshed and is not on the list of ephemeral peers to be deleted.        *)
RegisteredIsActive ==
    lock = None /\ channel # None => refresh # None /\ ~listed

(* A served stream whose channel is no longer the peer's finds it closed: it never waits *)
(* for updates that nobody can send any more (CreateChannel, CloseChannel).              *)
ReplacedStreamNotices ==
    \A s \in Stream : pc[s] = "serving" /\ channel # s => s \in closed

(* Every path of Sync gives syncSem back exactly once, or the limit would in time refuse *)
(* every peer.                                                                           *)
SyncSemCounts == syncSem = Cardinality({s \in Stream : pc[s] \in Connecting})

(* Once all streams have ended, whatever order they did it in, neither channel nor refresh *)
(* remains, and the peer is left to the EphemeralManager (cancelPeerRoutines).             *)
EndedLeavesNothing ==
    (\A s \in Stream : pc[s] \in {"idle", "admitted", "starting", "done"}) =>
        channel = None /\ refresh = None /\ (stored => listed)

(* Only the end of the stream that the peer was last seen by marks it disconnected: the *)
(* late disconnect of an older stream is skipped.                                       *)
OnlyOwnerDisconnects ==
    [][stored /\ status.connected /\ ~status'.connected /\ ~overwritten' =>
        \E s \in Stream : Disconnecting(s) /\ start[s] = status.lastSeen]_vars

=============================================================================
