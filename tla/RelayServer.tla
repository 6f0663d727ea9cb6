----------------------------- MODULE RelayServer -----------------------------
(***************************************************************************)
(* The relay server: Relay.Accept and Shutdown, the peer Store, the        *)
(* PeerNotifier with one Listener per connection, and Peer.Work with its   *)
(* subscription messages.                                                  *)
(*                                                                         *)
(* A connection of CONSTANT Conn is one call of Accept with the *Peer, the *)
(* goroutine of Work and the goroutine of listenForEvents it creates.      *)
(* Locks are held where a holder can be made to wait:                      *)
(*   closeMu           (R) from Accept's start to its return               *)
(*   peersLock         (R) in GetOnlinePeersAndRegisterInterest            *)
(*   listenersMutex    (R) while PeerCameOnline / PeerWentOffline iterate  *)
(*   Listener.mu       by a notifier blocked on a full event channel       *)
(*   notificationMutex in handleSubscribePeerState                         *)
(* Every other critical section is one step.  A write to a connection is   *)
(* bounded by its writeTimeout and is one step, so connMu never matters.   *)
(***************************************************************************)
EXTENDS Naturals, Sequences, FiniteSets

CONSTANTS
    PeerId,         \* messages.PeerID
    Conn,           \* the connections ever offered to Accept
    IdOf,           \* the id each connection authenticates with
    Wants,          \* the peers each connection may subscribe to
    Capacity,       \* the size of Listener.eventChan (244 in the code)
    May,            \* what the environment may do, see below
    None

ASSUME RelayConstants ==
    /\ IdOf \in [Conn -> PeerId]
    /\ Wants \in [Conn -> SUBSET PeerId]
    /\ Capacity \in Nat \ {0}
    /\ May \subseteq {"overlap",     \* a client dials again before its last Accept returned
                     "unsubscribe", \* clients unsubscribe
                     "shutdown"}    \* the operator stops the server
    /\ None \notin Conn

VARIABLES
    pc,         \* the goroutine of Accept and then of Work
    responding, \* the Accept calls that still have to send the handshake response
    peers,      \* Store.peers
    broken,     \* connections that are closed or lost
    listeners,  \* PeerNotifier.listeners
    lpc,        \* the goroutine of listenForEvents
    intOn,      \* Listener.interestedPeersForOnline
    intOff,     \* Listener.interestedPeersForOffline
    eventChan,  \* Listener.eventChan
    batch,      \* the events listenForEvents has drained
    todo,       \* the listeners a notification has not reached yet
    blockedOn,  \* the listener whose full channel a notifier waits for
    reply,      \* onlinePeers of handleSubscribePeerState
    view,       \* the last state of a peer written to the connection since its last unsubscription
    server,     \* "up", "closing" while Shutdown holds closeMu, "down"
    toClose     \* the peers Shutdown still has to close

connVars == <<pc, responding, peers, broken>>
listenerVars == <<listeners, lpc, intOn, intOff, eventChan, batch>>
notifyVars == <<todo, blockedOn>>
clientVars == <<reply, view>>
shutdownVars == <<server, toClose>>
vars == <<connVars, listenerVars, notifyVars, clientVars, shutdownVars>>

Phase == {"idle", "handshake", "added", "notifyOn", "start", "read", "subscribe",
          "reply", "exit", "delete", "deleted", "notifyOff", "ended"}
ListenerPhase == {"none", "wait", "drain", "online", "offline", "stopped"}
Event == [peer : PeerId, online : BOOLEAN]

TypeOK ==
    /\ pc \in [Conn -> Phase]
    /\ responding \subseteq Conn
    /\ peers \in [PeerId -> Conn \cup {None}]
    /\ broken \subseteq Conn
    /\ listeners \subseteq Conn
    /\ lpc \in [Conn -> ListenerPhase]
    /\ intOn \in [Conn -> SUBSET PeerId]
    /\ intOff \in [Conn -> SUBSET PeerId]
    /\ eventChan \in [Conn -> Seq(Event)]
    /\ \A c \in Conn : Len(eventChan[c]) <= Capacity
    /\ batch \in [Conn -> Seq(Event)]
    /\ todo \in [Conn -> SUBSET Conn]
    /\ blockedOn \in [Conn -> Conn \cup {None}]
    /\ reply \in [Conn -> SUBSET PeerId]
    /\ view \in [Conn -> [PeerId -> {"unknown", "online", "offline"}]]
    /\ server \in {"up", "closing", "down"}
    /\ toClose \subseteq Conn

Init ==
    /\ pc = [c \in Conn |-> "idle"]
    /\ responding = {}
    /\ peers = [p \in PeerId |-> None]
    /\ broken = {}
    /\ listeners = {}
    /\ lpc = [c \in Conn |-> "none"]
    /\ intOn = [c \in Conn |-> {}]
    /\ intOff = [c \in Conn |-> {}]
    /\ eventChan = [c \in Conn |-> <<>>]
    /\ batch = [c \in Conn |-> <<>>]
    /\ todo = [c \in Conn |-> {}]
    /\ blockedOn = [c \in Conn |-> None]
    /\ reply = [c \in Conn |-> {}]
    /\ view = [c \in Conn |-> [p \in PeerId |-> "unknown"]]
    /\ server = "up"
    /\ toClose = {}

Goto(c, l) == pc' = [pc EXCEPT ![c] = l]

\* closeMu is read-locked by Accept until it returns.
Accepting(c) == pc[c] \in {"handshake", "added", "notifyOn"} \/ c \in responding

\* peersLock is read-locked by a subscription that waits for Listener.mu.
StoreLocked == \E c \in Conn : pc[c] = "subscribe"

\* listenersMutex is read-locked by the notifications under way.
Notifying(c) == pc[c] \in {"notifyOn", "notifyOff"}
ListenersLocked == \E c \in Conn : Notifying(c)

\* Listener.mu of l: peerComeOnline takes it for writing, peerWentOffline for reading.
MuHeld(l) == \E c \in Conn : blockedOn[c] = l
MuWriteHeld(l) == \E c \in Conn : blockedOn[c] = l /\ pc[c] = "notifyOn"

NotificationLocked(c) == pc[c] \in {"subscribe", "reply"}

(***************************************************************************)
(* Relay.Accept.                                                           *)
(***************************************************************************)

\* Mutant: Accept does not look at Relay.closed.
AcceptWhenClosed(c) ==
    /\ pc[c] = "idle"
    /\ server # "closing"
    /\ Goto(c, "handshake")
    /\ UNCHANGED <<responding, peers, broken, listenerVars, notifyVars, clientVars, shutdownVars>>

\* After Shutdown, Accept returns without closing the connection.
AcceptBegins(c) ==
    /\ pc[c] = "idle"
    /\ server # "closing"
    /\ "overlap" \notin May => \A d \in Conn : IdOf[d] = IdOf[c] => ~ Accepting(d)
    /\ Goto(c, IF server = "up" THEN "handshake" ELSE "ended")
    /\ UNCHANGED <<responding, peers, broken, listenerVars, notifyVars, clientVars, shutdownVars>>

HandshakeFails(c) ==
    /\ pc[c] = "handshake"
    /\ broken' = broken \cup {c}
    /\ Goto(c, "ended")
    /\ UNCHANGED <<responding, peers, listenerVars, notifyVars, clientVars, shutdownVars>>

\* Mutant: the replaced connection stays open.
AddPeerKeepsOld(c) ==
    /\ pc[c] = "handshake"
    /\ ~ StoreLocked
    /\ peers' = [peers EXCEPT ![IdOf[c]] = c]
    /\ Goto(c, "added")
    /\ UNCHANGED <<responding, broken, listenerVars, notifyVars, clientVars, shutdownVars>>

\* Store.AddPeer replaces the peer's former connection and closes it.
AddPeer(c) ==
    /\ pc[c] = "handshake"
    /\ ~ StoreLocked
    /\ broken' = broken \cup ({peers[IdOf[c]]} \ {None})
    /\ peers' = [peers EXCEPT ![IdOf[c]] = c]
    /\ Goto(c, "added")
    /\ UNCHANGED <<responding, listenerVars, notifyVars, clientVars, shutdownVars>>

\* PeerCameOnline takes listenersMutex; Accept goes on when it has returned.
PeerCameOnline(c) ==
    /\ pc[c] = "added"
    /\ todo' = [todo EXCEPT ![c] = listeners]
    /\ Goto(c, "notifyOn")
    /\ UNCHANGED <<responding, peers, broken, listenerVars, blockedOn, clientVars, shutdownVars>>

\* All listeners were told; go Work, and send the handshake response.
CameOnlineReturns(c) ==
    /\ pc[c] = "notifyOn"
    /\ todo[c] = {}
    /\ responding' = responding \cup {c}
    /\ Goto(c, "start")
    /\ UNCHANGED <<peers, broken, listenerVars, notifyVars, clientVars, shutdownVars>>

HandshakeResponse(c) ==
    /\ c \in responding
    /\ responding' = responding \ {c}
    /\ broken' \in {broken, broken \cup {c}}
    /\ UNCHANGED <<pc, peers, listenerVars, notifyVars, clientVars, shutdownVars>>

(***************************************************************************)
(* PeerNotifier and Listener.                                              *)
(***************************************************************************)

\* Listener.peerComeOnline of l, called for the connection c: the interest in the
\* peer coming online is used up by the first event.
NotifyOnline(c, l) ==
    /\ pc[c] = "notifyOn"
    /\ l \in todo[c]
    /\ IF blockedOn[c] = None THEN ~ MuHeld(l) ELSE blockedOn[c] = l
    /\ IF IdOf[c] \notin intOn[l]
         THEN /\ todo' = [todo EXCEPT ![c] = @ \ {l}]
              /\ UNCHANGED <<intOn, eventChan, blockedOn>>
         ELSE IF Len(eventChan[l]) < Capacity
         THEN /\ eventChan' = [eventChan EXCEPT ![l] = Append(@, [peer |-> IdOf[c], online |-> TRUE])]
              /\ intOn' = [intOn EXCEPT ![l] = @ \ {IdOf[c]}]
              /\ todo' = [todo EXCEPT ![c] = @ \ {l}]
              /\ blockedOn' = [blockedOn EXCEPT ![c] = None]
         ELSE /\ blockedOn' = [blockedOn EXCEPT ![c] = l]
              /\ UNCHANGED <<intOn, eventChan, todo>>
    /\ UNCHANGED <<connVars, listeners, lpc, intOff, batch, clientVars, shutdownVars>>

\* Listener.peerWentOffline of l, called for the connection c.
NotifyOffline(c, l) ==
    /\ pc[c] = "notifyOff"
    /\ l \in todo[c]
    /\ IF blockedOn[c] = None THEN ~ MuWriteHeld(l) ELSE blockedOn[c] = l
    /\ IF IdOf[c] \notin intOff[l]
         THEN /\ todo' = [todo EXCEPT ![c] = @ \ {l}]
              /\ UNCHANGED <<eventChan, blockedOn>>
         ELSE IF Len(eventChan[l]) < Capacity
         THEN /\ eventChan' = [eventChan EXCEPT ![l] = Append(@, [peer |-> IdOf[c], online |-> FALSE])]
              /\ todo' = [todo EXCEPT ![c] = @ \ {l}]
              /\ blockedOn' = [blockedOn EXCEPT ![c] = None]
         ELSE /\ blockedOn' = [blockedOn EXCEPT ![c] = l]
              /\ UNCHANGED <<eventChan, todo>>
    /\ UNCHANGED <<connVars, listeners, lpc, intOn, intOff, batch, clientVars, shutdownVars>>

\* A write to the connection: the client learns the state of the peers unless the
\* connection is gone.
Tell(c, ps, state) ==
    view' = IF c \in broken THEN view
            ELSE [view EXCEPT ![c] = [p \in PeerId |-> IF p \in ps THEN state ELSE @[p]]]

PeersIn(events, isOnline) == {e.peer : e \in {events[i] : i \in {j \in DOMAIN events : events[j].online = isOnline}}}

\* listenForEvents receives an event and drains the channel.
TakeEvent(c) ==
    /\ lpc[c] \in {"wait", "drain"}
    /\ eventChan[c] # <<>>
    /\ batch' = [batch EXCEPT ![c] = Append(@, Head(eventChan[c]))]
    /\ eventChan' = [eventChan EXCEPT ![c] = Tail(@)]
    /\ lpc' = [lpc EXCEPT ![c] = "drain"]
    /\ UNCHANGED <<connVars, listeners, intOn, intOff, notifyVars, clientVars, shutdownVars>>

EndDrain(c) ==
    /\ lpc[c] = "drain"
    /\ eventChan[c] = <<>>
    /\ lpc' = [lpc EXCEPT ![c] = "online"]
    /\ UNCHANGED <<connVars, listeners, intOn, intOff, eventChan, batch, notifyVars, clientVars, shutdownVars>>

\* sendPeersOnline for the online events of the batch.
SendPeersOnline(c) ==
    /\ lpc[c] = "online"
    /\ Tell(c, PeersIn(batch[c], TRUE), "online")
    /\ lpc' = [lpc EXCEPT ![c] = "offline"]
    /\ UNCHANGED <<connVars, listeners, intOn, intOff, eventChan, batch, notifyVars, reply, shutdownVars>>

\* Mutant: sendPeersWentOffline does not take notificationMutex.
SendOfflineUnlocked(c) ==
    /\ lpc[c] = "offline"
    /\ Tell(c, PeersIn(batch[c], FALSE), "offline")
    /\ batch' = [batch EXCEPT ![c] = <<>>]
    /\ lpc' = [lpc EXCEPT ![c] = "wait"]
    /\ UNCHANGED <<connVars, listeners, intOn, intOff, eventChan, notifyVars, reply, shutdownVars>>

\* sendPeersWentOffline for its offline events, under notificationMutex.
SendPeersWentOffline(c) ==
    /\ lpc[c] = "offline"
    /\ PeersIn(batch[c], FALSE) # {} => ~ NotificationLocked(c)
    /\ Tell(c, PeersIn(batch[c], FALSE), "offline")
    /\ batch' = [batch EXCEPT ![c] = <<>>]
    /\ lpc' = [lpc EXCEPT ![c] = "wait"]
    /\ UNCHANGED <<connVars, listeners, intOn, intOff, eventChan, notifyVars, reply, shutdownVars>>

ListenerStops(c) ==
    /\ lpc[c] = "wait"
    /\ pc[c] \in {"delete", "deleted", "notifyOff", "ended"}
    /\ lpc' = [lpc EXCEPT ![c] = "stopped"]
    /\ UNCHANGED <<connVars, listeners, intOn, intOff, eventChan, batch, notifyVars, clientVars, shutdownVars>>

(***************************************************************************)
(* Peer.Work.                                                              *)
(***************************************************************************)

\* NewListener starts listenForEvents and registers the listener.
NewListener(c) ==
    /\ pc[c] = "start"
    /\ ~ ListenersLocked
    /\ listeners' = listeners \cup {c}
    /\ lpc' = [lpc EXCEPT ![c] = "wait"]
    /\ Goto(c, "read")
    /\ UNCHANGED <<responding, peers, broken, intOn, intOff, eventChan, batch, notifyVars, clientVars, shutdownVars>>

\* The client closes the connection, or it breaks, or it sends what Work rejects.
ConnBreaks(c) ==
    /\ pc[c] \notin {"idle", "ended"}
    /\ c \notin broken
    /\ broken' = broken \cup {c}
    /\ UNCHANGED <<pc, responding, peers, listenerVars, notifyVars, clientVars, shutdownVars>>

\* handleSubscribePeerState takes notificationMutex and the store's peersLock and
\* waits for Listener.mu.
Subscribe(c) ==
    /\ pc[c] = "read" /\ c \notin broken
    /\ \E ps \in (SUBSET Wants[c]) \ {{}} : reply' = [reply EXCEPT ![c] = ps]
    /\ Goto(c, "subscribe")
    /\ UNCHANGED <<responding, peers, broken, listenerVars, notifyVars, view, shutdownVars>>

\* Interest is registered and the online peers are collected under peersLock.
GetOnlinePeersAndRegisterInterest(c) ==
    /\ pc[c] = "subscribe"
    /\ ~ MuHeld(c)
    /\ intOn' = [intOn EXCEPT ![c] = @ \cup reply[c]]
    /\ intOff' = [intOff EXCEPT ![c] = @ \cup reply[c]]
    /\ reply' = [reply EXCEPT ![c] = {p \in @ : peers[p] # None}]
    /\ Goto(c, "reply")
    /\ UNCHANGED <<responding, peers, broken, listeners, lpc, eventChan, batch, notifyVars, view, shutdownVars>>

\* sendPeersOnline to the subscriber, then notificationMutex is released.
Reply(c) ==
    /\ pc[c] = "reply"
    /\ Tell(c, reply[c], "online")
    /\ reply' = [reply EXCEPT ![c] = {}]
    /\ Goto(c, "read")
    /\ UNCHANGED <<responding, peers, broken, listenerVars, notifyVars, shutdownVars>>

\* handleUnsubscribePeerState; the client forgets what it was told of the peers.
Unsubscribe(c) ==
    /\ "unsubscribe" \in May
    /\ pc[c] = "read" /\ c \notin broken
    /\ ~ MuHeld(c)
    /\ \E ps \in (SUBSET Wants[c]) \ {{}} :
          /\ intOn' = [intOn EXCEPT ![c] = @ \ ps]
          /\ intOff' = [intOff EXCEPT ![c] = @ \ ps]
          /\ view' = [view EXCEPT ![c] = [p \in PeerId |-> IF p \in ps THEN "unknown" ELSE @[p]]]
    /\ UNCHANGED <<connVars, listeners, lpc, eventChan, batch, notifyVars, reply, shutdownVars>>

ReadFails(c) ==
    /\ pc[c] = "read"
    /\ c \in broken
    /\ Goto(c, "exit")
    /\ UNCHANGED <<responding, peers, broken, listenerVars, notifyVars, clientVars, shutdownVars>>

\* Mutant: the goroutine ends with Work, without DeletePeer.
RemoveListenerOnly(c) ==
    /\ pc[c] = "exit"
    /\ ~ ListenersLocked
    /\ listeners' = listeners \ {c}
    /\ Goto(c, "ended")
    /\ UNCHANGED <<responding, peers, broken, lpc, intOn, intOff, eventChan, batch, notifyVars, clientVars, shutdownVars>>

\* The deferred function of Work: RemoveListener, which also stops listenForEvents.
RemoveListener(c) ==
    /\ pc[c] = "exit"
    /\ ~ ListenersLocked
    /\ listeners' = listeners \ {c}
    /\ Goto(c, "delete")
    /\ UNCHANGED <<responding, peers, broken, lpc, intOn, intOff, eventChan, batch, notifyVars, clientVars, shutdownVars>>

\* Store.DeletePeer removes the peer only if it is still this connection.
DeletePeer(c) ==
    /\ pc[c] = "delete"
    /\ ~ StoreLocked
    /\ peers' = [peers EXCEPT ![IdOf[c]] = IF @ = c THEN None ELSE @]
    /\ Goto(c, IF peers[IdOf[c]] = c THEN "deleted" ELSE "ended")
    /\ UNCHANGED <<responding, broken, listenerVars, notifyVars, clientVars, shutdownVars>>

PeerWentOffline(c) ==
    /\ pc[c] = "deleted"
    /\ todo' = [todo EXCEPT ![c] = listeners]
    /\ Goto(c, "notifyOff")
    /\ UNCHANGED <<responding, peers, broken, listenerVars, blockedOn, clientVars, shutdownVars>>

WentOfflineReturns(c) ==
    /\ pc[c] = "notifyOff"
    /\ todo[c] = {}
    /\ Goto(c, "ended")
    /\ UNCHANGED <<responding, peers, broken, listenerVars, notifyVars, clientVars, shutdownVars>>

(***************************************************************************)
(* Relay.Shutdown.                                                         *)
(***************************************************************************)

ShutdownBegins ==
    /\ "shutdown" \in May
    /\ server = "up"
    /\ \A c \in Conn : ~ Accepting(c)
    /\ server' = "closing"
    /\ toClose' = {c \in Conn : \E p \in PeerId : peers[p] = c}
    /\ UNCHANGED <<connVars, listenerVars, notifyVars, clientVars>>

CloseGracefully(c) ==
    /\ c \in toClose
    /\ toClose' = toClose \ {c}
    /\ broken' = broken \cup {c}
    /\ UNCHANGED <<pc, responding, peers, listenerVars, notifyVars, clientVars, server>>

ShutdownEnds ==
    /\ server = "closing"
    /\ toClose = {}
    /\ server' = "down"
    /\ UNCHANGED <<connVars, listenerVars, notifyVars, clientVars, toClose>>

(***************************************************************************)
(* Specification.                                                          *)
(***************************************************************************)

Accept(c) == \/ HandshakeFails(c) \/ AddPeer(c) \/ PeerCameOnline(c) \/ CameOnlineReturns(c)
             \/ HandshakeResponse(c) \/ \E l \in Conn : NotifyOnline(c, l)

\* What the goroutine of Work does without a message of the client.
Work(c) == \/ NewListener(c) \/ GetOnlinePeersAndRegisterInterest(c) \/ Reply(c) \/ ReadFails(c)
           \/ RemoveListener(c) \/ DeletePeer(c) \/ PeerWentOffline(c) \/ WentOfflineReturns(c)
           \/ \E l \in Conn : NotifyOffline(c, l)

ListenForEvents(c) == \/ TakeEvent(c) \/ EndDrain(c) \/ SendPeersOnline(c)
                      \/ SendPeersWentOffline(c) \/ ListenerStops(c)

Client(c) == AcceptBegins(c) \/ ConnBreaks(c) \/ Subscribe(c) \/ Unsubscribe(c)

Shutdown == ShutdownBegins \/ ShutdownEnds \/ \E c \in Conn : CloseGracefully(c)

Next == (\E c \in Conn : Accept(c) \/ Work(c) \/ ListenForEvents(c) \/ Client(c)) \/ Shutdown

Spec == Init /\ [][Next]_vars

\* Every goroutine that can run runs, and none waits forever for a lock that is
\* released again and again (a waiting writer of a Go RWMutex keeps new readers out, a
\* Mutex goes over to a starving waiter): strong fairness.  Clients and the operator need
\* not act.
FairSpec ==
    /\ Spec
    /\ \A c \in Conn : SF_vars(Accept(c)) /\ SF_vars(Work(c)) /\ SF_vars(ListenForEvents(c))
    /\ WF_vars(ShutdownEnds \/ \E c \in Conn : CloseGracefully(c))

(***************************************************************************)
(* Properties.                                                             *)
(***************************************************************************)

\* Connections that AddPeer has stored at some time.
Stored(c) == pc[c] \notin {"idle", "handshake", "ended"}

\* Of all connections a peer ever had, the one in the store is the only one that may
\* be open: AddPeer closes what it replaces, and an old connection's DeletePeer leaves
\* the new one alone.
OneOpenConn == \A c \in Conn : Stored(c) /\ c \notin broken => peers[IdOf[c]] = c

\* After Shutdown no connection that was accepted is open.
ShutdownClosesAll == server = "down" => \A c \in Conn : Stored(c) => c \in broken

\* The store names no connection whose Work has returned: DeletePeer is never skipped.
NoDeadEntry == \A p \in PeerId : peers[p] # None => Stored(peers[p]) /\ IdOf[peers[p]] = p

\* Somewhere on its way to the client of c is a notice that p went offline.
OfflinePending(c, p) ==
    \/ \E d \in Conn : IdOf[d] = p /\ (pc[d] = "deleted" \/ (pc[d] = "notifyOff" /\ c \in todo[d]))
    \/ \E i \in DOMAIN eventChan[c] : eventChan[c][i] = [peer |-> p, online |-> FALSE]
    \/ \E i \in DOMAIN batch[c] : batch[c][i] = [peer |-> p, online |-> FALSE]

\* A subscriber that was told a peer is online, and still wants to know when it goes
\* offline, is told so when the peer leaves: the notice is on its way while the store
\* has no connection of the peer.
OfflineNoticeNotLost ==
    \A c \in Conn, p \in PeerId :
        (/\ pc[c] = "read" /\ c \notin broken
         /\ p \in intOff[c]
         /\ view[c][p] = "online" /\ peers[p] = None) => OfflinePending(c, p)

\* Interest is registered before the store is read, so a peer that was not in the reply
\* to a subscription and comes online later is announced: as long as the subscriber
\* knows nothing of it, the announcement is still possible or on its way.
OnlineNoticeNotLost ==
    \A c \in Conn, p \in PeerId :
        (pc[c] = "read" /\ p \in intOff[c] /\ view[c][p] = "unknown" /\ c \notin broken) =>
            \/ p \in intOn[c] /\ (peers[p] # None => pc[peers[p]] \in {"added", "notifyOn"})
            \/ \E i \in DOMAIN eventChan[c] : eventChan[c][i].peer = p
            \/ \E i \in DOMAIN batch[c] : batch[c][i].peer = p

\* Whatever the order of subscription, events and disconnections, no notice that a
\* subscriber depends on is lost.
NoticesNotLost == OfflineNoticeNotLost /\ OnlineNoticeNotLost

\* "All events will be processed": no listener waits for the notificationMutex of a
\* subscription that waits for the Listener.mu of a notifier that waits for room in the
\* channel only that listener empties.
NoCircularWait ==
    \A c \in Conn : lpc[c] = "offline" /\ PeersIn(batch[c], FALSE) # {} =>
                      ~ (pc[c] = "subscribe" /\ MuHeld(c) /\ Len(eventChan[c]) = Capacity)

\* A closed or broken connection leaves the store, unless the server has come to the
\* circular wait: then the subscription never gives peersLock back, and DeletePeer and
\* AddPeer wait for it forever.
BrokenConnLeaves ==
    \A c \in Conn : (Stored(c) /\ c \in broken) ~> (peers[IdOf[c]] # c \/ ~ NoCircularWait)
=============================================================================
