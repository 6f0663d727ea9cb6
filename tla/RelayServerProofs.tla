-------------------------- MODULE RelayServerProofs --------------------------
(***************************************************************************)
(* Proofs about RelayServer for any number of peers and connections and    *)
(* any channel capacity.                                                   *)
(***************************************************************************)
EXTENDS RelayServer, TLAPS

(***************************************************************************)
(* Types of the variables the invariants speak of.                         *)
(***************************************************************************)

StoreTypes ==
    /\ pc \in [Conn -> Phase]
    /\ responding \subseteq Conn
    /\ peers \in [PeerId -> Conn \cup {None}]
    /\ broken \subseteq Conn
    /\ server \in {"up", "closing", "down"}
    /\ toClose \subseteq Conn

\* A stored connection belongs to its peer, and its goroutine has not deleted it yet.
EntryIsCurrent ==
    \A p \in PeerId : peers[p] # None =>
        /\ IdOf[peers[p]] = p
        /\ pc[peers[p]] \in {"added", "notifyOn", "start", "read", "subscribe", "reply", "exit", "delete"}

\* Work returns only because its connection is gone.
LeavingIsBroken == \A c \in Conn : pc[c] \in {"exit", "delete", "deleted", "notifyOff"} => c \in broken

\* While Shutdown runs no Accept does, and what is still open is in its list.
ClosingIsComplete ==
    server # "up" => \A c \in Conn :
        /\ ~ Accepting(c)
        /\ Stored(c) /\ c \notin broken => server = "closing" /\ c \in toClose

StoreInv == StoreTypes /\ EntryIsCurrent /\ LeavingIsBroken /\ OneOpenConn /\ ClosingIsComplete

LEMMA StoreInvInit == Init => StoreInv
  BY RelayConstants DEF Init, StoreInv, StoreTypes, EntryIsCurrent, LeavingIsBroken, OneOpenConn,
     ClosingIsComplete, Phase, Stored, Accepting

LEMMA StoreInvNext == StoreInv /\ [Next]_vars => StoreInv'
<1> SUFFICES ASSUME StoreInv, [Next]_vars PROVE StoreInv'
  OBVIOUS
<1> USE RelayConstants DEF StoreInv, StoreTypes, EntryIsCurrent, LeavingIsBroken, OneOpenConn,
     ClosingIsComplete, Phase, Stored, Accepting, Goto, shutdownVars, connVars
<1>1. ASSUME NEW c \in Conn, AcceptBegins(c) PROVE StoreInv'
  BY <1>1 DEF AcceptBegins
<1>2. ASSUME NEW c \in Conn, HandshakeFails(c) PROVE StoreInv'
  BY <1>2 DEF HandshakeFails
<1>3. ASSUME NEW c \in Conn, AddPeer(c) PROVE StoreInv'
  <2>1. StoreTypes'
    BY <1>3 DEF AddPeer
  <2>2. EntryIsCurrent' /\ LeavingIsBroken'
    BY <1>3 DEF AddPeer
  <2>3. OneOpenConn'
    BY <1>3 DEF AddPeer
  <2>4. ClosingIsComplete'
    BY <1>3 DEF AddPeer
  <2> QED
    BY <2>1, <2>2, <2>3, <2>4
<1>4. ASSUME NEW c \in Conn, PeerCameOnline(c) \/ CameOnlineReturns(c) \/ HandshakeResponse(c) PROVE StoreInv'
  BY <1>4 DEF PeerCameOnline, CameOnlineReturns, HandshakeResponse
<1>5. ASSUME NEW c \in Conn, NewListener(c) \/ GetOnlinePeersAndRegisterInterest(c) \/ Reply(c)
      PROVE StoreInv'
  BY <1>5 DEF NewListener, GetOnlinePeersAndRegisterInterest, Reply
<1>6. ASSUME NEW c \in Conn, ReadFails(c) \/ RemoveListener(c) PROVE StoreInv'
  BY <1>6 DEF ReadFails, RemoveListener
<1>7. ASSUME NEW c \in Conn, DeletePeer(c) PROVE StoreInv'
  <2>1. StoreTypes'
    BY <1>7 DEF DeletePeer
  <2>2. EntryIsCurrent' /\ LeavingIsBroken'
    BY <1>7 DEF DeletePeer
  <2>3. OneOpenConn'
    BY <1>7 DEF DeletePeer
  <2>4. ClosingIsComplete'
    BY <1>7 DEF DeletePeer
  <2> QED
    BY <2>1, <2>2, <2>3, <2>4
<1>8. ASSUME NEW c \in Conn, PeerWentOffline(c) \/ WentOfflineReturns(c) PROVE StoreInv'
  BY <1>8 DEF PeerWentOffline, WentOfflineReturns
<1>9. ASSUME NEW c \in Conn, ConnBreaks(c) \/ Subscribe(c) \/ Unsubscribe(c) PROVE StoreInv'
  BY <1>9 DEF ConnBreaks, Subscribe, Unsubscribe
<1>10. CASE UNCHANGED <<connVars, shutdownVars>>
  BY <1>10
<1>11. CASE Shutdown
  <2>1. CASE ShutdownBegins
    BY <2>1 DEF ShutdownBegins
  <2>2. CASE ShutdownEnds
    BY <2>2 DEF ShutdownEnds
  <2>3. ASSUME NEW c \in Conn, CloseGracefully(c) PROVE StoreInv'
    BY <2>3 DEF CloseGracefully
  <2> QED
    BY <1>11, <2>1, <2>2, <2>3 DEF Shutdown
<1> HIDE DEF StoreInv
<1>12. ASSUME NEW c \in Conn, Accept(c) PROVE StoreInv'
  BY <1>2, <1>3, <1>4, <1>10, <1>12 DEF Accept, NotifyOnline
<1>13. ASSUME NEW c \in Conn, Work(c) PROVE StoreInv'
  BY <1>5, <1>6, <1>7, <1>8, <1>10, <1>13 DEF Work, NotifyOffline
<1>14. ASSUME NEW c \in Conn, ListenForEvents(c) PROVE StoreInv'
  BY <1>10, <1>14 DEF ListenForEvents, TakeEvent, EndDrain, SendPeersOnline, SendPeersWentOffline, ListenerStops
<1>15. ASSUME NEW c \in Conn, Client(c) PROVE StoreInv'
  BY <1>1, <1>9, <1>15 DEF Client
<1>16. CASE UNCHANGED vars
  BY <1>10, <1>16 DEF vars
<1> QED
  BY <1>11, <1>12, <1>13, <1>14, <1>15, <1>16 DEF Next

\* However many connections a peer opens at the same time, at most the one in the store
\* is open: AddPeer closes the one it replaces before anybody can see the new one.
THEOREM AtMostOneOpenConn == Spec => []OneOpenConn
<1>1. StoreInv => OneOpenConn
  BY DEF StoreInv
<1> QED
  BY StoreInvInit, StoreInvNext, <1>1, PTL DEF Spec

\* The entry of a peer is a connection of that peer whose goroutine still has its
\* DeletePeer to do: no entry outlives its connection's goroutine.
THEOREM StoreHasNoDeadEntry == Spec => []NoDeadEntry
<1>1. StoreInv => NoDeadEntry
  BY RelayConstants DEF StoreInv, EntryIsCurrent, NoDeadEntry, Stored
<1> QED
  BY StoreInvInit, StoreInvNext, <1>1, PTL DEF Spec

\* A connection that Accept let in before Shutdown took closeMu is closed when Shutdown
\* returns, also one that another connection of its peer has replaced.
THEOREM ShutdownLeavesNothingOpen == Spec => []ShutdownClosesAll
<1>1. StoreInv => ShutdownClosesAll
  BY DEF StoreInv, StoreTypes, ClosingIsComplete, ShutdownClosesAll
<1> QED
  BY StoreInvInit, StoreInvNext, <1>1, PTL DEF Spec

(***************************************************************************)
(* Presence notices.  They are not lost when no client dials again before  *)
(* its last Accept has returned, and none unsubscribes.                    *)
(***************************************************************************)

On(p) == [peer |-> p, online |-> TRUE]
Off(p) == [peer |-> p, online |-> FALSE]
Has(events, e) == \E i \in DOMAIN events : events[i] = e

\* Connections whose Work reads, and which are in the notifier's list.
Reading(c) == pc[c] \in {"read", "subscribe", "reply"}

\* A connection of p has been deleted and has still to tell c.
Owes(d, c) == pc[d] = "deleted" \/ (pc[d] = "notifyOff" /\ c \in todo[d])
Leaving(c, p) == \E d \in Conn : IdOf[d] = p /\ Owes(d, c)

\* At most one Accept of a peer is under way, and what it announces is stored.
AcceptsDoNotOverlap ==
    /\ \A c, d \in Conn : IdOf[c] = IdOf[d] /\ Accepting(c) /\ Accepting(d) => c = d
    /\ \A c \in Conn : pc[c] \in {"added", "notifyOn"} => peers[IdOf[c]] = c

\* Nothing is known or due of a peer before the interest in it is registered.
ListensWhenReading ==
    \A c \in Conn :
        /\ Reading(c) => c \in listeners
        /\ pc[c] \in {"idle", "handshake", "added", "notifyOn", "start"} => intOff[c] = {}
        /\ pc[c] = "reply" => reply[c] \subseteq intOff[c]
InterestsAgree == \A c \in Conn : intOn[c] \subseteq intOff[c]
ChannelIsWanted == \A c \in Conn : \A i \in DOMAIN eventChan[c] : eventChan[c][i].peer \in intOff[c]
BatchIsWanted == \A c \in Conn : \A i \in DOMAIN batch[c] : batch[c][i].peer \in intOff[c]
ViewIsWanted == \A c \in Conn, p \in PeerId : view[c][p] # "unknown" => p \in intOff[c]

InterestFirst == ListensWhenReading /\ InterestsAgree /\ ChannelIsWanted /\ BatchIsWanted /\ ViewIsWanted

\* Whatever tells c that a peer is online is followed by an offline notice once the peer
\* has left the store: in the channel by a later event, elsewhere by any notice.
SaidOnline(c, p) == view[c][p] = "online" \/ (pc[c] = "reply" /\ p \in reply[c]) \/ Has(batch[c], On(p))
FollowedAt(c, p, i) == Leaving(c, p) \/ \E j \in DOMAIN eventChan[c] : j > i /\ eventChan[c][j] = Off(p)

OnlineIsFollowed ==
    \A c \in Conn, p \in PeerId : Reading(c) /\ c \notin broken /\ peers[p] = None =>
        /\ SaidOnline(c, p) => OfflinePending(c, p)
        /\ \A i \in DOMAIN eventChan[c] : eventChan[c][i] = On(p) => FollowedAt(c, p, i)

\* Until c knows of a peer it is interested in, a reply or the peer's connection has still
\* to tell it, or there is no connection yet, or an event is under way.
Due(c, p) ==
    \/ pc[c] = "reply" /\ p \in reply[c]
    \/ /\ p \in intOn[c]
       /\ peers[p] # None => \/ pc[peers[p]] = "added"
                             \/ pc[peers[p]] = "notifyOn" /\ c \in todo[peers[p]]
Mentions(events, p) == \E i \in DOMAIN events : events[i].peer = p

AnnouncementIsDue ==
    \A c \in Conn, p \in PeerId : Reading(c) /\ c \notin broken /\ p \in intOff[c] /\ view[c][p] = "unknown" =>
        Due(c, p) \/ Mentions(eventChan[c], p) \/ Mentions(batch[c], p)

\* The online events of a batch are sent before its offline events.
OnlineSent ==
    \A c \in Conn : lpc[c] = "offline" /\ c \notin broken =>
        \A i \in DOMAIN batch[c] : batch[c][i].online => view[c][batch[c][i].peer] # "unknown"

NoticeInv == AcceptsDoNotOverlap /\ InterestFirst /\ OnlineIsFollowed /\ AnnouncementIsDue /\ OnlineSent

LEMMA TypesInit == Init => TypeOK
  BY RelayConstants DEF Init, TypeOK, Phase, ListenerPhase

LEMMA TypesNext == TypeOK /\ [Next]_vars => TypeOK'
<1> SUFFICES ASSUME TypeOK, [Next]_vars PROVE TypeOK'
  OBVIOUS
<1> USE RelayConstants DEF TypeOK, Goto, connVars, listenerVars, notifyVars, clientVars, shutdownVars
<1>1. ASSUME NEW c \in Conn, AcceptBegins(c) PROVE TypeOK'
  BY <1>1 DEF AcceptBegins, Phase
<1>2. ASSUME NEW c \in Conn, HandshakeFails(c) \/ PeerCameOnline(c) \/ CameOnlineReturns(c) \/ HandshakeResponse(c)
      PROVE TypeOK'
  <2>1. CASE HandshakeFails(c)
    BY <2>1 DEF HandshakeFails, Phase
  <2>2. CASE PeerCameOnline(c)
    BY <2>2 DEF PeerCameOnline, Phase
  <2>3. CASE CameOnlineReturns(c)
    BY <2>3 DEF CameOnlineReturns, Phase
  <2>4. CASE HandshakeResponse(c)
    BY <2>4 DEF HandshakeResponse
  <2> QED
    BY <1>2, <2>1, <2>2, <2>3, <2>4
<1>3. ASSUME NEW c \in Conn, AddPeer(c) PROVE TypeOK'
  BY <1>3 DEF AddPeer, Phase
<1>4. ASSUME NEW c \in Conn, NEW l \in Conn, NotifyOnline(c, l) PROVE TypeOK'
  <2> DEFINE e == [peer |-> IdOf[c], online |-> TRUE]
  <2>1. e \in Event
    BY DEF Event
  <2>2. \A s \in Seq(Event) : Append(s, e) \in Seq(Event) /\ Len(Append(s, e)) = Len(s) + 1
    BY <2>1
  <2>3. UNCHANGED <<connVars, listeners, lpc, intOff, batch, clientVars, shutdownVars>>
    BY <1>4 DEF NotifyOnline
  <2>4. CASE IdOf[c] \notin intOn[l]
    <3>1. todo' = [todo EXCEPT ![c] = @ \ {l}] /\ UNCHANGED <<intOn, eventChan, blockedOn>>
      BY <1>4, <2>4 DEF NotifyOnline
    <3> QED
      BY <2>3, <3>1
  <2>5. CASE IdOf[c] \in intOn[l] /\ Len(eventChan[l]) < Capacity
    <3>1. /\ eventChan' = [eventChan EXCEPT ![l] = Append(@, e)]
          /\ intOn' = [intOn EXCEPT ![l] = @ \ {IdOf[c]}]
          /\ todo' = [todo EXCEPT ![c] = @ \ {l}]
          /\ blockedOn' = [blockedOn EXCEPT ![c] = None]
      BY <1>4, <2>5 DEF NotifyOnline
    <3> HIDE DEF e
    <3>2. Len(eventChan[l]) + 1 <= Capacity
      BY <2>5
    <3>3. eventChan' \in [Conn -> Seq(Event)] /\ \A x \in Conn : Len(eventChan'[x]) <= Capacity
      BY <2>2, <3>1, <3>2
    <3>4. todo' \in [Conn -> SUBSET Conn]
      BY <3>1
    <3>5. intOn' \in [Conn -> SUBSET PeerId] /\ blockedOn' \in [Conn -> Conn \cup {None}]
      BY <2>3, <3>1
    <3> QED
      BY <2>3, <3>3, <3>4, <3>5
  <2>6. CASE IdOf[c] \in intOn[l] /\ ~ Len(eventChan[l]) < Capacity
    <3>1. blockedOn' = [blockedOn EXCEPT ![c] = l] /\ UNCHANGED <<intOn, eventChan, todo>>
      BY <1>4, <2>6 DEF NotifyOnline
    <3> QED
      BY <2>3, <3>1
  <2> QED
    BY <2>4, <2>5, <2>6
<1>5. ASSUME NEW c \in Conn, NEW l \in Conn, NotifyOffline(c, l) PROVE TypeOK'
  <2> DEFINE e == [peer |-> IdOf[c], online |-> FALSE]
  <2>1. e \in Event
    BY DEF Event
  <2>2. \A s \in Seq(Event) : Append(s, e) \in Seq(Event) /\ Len(Append(s, e)) = Len(s) + 1
    BY <2>1
  <2>3. UNCHANGED <<connVars, listeners, lpc, intOn, intOff, batch, clientVars, shutdownVars>>
    BY <1>5 DEF NotifyOffline
  <2>4. CASE IdOf[c] \notin intOff[l]
    <3>1. todo' = [todo EXCEPT ![c] = @ \ {l}] /\ UNCHANGED <<eventChan, blockedOn>>
      BY <1>5, <2>4 DEF NotifyOffline
    <3> QED
      BY <2>3, <3>1
  <2>5. CASE IdOf[c] \in intOff[l] /\ Len(eventChan[l]) < Capacity
    <3>1. /\ eventChan' = [eventChan EXCEPT ![l] = Append(@, e)]
          /\ todo' = [todo EXCEPT ![c] = @ \ {l}]
          /\ blockedOn' = [blockedOn EXCEPT ![c] = None]
      BY <1>5, <2>5 DEF NotifyOffline
    <3> HIDE DEF e
    <3>2. Len(eventChan[l]) + 1 <= Capacity
      BY <2>5
    <3>3. eventChan' \in [Conn -> Seq(Event)] /\ \A x \in Conn : Len(eventChan'[x]) <= Capacity
      BY <2>2, <3>1, <3>2
    <3>4. todo' \in [Conn -> SUBSET Conn]
      BY <3>1
    <3>5. intOn' \in [Conn -> SUBSET PeerId] /\ blockedOn' \in [Conn -> Conn \cup {None}]
      BY <2>3, <3>1
    <3> QED
      BY <2>3, <3>3, <3>4, <3>5
  <2>6. CASE IdOf[c] \in intOff[l] /\ ~ Len(eventChan[l]) < Capacity
    <3>1. blockedOn' = [blockedOn EXCEPT ![c] = l] /\ UNCHANGED <<eventChan, todo>>
      BY <1>5, <2>6 DEF NotifyOffline
    <3> QED
      BY <2>3, <3>1
  <2> QED
    BY <2>4, <2>5, <2>6
<1>6. ASSUME NEW c \in Conn, TakeEvent(c) PROVE TypeOK'
  <2>1. /\ eventChan[c] \in Seq(Event) /\ eventChan[c] # <<>> /\ batch[c] \in Seq(Event)
        /\ Len(eventChan[c]) <= Capacity
    BY <1>6 DEF TakeEvent
  <2>2. /\ Head(eventChan[c]) \in Event /\ Tail(eventChan[c]) \in Seq(Event)
        /\ Len(Tail(eventChan[c])) = Len(eventChan[c]) - 1
    BY <2>1
  <2>3. Append(batch[c], Head(eventChan[c])) \in Seq(Event)
    BY <2>1, <2>2
  <2>4. Len(Tail(eventChan[c])) <= Capacity
    BY <2>1, <2>2
  <2> QED
    BY <1>6, <2>2, <2>3, <2>4 DEF TakeEvent, ListenerPhase
<1>7. ASSUME NEW c \in Conn, EndDrain(c) \/ ListenerStops(c) PROVE TypeOK'
  BY <1>7 DEF EndDrain, ListenerStops, ListenerPhase
<1>8. ASSUME NEW c \in Conn, NEW ps, NEW state \in {"online", "offline"}, Tell(c, ps, state)
      PROVE  view' \in [Conn -> [PeerId -> {"unknown", "online", "offline"}]]
  BY <1>8 DEF Tell
<1>9. ASSUME NEW c \in Conn, SendPeersOnline(c) \/ SendPeersWentOffline(c) \/ Reply(c) PROVE TypeOK'
  <2>1. CASE SendPeersOnline(c)
    BY <1>8, <2>1 DEF SendPeersOnline, ListenerPhase
  <2>2. CASE SendPeersWentOffline(c)
    <3>1. <<>> \in Seq(Event)
      OBVIOUS
    <3> QED
      BY <1>8, <2>2, <3>1 DEF SendPeersWentOffline, ListenerPhase
  <2>3. CASE Reply(c)
    BY <1>8, <2>3 DEF Reply, Phase
  <2> QED
    BY <1>9, <2>1, <2>2, <2>3
<1>10. ASSUME NEW c \in Conn, NewListener(c) \/ ReadFails(c) \/ RemoveListener(c) \/ PeerWentOffline(c)
                              \/ WentOfflineReturns(c) PROVE TypeOK'
  <2>1. CASE NewListener(c)
    BY <2>1 DEF NewListener, Phase, ListenerPhase
  <2>2. CASE ReadFails(c)
    BY <2>2 DEF ReadFails, Phase
  <2>3. CASE RemoveListener(c)
    BY <2>3 DEF RemoveListener, Phase
  <2>4. CASE PeerWentOffline(c)
    BY <2>4 DEF PeerWentOffline, Phase
  <2>5. CASE WentOfflineReturns(c)
    BY <2>5 DEF WentOfflineReturns, Phase
  <2> QED
    BY <1>10, <2>1, <2>2, <2>3, <2>4, <2>5
<1>11. ASSUME NEW c \in Conn, Subscribe(c) \/ GetOnlinePeersAndRegisterInterest(c) PROVE TypeOK'
  <2>1. CASE Subscribe(c)
    <3>1. PICK ps \in SUBSET Wants[c] : reply' = [reply EXCEPT ![c] = ps]
      BY <2>1 DEF Subscribe
    <3>2. reply' \in [Conn -> SUBSET PeerId]
      BY <3>1
    <3> QED
      BY <2>1, <3>2 DEF Subscribe, Phase
  <2>2. CASE GetOnlinePeersAndRegisterInterest(c)
    <3>1. reply' \in [Conn -> SUBSET PeerId] /\ intOn' \in [Conn -> SUBSET PeerId] /\ intOff' \in [Conn -> SUBSET PeerId]
      BY <2>2 DEF GetOnlinePeersAndRegisterInterest
    <3> QED
      BY <2>2, <3>1 DEF GetOnlinePeersAndRegisterInterest, Phase
  <2> QED
    BY <1>11, <2>1, <2>2
<1>12. ASSUME NEW c \in Conn, Unsubscribe(c) PROVE TypeOK'
  BY <1>12 DEF Unsubscribe
<1>13. ASSUME NEW c \in Conn, DeletePeer(c) \/ ConnBreaks(c) PROVE TypeOK'
  BY <1>13, ZenonT(40) DEF DeletePeer, ConnBreaks, Phase
<1>14. CASE Shutdown
  BY <1>14 DEF Shutdown, ShutdownBegins, ShutdownEnds, CloseGracefully
<1>15. CASE UNCHANGED vars
  BY <1>15 DEF vars
<1> HIDE DEF TypeOK
<1> QED
  BY <1>1, <1>2, <1>3, <1>4, <1>5, <1>6, <1>7, <1>9, <1>10, <1>11, <1>12, <1>13, <1>14, <1>15
  DEF Next, Accept, Work, ListenForEvents, Client

LEMMA NoticeInit == Init => NoticeInv
  BY RelayConstants DEF Init, NoticeInv, AcceptsDoNotOverlap, InterestFirst, OnlineIsFollowed, AnnouncementIsDue,
     OnlineSent, Accepting, Reading, SaidOnline, ListensWhenReading, InterestsAgree, ChannelIsWanted, BatchIsWanted, ViewIsWanted

LEMMA AcceptsNext ==
    ASSUME "overlap" \notin May, StoreInv, AcceptsDoNotOverlap, [Next]_vars
    PROVE  AcceptsDoNotOverlap'
<1> USE RelayConstants DEF StoreInv, StoreTypes, EntryIsCurrent, AcceptsDoNotOverlap, Accepting, Goto, connVars
<1>1. ASSUME NEW c \in Conn, AcceptBegins(c) PROVE AcceptsDoNotOverlap'
  BY <1>1 DEF AcceptBegins
<1>2. ASSUME NEW c \in Conn, AddPeer(c) PROVE AcceptsDoNotOverlap'
  BY <1>2 DEF AddPeer
<1>3. ASSUME NEW c \in Conn, HandshakeFails(c) \/ PeerCameOnline(c) \/ CameOnlineReturns(c) \/ HandshakeResponse(c)
      PROVE AcceptsDoNotOverlap'
  BY <1>3 DEF HandshakeFails, PeerCameOnline, CameOnlineReturns, HandshakeResponse
<1>4. ASSUME NEW c \in Conn, DeletePeer(c) PROVE AcceptsDoNotOverlap'
  BY <1>4 DEF DeletePeer
<1>5. ASSUME NEW c \in Conn, NewListener(c) \/ GetOnlinePeersAndRegisterInterest(c) \/ Reply(c) \/ ReadFails(c)
                             \/ RemoveListener(c) \/ PeerWentOffline(c) \/ WentOfflineReturns(c) \/ Subscribe(c)
      PROVE AcceptsDoNotOverlap'
  BY <1>5 DEF NewListener, GetOnlinePeersAndRegisterInterest, Reply, ReadFails, RemoveListener, PeerWentOffline,
     WentOfflineReturns, Subscribe
<1>6. CASE UNCHANGED <<pc, responding, peers>>
  BY <1>6
<1> HIDE DEF AcceptsDoNotOverlap
<1>7. ASSUME NEW c \in Conn, Accept(c) PROVE AcceptsDoNotOverlap'
  BY <1>2, <1>3, <1>6, <1>7 DEF Accept, NotifyOnline
<1>8. ASSUME NEW c \in Conn, Work(c) PROVE AcceptsDoNotOverlap'
  BY <1>4, <1>5, <1>6, <1>8 DEF Work, NotifyOffline
<1>9. ASSUME NEW c \in Conn, ListenForEvents(c) PROVE AcceptsDoNotOverlap'
  BY <1>6, <1>9 DEF ListenForEvents, TakeEvent, EndDrain, SendPeersOnline, SendPeersWentOffline, ListenerStops
<1>10. ASSUME NEW c \in Conn, Client(c) PROVE AcceptsDoNotOverlap'
  BY <1>1, <1>5, <1>6, <1>10 DEF Client, ConnBreaks, Unsubscribe
<1>11. CASE Shutdown
  BY <1>6, <1>11 DEF Shutdown, ShutdownBegins, ShutdownEnds, CloseGracefully
<1>12. CASE UNCHANGED vars
  BY <1>6, <1>12 DEF vars
<1> QED
  BY <1>7, <1>8, <1>9, <1>10, <1>11, <1>12 DEF Next

LEMMA OnOffAreEvents ==
    ASSUME NEW p \in PeerId
    PROVE  /\ On(p) \in Event /\ Off(p) \in Event
           /\ On(p).peer = p /\ On(p).online = TRUE /\ Off(p).peer = p /\ Off(p).online = FALSE
           /\ \A e \in Event : /\ e = On(p) <=> e.peer = p /\ e.online = TRUE
                               /\ e = Off(p) <=> e.peer = p /\ e.online = FALSE
  BY DEF On, Off, Event

LEMMA AppendedAt ==
    ASSUME NEW s \in Seq(Event), NEW e \in Event
    PROVE  /\ Append(s, e) \in Seq(Event)
           /\ DOMAIN Append(s, e) = DOMAIN s \cup {Len(s) + 1}
           /\ \A i \in DOMAIN s : Append(s, e)[i] = s[i] /\ i < Len(s) + 1
           /\ Append(s, e)[Len(s) + 1] = e
  OBVIOUS

LEMMA TailAt ==
    ASSUME NEW s \in Seq(Event), s # <<>>
    PROVE  /\ Tail(s) \in Seq(Event)
           /\ 1 \in DOMAIN s /\ s[1] = Head(s) /\ Head(s) \in Event
           /\ \A i \in DOMAIN Tail(s) : i + 1 \in DOMAIN s /\ Tail(s)[i] = s[i + 1]
           /\ \A i \in DOMAIN s : i # 1 => i - 1 \in DOMAIN Tail(s) /\ Tail(s)[i - 1] = s[i]
  OBVIOUS

LEMMA PeersOfEvents ==
    ASSUME NEW s \in Seq(Event), NEW isOnline \in BOOLEAN, NEW p
    PROVE  p \in PeersIn(s, isOnline) <=> \E i \in DOMAIN s : s[i].peer = p /\ s[i].online = isOnline
  BY DEF PeersIn

LEMMA PeersInHas ==
    ASSUME NEW s \in Seq(Event), NEW p \in PeerId
    PROVE  /\ p \in PeersIn(s, TRUE) <=> Has(s, On(p))
           /\ p \in PeersIn(s, FALSE) <=> Has(s, Off(p))
           /\ Mentions(s, p) => Has(s, On(p)) \/ Has(s, Off(p))
<1>1. \A i \in DOMAIN s : s[i] \in Event
  OBVIOUS
<1>2. \A i \in DOMAIN s : s[i].online \in BOOLEAN
  BY <1>1 DEF Event
<1>3. \A i \in DOMAIN s : /\ s[i] = On(p) <=> s[i].peer = p /\ s[i].online = TRUE
                          /\ s[i] = Off(p) <=> s[i].peer = p /\ s[i].online = FALSE
  BY <1>1, OnOffAreEvents
<1>4. p \in PeersIn(s, TRUE) <=> \E i \in DOMAIN s : s[i].peer = p /\ s[i].online = TRUE
  BY DEF PeersIn
<1>5. p \in PeersIn(s, FALSE) <=> \E i \in DOMAIN s : s[i].peer = p /\ s[i].online = FALSE
  BY DEF PeersIn
<1> QED
  BY <1>2, <1>3, <1>4, <1>5 DEF Has, Mentions

LEMMA InterestNext ==
    ASSUME "unsubscribe" \notin May, TypeOK, InterestFirst, [Next]_vars
    PROVE  InterestFirst'
<1> DEFINE Same == UNCHANGED <<intOn, intOff, eventChan, batch, view>>
<1> USE DEF InterestFirst, Reading, Goto, connVars, listenerVars, clientVars
<1>0. ASSUME Same PROVE InterestsAgree' /\ ChannelIsWanted' /\ BatchIsWanted' /\ ViewIsWanted'
  BY <1>0 DEF InterestsAgree, ChannelIsWanted, BatchIsWanted, ViewIsWanted
<1>1. ASSUME NEW c \in Conn, NEW ph \in Phase \ {"read", "subscribe", "reply"},
             pc' = [pc EXCEPT ![c] = ph], Same, UNCHANGED <<listeners, reply>>,
             ph \in {"handshake", "added", "notifyOn", "start"} => pc[c] \in {"idle", "handshake", "added", "notifyOn"},
             ph # "idle"
      PROVE InterestFirst'
  <2>1. ListensWhenReading'
    BY <1>1 DEF TypeOK, ListensWhenReading, Phase
  <2> QED
    BY <1>0, <1>1, <2>1
<1>2. CASE Same /\ UNCHANGED <<pc, listeners, reply>>
  BY <1>0, <1>2 DEF ListensWhenReading
<1>3. ASSUME NEW c \in Conn, NEW l \in Conn, NotifyOnline(c, l) \/ NotifyOffline(c, l) PROVE InterestFirst'
  <2>1. /\ UNCHANGED <<pc, listeners, intOff, batch, reply, view>>
        /\ intOn' = intOn \/ intOn' = [intOn EXCEPT ![l] = @ \ {IdOf[c]}]
    BY <1>3 DEF NotifyOnline, NotifyOffline
  <2>2. ListensWhenReading' /\ BatchIsWanted' /\ ViewIsWanted'
    BY <2>1 DEF ListensWhenReading, BatchIsWanted, ViewIsWanted
  <2>3. InterestsAgree'
    <3>1. \A x \in Conn : intOn'[x] \subseteq intOn[x]
      BY <2>1, ZenonT(40) DEF TypeOK
    <3> QED
      BY <2>1, <3>1 DEF InterestsAgree
  <2>4. ASSUME NEW e \in Event, eventChan' = [eventChan EXCEPT ![l] = Append(@, e)], e.peer \in intOff[l]
        PROVE ChannelIsWanted'
    <3>1. \A i \in DOMAIN eventChan'[l] : eventChan'[l][i].peer \in intOff[l]
      BY <2>4, AppendedAt DEF TypeOK, ChannelIsWanted
    <3>2. \A x \in Conn : x # l => eventChan'[x] = eventChan[x]
      BY <2>4 DEF TypeOK
    <3> QED
      BY <2>1, <3>1, <3>2 DEF ChannelIsWanted
  <2>5. \/ UNCHANGED eventChan
        \/ /\ IdOf[c] \in intOff[l]
           /\ \/ eventChan' = [eventChan EXCEPT ![l] = Append(@, On(IdOf[c]))]
              \/ eventChan' = [eventChan EXCEPT ![l] = Append(@, Off(IdOf[c]))]
    <3>1. CASE NotifyOnline(c, l)
      BY <3>1 DEF NotifyOnline, On, InterestsAgree
    <3>2. CASE NotifyOffline(c, l)
      BY <3>2 DEF NotifyOffline, Off
    <3> QED
      BY <1>3, <3>1, <3>2
  <2>6. IdOf[c] \in PeerId
    BY RelayConstants
  <2>7. On(IdOf[c]) \in Event /\ Off(IdOf[c]) \in Event /\ On(IdOf[c]).peer = IdOf[c] /\ Off(IdOf[c]).peer = IdOf[c]
    BY <2>6, OnOffAreEvents
  <2>8. ASSUME UNCHANGED eventChan PROVE ChannelIsWanted'
    BY <2>1, <2>8 DEF ChannelIsWanted
  <2>9. ChannelIsWanted'
    BY <2>4, <2>5, <2>7, <2>8
  <2> QED
    BY <2>2, <2>3, <2>9
<1>4. ASSUME NEW c \in Conn, TakeEvent(c) PROVE InterestFirst'
  <2>1. /\ eventChan[c] \in Seq(Event) /\ eventChan[c] # <<>> /\ batch[c] \in Seq(Event)
        /\ batch' = [batch EXCEPT ![c] = Append(@, Head(eventChan[c]))]
        /\ eventChan' = [eventChan EXCEPT ![c] = Tail(@)]
        /\ UNCHANGED <<pc, listeners, intOn, intOff, reply, view>>
    BY <1>4 DEF TakeEvent, TypeOK
  <2>2. \A i \in DOMAIN Tail(eventChan[c]) : Tail(eventChan[c])[i].peer \in intOff[c]
    BY <2>1, TailAt DEF ChannelIsWanted
  <2>3. Head(eventChan[c]) \in Event /\ Head(eventChan[c]).peer \in intOff[c]
    BY <2>1, TailAt DEF ChannelIsWanted
  <2>4. \A i \in DOMAIN Append(batch[c], Head(eventChan[c])) : Append(batch[c], Head(eventChan[c]))[i].peer \in intOff[c]
    BY <2>1, <2>3, AppendedAt DEF BatchIsWanted
  <2>5. ChannelIsWanted'
    BY <2>1, <2>2 DEF TypeOK, ChannelIsWanted
  <2>6. BatchIsWanted'
    BY <2>1, <2>4 DEF TypeOK, BatchIsWanted
  <2> QED
    BY <2>1, <2>5, <2>6 DEF ListensWhenReading, InterestsAgree, ViewIsWanted
<1>5. ASSUME NEW c \in Conn, NEW ps \in SUBSET intOff[c], NEW state, Tell(c, ps, state), UNCHANGED intOff
      PROVE ViewIsWanted'
  BY <1>5 DEF Tell, TypeOK, ViewIsWanted
<1>6. ASSUME NEW c \in Conn, NEW isOnline \in BOOLEAN PROVE PeersIn(batch[c], isOnline) \subseteq intOff[c]
  <2>1. batch[c] \in Seq(Event)
    BY DEF TypeOK
  <2> QED
    BY <2>1, PeersOfEvents DEF BatchIsWanted
<1>7. ASSUME NEW c \in Conn, SendPeersOnline(c) PROVE InterestFirst'
  <2>1. ViewIsWanted'
    BY <1>5, <1>6, <1>7 DEF SendPeersOnline
  <2> QED
    BY <1>7, <2>1 DEF SendPeersOnline, ListensWhenReading, InterestsAgree, ChannelIsWanted, BatchIsWanted
<1>8. ASSUME NEW c \in Conn, SendPeersWentOffline(c) PROVE InterestFirst'
  <2>1. ViewIsWanted'
    BY <1>5, <1>6, <1>8 DEF SendPeersWentOffline
  <2>2. BatchIsWanted'
    BY <1>8 DEF SendPeersWentOffline, TypeOK, BatchIsWanted
  <2> QED
    BY <1>8, <2>1, <2>2 DEF SendPeersWentOffline, ListensWhenReading, InterestsAgree, ChannelIsWanted
<1>9. ASSUME NEW c \in Conn, Reply(c) PROVE InterestFirst'
  <2>1. ViewIsWanted'
    BY <1>5, <1>9 DEF Reply, ListensWhenReading
  <2>2. ListensWhenReading'
    BY <1>9 DEF Reply, ListensWhenReading, TypeOK
  <2> QED
    BY <1>9, <2>1, <2>2 DEF Reply, InterestsAgree, ChannelIsWanted, BatchIsWanted
<1>10. ASSUME NEW c \in Conn, NewListener(c) PROVE InterestFirst'
  <2>1. ListensWhenReading'
    BY <1>10 DEF NewListener, ListensWhenReading, TypeOK
  <2> QED
    BY <1>0, <1>10, <2>1 DEF NewListener
<1>11. ASSUME NEW c \in Conn, RemoveListener(c) PROVE InterestFirst'
  <2>1. ListensWhenReading'
    BY <1>11 DEF RemoveListener, ListensWhenReading, TypeOK
  <2> QED
    BY <1>0, <1>11, <2>1 DEF RemoveListener
<1>12. ASSUME NEW c \in Conn, Subscribe(c) PROVE InterestFirst'
  <2>1. /\ pc' = [pc EXCEPT ![c] = "subscribe"] /\ pc[c] = "read"
        /\ \A x \in Conn : x # c => reply'[x] = reply[x]
        /\ UNCHANGED listeners /\ Same
    BY <1>12 DEF Subscribe, TypeOK
  <2>2. ListensWhenReading'
    BY <2>1 DEF ListensWhenReading, TypeOK
  <2> QED
    BY <1>0, <2>1, <2>2
<1>13. ASSUME NEW c \in Conn, GetOnlinePeersAndRegisterInterest(c) PROVE InterestFirst'
  <2>1. \A x \in Conn : intOff[x] \subseteq intOff'[x]
    BY <1>13 DEF GetOnlinePeersAndRegisterInterest, TypeOK
  <2>2. ListensWhenReading'
    BY <1>13 DEF GetOnlinePeersAndRegisterInterest, ListensWhenReading, TypeOK
  <2>3. InterestsAgree'
    BY <1>13 DEF GetOnlinePeersAndRegisterInterest, InterestsAgree, TypeOK
  <2>4. ChannelIsWanted' /\ BatchIsWanted' /\ ViewIsWanted'
    BY <1>13, <2>1 DEF GetOnlinePeersAndRegisterInterest, ChannelIsWanted, BatchIsWanted, ViewIsWanted
  <2> QED
    BY <2>2, <2>3, <2>4
<1>14. ASSUME NEW c \in Conn, AcceptBegins(c) \/ HandshakeFails(c) \/ AddPeer(c) \/ PeerCameOnline(c)
                              \/ CameOnlineReturns(c) \/ ReadFails(c) \/ DeletePeer(c) \/ PeerWentOffline(c)
                              \/ WentOfflineReturns(c)
      PROVE InterestFirst'
  <2> HIDE DEF InterestFirst
  <2>1. CASE AcceptBegins(c)
    BY <1>1, <2>1 DEF AcceptBegins, Phase
  <2>2. CASE HandshakeFails(c)
    BY <1>1, <2>2 DEF HandshakeFails, Phase
  <2>3. CASE AddPeer(c)
    BY <1>1, <2>3 DEF AddPeer, Phase
  <2>4. CASE PeerCameOnline(c)
    BY <1>1, <2>4 DEF PeerCameOnline, Phase
  <2>5. CASE CameOnlineReturns(c)
    BY <1>1, <2>5 DEF CameOnlineReturns, Phase
  <2>6. CASE ReadFails(c)
    BY <1>1, <2>6 DEF ReadFails, Phase
  <2>7. CASE DeletePeer(c)
    BY <1>1, <2>7 DEF DeletePeer, Phase
  <2>8. CASE PeerWentOffline(c)
    BY <1>1, <2>8 DEF PeerWentOffline, Phase
  <2>9. CASE WentOfflineReturns(c)
    BY <1>1, <2>9 DEF WentOfflineReturns, Phase
  <2> QED
    BY <1>14, <2>1, <2>2, <2>3, <2>4, <2>5, <2>6, <2>7, <2>8, <2>9
<1> HIDE DEF InterestFirst
<1>15. ASSUME NEW c \in Conn, Accept(c) PROVE InterestFirst'
  BY <1>2, <1>3, <1>14, <1>15 DEF Accept, HandshakeResponse
<1>16. ASSUME NEW c \in Conn, Work(c) PROVE InterestFirst'
  BY <1>3, <1>9, <1>10, <1>11, <1>13, <1>14, <1>16 DEF Work
<1>17. ASSUME NEW c \in Conn, ListenForEvents(c) PROVE InterestFirst'
  BY <1>2, <1>4, <1>7, <1>8, <1>17 DEF ListenForEvents, EndDrain, ListenerStops
<1>18. ASSUME NEW c \in Conn, Client(c) PROVE InterestFirst'
  BY <1>2, <1>12, <1>14, <1>18 DEF Client, ConnBreaks, Unsubscribe
<1>19. CASE Shutdown
  BY <1>2, <1>19 DEF Shutdown, ShutdownBegins, ShutdownEnds, CloseGracefully
<1>20. CASE UNCHANGED vars
  BY <1>2, <1>20 DEF vars
<1> QED
  BY <1>15, <1>16, <1>17, <1>18, <1>19, <1>20 DEF Next

LEMMA TellEffect ==
    ASSUME TypeOK, NEW c \in Conn, NEW ps, NEW state, Tell(c, ps, state)
    PROVE  /\ \A x \in Conn : x # c => view'[x] = view[x]
           /\ \A p \in PeerId : p \notin ps => view'[c][p] = view[c][p]
           /\ c \notin broken => \A p \in PeerId : p \in ps => view'[c][p] = state
           /\ c \in broken => view' = view
  BY DEF TypeOK, Tell

LEMMA OnlineSentNext ==
    ASSUME "unsubscribe" \notin May, TypeOK, OnlineSent, [Next]_vars
    PROVE  OnlineSent'
<1> DEFINE Kept == /\ broken \subseteq broken'
                   /\ UNCHANGED batch
                   /\ \A x \in Conn : lpc'[x] = "offline" => lpc[x] = "offline"
                   /\ \A x \in Conn, p \in PeerId : view[x][p] # "unknown" => view'[x][p] # "unknown"
<1> USE DEF connVars, listenerVars, clientVars
<1>1. ASSUME NEW c \in Conn
      PROVE  batch[c] \in Seq(Event) /\ \A i \in DOMAIN batch[c] : batch[c][i].peer \in PeerId /\ batch[c][i].online \in BOOLEAN
  <2>1. batch[c] \in Seq(Event)
    BY DEF TypeOK
  <2>2. \A i \in DOMAIN batch[c] : batch[c][i] \in Event
    BY <2>1
  <2> QED
    BY <2>1, <2>2 DEF Event
<1>2. CASE Kept
  BY <1>1, <1>2 DEF OnlineSent
<1>3. CASE broken \subseteq broken' /\ UNCHANGED <<lpc, batch, view>>
  BY <1>3, <1>2
<1>4. ASSUME NEW c \in Conn, TakeEvent(c) PROVE OnlineSent'
  <2>1. /\ \A x \in Conn : x # c => batch'[x] = batch[x] /\ lpc'[x] = lpc[x]
        /\ lpc'[c] = "drain" /\ UNCHANGED <<broken, view>>
    BY <1>4 DEF TakeEvent, TypeOK
  <2> QED
    BY <2>1 DEF OnlineSent
<1>5. ASSUME NEW c \in Conn, SendPeersOnline(c) PROVE OnlineSent'
  <2>1. /\ Tell(c, PeersIn(batch[c], TRUE), "online") /\ UNCHANGED <<broken, batch>>
        /\ \A x \in Conn : x # c => lpc'[x] = lpc[x]
    BY <1>5 DEF SendPeersOnline, TypeOK
  <2>2. ASSUME c \notin broken, NEW i \in DOMAIN batch[c], batch[c][i].online
        PROVE  view'[c][batch[c][i].peer] # "unknown"
    <3>1. batch[c][i].online = TRUE /\ batch[c][i].peer \in PeerId
      BY <1>1, <2>2 DEF Event
    <3>2. batch[c][i].peer \in PeersIn(batch[c], TRUE)
      BY <1>1, <3>1, PeersOfEvents
    <3>3. \A p \in PeerId : p \in PeersIn(batch[c], TRUE) => view'[c][p] = "online"
      <4> DEFINE ps == PeersIn(batch[c], TRUE)
      <4>1. Tell(c, ps, "online")
        BY <2>1
      <4> HIDE DEF ps
      <4>2. \A p \in PeerId : p \in ps => view'[c][p] = "online"
        BY <2>2, <4>1, TellEffect
      <4> QED
        BY <4>2 DEF ps
    <3> QED
      BY <3>1, <3>2, <3>3
  <2>3. \A x \in Conn : x # c => view'[x] = view[x]
    BY <2>1, TellEffect
  <2> QED
    BY <2>1, <2>2, <2>3 DEF OnlineSent
<1>6. ASSUME NEW c \in Conn, SendPeersWentOffline(c) PROVE OnlineSent'
  <2>1. /\ \A x \in Conn : x # c => batch'[x] = batch[x] /\ lpc'[x] = lpc[x]
        /\ lpc'[c] = "wait" /\ UNCHANGED broken /\ Tell(c, PeersIn(batch[c], FALSE), "offline")
    BY <1>6 DEF SendPeersWentOffline, TypeOK
  <2>2. \A x \in Conn : x # c => view'[x] = view[x]
    BY <2>1, TellEffect
  <2> QED
    BY <2>1, <2>2 DEF OnlineSent
<1>7. ASSUME NEW c \in Conn, Reply(c) PROVE OnlineSent'
  <2>1. Tell(c, reply[c], "online") /\ UNCHANGED <<broken, batch, lpc>>
    BY <1>7 DEF Reply
  <2>2. \A x \in Conn, p \in PeerId : view[x][p] # "unknown" => view'[x][p] # "unknown"
    BY <2>1, TellEffect
  <2> QED
    BY <1>2, <2>1, <2>2
<1>8. ASSUME NEW c \in Conn, NewListener(c) \/ EndDrain(c) \/ ListenerStops(c) PROVE OnlineSent'
  <2>1. Kept
    BY <1>8 DEF NewListener, EndDrain, ListenerStops, TypeOK
  <2> QED
    BY <1>2, <2>1
<1>9. ASSUME NEW c \in Conn, Accept(c) PROVE OnlineSent'
  BY <1>3, <1>9 DEF Accept, HandshakeFails, AddPeer, PeerCameOnline, CameOnlineReturns, HandshakeResponse, NotifyOnline
<1>10. ASSUME NEW c \in Conn, Work(c) PROVE OnlineSent'
  BY <1>3, <1>7, <1>8, <1>10 DEF Work, GetOnlinePeersAndRegisterInterest, ReadFails, RemoveListener, DeletePeer,
     PeerWentOffline, WentOfflineReturns, NotifyOffline
<1>11. ASSUME NEW c \in Conn, ListenForEvents(c) PROVE OnlineSent'
  BY <1>4, <1>5, <1>6, <1>8, <1>11 DEF ListenForEvents
<1>12. ASSUME NEW c \in Conn, Client(c) PROVE OnlineSent'
  BY <1>3, <1>12 DEF Client, AcceptBegins, ConnBreaks, Subscribe, Unsubscribe
<1>13. CASE Shutdown
  BY <1>3, <1>13 DEF Shutdown, ShutdownBegins, ShutdownEnds, CloseGracefully
<1>14. CASE UNCHANGED vars
  BY <1>3, <1>14 DEF vars
<1> QED
  BY <1>9, <1>10, <1>11, <1>12, <1>13, <1>14 DEF Next

\* Only the notification itself discharges a connection of what it owes a reader.
LEMMA OwesUntilNotified ==
    ASSUME TypeOK, ListensWhenReading, [Next]_vars, NEW d \in Conn, NEW x \in Conn, Reading(x), Owes(d, x)
    PROVE  Owes(d, x)' \/ NotifyOffline(d, x)
<1> USE DEF TypeOK, Owes, Goto, connVars, notifyVars
<1>1. ASSUME NEW c \in Conn, NEW ph, pc' = [pc EXCEPT ![c] = ph], pc[c] \notin {"deleted", "notifyOff"},
             \A y \in Conn : y # c => todo'[y] = todo[y]
      PROVE Owes(d, x)'
  BY <1>1
<1>2. CASE UNCHANGED <<pc, todo>>
  BY <1>2
<1>3. ASSUME NEW c \in Conn, Accept(c) PROVE Owes(d, x)'
  <2>1. CASE HandshakeFails(c)
    BY <1>1, <2>1 DEF HandshakeFails
  <2>2. CASE AddPeer(c)
    BY <1>1, <2>2 DEF AddPeer
  <2>3. CASE PeerCameOnline(c)
    BY <1>1, <2>3 DEF PeerCameOnline
  <2>4. CASE CameOnlineReturns(c)
    BY <1>1, <2>4 DEF CameOnlineReturns
  <2>5. CASE HandshakeResponse(c)
    BY <1>2, <2>5 DEF HandshakeResponse
  <2>6. ASSUME NEW l \in Conn, NotifyOnline(c, l) PROVE Owes(d, x)'
    <3>1. pc[c] = "notifyOn" /\ UNCHANGED pc /\ \A y \in Conn : y # c => todo'[y] = todo[y]
      BY <2>6 DEF NotifyOnline
    <3> QED
      BY <3>1
  <2> QED
    BY <1>3, <2>1, <2>2, <2>3, <2>4, <2>5, <2>6 DEF Accept
<1>4. ASSUME NEW c \in Conn, Work(c) PROVE Owes(d, x)' \/ NotifyOffline(d, x)
  <2>1. CASE NewListener(c)
    BY <1>1, <2>1 DEF NewListener
  <2>2. CASE GetOnlinePeersAndRegisterInterest(c)
    BY <1>1, <2>2 DEF GetOnlinePeersAndRegisterInterest
  <2>3. CASE Reply(c)
    BY <1>1, <2>3 DEF Reply
  <2>4. CASE ReadFails(c)
    BY <1>1, <2>4 DEF ReadFails
  <2>5. CASE RemoveListener(c)
    BY <1>1, <2>5 DEF RemoveListener
  <2>6. CASE DeletePeer(c)
    BY <1>1, <2>6 DEF DeletePeer
  <2>7. CASE PeerWentOffline(c)
    <3>1. x \in listeners
      BY DEF ListensWhenReading
    <3> QED
      BY <2>7, <3>1 DEF PeerWentOffline
  <2>8. CASE WentOfflineReturns(c)
    BY <2>8 DEF WentOfflineReturns
  <2>9. ASSUME NEW l \in Conn, NotifyOffline(c, l) PROVE Owes(d, x)' \/ NotifyOffline(d, x)
    <3>1. UNCHANGED pc /\ (UNCHANGED todo \/ todo' = [todo EXCEPT ![c] = @ \ {l}])
      BY <2>9 DEF NotifyOffline
    <3> QED
      BY <2>9, <3>1, ZenonT(40)
  <2> QED
    BY <1>4, <2>1, <2>2, <2>3, <2>4, <2>5, <2>6, <2>7, <2>8, <2>9 DEF Work
<1>5. ASSUME NEW c \in Conn, ListenForEvents(c) PROVE Owes(d, x)'
  BY <1>2, <1>5 DEF ListenForEvents, TakeEvent, EndDrain, SendPeersOnline, SendPeersWentOffline, ListenerStops
<1>6. ASSUME NEW c \in Conn, Client(c) PROVE Owes(d, x)'
  <2>1. CASE AcceptBegins(c)
    BY <1>1, <2>1 DEF AcceptBegins
  <2>2. CASE Subscribe(c)
    BY <1>1, <2>2 DEF Subscribe
  <2>3. CASE ConnBreaks(c) \/ Unsubscribe(c)
    BY <1>2, <2>3 DEF ConnBreaks, Unsubscribe
  <2> QED
    BY <1>6, <2>1, <2>2, <2>3 DEF Client
<1>7. CASE Shutdown
  BY <1>2, <1>7 DEF Shutdown, ShutdownBegins, ShutdownEnds, CloseGracefully
<1>8. CASE UNCHANGED vars
  BY <1>2, <1>8 DEF vars
<1> QED
  BY <1>3, <1>4, <1>5, <1>6, <1>7, <1>8 DEF Next

\* What one step may do to a reader x and a peer p.
LEMMA ReadersBegin ==
    ASSUME TypeOK, [Next]_vars, NEW x \in Conn
    PROVE  /\ broken \subseteq broken'
           /\ Reading(x)' => Reading(x) \/ NewListener(x)
<1> USE DEF TypeOK, Reading, Goto, connVars
<1>1. ASSUME NEW c \in Conn, NEW ph, ph \notin {"read", "subscribe", "reply"}, pc' = [pc EXCEPT ![c] = ph]
      PROVE Reading(x)' => Reading(x)
  BY <1>1
<1>2. ASSUME UNCHANGED pc PROVE Reading(x)' => Reading(x)
  BY <1>2
<1>3. ASSUME NEW c \in Conn, Accept(c) PROVE broken \subseteq broken' /\ (Reading(x)' => Reading(x))
  <2>1. broken \subseteq broken'
    BY <1>3 DEF Accept, HandshakeFails, AddPeer, PeerCameOnline, CameOnlineReturns, HandshakeResponse, NotifyOnline
  <2>2. UNCHANGED pc \/ \E ph \in {"ended", "added", "notifyOn", "start"} : pc' = [pc EXCEPT ![c] = ph]
    BY <1>3 DEF Accept, HandshakeFails, AddPeer, PeerCameOnline, CameOnlineReturns, HandshakeResponse, NotifyOnline
  <2> QED
    BY <1>1, <1>2, <2>1, <2>2
<1>4. ASSUME NEW c \in Conn, Work(c) PROVE UNCHANGED broken /\ (Reading(x)' => Reading(x) \/ NewListener(x))
  <2>1. UNCHANGED broken
    BY <1>4 DEF Work, NewListener, GetOnlinePeersAndRegisterInterest, Reply, ReadFails, RemoveListener, DeletePeer,
       PeerWentOffline, WentOfflineReturns, NotifyOffline
  <2>2. CASE NewListener(c)
    BY <2>1, <2>2 DEF NewListener
  <2>3. CASE GetOnlinePeersAndRegisterInterest(c)
    BY <2>1, <2>3 DEF GetOnlinePeersAndRegisterInterest
  <2>4. CASE Reply(c)
    BY <2>1, <2>4 DEF Reply
  <2>5. CASE ReadFails(c)
    BY <1>1, <2>1, <2>5 DEF ReadFails
  <2>6. CASE RemoveListener(c)
    BY <1>1, <2>1, <2>6 DEF RemoveListener
  <2>7. CASE DeletePeer(c)
    BY <1>1, <2>1, <2>7 DEF DeletePeer
  <2>8. CASE PeerWentOffline(c)
    BY <1>1, <2>1, <2>8 DEF PeerWentOffline
  <2>9. CASE WentOfflineReturns(c)
    BY <1>1, <2>1, <2>9 DEF WentOfflineReturns
  <2>10. CASE \E l \in Conn : NotifyOffline(c, l)
    BY <1>2, <2>1, <2>10 DEF NotifyOffline
  <2> QED
    BY <1>4, <2>2, <2>3, <2>4, <2>5, <2>6, <2>7, <2>8, <2>9, <2>10 DEF Work
<1>5. ASSUME NEW c \in Conn, ListenForEvents(c) PROVE UNCHANGED <<pc, broken>>
  BY <1>5 DEF ListenForEvents, TakeEvent, EndDrain, SendPeersOnline, SendPeersWentOffline, ListenerStops
<1>6. ASSUME NEW c \in Conn, Client(c) PROVE broken \subseteq broken' /\ (Reading(x)' => Reading(x))
  BY <1>6 DEF Client, AcceptBegins, ConnBreaks, Subscribe, Unsubscribe
<1>7. CASE Shutdown
  BY <1>7 DEF Shutdown, ShutdownBegins, ShutdownEnds, CloseGracefully
<1>8. CASE UNCHANGED vars
  BY <1>8 DEF vars
<1> QED
  BY <1>2, <1>3, <1>4, <1>5, <1>6, <1>7, <1>8 DEF Next

LEMMA ReaderSees ==
    ASSUME "unsubscribe" \notin May, TypeOK, [Next]_vars, NEW x \in Conn
    PROVE  \/ eventChan'[x] = eventChan[x] /\ batch'[x] = batch[x] /\ view'[x] = view[x]
           \/ TakeEvent(x) \/ SendPeersOnline(x) \/ SendPeersWentOffline(x) \/ Reply(x)
           \/ \E c \in Conn : NotifyOnline(c, x) \/ NotifyOffline(c, x)
<1> USE DEF listenerVars, clientVars
<1>1. ASSUME NEW c \in Conn, NEW l \in Conn, l # x, NotifyOnline(c, l) \/ NotifyOffline(c, l)
      PROVE eventChan'[x] = eventChan[x] /\ UNCHANGED <<batch, view>>
  BY <1>1 DEF NotifyOnline, NotifyOffline, TypeOK
<1>2. ASSUME NEW c \in Conn, c # x, TakeEvent(c)
      PROVE eventChan'[x] = eventChan[x] /\ batch'[x] = batch[x] /\ UNCHANGED view
  BY <1>2 DEF TakeEvent, TypeOK
<1>3. ASSUME NEW c \in Conn, c # x, SendPeersOnline(c) \/ SendPeersWentOffline(c) \/ Reply(c)
      PROVE UNCHANGED eventChan /\ batch'[x] = batch[x] /\ view'[x] = view[x]
  BY <1>3, ZenonT(40) DEF SendPeersOnline, SendPeersWentOffline, Reply, Tell, TypeOK
<1>4. ASSUME NEW c \in Conn, Accept(c)
      PROVE UNCHANGED <<eventChan, batch, view>> \/ \E l \in Conn : NotifyOnline(c, l)
  BY <1>4 DEF Accept, HandshakeFails, AddPeer, PeerCameOnline, CameOnlineReturns, HandshakeResponse
<1>5. ASSUME NEW c \in Conn, Work(c)
      PROVE UNCHANGED <<eventChan, batch, view>> \/ Reply(c) \/ \E l \in Conn : NotifyOffline(c, l)
  BY <1>5 DEF Work, NewListener, GetOnlinePeersAndRegisterInterest, ReadFails, RemoveListener, DeletePeer,
     PeerWentOffline, WentOfflineReturns
<1>6. ASSUME NEW c \in Conn, ListenForEvents(c)
      PROVE UNCHANGED <<eventChan, batch, view>> \/ TakeEvent(c) \/ SendPeersOnline(c) \/ SendPeersWentOffline(c)
  BY <1>6 DEF ListenForEvents, EndDrain, ListenerStops
<1>7. ASSUME NEW c \in Conn, Client(c) PROVE UNCHANGED <<eventChan, batch, view>>
  BY <1>7 DEF Client, AcceptBegins, ConnBreaks, Subscribe, Unsubscribe
<1>8. CASE Shutdown
  BY <1>8 DEF Shutdown, ShutdownBegins, ShutdownEnds, CloseGracefully
<1>9. CASE UNCHANGED vars
  BY <1>9 DEF vars
<1> QED
  BY <1>1, <1>2, <1>3, <1>4, <1>5, <1>6, <1>7, <1>8, <1>9 DEF Next

\* A peer leaves the store in DeletePeer, and a reply names peers of the store.
LEMMA EntryLeaves ==
    ASSUME TypeOK, [Next]_vars, NEW p \in PeerId, peers'[p] = None, peers[p] # None
    PROVE  \E d \in Conn : IdOf[d] = p /\ pc'[d] = "deleted"
<1> USE RelayConstants DEF connVars
<1>1. ASSUME NEW c \in Conn, AddPeer(c) PROVE FALSE
  BY <1>1 DEF AddPeer, TypeOK
<1>2. ASSUME NEW c \in Conn, DeletePeer(c) PROVE \E d \in Conn : IdOf[d] = p /\ pc'[d] = "deleted"
  BY <1>2 DEF DeletePeer, TypeOK, Goto
<1>3. ASSUME NEW c \in Conn, Accept(c) PROVE UNCHANGED peers \/ AddPeer(c)
  BY <1>3 DEF Accept, HandshakeFails, PeerCameOnline, CameOnlineReturns, HandshakeResponse, NotifyOnline
<1>4. ASSUME NEW c \in Conn, Work(c) PROVE UNCHANGED peers \/ DeletePeer(c)
  BY <1>4 DEF Work, NewListener, GetOnlinePeersAndRegisterInterest, Reply, ReadFails, RemoveListener,
     PeerWentOffline, WentOfflineReturns, NotifyOffline
<1>5. ASSUME NEW c \in Conn, ListenForEvents(c) PROVE UNCHANGED peers
  BY <1>5 DEF ListenForEvents, TakeEvent, EndDrain, SendPeersOnline, SendPeersWentOffline, ListenerStops
<1>6. ASSUME NEW c \in Conn, Client(c) PROVE UNCHANGED peers
  BY <1>6 DEF Client, AcceptBegins, ConnBreaks, Subscribe, Unsubscribe
<1>7. CASE Shutdown
  BY <1>7 DEF Shutdown, ShutdownBegins, ShutdownEnds, CloseGracefully
<1>8. CASE UNCHANGED vars
  BY <1>8 DEF vars
<1> QED
  BY <1>1, <1>2, <1>3, <1>4, <1>5, <1>6, <1>7, <1>8 DEF Next

LEMMA ReplyGrows ==
    ASSUME TypeOK, [Next]_vars, NEW x \in Conn, NEW p \in PeerId, pc'[x] = "reply", p \in reply'[x]
    PROVE  (pc[x] = "reply" /\ p \in reply[x]) \/ peers'[p] # None
<1> USE DEF connVars, clientVars, Goto, TypeOK
<1>1. ASSUME NEW c \in Conn, NEW ph, ph # "reply", pc' = [pc EXCEPT ![c] = ph], \A y \in Conn : y # c => reply'[y] = reply[y]
      PROVE pc[x] = "reply" /\ p \in reply[x]
  BY <1>1
<1>2. CASE UNCHANGED <<pc, reply>>
  BY <1>2
<1>3. ASSUME NEW c \in Conn, Accept(c) PROVE pc[x] = "reply" /\ p \in reply[x]
  <2>1. UNCHANGED reply /\ (UNCHANGED pc \/ \E ph \in {"ended", "added", "notifyOn", "start"} : pc' = [pc EXCEPT ![c] = ph])
    BY <1>3 DEF Accept, HandshakeFails, AddPeer, PeerCameOnline, CameOnlineReturns, HandshakeResponse, NotifyOnline
  <2> QED
    BY <1>1, <1>2, <2>1
<1>4. ASSUME NEW c \in Conn, Work(c) PROVE (pc[x] = "reply" /\ p \in reply[x]) \/ peers'[p] # None
  <2>1. CASE GetOnlinePeersAndRegisterInterest(c)
    BY <2>1 DEF GetOnlinePeersAndRegisterInterest
  <2>2. CASE Reply(c)
    BY <1>1, <2>2 DEF Reply
  <2>3. CASE NewListener(c)
    BY <1>1, <2>3 DEF NewListener
  <2>4. CASE ReadFails(c)
    BY <1>1, <2>4 DEF ReadFails
  <2>5. CASE RemoveListener(c)
    BY <1>1, <2>5 DEF RemoveListener
  <2>6. CASE DeletePeer(c)
    BY <1>1, <2>6 DEF DeletePeer
  <2>7. CASE PeerWentOffline(c)
    BY <1>1, <2>7 DEF PeerWentOffline
  <2>8. CASE WentOfflineReturns(c)
    BY <1>1, <2>8 DEF WentOfflineReturns
  <2>9. CASE \E l \in Conn : NotifyOffline(c, l)
    BY <1>2, <2>9 DEF NotifyOffline
  <2> QED
    BY <1>4, <2>1, <2>2, <2>3, <2>4, <2>5, <2>6, <2>7, <2>8, <2>9 DEF Work
<1>5. ASSUME NEW c \in Conn, ListenForEvents(c) PROVE UNCHANGED <<pc, reply>>
  BY <1>5 DEF ListenForEvents, TakeEvent, EndDrain, SendPeersOnline, SendPeersWentOffline, ListenerStops
<1>6. ASSUME NEW c \in Conn, Client(c) PROVE pc[x] = "reply" /\ p \in reply[x]
  <2>1. CASE AcceptBegins(c)
    BY <1>1, <2>1 DEF AcceptBegins
  <2>2. CASE Subscribe(c)
    BY <1>1, <2>2 DEF Subscribe
  <2>3. CASE ConnBreaks(c) \/ Unsubscribe(c)
    BY <1>2, <2>3 DEF ConnBreaks, Unsubscribe
  <2> QED
    BY <1>6, <2>1, <2>2, <2>3 DEF Client
<1>7. CASE Shutdown
  BY <1>2, <1>7 DEF Shutdown, ShutdownBegins, ShutdownEnds, CloseGracefully
<1>8. CASE UNCHANGED vars
  BY <1>2, <1>8 DEF vars
<1> QED
  BY <1>2, <1>3, <1>4, <1>5, <1>6, <1>7, <1>8 DEF Next

\* Sequences of events: what becomes of an event when the channel or the batch grows, or
\* the first event moves from one to the other.
LEMMA EventMoves ==
    ASSUME TypeOK, NEW x \in Conn, TakeEvent(x)
    PROVE  LET n == Len(batch[x]) + 1 IN
           /\ 1 \in DOMAIN eventChan[x]
           /\ DOMAIN batch'[x] = DOMAIN batch[x] \cup {n}
           /\ batch'[x][n] = eventChan[x][1]
           /\ \A i \in DOMAIN batch[x] : batch'[x][i] = batch[x][i]
           /\ \A i \in DOMAIN eventChan'[x] : i + 1 \in DOMAIN eventChan[x] /\ eventChan'[x][i] = eventChan[x][i + 1]
           /\ \A i \in DOMAIN eventChan[x] : i # 1 => i - 1 \in DOMAIN eventChan'[x] /\ eventChan'[x][i - 1] = eventChan[x][i]
<1> DEFINE s == eventChan[x]
           b == batch[x]
<1>1. /\ eventChan[x] \in Seq(Event) /\ eventChan[x] # <<>> /\ batch[x] \in Seq(Event)
      /\ batch'[x] = Append(b, Head(s)) /\ eventChan'[x] = Tail(s)
  BY DEF TakeEvent, TypeOK
<1>2. /\ 1 \in DOMAIN s /\ s[1] = Head(s) /\ Head(s) \in Event
      /\ \A i \in DOMAIN Tail(s) : i + 1 \in DOMAIN s /\ Tail(s)[i] = s[i + 1]
      /\ \A i \in DOMAIN s : i # 1 => i - 1 \in DOMAIN Tail(s) /\ Tail(s)[i - 1] = s[i]
  BY <1>1, TailAt
<1>3. /\ DOMAIN Append(b, Head(s)) = DOMAIN b \cup {Len(b) + 1}
      /\ \A i \in DOMAIN b : Append(b, Head(s))[i] = b[i]
      /\ Append(b, Head(s))[Len(b) + 1] = Head(s)
  BY <1>1, <1>2, AppendedAt
<1> QED
  BY <1>1, <1>2, <1>3

LEMMA EventArrives ==
    ASSUME TypeOK, NEW x \in Conn, NEW e \in Event, eventChan' = [eventChan EXCEPT ![x] = Append(@, e)]
    PROVE  /\ DOMAIN eventChan'[x] = DOMAIN eventChan[x] \cup {Len(eventChan[x]) + 1}
           /\ \A i \in DOMAIN eventChan[x] : eventChan'[x][i] = eventChan[x][i] /\ i < Len(eventChan[x]) + 1
           /\ eventChan'[x][Len(eventChan[x]) + 1] = e
<1>1. eventChan[x] \in Seq(Event) /\ eventChan'[x] = Append(eventChan[x], e)
  BY DEF TypeOK
<1> QED
  BY <1>1, AppendedAt

LEMMA OnlineFollowedNext ==
    ASSUME "unsubscribe" \notin May, TypeOK, StoreInv, AcceptsDoNotOverlap, InterestFirst, InterestFirst',
           OnlineIsFollowed, [Next]_vars
    PROVE  OnlineIsFollowed'
<1> SUFFICES ASSUME NEW x \in Conn, NEW p \in PeerId, Reading(x)', x \notin broken', peers'[p] = None
             PROVE  /\ SaidOnline(x, p)' => OfflinePending(x, p)'
                    /\ \A i \in DOMAIN eventChan'[x] : eventChan'[x][i] = On(p) => FollowedAt(x, p, i)'
  BY DEF OnlineIsFollowed
<1> DEFINE Goal == /\ SaidOnline(x, p)' => OfflinePending(x, p)'
                   /\ \A i \in DOMAIN eventChan'[x] : eventChan'[x][i] = On(p) => FollowedAt(x, p, i)'
<1> SUFFICES Goal
  OBVIOUS
<1>1. /\ On(p) \in Event /\ Off(p) \in Event /\ On(p).peer = p /\ Off(p).peer = p
      /\ On(p).online = TRUE /\ Off(p).online = FALSE
      /\ \A e \in Event : e = Off(p) <=> e.peer = p /\ e.online = FALSE
      /\ \A e \in Event : e = On(p) <=> e.peer = p /\ e.online = TRUE
  BY OnOffAreEvents
<1>2. /\ OfflinePending(x, p) <=> Leaving(x, p) \/ Has(eventChan[x], Off(p)) \/ Has(batch[x], Off(p))
      /\ OfflinePending(x, p)' <=> Leaving(x, p)' \/ Has(eventChan'[x], Off(p)) \/ Has(batch'[x], Off(p))
  BY DEF OfflinePending, Leaving, Owes, Has, Off
<1>3. CASE Leaving(x, p)'
  BY <1>2, <1>3 DEF FollowedAt
<1>4. CASE p \notin intOff'[x]
  <2>1. ~ SaidOnline(x, p)'
    BY <1>1, <1>4 DEF InterestFirst, SaidOnline, Has, ViewIsWanted, BatchIsWanted, ListensWhenReading
  <2>2. \A i \in DOMAIN eventChan'[x] : eventChan'[x][i] # On(p)
    BY <1>1, <1>4 DEF InterestFirst, ChannelIsWanted
  <2> QED
    BY <2>1, <2>2
<1>5. CASE p \in intOff'[x] /\ ~ Leaving(x, p)'
  <2>1. Reading(x) /\ x \notin broken
    <3>1. NewListener(x) => p \notin intOff'[x]
      BY DEF NewListener, InterestFirst, ListensWhenReading
    <3> QED
      BY <1>5, <3>1, ReadersBegin
  <2>2. peers[p] = None
    <3>1. ASSUME NEW d \in Conn, IdOf[d] = p, pc'[d] = "deleted" PROVE Leaving(x, p)'
      BY <3>1 DEF Leaving, Owes
    <3> QED
      BY <1>5, <3>1, EntryLeaves
  <2>3. ASSUME Leaving(x, p) PROVE \E d \in Conn : IdOf[d] = p /\ NotifyOffline(d, x)
    BY <1>5, <2>1, <2>3, OwesUntilNotified DEF Leaving, InterestFirst
  <2>4. pc'[x] = "reply" /\ p \in reply'[x] => pc[x] = "reply" /\ p \in reply[x]
    BY ReplyGrows
  <2>5. /\ SaidOnline(x, p) => OfflinePending(x, p)
        /\ \A i \in DOMAIN eventChan[x] : eventChan[x][i] = On(p) => FollowedAt(x, p, i)
    BY <2>1, <2>2 DEF OnlineIsFollowed
  <2>6. batch[x] \in Seq(Event) /\ eventChan[x] \in Seq(Event)
    BY DEF TypeOK
  <2>7. ASSUME UNCHANGED <<pc, reply>>, batch'[x] = batch[x], view'[x] = view[x],
               NEW e \in Event, e # On(p), eventChan' = [eventChan EXCEPT ![x] = Append(@, e)],
               ~ Leaving(x, p) \/ e = Off(p)
        PROVE  Goal
    <3>1. /\ DOMAIN eventChan'[x] = DOMAIN eventChan[x] \cup {Len(eventChan[x]) + 1}
          /\ \A i \in DOMAIN eventChan[x] : eventChan'[x][i] = eventChan[x][i] /\ i < Len(eventChan[x]) + 1
          /\ eventChan'[x][Len(eventChan[x]) + 1] = e
      BY <2>7, EventArrives
    <3>2. SaidOnline(x, p)' => SaidOnline(x, p)
      BY <2>7 DEF SaidOnline, Has
    <3>3. Has(eventChan[x], Off(p)) \/ e = Off(p) => Has(eventChan'[x], Off(p))
      BY <3>1 DEF Has
    <3>4. SaidOnline(x, p)' => OfflinePending(x, p)'
      BY <1>2, <2>5, <2>7, <3>2, <3>3
    <3>5. ASSUME NEW i \in DOMAIN eventChan'[x], eventChan'[x][i] = On(p) PROVE FollowedAt(x, p, i)'
      <4>1. i \in DOMAIN eventChan[x] /\ eventChan[x][i] = On(p)
        BY <2>7, <3>1, <3>5
      <4>2. FollowedAt(x, p, i)
        BY <2>5, <4>1
      <4>3. CASE e = Off(p)
        BY <3>1, <4>1, <4>3 DEF FollowedAt
      <4>4. CASE ~ Leaving(x, p)
        BY <3>1, <4>2, <4>4 DEF FollowedAt
      <4> QED
        BY <2>7, <4>3, <4>4
    <3> QED
      BY <3>4, <3>5
  <2>8. CASE Leaving(x, p)
    <3>1. PICK d \in Conn : IdOf[d] = p /\ NotifyOffline(d, x)
      BY <2>3, <2>8
    <3>2. ~ Owes(d, x)'
      BY <1>5, <3>1 DEF Leaving
    <3>3. eventChan' = [eventChan EXCEPT ![x] = Append(@, Off(p))] /\ UNCHANGED <<pc, reply, batch, view>>
      BY <1>5, <3>1, <3>2 DEF NotifyOffline, Owes, Off, connVars, clientVars
    <3>4. Off(p) # On(p)
      BY <1>1
    <3> QED
      BY <1>1, <2>7, <3>3, <3>4
  <2>9. CASE ~ Leaving(x, p)
    <3>1. CASE eventChan'[x] = eventChan[x] /\ batch'[x] = batch[x] /\ view'[x] = view[x]
      <4>1. SaidOnline(x, p)' => SaidOnline(x, p)
        BY <2>4, <3>1 DEF SaidOnline
      <4> QED
        BY <1>2, <2>5, <2>9, <3>1, <4>1 DEF FollowedAt
    <3>2. CASE TakeEvent(x)
      <4>1. UNCHANGED <<pc, reply, view>>
        BY <3>2 DEF TakeEvent, connVars, clientVars
      <4> DEFINE n == Len(batch[x]) + 1
      <4>2. /\ 1 \in DOMAIN eventChan[x]
            /\ DOMAIN batch'[x] = DOMAIN batch[x] \cup {n}
            /\ batch'[x][n] = eventChan[x][1]
            /\ \A i \in DOMAIN batch[x] : batch'[x][i] = batch[x][i]
            /\ \A i \in DOMAIN eventChan'[x] : i + 1 \in DOMAIN eventChan[x] /\ eventChan'[x][i] = eventChan[x][i + 1]
            /\ \A i \in DOMAIN eventChan[x] : i # 1 => i - 1 \in DOMAIN eventChan'[x] /\ eventChan'[x][i - 1] = eventChan[x][i]
        BY <3>2, EventMoves
      <4> HIDE DEF n
      <4>3. Has(eventChan[x], Off(p)) \/ Has(batch[x], Off(p)) => Has(eventChan'[x], Off(p)) \/ Has(batch'[x], Off(p))
        BY <4>2 DEF Has
      <4>4. Has(batch'[x], On(p)) => Has(batch[x], On(p)) \/ eventChan[x][1] = On(p)
        BY <4>2 DEF Has
      <4>5. eventChan[x][1] = On(p) => Has(eventChan[x], Off(p))
        BY <2>5, <2>9, <4>2 DEF FollowedAt, Has
      <4>6. SaidOnline(x, p)' => OfflinePending(x, p)'
        BY <1>2, <2>5, <2>9, <4>1, <4>3, <4>4, <4>5 DEF SaidOnline
      <4>7. ASSUME NEW i \in DOMAIN eventChan'[x], eventChan'[x][i] = On(p) PROVE FollowedAt(x, p, i)'
        <5>1. i + 1 \in DOMAIN eventChan[x] /\ eventChan[x][i + 1] = On(p) /\ i \in Nat
          <6>1. eventChan'[x] = Tail(eventChan[x])
            BY <3>2 DEF TakeEvent, TypeOK
          <6>2. Tail(eventChan[x]) \in Seq(Event)
            BY <2>6, <3>2, TailAt DEF TakeEvent
          <6> QED
            BY <4>2, <4>7, <6>1, <6>2
        <5>2. PICK j \in DOMAIN eventChan[x] : j > i + 1 /\ eventChan[x][j] = Off(p)
          BY <2>5, <2>9, <5>1 DEF FollowedAt
        <5>3. j \in Nat /\ j # 1 /\ j - 1 > i
          BY <2>6, <5>1, <5>2
        <5> QED
          BY <4>2, <5>2, <5>3 DEF FollowedAt
      <4> QED
        BY <4>6, <4>7
    <3>3. CASE SendPeersOnline(x)
      <4> DEFINE ps == PeersIn(batch[x], TRUE)
      <4>1. Tell(x, ps, "online") /\ UNCHANGED <<pc, reply, eventChan, batch>>
        BY <3>3 DEF SendPeersOnline, connVars
      <4>2. p \in ps => Has(batch[x], On(p))
        BY <2>6, PeersInHas
      <4> HIDE DEF ps
      <4>3. SaidOnline(x, p)' => SaidOnline(x, p)
        BY <4>1, <4>2, TellEffect DEF SaidOnline
      <4> QED
        BY <1>2, <2>5, <2>9, <4>1, <4>3 DEF FollowedAt
    <3>4. CASE SendPeersWentOffline(x)
      <4> DEFINE ps == PeersIn(batch[x], FALSE)
      <4>1. Tell(x, ps, "offline") /\ UNCHANGED <<pc, reply, eventChan>> /\ batch'[x] = <<>>
        BY <3>4 DEF SendPeersWentOffline, connVars, TypeOK
      <4>2. p \in ps => pc[x] # "reply"
        BY <3>4 DEF SendPeersWentOffline, NotificationLocked
      <4>3. Has(batch[x], Off(p)) => p \in ps
        BY <2>6, PeersInHas
      <4> HIDE DEF ps
      <4>4. p \in ps => ~ SaidOnline(x, p)'
        BY <2>1, <4>1, <4>2, TellEffect DEF SaidOnline, Has
      <4>5. p \notin ps /\ SaidOnline(x, p)' => SaidOnline(x, p)
        BY <4>1, TellEffect DEF SaidOnline, Has
      <4> QED
        BY <1>2, <2>5, <2>9, <4>1, <4>3, <4>4, <4>5 DEF FollowedAt
    <3>5. CASE Reply(x)
      <4>1. /\ Tell(x, reply[x], "online") /\ UNCHANGED <<eventChan, batch>>
            /\ pc[x] = "reply" /\ pc'[x] # "reply"
        BY <3>5 DEF Reply, listenerVars, Goto, TypeOK
      <4>2. view'[x][p] = "online" => SaidOnline(x, p)
        BY <4>1, TellEffect DEF SaidOnline
      <4>3. SaidOnline(x, p)' => SaidOnline(x, p)
        BY <4>1, <4>2 DEF SaidOnline
      <4> QED
        BY <1>2, <2>5, <2>9, <4>1, <4>3 DEF FollowedAt
    <3>6. ASSUME NEW c \in Conn, NotifyOnline(c, x) PROVE Goal
      <4>1. IdOf[c] \in PeerId /\ IdOf[c] # p
        BY <2>2, <3>6, RelayConstants DEF NotifyOnline, AcceptsDoNotOverlap
      <4>2. On(IdOf[c]) \in Event /\ On(IdOf[c]) # On(p)
        <5>1. On(IdOf[c]).peer = IdOf[c] /\ On(IdOf[c]) \in Event
          BY <4>1, OnOffAreEvents
        <5> QED
          BY <1>1, <4>1, <5>1
      <4>3. /\ UNCHANGED <<pc, reply, batch, view>>
            /\ UNCHANGED eventChan \/ eventChan' = [eventChan EXCEPT ![x] = Append(@, On(IdOf[c]))]
        BY <3>6 DEF NotifyOnline, On, connVars, clientVars
      <4> QED
        BY <2>7, <2>9, <3>1, <4>2, <4>3
    <3>7. ASSUME NEW c \in Conn, NotifyOffline(c, x) PROVE Goal
      <4>1. IdOf[c] \in PeerId
        BY RelayConstants
      <4>2. Off(IdOf[c]) \in Event /\ Off(IdOf[c]) # On(p)
        <5>1. Off(IdOf[c]).online = FALSE /\ Off(IdOf[c]) \in Event
          BY <4>1, OnOffAreEvents
        <5> QED
          BY <1>1, <5>1
      <4>3. /\ UNCHANGED <<pc, reply, batch, view>>
            /\ UNCHANGED eventChan \/ eventChan' = [eventChan EXCEPT ![x] = Append(@, Off(IdOf[c]))]
        BY <3>7 DEF NotifyOffline, Off, connVars, clientVars
      <4> QED
        BY <2>7, <2>9, <3>1, <4>2, <4>3
    <3> QED
      BY <3>1, <3>2, <3>3, <3>4, <3>5, <3>6, <3>7, ReaderSees
  <2> QED
    BY <2>8, <2>9
<1> QED
  BY <1>3, <1>4, <1>5

\* What is due to a reader stays due until the reply is sent or the event is in its channel.
LEMMA DueUntilTold ==
    ASSUME "unsubscribe" \notin May, TypeOK, EntryIsCurrent, ListensWhenReading, [Next]_vars,
           NEW x \in Conn, NEW p \in PeerId, Reading(x), Due(x, p)
    PROVE  Due(x, p)' \/ (Reply(x) /\ p \in reply[x]) \/ Mentions(eventChan'[x], p)
<1> USE RelayConstants DEF TypeOK, Due, Goto, connVars, listenerVars, notifyVars, clientVars
<1>1. ASSUME NEW c \in Conn, NEW ph, pc' = [pc EXCEPT ![c] = ph], pc[c] \notin {"reply", "added", "notifyOn"},
             UNCHANGED <<peers, intOn>>, \A y \in Conn : y # c => reply'[y] = reply[y] /\ todo'[y] = todo[y]
      PROVE Due(x, p)'
  BY <1>1
<1>2. CASE UNCHANGED <<pc, reply, intOn, peers, todo>>
  BY <1>2
<1>3. ASSUME NEW c \in Conn, Accept(c) PROVE Due(x, p)' \/ Mentions(eventChan'[x], p)
  <2>1. CASE HandshakeFails(c)
    BY <1>1, <2>1 DEF HandshakeFails
  <2>2. CASE AddPeer(c)
    BY <2>2 DEF AddPeer
  <2>3. CASE PeerCameOnline(c)
    <3>1. x \in listeners
      BY DEF ListensWhenReading
    <3> QED
      BY <2>3, <3>1 DEF PeerCameOnline
  <2>4. CASE CameOnlineReturns(c)
    BY <2>4 DEF CameOnlineReturns
  <2>5. CASE HandshakeResponse(c)
    BY <1>2, <2>5 DEF HandshakeResponse
  <2>6. ASSUME NEW l \in Conn, NotifyOnline(c, l) PROVE Due(x, p)' \/ Mentions(eventChan'[x], p)
    <3>1. UNCHANGED <<pc, reply, peers>> /\ pc[c] = "notifyOn"
      BY <2>6 DEF NotifyOnline
    <3>2. CASE pc[x] = "reply" /\ p \in reply[x]
      BY <3>1, <3>2
    <3>3. CASE l = x /\ IdOf[c] = p /\ p \in intOn[x] /\ Len(eventChan[x]) < Capacity
      <4>1. eventChan' = [eventChan EXCEPT ![x] = Append(@, On(p))]
        BY <2>6, <3>3 DEF NotifyOnline, On
      <4>2. On(p) \in Event /\ On(p).peer = p
        BY OnOffAreEvents
      <4>3. LET n == Len(eventChan[x]) + 1 IN n \in DOMAIN eventChan'[x] /\ eventChan'[x][n] = On(p)
        BY <4>1, <4>2, EventArrives
      <4>4. Mentions(eventChan'[x], p)
        BY <4>2, <4>3 DEF Mentions
      <4> QED
        BY <4>4
    <3>4. CASE ~ (l = x /\ IdOf[c] = p /\ Len(eventChan[x]) < Capacity) /\ p \in intOn[x]
      <4>1. p \in intOn'[x]
        BY <2>6, <3>4 DEF NotifyOnline
      <4>2. \A e \in Conn : IdOf[e] = p /\ x \in todo[e] => x \in todo'[e]
        <5>1. UNCHANGED todo \/ todo' = [todo EXCEPT ![c] = @ \ {l}]
          BY <2>6 DEF NotifyOnline
        <5>2. l = x /\ IdOf[c] = p => UNCHANGED todo
          BY <2>6, <3>4 DEF NotifyOnline
        <5>3. ASSUME NEW e \in Conn, IdOf[e] = p, x \in todo[e], ~ UNCHANGED todo PROVE x \in todo'[e]
          <6>1. todo' = [todo EXCEPT ![c] = @ \ {l}] /\ ~ (l = x /\ IdOf[c] = p)
            BY <5>1, <5>2, <5>3
          <6>2. CASE e # c
            BY <5>3, <6>1, <6>2
          <6>3. CASE e = c
            BY <5>3, <6>1, <6>3
          <6> QED
            BY <6>2, <6>3
        <5> QED
          BY <5>3
      <4>3. peers[p] # None => peers[p] \in Conn /\ IdOf[peers[p]] = p
        BY DEF EntryIsCurrent
      <4> QED
        BY <3>1, <3>4, <4>1, <4>2, <4>3
    <3> QED
      BY <3>2, <3>3, <3>4
  <2> QED
    BY <1>3, <2>1, <2>2, <2>3, <2>4, <2>5, <2>6 DEF Accept
<1>4. ASSUME NEW c \in Conn, Work(c) PROVE Due(x, p)' \/ (Reply(x) /\ p \in reply[x])
  <2>1. CASE NewListener(c)
    BY <1>1, <2>1 DEF NewListener
  <2>2. CASE GetOnlinePeersAndRegisterInterest(c)
    <3>1. UNCHANGED <<peers, todo>> /\ pc' = [pc EXCEPT ![c] = "reply"] /\ pc[c] = "subscribe"
      BY <2>2 DEF GetOnlinePeersAndRegisterInterest
    <3>2. \A y \in Conn : y # c => reply'[y] = reply[y]
      BY <2>2 DEF GetOnlinePeersAndRegisterInterest
    <3>3. p \in intOn[x] => p \in intOn'[x]
      BY <2>2 DEF GetOnlinePeersAndRegisterInterest
    <3> QED
      BY <3>1, <3>2, <3>3
  <2>3. CASE Reply(c)
    <3>1. UNCHANGED <<peers, todo, intOn>> /\ pc' = [pc EXCEPT ![c] = "read"] /\ pc[c] = "reply"
      BY <2>3 DEF Reply
    <3>2. \A y \in Conn : y # c => reply'[y] = reply[y]
      BY <2>3 DEF Reply
    <3>3. CASE c = x /\ p \in reply[x]
      BY <2>3, <3>3
    <3>4. CASE c # x \/ p \notin reply[x]
      BY <3>1, <3>2, <3>4
    <3> QED
      BY <3>3, <3>4
  <2>4. CASE ReadFails(c)
    BY <1>1, <2>4 DEF ReadFails
  <2>5. CASE RemoveListener(c)
    BY <1>1, <2>5 DEF RemoveListener
  <2>6. CASE DeletePeer(c)
    BY <2>6 DEF DeletePeer
  <2>7. CASE PeerWentOffline(c)
    BY <1>1, <2>7 DEF PeerWentOffline
  <2>8. CASE WentOfflineReturns(c)
    BY <1>1, <2>8 DEF WentOfflineReturns
  <2>9. ASSUME NEW l \in Conn, NotifyOffline(c, l) PROVE Due(x, p)'
    <3>1. /\ UNCHANGED <<pc, reply, peers, intOn>> /\ pc[c] = "notifyOff"
          /\ \A y \in Conn : y # c => todo'[y] = todo[y]
      BY <2>9 DEF NotifyOffline
    <3> QED
      BY <3>1, ZenonT(40)
  <2> QED
    BY <1>4, <2>1, <2>2, <2>3, <2>4, <2>5, <2>6, <2>7, <2>8, <2>9 DEF Work
<1>5. ASSUME NEW c \in Conn, ListenForEvents(c) PROVE Due(x, p)'
  BY <1>2, <1>5 DEF ListenForEvents, TakeEvent, EndDrain, SendPeersOnline, SendPeersWentOffline, ListenerStops
<1>6. ASSUME NEW c \in Conn, Client(c) PROVE Due(x, p)'
  <2>1. CASE AcceptBegins(c)
    BY <1>1, <2>1 DEF AcceptBegins
  <2>2. CASE Subscribe(c)
    <3>1. \A y \in Conn : y # c => reply'[y] = reply[y]
      BY <2>2 DEF Subscribe
    <3> QED
      BY <1>1, <2>2, <3>1 DEF Subscribe
  <2>3. CASE ConnBreaks(c) \/ Unsubscribe(c)
    BY <1>2, <2>3 DEF ConnBreaks, Unsubscribe
  <2> QED
    BY <1>6, <2>1, <2>2, <2>3 DEF Client
<1>7. CASE Shutdown
  BY <1>2, <1>7 DEF Shutdown, ShutdownBegins, ShutdownEnds, CloseGracefully
<1>8. CASE UNCHANGED vars
  BY <1>2, <1>8 DEF vars
<1> QED
  BY <1>3, <1>4, <1>5, <1>6, <1>7, <1>8 DEF Next

LEMMA InterestGrows ==
    ASSUME TypeOK, [Next]_vars, NEW x \in Conn, NEW p \in intOff'[x], p \notin intOff[x]
    PROVE  GetOnlinePeersAndRegisterInterest(x)
<1> USE DEF listenerVars
<1>1. ASSUME NEW c \in Conn, Accept(c) PROVE UNCHANGED intOff
  BY <1>1 DEF Accept, HandshakeFails, AddPeer, PeerCameOnline, CameOnlineReturns, HandshakeResponse, NotifyOnline
<1>2. ASSUME NEW c \in Conn, Work(c) PROVE UNCHANGED intOff \/ GetOnlinePeersAndRegisterInterest(c)
  BY <1>2 DEF Work, NewListener, Reply, ReadFails, RemoveListener, DeletePeer, PeerWentOffline, WentOfflineReturns,
     NotifyOffline
<1>3. ASSUME NEW c \in Conn, GetOnlinePeersAndRegisterInterest(c) PROVE c = x
  BY <1>3 DEF GetOnlinePeersAndRegisterInterest, TypeOK
<1>4. ASSUME NEW c \in Conn, ListenForEvents(c) PROVE UNCHANGED intOff
  BY <1>4 DEF ListenForEvents, TakeEvent, EndDrain, SendPeersOnline, SendPeersWentOffline, ListenerStops
<1>5. ASSUME NEW c \in Conn, Client(c) PROVE UNCHANGED intOff \/ Unsubscribe(c)
  BY <1>5 DEF Client, AcceptBegins, ConnBreaks, Subscribe
<1>6. ASSUME NEW c \in Conn, Unsubscribe(c) PROVE FALSE
  BY <1>6 DEF Unsubscribe, TypeOK
<1>7. CASE Shutdown
  BY <1>7 DEF Shutdown, ShutdownBegins, ShutdownEnds, CloseGracefully
<1>8. CASE UNCHANGED vars
  BY <1>8 DEF vars
<1> QED
  BY <1>1, <1>2, <1>3, <1>4, <1>5, <1>6, <1>7, <1>8 DEF Next

LEMMA AnnouncementNext ==
    ASSUME "unsubscribe" \notin May, TypeOK, StoreInv, InterestFirst, AnnouncementIsDue, OnlineSent, [Next]_vars
    PROVE  AnnouncementIsDue'
<1> SUFFICES ASSUME NEW x \in Conn, NEW p \in PeerId, Reading(x)', x \notin broken', p \in intOff'[x],
                    view'[x][p] = "unknown"
             PROVE  Due(x, p)' \/ Mentions(eventChan'[x], p) \/ Mentions(batch'[x], p)
  BY DEF AnnouncementIsDue
<1>1. Reading(x) /\ x \notin broken
  <2>1. NewListener(x) => p \notin intOff'[x]
    BY DEF NewListener, InterestFirst, ListensWhenReading
  <2> QED
    BY <2>1, ReadersBegin
<1>2. ASSUME p \notin intOff[x] PROVE Due(x, p)'
  <2>1. GetOnlinePeersAndRegisterInterest(x)
    BY <1>2, InterestGrows
  <2>2. p \in reply[x]
    BY <1>2, <2>1 DEF GetOnlinePeersAndRegisterInterest, TypeOK
  <2> QED
    BY <2>1, <2>2 DEF GetOnlinePeersAndRegisterInterest, TypeOK, Due, Goto
<1>3. batch[x] \in Seq(Event) /\ eventChan[x] \in Seq(Event)
  BY DEF TypeOK
<1>4. CASE eventChan'[x] = eventChan[x] /\ batch'[x] = batch[x] /\ view'[x] = view[x]
  <2>1. ~ (Reply(x) /\ p \in reply[x])
    BY <1>1, <1>4, TellEffect DEF Reply
  <2> QED
    BY <1>1, <1>2, <1>4, <2>1, DueUntilTold DEF AnnouncementIsDue, StoreInv, InterestFirst
<1>5. ASSUME UNCHANGED <<pc, intOff>>, view[x][p] = "unknown"
      PROVE  Due(x, p)' \/ Mentions(eventChan'[x], p) \/ Mentions(eventChan[x], p) \/ Mentions(batch[x], p)
  <2>1. ~ Reply(x)
    BY <1>5 DEF Reply, Goto, TypeOK
  <2> QED
    BY <1>1, <1>5, <2>1, DueUntilTold DEF AnnouncementIsDue, StoreInv, InterestFirst
<1>6. CASE TakeEvent(x)
  <2>1. UNCHANGED <<pc, intOff, view>>
    BY <1>6 DEF TakeEvent, clientVars, connVars
  <2> DEFINE n == Len(batch[x]) + 1
  <2>2. /\ DOMAIN batch'[x] = DOMAIN batch[x] \cup {n}
        /\ batch'[x][n] = eventChan[x][1]
        /\ \A i \in DOMAIN batch[x] : batch'[x][i] = batch[x][i]
        /\ \A i \in DOMAIN eventChan[x] : i # 1 => i - 1 \in DOMAIN eventChan'[x] /\ eventChan'[x][i - 1] = eventChan[x][i]
    BY <1>6, EventMoves
  <2> HIDE DEF n
  <2>3. Mentions(eventChan[x], p) \/ Mentions(batch[x], p) => Mentions(eventChan'[x], p) \/ Mentions(batch'[x], p)
    BY <2>2 DEF Mentions
  <2> QED
    BY <1>5, <2>1, <2>3
<1>7. CASE SendPeersOnline(x)
  <2> DEFINE ps == PeersIn(batch[x], TRUE)
  <2>1. Tell(x, ps, "online") /\ UNCHANGED <<pc, intOff, eventChan, batch>>
    BY <1>7 DEF SendPeersOnline, connVars
  <2> HIDE DEF ps
  <2>2. view[x][p] = "unknown"
    BY <1>1, <2>1, TellEffect
  <2> QED
    BY <1>5, <2>1, <2>2
<1>8. CASE SendPeersWentOffline(x)
  <2> DEFINE ps == PeersIn(batch[x], FALSE)
  <2>1. Tell(x, ps, "offline") /\ UNCHANGED <<pc, intOff, eventChan>>
    BY <1>8 DEF SendPeersWentOffline, connVars
  <2>2. p \in ps <=> Has(batch[x], Off(p))
    BY <1>3, PeersInHas
  <2> HIDE DEF ps
  <2>3. view[x][p] = "unknown" /\ p \notin ps
    BY <1>1, <2>1, TellEffect
  <2>4. ~ Has(batch[x], On(p))
    <3>1. lpc[x] = "offline"
      BY <1>8 DEF SendPeersWentOffline
    <3>2. On(p).peer = p /\ On(p).online = TRUE
      BY OnOffAreEvents
    <3> QED
      BY <1>1, <2>3, <3>1, <3>2 DEF OnlineSent, Has
  <2>5. ~ Mentions(batch[x], p)
    BY <1>3, <2>2, <2>3, <2>4, PeersInHas
  <2> QED
    BY <1>5, <2>1, <2>3, <2>5
<1>9. CASE Reply(x)
  <2>1. Tell(x, reply[x], "online") /\ UNCHANGED <<intOff, eventChan, batch>>
    BY <1>9 DEF Reply, listenerVars
  <2>2. view[x][p] = "unknown" /\ p \notin reply[x]
    BY <1>1, <2>1, TellEffect
  <2> QED
    BY <1>1, <1>2, <2>1, <2>2, DueUntilTold DEF AnnouncementIsDue, StoreInv, InterestFirst
<1>10. ASSUME NEW c \in Conn, NEW e \in Event, eventChan' = [eventChan EXCEPT ![x] = Append(@, e)]
       PROVE  Mentions(eventChan[x], p) => Mentions(eventChan'[x], p)
  <2>1. /\ DOMAIN eventChan'[x] = DOMAIN eventChan[x] \cup {Len(eventChan[x]) + 1}
        /\ \A i \in DOMAIN eventChan[x] : eventChan'[x][i] = eventChan[x][i]
    BY <1>10, EventArrives
  <2> QED
    BY <2>1 DEF Mentions
<1>11. ASSUME NEW c \in Conn, NotifyOnline(c, x) \/ NotifyOffline(c, x)
       PROVE  Due(x, p)' \/ Mentions(eventChan'[x], p) \/ Mentions(batch'[x], p)
  <2>1. UNCHANGED <<pc, intOff, batch, view>>
    BY <1>11 DEF NotifyOnline, NotifyOffline, connVars, clientVars
  <2>2. \/ UNCHANGED eventChan
        \/ eventChan' = [eventChan EXCEPT ![x] = Append(@, On(IdOf[c]))]
        \/ eventChan' = [eventChan EXCEPT ![x] = Append(@, Off(IdOf[c]))]
    BY <1>11 DEF NotifyOnline, NotifyOffline, On, Off
  <2>3. IdOf[c] \in PeerId
    BY RelayConstants
  <2>4. On(IdOf[c]) \in Event /\ Off(IdOf[c]) \in Event
    BY <2>3, OnOffAreEvents
  <2>5. Mentions(eventChan[x], p) => Mentions(eventChan'[x], p)
    BY <1>10, <2>2, <2>4
  <2> QED
    BY <1>5, <2>1, <2>5
<1> QED
  BY <1>4, <1>6, <1>7, <1>8, <1>9, <1>11, ReaderSees

\* No notice that a subscriber depends on is lost, however many clients come and go while
\* subscriptions and events are under way: interest is registered before the store is
\* read, an event is in the channel before the interest in it ends, and a deleted
\* connection tells every listener that was there.
THEOREM NoticesReach ==
    ASSUME "overlap" \notin May, "unsubscribe" \notin May
    PROVE  Spec => []NoticesNotLost
<1> DEFINE Inv == TypeOK /\ StoreInv /\ NoticeInv
<1>1. Init => Inv
  BY TypesInit, StoreInvInit, NoticeInit
<1>2. Inv /\ [Next]_vars => Inv'
  <2> SUFFICES ASSUME Inv, [Next]_vars PROVE Inv'
    OBVIOUS
  <2>1. TypeOK' /\ StoreInv'
    BY TypesNext, StoreInvNext
  <2>2. AcceptsDoNotOverlap' /\ InterestFirst' /\ OnlineSent'
    BY AcceptsNext, InterestNext, OnlineSentNext DEF NoticeInv
  <2>3. OnlineIsFollowed' /\ AnnouncementIsDue'
    BY <2>2, OnlineFollowedNext, AnnouncementNext DEF NoticeInv
  <2> QED
    BY <2>1, <2>2, <2>3 DEF NoticeInv
<1>3. Inv => NoticesNotLost
  <2> SUFFICES ASSUME Inv PROVE OfflineNoticeNotLost /\ OnlineNoticeNotLost
    BY DEF NoticesNotLost
  <2>1. OfflineNoticeNotLost
    BY DEF OfflineNoticeNotLost, NoticeInv, OnlineIsFollowed, SaidOnline, Reading
  <2>2. OnlineNoticeNotLost
    BY DEF OnlineNoticeNotLost, NoticeInv, AnnouncementIsDue, Due, Mentions, Reading
  <2> QED
    BY <2>1, <2>2
<1> HIDE DEF Inv
<1> QED
  BY <1>1, <1>2, <1>3, PTL DEF Spec
=============================================================================
