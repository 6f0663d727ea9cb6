-------------------------- MODULE RelayClientProofs --------------------------
(***************************************************************************)
(* Three invariants of the relay client for any number of peers,           *)
(* goroutines, connections and calls: the connections in the map           *)
(* (ConnsInv), the waiters of the subscriptions (WaitInv) and the interest *)
(* that client and server keep (FollowInv).  Each part of the state has    *)
(* its types in an invariant of its own, so that a step is proved against  *)
(* the variables it changes.                                               *)
(***************************************************************************)
EXTENDS RelayClient, TLAPS

LEMMA ThreadsDiffer ==
    /\ \A g, h \in Gen : Reader(g) # Listener(h) /\ Reader(g) # Owner /\ Listener(g) # Owner
    /\ \A g, h \in Gen : g # h => Reader(g) # Reader(h) /\ Listener(g) # Listener(h)
    /\ \A g \in Gen : Reader(g) \in Thread /\ Listener(g) \in Thread
    /\ Owner \in Thread
  BY DEF Reader, Listener, Owner, Thread, Gen

\* A step is one of the actions: the case split every proof below uses.
LEMMA StepCases ==
    ASSUME [Next]_vars
    PROVE  \/ Connect
           \/ \E t \in Thread : CloseAgain(t) \/ CloseBegins(t) \/ CloseReturns(t)
           \/ Close
           \/ \E g \in Gen : \/ ListenForStopEvents(g) \/ ConnBreaks(g) \/ CloseMsg(g) \/ ReadFails(g)
                             \/ StopHealthCheck(g) \/ NotifyDisconnected(g)
           \/ \E g \in Gen : PeersOnline(g) \/ PeersWentOffline(g) \/ CloseConnsByPeerID(g) \/ CleanupAndDone(g)
           \/ \E c \in Caller, p \in PeerId : OpenConn(c, p)
           \/ \E c \in Caller : Register(c) \/ SubscribeFails(c) \/ Deregister(c)
           \/ \E c \in Caller : AlreadyWaiting(c) \/ Subscribe(c) \/ WaitEnds(c) \/ WaitTimesOut(c) \/ OpenConnReturns(c)
           \/ \E c \in Caller : OpenConnFails(c) \/ CloseConn(c)
           \/ Server
           \/ UNCHANGED vars
  BY DEF Next, Closing, ReadLoop, ReadLoopEnds, UserOf, WaitToBeOnlineAndSubscribe

(***************************************************************************)
(* The connection's goroutines.                                            *)
(***************************************************************************)

ThreadInv ==
    /\ gen \in 0 .. MaxGen
    /\ running \in BOOLEAN
    /\ connUp \subseteq 1 .. gen
    /\ pc \in [Thread -> ThreadPhase]
    /\ \A g \in Gen : g > gen => pc[Reader(g)] = "none" /\ pc[Listener(g)] = "none"

LEMMA ThreadInvInit == Init => ThreadInv
<1> SUFFICES ASSUME Init PROVE ThreadInv
  OBVIOUS
<1>1. pc \in [Thread -> ThreadPhase]
  BY DEF Init, ThreadPhase, ReaderPhase
<1>2. \A g \in Gen : pc[Reader(g)] = "none" /\ pc[Listener(g)] = "none"
  BY ThreadsDiffer DEF Init
<1>3. running \in BOOLEAN /\ connUp \subseteq 1 .. gen
  BY DEF Init
<1>4. gen \in 0 .. MaxGen
  BY ClientConstants DEF Init
<1> QED
  BY <1>1, <1>2, <1>3, <1>4 DEF ThreadInv

LEMMA ThreadInvNext == ThreadInv /\ [Next]_vars => ThreadInv'
<1> SUFFICES ASSUME ThreadInv, [Next]_vars PROVE ThreadInv'
  OBVIOUS
<1> USE ClientConstants, ThreadsDiffer
    DEF ThreadInv, ThreadPhase, ReaderPhase, Gen, relayVars, clientVars, others
<1>1. CASE Connect
  BY <1>1 DEF Connect
<1>2. ASSUME NEW t \in Thread, CloseAgain(t) \/ CloseBegins(t) \/ CloseReturns(t) PROVE ThreadInv'
  <2>1. AfterClose(t) \in {"none", "notify", "gone"}
    BY DEF AfterClose
  <2>2. CASE CloseAgain(t) \/ CloseReturns(t)
    BY <2>1, <2>2 DEF CloseAgain, CloseReturns
  <2>3. CASE CloseBegins(t)
    BY <2>3 DEF CloseBegins
  <2> QED
    BY <1>2, <2>2, <2>3
<1>3. CASE Close
  BY <1>3 DEF Close
<1>4. ASSUME NEW g \in Gen,
             \/ ListenForStopEvents(g) \/ ConnBreaks(g) \/ CloseMsg(g) \/ ReadFails(g)
             \/ StopHealthCheck(g) \/ NotifyDisconnected(g)
      PROVE  ThreadInv'
  BY <1>4 DEF ListenForStopEvents, HealthCheckTimeout, OnTimeoutClosed, ContextDone, ConnBreaks, CloseMsg,
              ReadFails, StopHealthCheck, NotifyDisconnected
<1>5. ASSUME NEW g \in Gen,
             PeersOnline(g) \/ PeersWentOffline(g) \/ CloseConnsByPeerID(g) \/ CleanupAndDone(g)
      PROVE  ThreadInv'
  BY <1>5 DEF PeersOnline, PeersWentOffline, CloseConnsByPeerID, CleanupAndDone, Reading
<1>6. ASSUME NEW c \in Caller, NEW p \in PeerId, OpenConn(c, p) PROVE ThreadInv'
  BY <1>6 DEF OpenConn
<1>7. ASSUME NEW c \in Caller, Register(c) \/ SubscribeFails(c) \/ Deregister(c) PROVE ThreadInv'
  BY <1>7 DEF Register, SubscribeFails, Deregister
<1>8. ASSUME NEW c \in Caller,
             AlreadyWaiting(c) \/ Subscribe(c) \/ WaitEnds(c) \/ WaitTimesOut(c) \/ OpenConnReturns(c)
      PROVE  ThreadInv'
  BY <1>8 DEF AlreadyWaiting, Subscribe, WaitEnds, WaitTimesOut, OpenConnReturns
<1>9. ASSUME NEW c \in Caller, OpenConnFails(c) \/ CloseConn(c) PROVE ThreadInv'
  BY <1>9 DEF OpenConnFails, CloseConn
<1>10. CASE Server
  BY <1>10 DEF Server, HandleSubscribe, HandleUnsubscribe, PeerArrives, PeerLeaves
<1>11. CASE UNCHANGED vars
  BY <1>11 DEF vars
<1> HIDE DEF ThreadInv
<1> QED
  BY <1>1, <1>2, <1>3, <1>4, <1>5, <1>6, <1>7, <1>8, <1>9, <1>10, <1>11, StepCases

\* Only Connect starts the service, so there is a connection while it runs.
RunInv == running => gen # 0

LEMMA RunInvNext == ThreadInv /\ RunInv /\ [Next]_vars => RunInv'
<1> SUFFICES ASSUME ThreadInv, RunInv, [Next]_vars PROVE RunInv'
  OBVIOUS
<1>1. CASE Connect
  <2>1. gen' = gen + 1 /\ gen \in 0 .. MaxGen
    BY <1>1 DEF Connect, ThreadInv
  <2>2. gen' # 0
    BY <2>1, ClientConstants
  <2> QED
    BY <2>2 DEF RunInv
<1>2. CASE \E t \in Thread : CloseBegins(t)
  BY <1>2 DEF CloseBegins, RunInv
<1>3. ASSUME ~ Connect, ~ \E t \in Thread : CloseBegins(t) PROVE UNCHANGED <<running, gen>>
  BY <1>3 DEF Next, vars, relayVars, clientVars, Closing, ReadLoop, ReadLoopEnds, UserOf,
     WaitToBeOnlineAndSubscribe, Server, ListenForStopEvents, HealthCheckTimeout, OnTimeoutClosed,
     ContextDone, ConnBreaks, CloseMsg, ReadFails, StopHealthCheck, NotifyDisconnected, PeersOnline,
     PeersWentOffline, CloseConnsByPeerID, CleanupAndDone, OpenConn, Register, SubscribeFails, Deregister,
     AlreadyWaiting, Subscribe, WaitEnds, WaitTimesOut, OpenConnReturns, OpenConnFails, CloseConn,
     HandleSubscribe, HandleUnsubscribe, PeerArrives, PeerLeaves, CloseAgain, CloseReturns, Close
<1> QED
  BY <1>1, <1>2, <1>3 DEF RunInv

(***************************************************************************)
(* The goroutines in OpenConn.  A call is numbered when it begins, and no  *)
(* two goroutines are in the same call.                                    *)
(***************************************************************************)

CallTypes ==
    /\ calls \in 0 .. MaxCalls
    /\ cpc \in [Caller -> CallPhase]
    /\ call \in [Caller -> 0 .. calls]
    /\ target \in [Caller -> PeerId \cup {NoPeer}]
    /\ sub \in [Caller -> 0 .. MaxGen]

CallsStarted ==
    \A c \in Caller :
        IF cpc[c] = "idle"
        THEN call[c] = 0
        ELSE
            /\ gen > 0
            /\ call[c] > 0
            /\ target[c] \in PeerId
            /\ cpc[c] \in {"subscribe", "select", "deregister"} => sub[c] \in Gen

CallsDiffer == \A c, d \in Caller : call[c] = call[d] /\ call[c] # 0 => c = d

CallInv == CallTypes /\ CallsStarted /\ CallsDiffer

LEMMA CallInvInit == Init => CallInv
  BY ClientConstants DEF Init, CallInv, CallTypes, CallsStarted, CallsDiffer, CallPhase

LEMMA CallInvNext == ThreadInv /\ RunInv /\ CallInv /\ [Next]_vars => CallInv'
<1> SUFFICES ASSUME ThreadInv, RunInv, CallInv, [Next]_vars PROVE CallInv'
  OBVIOUS
<1> USE ClientConstants
    DEF CallInv, CallTypes, CallsStarted, CallsDiffer, CallPhase, Gen, Call, Goto, callVars, others
<1>1. CASE Connect
  BY <1>1 DEF Connect, ThreadInv
<1>2. ASSUME NEW t \in Thread, CloseAgain(t) \/ CloseBegins(t) \/ CloseReturns(t) PROVE CallInv'
  BY <1>2 DEF CloseAgain, CloseBegins, CloseReturns, relayVars
<1>3. CASE Close
  BY <1>3 DEF Close, relayVars
<1>4. ASSUME NEW g \in Gen,
             \/ ListenForStopEvents(g) \/ ConnBreaks(g) \/ CloseMsg(g) \/ ReadFails(g)
             \/ StopHealthCheck(g) \/ NotifyDisconnected(g)
      PROVE  CallInv'
  BY <1>4 DEF ListenForStopEvents, HealthCheckTimeout, OnTimeoutClosed, ContextDone, ConnBreaks, CloseMsg,
              ReadFails, StopHealthCheck, NotifyDisconnected, relayVars
<1>5. ASSUME NEW g \in Gen,
             PeersOnline(g) \/ PeersWentOffline(g) \/ CloseConnsByPeerID(g) \/ CleanupAndDone(g)
      PROVE  CallInv'
  BY <1>5 DEF PeersOnline, PeersWentOffline, CloseConnsByPeerID, CleanupAndDone, relayVars, clientVars
<1>6. ASSUME NEW c \in Caller, NEW p \in PeerId, OpenConn(c, p) PROVE CallInv'
  <2>1. CallTypes'
    BY <1>6 DEF OpenConn
  <2>2. running /\ gen # 0
    BY <1>6 DEF OpenConn, RunInv
  <2>3. CallsStarted'
    BY <1>6, <2>2 DEF OpenConn, ThreadInv, clientVars, relayVars
  <2>4. CallsDiffer'
    BY <1>6 DEF OpenConn
  <2> QED
    BY <2>1, <2>3, <2>4
<1>7. ASSUME NEW c \in Caller, Register(c) \/ SubscribeFails(c) \/ Deregister(c) PROVE CallInv'
  BY <1>7 DEF Register, SubscribeFails, Deregister, ThreadInv, relayVars, clientVars
<1>8. ASSUME NEW c \in Caller,
             AlreadyWaiting(c) \/ Subscribe(c) \/ WaitEnds(c) \/ WaitTimesOut(c) \/ OpenConnReturns(c)
      PROVE  CallInv'
  BY <1>8 DEF AlreadyWaiting, Subscribe, WaitEnds, WaitTimesOut, OpenConnReturns, relayVars, clientVars
<1>9. ASSUME NEW c \in Caller, OpenConnFails(c) \/ CloseConn(c) PROVE CallInv'
  BY <1>9 DEF OpenConnFails, CloseConn, Return, relayVars, clientVars
<1>10. CASE Server
  BY <1>10 DEF Server, HandleSubscribe, HandleUnsubscribe, PeerArrives, PeerLeaves, relayVars, clientVars
<1>11. CASE UNCHANGED vars
  BY <1>11 DEF vars, relayVars, clientVars
<1> HIDE DEF CallInv
<1> QED
  BY <1>1, <1>2, <1>3, <1>4, <1>5, <1>6, <1>7, <1>8, <1>9, <1>10, <1>11, StepCases

(***************************************************************************)
(* The notices a read loop handles.                                        *)
(***************************************************************************)

OfflineInv ==
    /\ listen \in [Gen -> SUBSET PeerId]
    /\ offline \in [Gen -> PeerId \cup {NoPeer}]
    /\ \A g \in Gen : pc[Reader(g)] = "offline" => offline[g] \in PeerId

LEMMA OfflineInvInit == Init => OfflineInv
  BY ThreadsDiffer DEF Init, OfflineInv

LEMMA OfflineInvNext == ThreadInv /\ CallInv /\ OfflineInv /\ [Next]_vars => OfflineInv'
<1> SUFFICES ASSUME ThreadInv, CallInv, OfflineInv, [Next]_vars PROVE OfflineInv'
  OBVIOUS
<1> USE ThreadsDiffer DEF OfflineInv, others, subVars
<1>1. CASE Connect
  BY <1>1 DEF Connect, ThreadInv, Gen
<1>2. ASSUME NEW t \in Thread, CloseAgain(t) \/ CloseBegins(t) \/ CloseReturns(t) PROVE OfflineInv'
  <2>1. AfterClose(t) # "offline"
    BY DEF AfterClose
  <2> QED
    BY <1>2, <2>1 DEF CloseAgain, CloseBegins, CloseReturns, ThreadInv
<1>3. CASE Close
  BY <1>3 DEF Close, ThreadInv
<1>4. ASSUME NEW g \in Gen,
             \/ ListenForStopEvents(g) \/ ConnBreaks(g) \/ CloseMsg(g) \/ ReadFails(g)
             \/ StopHealthCheck(g) \/ NotifyDisconnected(g)
      PROVE  OfflineInv'
  BY <1>4 DEF ListenForStopEvents, HealthCheckTimeout, OnTimeoutClosed, ContextDone, ConnBreaks, CloseMsg,
              ReadFails, StopHealthCheck, NotifyDisconnected, ThreadInv
<1>5. ASSUME NEW g \in Gen,
             PeersOnline(g) \/ PeersWentOffline(g) \/ CloseConnsByPeerID(g) \/ CleanupAndDone(g)
      PROVE  OfflineInv'
  <2>1. CASE PeersOnline(g)
    BY <2>1 DEF PeersOnline, OnPeersOnline, clientVars
  <2>2. CASE PeersWentOffline(g)
    <3>1. CASE UNCHANGED <<offline, pc>>
      BY <2>2, <3>1 DEF PeersWentOffline
    <3>2. CASE /\ Head(toClient).peer \in listen[gen]
               /\ offline' = [offline EXCEPT ![g] = Head(toClient).peer]
               /\ pc' = [pc EXCEPT ![Reader(g)] = "offline"]
      <4>1. gen \in Gen
        BY <2>2 DEF PeersWentOffline, Reading, ThreadInv, Gen
      <4>2. Head(toClient).peer \in PeerId
        BY <3>2, <4>1
      <4> QED
        BY <2>2, <3>2, <4>2 DEF PeersWentOffline, ThreadInv
    <3> QED
      BY <2>2, <3>1, <3>2 DEF PeersWentOffline
  <2>3. CASE CloseConnsByPeerID(g)
    BY <2>3 DEF CloseConnsByPeerID, UnsubscribeStateChange, Forget, ThreadInv
  <2>4. CASE CleanupAndDone(g)
    BY <2>4 DEF CleanupAndDone, Cleanup, ThreadInv
  <2> QED
    BY <1>5, <2>1, <2>2, <2>3, <2>4
<1>6. ASSUME NEW c \in Caller, NEW p \in PeerId, OpenConn(c, p) PROVE OfflineInv'
  BY <1>6 DEF OpenConn, clientVars
<1>7. ASSUME NEW c \in Caller, Register(c) \/ SubscribeFails(c) \/ Deregister(c) PROVE OfflineInv'
  <2>1. target[c] \in PeerId
    BY <1>7 DEF Register, SubscribeFails, Deregister, CallInv, CallsStarted
  <2> QED
    BY <1>7, <2>1 DEF Register, SubscribeFails, Deregister, ForgetOwn, Forget, clientVars
<1>8. ASSUME NEW c \in Caller,
             AlreadyWaiting(c) \/ Subscribe(c) \/ WaitEnds(c) \/ WaitTimesOut(c) \/ OpenConnReturns(c)
      PROVE  OfflineInv'
  BY <1>8 DEF AlreadyWaiting, Subscribe, WaitEnds, WaitTimesOut, OpenConnReturns, clientVars
<1>9. ASSUME NEW c \in Caller, OpenConnFails(c) \/ CloseConn(c) PROVE OfflineInv'
  BY <1>9 DEF OpenConnFails, CloseConn, UnsubscribeStateChange, Forget, clientVars
<1>10. CASE Server
  BY <1>10 DEF Server, HandleSubscribe, HandleUnsubscribe, PeerArrives, PeerLeaves, clientVars
<1>11. CASE UNCHANGED vars
  BY <1>11 DEF vars, clientVars
<1> HIDE DEF OfflineInv
<1> QED
  BY <1>1, <1>2, <1>3, <1>4, <1>5, <1>6, <1>7, <1>8, <1>9, <1>10, <1>11, StepCases

(***************************************************************************)
(* c.conns.  An open container is in the map under its peer, whoever       *)
(* removed the others.                                                     *)
(***************************************************************************)

ConnTypes ==
    /\ conns \in [PeerId -> Call \cup {0}]
    /\ container \in [Call -> {"none", "open", "closed"}]
    /\ openedIn \in [Call -> 0 .. MaxGen]

\* What is in the map is open and belongs to the current connection.
EntriesAreLive ==
    \A p \in PeerId : conns[p] # 0 =>
        running /\ container[conns[p]] = "open" /\ openedIn[conns[p]] = gen

\* A call whose container is open is the entry of its peer.
LiveIsEntry ==
    \A c \in Caller : call[c] # 0 /\ container[call[c]] = "open" => conns[target[c]] = call[c]

ConnsInv == ConnTypes /\ EntriesAreLive /\ LiveIsEntry

\* Releasing any set of containers keeps the map consistent.
LEMMA ReleaseKeepsConns ==
    ASSUME CallInv, ConnsInv, NEW ks \in SUBSET Call, Release(ks), UNCHANGED <<gen, calls>>,
           running' = running \/ conns' = [p \in PeerId |-> 0],
           \A c \in Caller : \/ call'[c] = call[c] /\ target'[c] = target[c]
                             \/ call'[c] = 0
    PROVE  ConnsInv'
<1>1. ConnTypes'
  BY DEF ConnsInv, ConnTypes, Release
<1>2. ASSUME NEW p \in PeerId, conns'[p] # 0
      PROVE  conns[p] \in Call \ ks /\ conns'[p] = conns[p] /\ running' = running
  BY <1>2 DEF ConnsInv, ConnTypes, Release
<1>3. EntriesAreLive'
  BY <1>2 DEF ConnsInv, EntriesAreLive, Release
<1>4. ASSUME NEW c \in Caller, call'[c] # 0, container'[call'[c]] = "open"
      PROVE  conns'[target'[c]] = call'[c]
  <2>1. call'[c] = call[c] /\ target'[c] = target[c] /\ call[c] \in Call /\ target[c] \in PeerId
    BY <1>4, ClientConstants DEF CallInv, CallTypes, CallsStarted, Call
  <2>2. call[c] \notin ks /\ container[call[c]] = "open"
    BY <1>4, <2>1 DEF Release
  <2> QED
    BY <2>1, <2>2, <1>4 DEF ConnsInv, LiveIsEntry, Release
<1> QED
  BY <1>1, <1>3, <1>4 DEF ConnsInv, LiveIsEntry

LEMMA ConnsInvInit == Init => ConnsInv
  BY ClientConstants DEF Init, ConnsInv, ConnTypes, EntriesAreLive, LiveIsEntry, Call

LEMMA ConnsInvNext == ThreadInv /\ CallInv /\ OfflineInv /\ ConnsInv /\ [Next]_vars => ConnsInv'
<1> SUFFICES ASSUME ThreadInv, CallInv, OfflineInv, ConnsInv, [Next]_vars PROVE ConnsInv'
  OBVIOUS
<1> USE ClientConstants DEF others, connVars
<1>1. CASE Connect
  BY <1>1 DEF Connect, ConnsInv, ConnTypes, EntriesAreLive, LiveIsEntry, callVars
<1>2. ASSUME NEW t \in Thread, CloseAgain(t) \/ CloseBegins(t) \/ CloseReturns(t) PROVE ConnsInv'
  <2>1. CASE CloseAgain(t) \/ CloseReturns(t)
    BY <2>1 DEF CloseAgain, CloseReturns, ConnsInv, ConnTypes, EntriesAreLive, LiveIsEntry,
                relayVars, callVars
  <2>2. CASE CloseBegins(t)
    <3>1. {conns[p] : p \in PeerId} \ {0} \in SUBSET Call
      BY DEF ConnsInv, ConnTypes
    <3>2. conns' = [p \in PeerId |-> 0]
      BY <2>2 DEF CloseBegins, Release, ConnsInv, ConnTypes
    <3> QED
      BY <2>2, <3>1, <3>2, ReleaseKeepsConns DEF CloseBegins, callVars
  <2> QED
    BY <1>2, <2>1, <2>2
<1>3. CASE Close
  BY <1>3 DEF Close, ConnsInv, ConnTypes, EntriesAreLive, LiveIsEntry, relayVars, callVars
<1>4. ASSUME NEW g \in Gen,
             \/ ListenForStopEvents(g) \/ ConnBreaks(g) \/ CloseMsg(g) \/ ReadFails(g)
             \/ StopHealthCheck(g) \/ NotifyDisconnected(g)
      PROVE  ConnsInv'
  BY <1>4 DEF ListenForStopEvents, HealthCheckTimeout, OnTimeoutClosed, ContextDone, ConnBreaks, CloseMsg,
              ReadFails, StopHealthCheck, NotifyDisconnected, ConnsInv, ConnTypes, EntriesAreLive,
              LiveIsEntry, relayVars, callVars
<1>5. ASSUME NEW g \in Gen,
             PeersOnline(g) \/ PeersWentOffline(g) \/ CloseConnsByPeerID(g) \/ CleanupAndDone(g)
      PROVE  ConnsInv'
  <2>1. CASE PeersOnline(g) \/ PeersWentOffline(g) \/ CleanupAndDone(g)
    BY <2>1 DEF PeersOnline, PeersWentOffline, CleanupAndDone, ConnsInv, ConnTypes, EntriesAreLive,
                LiveIsEntry, relayVars, callVars, clientVars
  <2>2. CASE CloseConnsByPeerID(g)
    <3>1. {conns[offline[g]]} \ {0} \in SUBSET Call
      BY <2>2 DEF CloseConnsByPeerID, ConnsInv, ConnTypes, OfflineInv
    <3> QED
      BY <2>2, <3>1, ReleaseKeepsConns DEF CloseConnsByPeerID, callVars, relayVars
  <2> QED
    BY <1>5, <2>1, <2>2
<1>6. ASSUME NEW c \in Caller, NEW p \in PeerId, OpenConn(c, p) PROVE ConnsInv'
  BY <1>6, SMTT(40) DEF OpenConn, ConnsInv, ConnTypes, EntriesAreLive, LiveIsEntry, clientVars,
              relayVars, Call, CallInv, CallTypes, ThreadInv
<1>7. ASSUME NEW c \in Caller, Register(c) \/ SubscribeFails(c) \/ Deregister(c) PROVE ConnsInv'
  BY <1>7 DEF Register, SubscribeFails, Deregister, ConnsInv, ConnTypes, EntriesAreLive, LiveIsEntry, relayVars, clientVars
<1>8. ASSUME NEW c \in Caller,
             AlreadyWaiting(c) \/ Subscribe(c) \/ WaitEnds(c) \/ WaitTimesOut(c) \/ OpenConnReturns(c)
      PROVE  ConnsInv'
  BY <1>8 DEF AlreadyWaiting, Subscribe, WaitEnds, WaitTimesOut, OpenConnReturns, ConnsInv, ConnTypes,
              EntriesAreLive, LiveIsEntry, relayVars, clientVars
<1>9. ASSUME NEW c \in Caller, OpenConnFails(c) \/ CloseConn(c) PROVE ConnsInv'
  <2>1. cpc[c] # "idle"
    BY <1>9 DEF OpenConnFails, CloseConn
  <2>2. {call[c]} \in SUBSET Call
    BY <2>1 DEF CallInv, CallTypes, CallsStarted, Call
  <2>3. \A d \in Caller : (call'[d] = call[d] /\ target'[d] = target[d]) \/ call'[d] = 0
    BY <1>9 DEF OpenConnFails, CloseConn, Return, CallInv, CallTypes
  <2>4. CASE Release({call[c]})
    BY <1>9, <2>2, <2>3, <2>4, ReleaseKeepsConns DEF OpenConnFails, CloseConn, Return, clientVars, relayVars
  <2>5. CASE UNCHANGED connVars
    BY <1>9, <2>3, <2>5 DEF OpenConnFails, CloseConn, Return, clientVars, relayVars, ConnsInv, ConnTypes,
                            EntriesAreLive, LiveIsEntry
  <2> QED
    BY <1>9, <2>4, <2>5 DEF OpenConnFails, CloseConn
<1>10. CASE Server
  BY <1>10 DEF Server, HandleSubscribe, HandleUnsubscribe, PeerArrives, PeerLeaves, relayVars, clientVars,
               callVars, ConnsInv, ConnTypes, EntriesAreLive, LiveIsEntry
<1>11. CASE UNCHANGED vars
  BY <1>11 DEF vars, relayVars, clientVars, callVars, ConnsInv, ConnTypes, EntriesAreLive, LiveIsEntry
<1> QED
  BY <1>1, <1>2, <1>3, <1>4, <1>5, <1>6, <1>7, <1>8, <1>9, <1>10, <1>11, StepCases

\* The map holds open containers of the current connection only, and every Conn that was
\* handed out and is not closed is in it: neither a reconnection nor an offline notice can
\* leave a reader of a Conn behind.
THEOREM ConnsRegistered == Spec => []OpenConnsAreRegistered
<1> DEFINE Inv == ThreadInv /\ RunInv /\ CallInv /\ OfflineInv /\ ConnsInv
<1>1. Init => Inv
  BY ThreadInvInit, CallInvInit, OfflineInvInit, ConnsInvInit DEF RunInv, Init
<1>2. Inv /\ [Next]_vars => Inv'
  BY ThreadInvNext, RunInvNext, CallInvNext, OfflineInvNext, ConnsInvNext
<1>3. Inv => OpenConnsAreRegistered
  BY DEF CallInv, CallsStarted, CallTypes, ConnsInv, EntriesAreLive, LiveIsEntry, OpenConnsAreRegistered
<1> HIDE DEF Inv
<1> QED
  BY <1>1, <1>2, <1>3, PTL DEF Spec

(***************************************************************************)
(* The messages under way name peers.                                      *)
(***************************************************************************)

MessagesInv == toServer \in Seq(Request) /\ toClient \in Seq(Notice)

LEMMA SeqSteps ==
    ASSUME NEW S, NEW s \in Seq(S)
    PROVE  /\ \A e \in S : Append(s, e) \in Seq(S)
           /\ s # <<>> => Head(s) \in S /\ Tail(s) \in Seq(S)
  OBVIOUS

\* What is written is a request, what the server sends a notice.
LEMMA MessagesGrow ==
    ASSUME MessagesInv, NEW p \in PeerId
    PROVE  /\ \A g \in Nat, y \in {"sub", "unsub"} :
                  Write(g, [type |-> y, peer |-> p]) => toServer' \in Seq(Request)
           /\ \A y \in {"online", "offline"} : Send(p, y) => toClient' \in Seq(Notice)
<1>1. \A y \in {"sub", "unsub"} : [type |-> y, peer |-> p] \in Request
  BY DEF Request
<1>2. \A y \in {"online", "offline"} : [type |-> y, peer |-> p] \in Notice
  BY DEF Notice
<1> QED
  BY <1>1, <1>2, SeqSteps DEF MessagesInv, Write, Send

LEMMA MessagesInvNext == ThreadInv /\ CallInv /\ OfflineInv /\ MessagesInv /\ [Next]_vars => MessagesInv'
<1> SUFFICES ASSUME ThreadInv, CallInv, OfflineInv, MessagesInv, [Next]_vars PROVE MessagesInv'
  OBVIOUS
<1> USE DEF others, callVars, clientVars
<1>0. gen \in Nat /\ Gen \subseteq Nat
  BY ClientConstants DEF ThreadInv, Gen
<1>00. UNCHANGED <<toServer, toClient>> => MessagesInv'
  BY DEF MessagesInv
<1>1. CASE Connect
  BY <1>1 DEF Connect, MessagesInv
<1>2. ASSUME NEW t \in Thread, CloseAgain(t) \/ CloseBegins(t) \/ CloseReturns(t) PROVE MessagesInv'
  BY <1>00, <1>2 DEF CloseAgain, CloseBegins, CloseReturns
<1>3. CASE Close
  BY <1>00, <1>3 DEF Close
<1>4. ASSUME NEW g \in Gen,
             \/ ListenForStopEvents(g) \/ ConnBreaks(g) \/ CloseMsg(g) \/ ReadFails(g)
             \/ StopHealthCheck(g) \/ NotifyDisconnected(g)
      PROVE  MessagesInv'
  BY <1>00, <1>4 DEF ListenForStopEvents, HealthCheckTimeout, OnTimeoutClosed, ContextDone, ConnBreaks,
                     CloseMsg, ReadFails, StopHealthCheck, NotifyDisconnected
<1>5. ASSUME NEW g \in Gen,
             PeersOnline(g) \/ PeersWentOffline(g) \/ CloseConnsByPeerID(g) \/ CleanupAndDone(g)
      PROVE  MessagesInv'
  <2>1. CASE PeersOnline(g) \/ PeersWentOffline(g)
    <3>1. toClient # <<>> /\ toClient' = Tail(toClient) /\ toServer' = toServer
      BY <2>1 DEF PeersOnline, PeersWentOffline, Reading
    <3> QED
      BY <3>1, SeqSteps DEF MessagesInv
  <2>2. CASE CleanupAndDone(g)
    BY <1>00, <2>2 DEF CleanupAndDone
  <2>3. CASE CloseConnsByPeerID(g)
    <3>1. offline[g] \in PeerId
      BY <2>3 DEF CloseConnsByPeerID, OfflineInv
    <3>2. Write(gen, [type |-> "unsub", peer |-> offline[g]]) /\ toClient' = toClient
      BY <2>3 DEF CloseConnsByPeerID, UnsubscribeStateChange
    <3> QED
      BY <1>0, <3>1, <3>2, MessagesGrow DEF MessagesInv
  <2> QED
    BY <1>5, <2>1, <2>2, <2>3
<1>6. ASSUME NEW c \in Caller, NEW p \in PeerId, OpenConn(c, p) PROVE MessagesInv'
  BY <1>00, <1>6 DEF OpenConn
<1>7. ASSUME NEW c \in Caller, Register(c) \/ SubscribeFails(c) \/ Deregister(c) PROVE MessagesInv'
  BY <1>00, <1>7 DEF Register, SubscribeFails, Deregister
<1>8. ASSUME NEW c \in Caller,
             AlreadyWaiting(c) \/ Subscribe(c) \/ WaitEnds(c) \/ WaitTimesOut(c) \/ OpenConnReturns(c)
      PROVE  MessagesInv'
  <2>1. CASE AlreadyWaiting(c) \/ WaitEnds(c) \/ OpenConnReturns(c)
    BY <1>00, <2>1 DEF AlreadyWaiting, WaitEnds, OpenConnReturns
  <2>2. CASE Subscribe(c) \/ WaitTimesOut(c)
    <3>1. target[c] \in PeerId /\ sub[c] \in Gen
      BY <2>2 DEF Subscribe, WaitTimesOut, CallInv, CallsStarted
    <3>2. /\ \E y \in {"sub", "unsub"} : Write(sub[c], [type |-> y, peer |-> target[c]])
          /\ toClient' = toClient
      BY <2>2 DEF Subscribe, WaitTimesOut
    <3> QED
      BY <1>0, <3>1, <3>2, MessagesGrow DEF MessagesInv
  <2> QED
    BY <1>8, <2>1, <2>2
<1>9. ASSUME NEW c \in Caller, OpenConnFails(c) \/ CloseConn(c) PROVE MessagesInv'
  <2>1. target[c] \in PeerId
    BY <1>9 DEF OpenConnFails, CloseConn, CallInv, CallsStarted
  <2>2. /\ toServer' = toServer \/ Write(gen, [type |-> "unsub", peer |-> target[c]])
        /\ toClient' = toClient
    BY <1>9 DEF OpenConnFails, CloseConn, UnsubscribeStateChange
  <2> QED
    BY <1>0, <2>1, <2>2, MessagesGrow DEF MessagesInv
<1>10. CASE Server
  <2>1. CASE HandleSubscribe
    <3>1. Head(toServer) \in Request /\ toServer' = Tail(toServer) /\ Tail(toServer) \in Seq(Request)
      BY <2>1, SeqSteps DEF HandleSubscribe, MessagesInv
    <3>2. Head(toServer).peer \in PeerId
      BY <3>1 DEF Request
    <3>3. Send(Head(toServer).peer, "online") \/ toClient' = toClient
      BY <2>1 DEF HandleSubscribe
    <3> QED
      BY <3>1, <3>2, <3>3, MessagesGrow DEF MessagesInv
  <2>2. CASE HandleUnsubscribe
    <3>1. toServer # <<>> /\ toServer' = Tail(toServer) /\ toClient' = toClient
      BY <2>2 DEF HandleUnsubscribe
    <3> QED
      BY <3>1, SeqSteps DEF MessagesInv
  <2>3. ASSUME NEW p \in PeerId, PeerArrives(p) \/ PeerLeaves(p) PROVE MessagesInv'
    <3>1. /\ toClient' = toClient \/ Send(p, "online") \/ Send(p, "offline")
          /\ toServer' = toServer
      BY <2>3 DEF PeerArrives, PeerLeaves
    <3> QED
      BY <3>1, MessagesGrow DEF MessagesInv
  <2> QED
    BY <1>10, <2>1, <2>2, <2>3 DEF Server
<1>11. CASE UNCHANGED vars
  BY <1>00, <1>11 DEF vars
<1> QED
  BY <1>1, <1>2, <1>3, <1>4, <1>5, <1>6, <1>7, <1>8, <1>9, <1>10, <1>11, StepCases

(***************************************************************************)
(* waitingPeers.  A channel is in at most one entry, and a goroutine whose *)
(* channel nobody has touched finds it in the entry it made.               *)
(***************************************************************************)

WaitTypes ==
    /\ waiting \in [Gen -> [PeerId -> Call \cup {0}]]
    /\ waitCh \in [Call -> {"none", "empty", "online", "closed"}]

EntriesDiffer ==
    \A g, h \in Gen, p, q \in PeerId :
        waiting[g][p] # 0 /\ waiting[g][p] = waiting[h][q] => g = h /\ p = q

Waits(c) == cpc[c] \in {"subscribe", "select", "deregister"}

WaiterHasEntry ==
    \A c \in Caller : Waits(c) /\ waitCh[call[c]] = "empty" => waiting[sub[c]][target[c]] = call[c]

\* The channel is made when the call registers.
ChannelIsNew ==
    /\ \A k \in Call : k > calls => waitCh[k] = "none"
    /\ \A c \in Caller : cpc[c] = "register" => waitCh[call[c]] = "none"

WaitInv == WaitTypes /\ WaitersAreOpen /\ EntriesDiffer /\ WaiterHasEntry /\ ChannelIsNew

\* Entries leave the map together with the end of their channels.
Shrinks ==
    /\ WaitTypes'
    /\ \A g \in Gen, p \in PeerId : waiting'[g][p] \in {0, waiting[g][p]}
    /\ \A k \in Call :
           \/ /\ waitCh'[k] = waitCh[k]
              /\ \A g \in Gen, p \in PeerId : waiting[g][p] = k => waiting'[g][p] = k
           \/ /\ waitCh'[k] \in {"online", "closed"}
              /\ \E g \in Gen, p \in PeerId : waiting[g][p] = k
              /\ \A g \in Gen, p \in PeerId : waiting'[g][p] # k

\* No goroutine begins to wait.
NobodyJoins ==
    /\ calls' = calls
    /\ \A c \in Caller :
           /\ Waits(c)' => Waits(c) /\ call'[c] = call[c] /\ target'[c] = target[c] /\ sub'[c] = sub[c]
           /\ cpc'[c] = "register" => cpc[c] = "register" /\ call'[c] = call[c]

LEMMA ShrinkKeepsWaiters ==
    ASSUME CallInv, WaitInv, Shrinks, NobodyJoins
    PROVE  WaitInv'
<1>0. \A c \in Caller : Waits(c) => call[c] \in Call /\ sub[c] \in Gen /\ target[c] \in PeerId
  BY ClientConstants DEF Waits, CallInv, CallTypes, CallsStarted, Call
<1>1. WaitTypes'
  BY DEF Shrinks
<1>2. WaitersAreOpen'
  BY DEF WaitInv, WaitTypes, WaitersAreOpen, Shrinks
<1>3. EntriesDiffer'
  BY DEF WaitInv, EntriesDiffer, Shrinks
<1>4. WaiterHasEntry'
  <2> SUFFICES ASSUME NEW c \in Caller, Waits(c)', waitCh'[call'[c]] = "empty"
               PROVE  waiting'[sub'[c]][target'[c]] = call'[c]
    BY DEF WaiterHasEntry
  <2>1. Waits(c) /\ call'[c] = call[c] /\ target'[c] = target[c] /\ sub'[c] = sub[c]
    BY DEF NobodyJoins
  <2>2. waitCh[call[c]] = "empty" /\ \A g \in Gen, p \in PeerId : waiting[g][p] = call[c] => waiting'[g][p] = call[c]
    BY <1>0, <2>1 DEF Shrinks
  <2> QED
    BY <1>0, <2>1, <2>2 DEF WaitInv, WaiterHasEntry
<1>5. ChannelIsNew'
  <2>1. ASSUME NEW k \in Call, waitCh[k] = "none" PROVE waitCh'[k] = "none"
    BY <2>1 DEF Shrinks, WaitInv, WaitersAreOpen, WaitTypes, Call
  <2>2. \A c \in Caller : cpc[c] = "register" => call[c] \in Call
    BY ClientConstants DEF CallInv, CallTypes, CallsStarted, Call
  <2> QED
    BY <2>1, <2>2 DEF NobodyJoins, WaitInv, ChannelIsNew
<1> QED
  BY <1>1, <1>2, <1>3, <1>4, <1>5 DEF WaitInv

LEMMA OnlineShrinks ==
    ASSUME WaitInv, NEW g \in Gen, NEW p \in PeerId, OnPeersOnline(g, p)
    PROVE  Shrinks
  BY DEF WaitInv, WaitTypes, EntriesDiffer, OnPeersOnline, Shrinks, Call

LEMMA ForgetShrinks ==
    ASSUME WaitInv, NEW g \in Gen, NEW p \in PeerId, Forget(g, p)
    PROVE  Shrinks
  BY DEF WaitInv, WaitTypes, EntriesDiffer, Forget, Shrinks, Call

LEMMA CleanupShrinks ==
    ASSUME WaitInv, NEW g \in Gen, Cleanup(g)
    PROVE  Shrinks
  BY DEF WaitInv, WaitTypes, EntriesDiffer, Cleanup, Shrinks, Call

LEMMA StutterShrinks ==
    ASSUME WaitInv, UNCHANGED <<waiting, waitCh>>
    PROVE  Shrinks
  BY DEF WaitInv, WaitTypes, Shrinks

LEMMA WaitInvInit == Init => WaitInv
<1> SUFFICES ASSUME Init PROVE WaitInv
  OBVIOUS
<1>1. WaitTypes
  BY DEF Init, WaitTypes
<1>2. \A g \in Gen, p \in PeerId : waiting[g][p] = 0
  BY DEF Init
<1>3. \A c \in Caller : cpc[c] = "idle"
  BY DEF Init
<1>4. \A k \in Call : waitCh[k] = "none"
  BY DEF Init
<1>5. WaitersAreOpen /\ EntriesDiffer
  BY <1>2 DEF WaitersAreOpen, EntriesDiffer
<1>6. WaiterHasEntry /\ ChannelIsNew
  BY <1>3, <1>4 DEF WaiterHasEntry, Waits, ChannelIsNew
<1> QED
  BY <1>1, <1>5, <1>6 DEF WaitInv

\* A call that begins has no channel yet.
LEMMA OpenConnKeepsWaiters ==
    ASSUME CallInv, WaitInv, NEW c \in Caller, NEW p \in PeerId, OpenConn(c, p)
    PROVE  WaitInv'
<1>1. /\ UNCHANGED <<waiting, waitCh, sub>>
      /\ calls \in Nat /\ calls' = calls + 1 /\ calls' \in Call
      /\ cpc[c] = "idle" /\ cpc' = [cpc EXCEPT ![c] = "register"]
      /\ call' = [call EXCEPT ![c] = calls + 1]
      /\ target' = [target EXCEPT ![c] = p]
  BY ClientConstants DEF OpenConn, Goto, subVars, CallInv, CallTypes, Call
<1>2. \A d \in Caller : d # c => cpc'[d] = cpc[d] /\ call'[d] = call[d] /\ target'[d] = target[d]
  BY <1>1 DEF CallInv, CallTypes
<1>3. cpc'[c] = "register" /\ call'[c] = calls + 1
  BY <1>1 DEF CallInv, CallTypes
<1>4. WaitTypes' /\ WaitersAreOpen' /\ EntriesDiffer'
  BY <1>1 DEF WaitInv, WaitTypes, WaitersAreOpen, EntriesDiffer
<1>5. WaiterHasEntry'
  BY <1>1, <1>2, <1>3 DEF WaitInv, WaiterHasEntry, Waits
<1>6. waitCh[calls + 1] = "none"
  BY <1>1 DEF WaitInv, ChannelIsNew
<1>7. ChannelIsNew'
  BY <1>1, <1>2, <1>3, <1>6 DEF WaitInv, ChannelIsNew, Call
<1> QED
  BY <1>4, <1>5, <1>7 DEF WaitInv

\* An entry is made only where there is none, for a channel that is in no entry.
LEMMA RegisterKeepsWaiters ==
    ASSUME CallInv, ThreadInv, WaitInv, NEW c \in Caller, Register(c)
    PROVE  WaitInv'
<1> DEFINE k == call[c]
           p == target[c]
<1>1. gen \in Gen /\ p \in PeerId /\ k \in Call /\ k # 0 /\ waiting[gen][p] = 0
  BY ClientConstants DEF Register, CallInv, CallTypes, CallsStarted, ThreadInv, Gen, Call
<1>2. /\ waiting' = [waiting EXCEPT ![gen][p] = k]
      /\ waitCh' = [waitCh EXCEPT ![k] = "empty"]
      /\ sub' = [sub EXCEPT ![c] = gen]
      /\ cpc[c] = "register" /\ cpc' = [cpc EXCEPT ![c] = "subscribe"]
      /\ UNCHANGED <<call, target, calls>>
  BY DEF Register, Goto
<1>3. waitCh[k] = "none" /\ k <= calls
  BY <1>2 DEF WaitInv, ChannelIsNew, CallInv, CallTypes
<1>4. \A g \in Gen, q \in PeerId : waiting[g][q] # k
  BY <1>1, <1>3 DEF WaitInv, WaitersAreOpen
<1>5. WaitTypes'
  BY <1>1, <1>2 DEF WaitInv, WaitTypes
<1>6. \A g \in Gen, q \in PeerId : waiting'[g][q] = IF g = gen /\ q = p THEN k ELSE waiting[g][q]
  BY <1>1, <1>2 DEF WaitInv, WaitTypes
<1>7. \A j \in Call : waitCh'[j] = IF j = k THEN "empty" ELSE waitCh[j]
  BY <1>1, <1>2 DEF WaitInv, WaitTypes
<1>8. \A d \in Caller : d # c => cpc'[d] = cpc[d] /\ sub'[d] = sub[d] /\ call[d] # k
  BY <1>1, <1>2 DEF CallInv, CallTypes, CallsDiffer
<1>9. cpc'[c] = "subscribe" /\ sub'[c] = gen
  BY <1>1, <1>2 DEF CallInv, CallTypes
<1>10. WaitersAreOpen'
  <2> SUFFICES ASSUME NEW g \in Gen, NEW q \in PeerId, waiting'[g][q] # 0
               PROVE  waitCh'[waiting'[g][q]] = "empty"
    BY DEF WaitersAreOpen
  <2>1. CASE g = gen /\ q = p
    BY <1>1, <1>6, <1>7, <2>1
  <2>2. CASE ~ (g = gen /\ q = p)
    <3>1. waiting'[g][q] = waiting[g][q] /\ waiting[g][q] # k
      BY <1>4, <1>6, <2>2
    <3>2. waiting[g][q] \in Call /\ waitCh[waiting[g][q]] = "empty"
      BY <3>1 DEF WaitInv, WaitTypes, WaitersAreOpen
    <3> QED
      BY <1>7, <3>1, <3>2
  <2> QED
    BY <2>1, <2>2
<1>11. EntriesDiffer'
  BY <1>4, <1>6 DEF WaitInv, EntriesDiffer
<1>12. WaiterHasEntry'
  <2> SUFFICES ASSUME NEW d \in Caller, Waits(d)', waitCh'[call[d]] = "empty"
               PROVE  waiting'[sub'[d]][target[d]] = call[d]
    BY <1>2 DEF WaiterHasEntry
  <2>1. CASE d = c
    BY <1>1, <1>6, <1>9, <2>1
  <2>2. CASE d # c
    <3>1. Waits(d) /\ call[d] \in Call /\ sub[d] \in Gen /\ target[d] \in PeerId
      BY <1>8, <2>2, ClientConstants DEF Waits, CallInv, CallTypes, CallsStarted, Call
    <3>2. waiting[sub[d]][target[d]] = call[d]
      BY <1>7, <1>8, <2>2, <3>1 DEF WaitInv, WaiterHasEntry
    <3> QED
      BY <1>1, <1>6, <1>8, <2>2, <3>1, <3>2 DEF Call
  <2> QED
    BY <2>1, <2>2
<1>13. ChannelIsNew'
  <2>1. \A j \in Call : j > calls => j # k
    BY <1>3, <1>1 DEF CallInv, CallTypes, Call
  <2>2. \A d \in Caller : cpc'[d] = "register" => d # c /\ call[d] \in Call
    BY <1>8, <1>9, ClientConstants DEF CallInv, CallTypes, CallsStarted, Call
  <2> QED
    BY <1>2, <1>7, <1>8, <2>1, <2>2 DEF WaitInv, ChannelIsNew
<1> QED
  BY <1>5, <1>10, <1>11, <1>12, <1>13 DEF WaitInv

\* The goroutines of a connection run on the latest or an earlier one.
LEMMA ReaderHasGen ==
    ASSUME ThreadInv, NEW g \in Gen, pc[Reader(g)] # "none"
    PROVE  gen \in Gen
  BY ClientConstants DEF ThreadInv, Gen

LEMMA WaitInvNext ==
    ThreadInv /\ CallInv /\ OfflineInv /\ MessagesInv /\ WaitInv /\ [Next]_vars => WaitInv'
<1> SUFFICES ASSUME ThreadInv, CallInv, OfflineInv, MessagesInv, WaitInv, [Next]_vars PROVE WaitInv'
  OBVIOUS
<1>a. UNCHANGED <<cpc, call, target, sub, calls>> => NobodyJoins
  BY DEF NobodyJoins, Waits
<1>b. UNCHANGED <<waiting, waitCh, cpc, call, target, sub, calls>> => WaitInv'
  BY <1>a, StutterShrinks, ShrinkKeepsWaiters
<1> USE DEF others, callVars, subVars, relayVars, clientVars
<1>1. CASE Connect
  BY <1>b, <1>1 DEF Connect
<1>2. ASSUME NEW t \in Thread, CloseAgain(t) \/ CloseBegins(t) \/ CloseReturns(t) PROVE WaitInv'
  BY <1>b, <1>2 DEF CloseAgain, CloseBegins, CloseReturns
<1>3. CASE Close
  BY <1>b, <1>3 DEF Close
<1>4. ASSUME NEW g \in Gen,
             \/ ListenForStopEvents(g) \/ ConnBreaks(g) \/ CloseMsg(g) \/ ReadFails(g)
             \/ StopHealthCheck(g) \/ NotifyDisconnected(g)
      PROVE  WaitInv'
  BY <1>b, <1>4 DEF ListenForStopEvents, HealthCheckTimeout, OnTimeoutClosed, ContextDone, ConnBreaks,
                    CloseMsg, ReadFails, StopHealthCheck, NotifyDisconnected
<1>5. ASSUME NEW g \in Gen,
             PeersOnline(g) \/ PeersWentOffline(g) \/ CloseConnsByPeerID(g) \/ CleanupAndDone(g)
      PROVE  WaitInv'
  <2>1. gen \in Gen
    BY <1>5, ReaderHasGen DEF PeersOnline, PeersWentOffline, CloseConnsByPeerID, CleanupAndDone, Reading
  <2>2. CASE PeersOnline(g)
    <3>1. Head(toClient) \in Notice
      BY <2>2, SeqSteps DEF PeersOnline, Reading, MessagesInv
    <3>2. Head(toClient).peer \in PeerId
      BY <3>1 DEF Notice
    <3> QED
      BY <1>a, <2>1, <2>2, <3>2, OnlineShrinks, ShrinkKeepsWaiters DEF PeersOnline
  <2>3. CASE PeersWentOffline(g)
    BY <1>b, <2>3 DEF PeersWentOffline
  <2>4. CASE CloseConnsByPeerID(g)
    <3>1. offline[g] \in PeerId
      BY <2>4 DEF CloseConnsByPeerID, OfflineInv
    <3> QED
      BY <1>a, <2>1, <2>4, <3>1, ForgetShrinks, ShrinkKeepsWaiters DEF CloseConnsByPeerID, UnsubscribeStateChange
  <2>5. CASE CleanupAndDone(g)
    BY <1>a, <2>1, <2>5, CleanupShrinks, ShrinkKeepsWaiters DEF CleanupAndDone
  <2> QED
    BY <1>5, <2>2, <2>3, <2>4, <2>5
<1>6. ASSUME NEW c \in Caller, NEW p \in PeerId, OpenConn(c, p) PROVE WaitInv'
  BY <1>6, OpenConnKeepsWaiters
<1>7. ASSUME NEW c \in Caller, Register(c) \/ SubscribeFails(c) \/ Deregister(c) PROVE WaitInv'
  <2>1. CASE Register(c)
    BY <2>1, RegisterKeepsWaiters
  <2>2. CASE SubscribeFails(c) \/ Deregister(c)
    <3>1. sub[c] \in Gen /\ target[c] \in PeerId
      BY <2>2 DEF SubscribeFails, Deregister, CallInv, CallsStarted
    <3>2. Shrinks
      BY <2>2, <3>1, ForgetShrinks, StutterShrinks DEF SubscribeFails, Deregister, ForgetOwn
    <3>3. NobodyJoins
      BY <2>2 DEF SubscribeFails, Deregister, NobodyJoins, Waits, Goto, CallInv, CallTypes
    <3> QED
      BY <3>2, <3>3, ShrinkKeepsWaiters
  <2> QED
    BY <1>7, <2>1, <2>2
<1>8. ASSUME NEW c \in Caller,
             AlreadyWaiting(c) \/ Subscribe(c) \/ WaitEnds(c) \/ WaitTimesOut(c) \/ OpenConnReturns(c)
      PROVE  WaitInv'
  <2>1. NobodyJoins
    BY <1>8 DEF AlreadyWaiting, Subscribe, WaitEnds, WaitTimesOut, OpenConnReturns, NobodyJoins, Waits, Goto,
                CallInv, CallTypes
  <2>2. UNCHANGED <<waiting, waitCh>>
    BY <1>8 DEF AlreadyWaiting, Subscribe, WaitEnds, WaitTimesOut, OpenConnReturns
  <2> QED
    BY <2>1, <2>2, StutterShrinks, ShrinkKeepsWaiters
<1>9. ASSUME NEW c \in Caller, OpenConnFails(c) \/ CloseConn(c) PROVE WaitInv'
  <2>1. NobodyJoins
    BY <1>9 DEF OpenConnFails, CloseConn, Return, NobodyJoins, Waits, Goto, CallInv, CallTypes
  <2>2. Shrinks
    <3>1. gen \in Gen /\ target[c] \in PeerId
      BY <1>9, ClientConstants DEF OpenConnFails, CloseConn, CallInv, CallsStarted, ThreadInv, Gen
    <3> QED
      BY <1>9, <3>1, ForgetShrinks, StutterShrinks DEF OpenConnFails, CloseConn, UnsubscribeStateChange
  <2> QED
    BY <2>1, <2>2, ShrinkKeepsWaiters
<1>10. CASE Server
  BY <1>b, <1>10 DEF Server, HandleSubscribe, HandleUnsubscribe, PeerArrives, PeerLeaves
<1>11. CASE UNCHANGED vars
  BY <1>b, <1>11 DEF vars
<1> QED
  BY <1>1, <1>2, <1>3, <1>4, <1>5, <1>6, <1>7, <1>8, <1>9, <1>10, <1>11, StepCases

ClientInv == ThreadInv /\ RunInv /\ CallInv /\ OfflineInv /\ MessagesInv /\ WaitInv

LEMMA ClientInvHolds == Spec => []ClientInv
<1>1. Init => ClientInv
  <2>1. Init => MessagesInv
    BY DEF Init, MessagesInv
  <2> QED
    BY <2>1, ThreadInvInit, CallInvInit, OfflineInvInit, WaitInvInit DEF RunInv, Init, ClientInv
<1>2. ClientInv /\ [Next]_vars => ClientInv'
  BY ThreadInvNext, RunInvNext, CallInvNext, OfflineInvNext, MessagesInvNext, WaitInvNext DEF ClientInv
<1> QED
  BY <1>1, <1>2, PTL DEF Spec

\* No channel of a waiting OpenConn is closed twice, in any order of the notices, the
\* unsubscriptions, the timeouts and the end of the connection, and an OpenConn whose
\* channel nobody has signalled or closed can still be woken by a notice.
THEOREM WaitersServed == Spec => []WaitersAreServed
<1>1. ClientInv => WaitersAreOpen
  BY DEF ClientInv, WaitInv
<1>2. ClientInv => WaiterIsKnown
  BY DEF ClientInv, WaitInv, WaiterHasEntry, Waits, WaiterIsKnown
<1>3. ClientInv => WaitersAreServed
  BY <1>1, <1>2 DEF WaitersAreServed
<1> QED
  BY <1>3, ClientInvHolds, PTL
(***************************************************************************)
(* The read loops.  The one that has not reached its Done is that of the   *)
(* latest connection, since Connect waits for readLoopMutex and close      *)
(* holds it until the read loop is done.                                   *)
(***************************************************************************)

Looping == ReaderPhase \ {"none"}

ReadsLatest == \A g \in Gen : pc[Reader(g)] \in Looping => g = gen

CloseWaits == running \/ Locked \/ ReadLoopsDone

LoopInv == ReadsLatest /\ CloseWaits

\* A goroutine that moves without beginning a read loop or ending a close.
LEMMA MoveKeepsLoops ==
    ASSUME ThreadInv, LoopInv, NEW t \in Thread, NEW y \in ThreadPhase, UNCHANGED <<gen, running>>,
           pc' = [pc EXCEPT ![t] = y], pc[t] # "wait",
           y \in Looping => pc[t] \in Looping
    PROVE  LoopInv'
<1>1. \A s \in Thread : pc'[s] = IF s = t THEN y ELSE pc[s]
  BY DEF ThreadInv
<1>2. \A g \in Gen : Reader(g) \in Thread /\ (pc'[Reader(g)] \in Looping => pc[Reader(g)] \in Looping)
  BY <1>1, ThreadsDiffer
<1>3. ReadsLatest'
  BY <1>2 DEF LoopInv, ReadsLatest
<1>4. Locked => Locked'
  BY <1>1 DEF Locked
<1>5. ReadLoopsDone => ReadLoopsDone'
  BY <1>2 DEF ReadLoopsDone, Looping
<1> QED
  BY <1>3, <1>4, <1>5 DEF LoopInv, CloseWaits

LEMMA LoopInvNext == ThreadInv /\ LoopInv /\ [Next]_vars => LoopInv'
<1> SUFFICES ASSUME ThreadInv, LoopInv, [Next]_vars PROVE LoopInv'
  OBVIOUS
<1>0. UNCHANGED <<pc, gen, running>> => LoopInv'
  BY DEF LoopInv, ReadsLatest, CloseWaits, Locked, ReadLoopsDone
<1>00. /\ Looping = {"read", "offline", "stop", "cleanup"}
       /\ ThreadPhase = {"none", "read", "offline", "stop", "cleanup", "select", "lock", "wait", "notify", "gone"}
  BY DEF Looping, ThreadPhase, ReaderPhase
<1> USE DEF clientVars, relayVars
<1>1. CASE Connect
  <2>1. /\ gen' = gen + 1 /\ running' = TRUE
        /\ pc' = [pc EXCEPT ![Reader(gen + 1)] = "read", ![Listener(gen + 1)] = "select"]
        /\ ReadLoopsDone
    BY <1>1 DEF Connect, LoopInv, CloseWaits
  <2>2. ASSUME NEW g \in Gen, pc'[Reader(g)] \in Looping PROVE g = gen + 1
    <3>1. pc[Reader(g)] \notin Looping /\ Reader(g) \in Thread
      BY <2>1, ThreadsDiffer DEF ReadLoopsDone, Looping
    <3>2. Reader(g) # Listener(gen + 1) /\ (g # gen + 1 => Reader(g) # Reader(gen + 1))
      BY DEF Reader, Listener
    <3> QED
      BY <2>1, <2>2, <3>1, <3>2 DEF ThreadInv
  <2> QED
    BY <2>1, <2>2 DEF LoopInv, ReadsLatest, CloseWaits
<1>2. ASSUME NEW t \in Thread, CloseAgain(t) \/ CloseBegins(t) \/ CloseReturns(t) PROVE LoopInv'
  <2>1. CASE CloseBegins(t)
    <3>1. /\ gen' = gen /\ pc' = [pc EXCEPT ![t] = "wait"]
      BY <2>1 DEF CloseBegins
    <3>2. \A s \in Thread : pc'[s] = IF s = t THEN "wait" ELSE pc[s]
      BY <3>1 DEF ThreadInv
    <3>3. ReadsLatest'
      BY <1>00, <3>1, <3>2, ThreadsDiffer DEF LoopInv, ReadsLatest
    <3>4. Locked'
      BY <3>2 DEF Locked
    <3> QED
      BY <3>3, <3>4 DEF LoopInv, CloseWaits
  <2>2. CASE CloseAgain(t) \/ CloseReturns(t)
    <3>1. AfterClose(t) \notin Looping
      BY <1>00 DEF AfterClose
    <3>2. ReadLoopsDone /\ pc' = [pc EXCEPT ![t] = AfterClose(t)]
      BY <2>2 DEF CloseAgain, CloseReturns, LoopInv, CloseWaits
    <3>3. \A g \in Gen : pc'[Reader(g)] \notin Looping
      BY <3>1, <3>2, ThreadsDiffer DEF ReadLoopsDone, Looping, ThreadInv
    <3> QED
      BY <3>3 DEF LoopInv, ReadsLatest, CloseWaits, ReadLoopsDone, Looping
  <2> QED
    BY <1>2, <2>1, <2>2
<1>3. CASE Close
  BY <1>3, <1>00, MoveKeepsLoops, ThreadsDiffer DEF Close
<1>4. ASSUME NEW g \in Gen,
             \/ ListenForStopEvents(g) \/ ConnBreaks(g) \/ CloseMsg(g) \/ ReadFails(g)
             \/ StopHealthCheck(g) \/ NotifyDisconnected(g)
      PROVE  LoopInv'
  <2>1. CASE ConnBreaks(g)
    BY <1>0, <2>1 DEF ConnBreaks
  <2>2. CASE ListenForStopEvents(g)
    BY <1>00, <2>2, MoveKeepsLoops, ThreadsDiffer
       DEF ListenForStopEvents, HealthCheckTimeout, OnTimeoutClosed, ContextDone
  <2>3. CASE CloseMsg(g) \/ ReadFails(g) \/ StopHealthCheck(g) \/ NotifyDisconnected(g)
    BY <1>00, <2>3, MoveKeepsLoops, ThreadsDiffer DEF CloseMsg, ReadFails, StopHealthCheck, NotifyDisconnected
  <2> QED
    BY <1>4, <2>1, <2>2, <2>3
<1>5. ASSUME NEW g \in Gen,
             PeersOnline(g) \/ PeersWentOffline(g) \/ CloseConnsByPeerID(g) \/ CleanupAndDone(g)
      PROVE  LoopInv'
  <2>1. CASE PeersOnline(g)
    BY <1>0, <2>1 DEF PeersOnline
  <2>2. CASE PeersWentOffline(g)
    BY <1>0, <1>00, <2>2, MoveKeepsLoops, ThreadsDiffer DEF PeersWentOffline, Reading
  <2>3. CASE CloseConnsByPeerID(g) \/ CleanupAndDone(g)
    BY <1>00, <2>3, MoveKeepsLoops, ThreadsDiffer DEF CloseConnsByPeerID, CleanupAndDone
  <2> QED
    BY <1>5, <2>1, <2>2, <2>3
<1>6. ASSUME NEW c \in Caller, NEW p \in PeerId, OpenConn(c, p) PROVE LoopInv'
  BY <1>0, <1>6 DEF OpenConn
<1>7. ASSUME NEW c \in Caller, Register(c) \/ SubscribeFails(c) \/ Deregister(c) PROVE LoopInv'
  BY <1>0, <1>7 DEF Register, SubscribeFails, Deregister
<1>8. ASSUME NEW c \in Caller,
             AlreadyWaiting(c) \/ Subscribe(c) \/ WaitEnds(c) \/ WaitTimesOut(c) \/ OpenConnReturns(c)
      PROVE  LoopInv'
  BY <1>0, <1>8 DEF AlreadyWaiting, Subscribe, WaitEnds, WaitTimesOut, OpenConnReturns
<1>9. ASSUME NEW c \in Caller, OpenConnFails(c) \/ CloseConn(c) PROVE LoopInv'
  BY <1>0, <1>9 DEF OpenConnFails, CloseConn
<1>10. CASE Server
  BY <1>0, <1>10 DEF Server, HandleSubscribe, HandleUnsubscribe, PeerArrives, PeerLeaves
<1>11. CASE UNCHANGED vars
  BY <1>0, <1>11 DEF vars
<1> QED
  BY <1>1, <1>2, <1>3, <1>4, <1>5, <1>6, <1>7, <1>8, <1>9, <1>10, <1>11, StepCases

\* Only a Connect starts a read loop: a connection that serves after any other step served before.
LEMMA ServingEnds ==
    ASSUME ThreadInv, LoopInv, [Next]_vars, Serving'
    PROVE  Connect \/ (Serving /\ gen' = gen)
<1> SUFFICES ASSUME ~ Connect PROVE Serving /\ gen' = gen
  OBVIOUS
<1>1. PICK g \in connUp' : pc'[Reader(g)] \in {"read", "offline"}
  BY DEF Serving
<1> USE DEF clientVars, relayVars
<1>2. connUp' \subseteq connUp /\ gen' = gen
  BY DEF Next, vars, Closing, ReadLoop, ReadLoopEnds, UserOf,
     WaitToBeOnlineAndSubscribe, Server, ListenForStopEvents, HealthCheckTimeout, OnTimeoutClosed,
     ContextDone, ConnBreaks, CloseMsg, ReadFails, StopHealthCheck, NotifyDisconnected, PeersOnline,
     PeersWentOffline, CloseConnsByPeerID, CleanupAndDone, OpenConn, Register, SubscribeFails, Deregister,
     AlreadyWaiting, Subscribe, WaitEnds, WaitTimesOut, OpenConnReturns, OpenConnFails, CloseConn,
     HandleSubscribe, HandleUnsubscribe, PeerArrives, PeerLeaves, CloseAgain, CloseBegins, CloseReturns, Close
<1>3. g \in connUp /\ g \in Gen
  BY <1>1, <1>2, ClientConstants DEF ThreadInv, Gen
<1>4. pc[Reader(g)] \in {"read", "offline"}
  <2> USE <1>1, <1>3, ThreadsDiffer DEF ThreadInv
  <2>0. pc' = pc => pc[Reader(g)] \in {"read", "offline"}
    OBVIOUS
  <2>2. ASSUME NEW t \in Thread, CloseAgain(t) \/ CloseBegins(t) \/ CloseReturns(t)
        PROVE  pc[Reader(g)] \in {"read", "offline"}
    <3>1. AfterClose(t) \notin {"read", "offline"}
      BY DEF AfterClose
    <3> QED
      BY <2>2, <3>1 DEF CloseAgain, CloseBegins, CloseReturns
  <2>3. CASE Close
    BY <2>3 DEF Close
  <2>4. ASSUME NEW h \in Gen,
               \/ ListenForStopEvents(h) \/ ConnBreaks(h) \/ CloseMsg(h) \/ ReadFails(h)
               \/ StopHealthCheck(h) \/ NotifyDisconnected(h)
        PROVE  pc[Reader(g)] \in {"read", "offline"}
    <3>1. CASE ListenForStopEvents(h)
      BY <3>1 DEF ListenForStopEvents, HealthCheckTimeout, OnTimeoutClosed, ContextDone
    <3>2. CASE ConnBreaks(h)
      BY <2>0, <3>2 DEF ConnBreaks
    <3>3. CASE CloseMsg(h) \/ ReadFails(h) \/ StopHealthCheck(h) \/ NotifyDisconnected(h)
      BY <3>3 DEF CloseMsg, ReadFails, StopHealthCheck, NotifyDisconnected
    <3> QED
      BY <2>4, <3>1, <3>2, <3>3
  <2>5. ASSUME NEW h \in Gen,
               PeersOnline(h) \/ PeersWentOffline(h) \/ CloseConnsByPeerID(h) \/ CleanupAndDone(h)
        PROVE  pc[Reader(g)] \in {"read", "offline"}
    BY <2>0, <2>5 DEF PeersOnline, PeersWentOffline, Reading, CloseConnsByPeerID, CleanupAndDone
  <2>6. ASSUME NEW c \in Caller, UserOf(c) PROVE pc' = pc
    BY <2>6 DEF UserOf, WaitToBeOnlineAndSubscribe, OpenConn, Register, SubscribeFails, Deregister,
       AlreadyWaiting, Subscribe, WaitEnds, WaitTimesOut, OpenConnReturns, OpenConnFails, CloseConn
  <2>7. CASE Server \/ UNCHANGED vars
    BY <2>0, <2>7 DEF Server, HandleSubscribe, HandleUnsubscribe, PeerArrives, PeerLeaves, vars
  <2> QED
    BY <2>0, <2>2, <2>3, <2>4, <2>5, <2>6, <2>7 DEF Next, Closing, ReadLoop, ReadLoopEnds
<1> QED
  BY <1>2, <1>3, <1>4 DEF Serving

(***************************************************************************)
(* The departure of a peer.  Only who closes the Conn to a peer, or fails  *)
(* to open one, unsubscribes from it.                                      *)
(***************************************************************************)

LEMMA RequestWritten ==
    ASSUME MessagesInv, NEW p \in PeerId, NEW m \in Request,
           toServer' = Append(toServer, m), interestOff' = interestOff,
           m = [type |-> "sub", peer |-> p] \/ (WillBeInterested(p) /\ m.peer # p)
    PROVE  WillBeInterested(p)'
<1>1. /\ Len(toServer) \in Nat /\ Len(toServer') = Len(toServer) + 1
      /\ DOMAIN toServer = 1 .. Len(toServer) /\ DOMAIN toServer' = 1 .. Len(toServer) + 1
      /\ toServer'[Len(toServer) + 1] = m
      /\ \A i \in DOMAIN toServer : toServer'[i] = toServer[i]
  BY DEF MessagesInv
<1>2. CASE m = [type |-> "sub", peer |-> p]
  <2>1. \A j \in Len(toServer) + 1 + 1 .. Len(toServer') : toServer'[j].peer # p
    BY <1>1
  <2>2. Len(toServer) + 1 \in DOMAIN toServer'
    BY <1>1
  <2> QED
    BY <1>1, <1>2, <2>1, <2>2 DEF WillBeInterested
<1>3. CASE m.peer # p /\ p \in interestOff /\ \A i \in DOMAIN toServer : toServer[i].peer # p
  BY <1>1, <1>3 DEF WillBeInterested
<1>4. ASSUME m.peer # p, NEW i \in DOMAIN toServer, toServer[i] = [type |-> "sub", peer |-> p],
             \A j \in i + 1 .. Len(toServer) : toServer[j].peer # p
      PROVE  WillBeInterested(p)'
  <2>1. \A j \in i + 1 .. Len(toServer') : toServer'[j].peer # p
    BY <1>1, <1>4
  <2>2. i \in DOMAIN toServer' /\ toServer'[i] = [type |-> "sub", peer |-> p]
    BY <1>1, <1>4
  <2> QED
    BY <2>1, <2>2 DEF WillBeInterested
<1> QED
  BY <1>2, <1>3, <1>4 DEF WillBeInterested

LEMMA RequestRead ==
    ASSUME MessagesInv, toServer # <<>>, toServer' = Tail(toServer), NEW p \in PeerId, WillBeInterested(p),
           Head(toServer).type = "sub" => interestOff' = interestOff \cup {Head(toServer).peer},
           Head(toServer).type = "unsub" => interestOff' = interestOff \ {Head(toServer).peer}
    PROVE  WillBeInterested(p)'
<1>1. /\ Len(toServer) \in Nat \ {0} /\ Len(toServer') = Len(toServer) - 1
      /\ DOMAIN toServer = 1 .. Len(toServer) /\ DOMAIN toServer' = 1 .. Len(toServer) - 1
      /\ \A i \in DOMAIN toServer' : toServer'[i] = toServer[i + 1]
      /\ Head(toServer) = toServer[1] /\ toServer[1] \in Request
  BY DEF MessagesInv
<1>2. Head(toServer).type \in {"sub", "unsub"}
  BY <1>1 DEF Request
<1>3. CASE p \in interestOff /\ \A i \in DOMAIN toServer : toServer[i].peer # p
  <2>1. Head(toServer).peer # p
    BY <1>1, <1>3
  <2>2. p \in interestOff'
    BY <1>2, <1>3, <2>1
  <2> QED
    BY <1>1, <1>3, <2>2 DEF WillBeInterested
<1>4. ASSUME NEW i \in DOMAIN toServer, toServer[i] = [type |-> "sub", peer |-> p],
             \A j \in i + 1 .. Len(toServer) : toServer[j].peer # p
      PROVE  WillBeInterested(p)'
  <2>1. CASE i = 1
    <3>1. p \in interestOff'
      BY <1>1, <1>4, <2>1
    <3>2. \A j \in DOMAIN toServer' : toServer'[j].peer # p
      BY <1>1, <1>4, <2>1
    <3> QED
      BY <3>1, <3>2 DEF WillBeInterested
  <2>2. CASE i # 1
    <3>1. i - 1 \in DOMAIN toServer' /\ toServer'[i - 1] = [type |-> "sub", peer |-> p]
      BY <1>1, <1>4, <2>2
    <3>2. \A j \in i - 1 + 1 .. Len(toServer') : toServer'[j].peer # p
      BY <1>1, <1>4, <2>2
    <3> QED
      BY <3>1, <3>2 DEF WillBeInterested
  <2> QED
    BY <2>1, <2>2
<1> QED
  BY <1>3, <1>4 DEF WillBeInterested

\* The call has its place in c.conns.
Live(c) == call[c] # 0 /\ container[call[c]] = "open"

Followed(c) ==
    /\ cpc[c] = "subscribe" => sub[c] = gen /\ target[c] \in listen[gen]
    /\ cpc[c] \in {"select", "recheck", "open"} => target[c] \in listen[gen] /\ WillBeInterested(target[c])

FollowInv == \A c \in Caller : Live(c) /\ Serving => Followed(c)

NoDeregister == \A c \in Caller : cpc[c] # "deregister"

\* What is left of an invariant of one caller when it does not move itself.
LEMMA FollowedStays ==
    ASSUME NEW c \in Caller, Followed(c),
           cpc'[c] = cpc[c], target'[c] = target[c], sub'[c] = sub[c], gen' = gen,
           target[c] \in listen[gen] => target[c] \in listen'[gen],
           WillBeInterested(target[c]) => WillBeInterested(target[c])'
    PROVE  Followed(c)'
  BY DEF Followed, WillBeInterested

LEMMA FollowInvNext ==
    ASSUME "timeout" \notin May, ThreadInv, CallInv, OfflineInv, ConnsInv, MessagesInv, LoopInv,
           NoDeregister, FollowInv, [Next]_vars
    PROVE  FollowInv'
<1> SUFFICES ASSUME NEW c \in Caller, Live(c)', Serving' PROVE Followed(c)'
  BY DEF FollowInv
<1> DEFINE p == target[c]
<1>a. Connect \/ (Serving /\ gen' = gen)
  BY ServingEnds
<1>b. ASSUME Serving PROVE gen \in Gen /\ gen \in connUp
  <2>1. PICK g \in connUp : pc[Reader(g)] \in {"read", "offline"}
    BY <1>b DEF Serving
  <2>2. g \in Gen /\ gen \in Gen
    BY <2>1, ClientConstants DEF ThreadInv, Gen
  <2>3. g = gen
    BY <2>1, <2>2 DEF LoopInv, ReadsLatest, Looping, ReaderPhase
  <2> QED
    BY <2>1, <2>2, <2>3
<1>c. ASSUME Live(c) PROVE call[c] \in Call /\ p \in PeerId /\ conns[p] = call[c] /\ running
  <2>1. call[c] \in Call /\ p \in PeerId
    BY <1>c, ClientConstants DEF Live, CallInv, CallTypes, CallsStarted, Call
  <2> QED
    BY <1>c, <2>1 DEF Live, ConnsInv, LiveIsEntry, EntriesAreLive
<1>d. ASSUME UNCHANGED <<cpc, call, target, sub, container, listen, toServer, interestOff>>, ~ Connect
      PROVE  Followed(c)'
  BY <1>a, <1>d DEF FollowInv, Live, Followed, WillBeInterested
<1> USE DEF others, connVars, callVars, subVars, serverVars, relayVars, clientVars
<1>1. CASE Connect
  <2>1. Live(c) /\ ~ running
    BY <1>1 DEF Connect, Live
  <2> QED
    BY <1>c, <2>1
<1>2. ASSUME NEW t \in Thread, CloseAgain(t) \/ CloseBegins(t) \/ CloseReturns(t), ~ Connect PROVE Followed(c)'
  <2>1. CASE CloseAgain(t) \/ CloseReturns(t)
    BY <1>d, <1>2, <2>1 DEF CloseAgain, CloseReturns
  <2>2. CASE CloseBegins(t)
    <3>1. call' = call /\ container'[call[c]] = "open" /\ call[c] # 0
      BY <2>2 DEF CloseBegins, Live
    <3>2. call[c] \in Call
      BY <3>1, ClientConstants DEF CallInv, CallTypes, Call
    <3>3. call[c] \notin {conns[q] : q \in PeerId} \ {0} /\ container[call[c]] = "open"
      BY <2>2, <3>1, <3>2 DEF CloseBegins, Release
    <3>4. conns[p] = call[c] /\ p \in PeerId
      BY <1>c, <3>1, <3>3 DEF Live
    <3> QED
      BY <3>1, <3>3, <3>4
  <2> QED
    BY <1>2, <2>1, <2>2
<1>3. CASE Close /\ ~ Connect
  BY <1>d, <1>3 DEF Close
<1>4. ASSUME NEW g \in Gen, ~ Connect,
             \/ ListenForStopEvents(g) \/ ConnBreaks(g) \/ CloseMsg(g) \/ ReadFails(g)
             \/ StopHealthCheck(g) \/ NotifyDisconnected(g)
      PROVE  Followed(c)'
  BY <1>d, <1>4 DEF ListenForStopEvents, HealthCheckTimeout, OnTimeoutClosed, ContextDone, ConnBreaks,
                    CloseMsg, ReadFails, StopHealthCheck, NotifyDisconnected
<1>5. ASSUME NEW g \in Gen, ~ Connect,
             PeersOnline(g) \/ PeersWentOffline(g) \/ CloseConnsByPeerID(g) \/ CleanupAndDone(g)
      PROVE  Followed(c)'
  <2>1. CASE PeersOnline(g) \/ PeersWentOffline(g)
    BY <1>d, <1>5, <2>1 DEF PeersOnline, OnPeersOnline, PeersWentOffline
  <2>2. CASE CloseConnsByPeerID(g)
    <3> DEFINE q == offline[g]
    <3>1. q \in PeerId /\ g = gen
      BY <2>2 DEF CloseConnsByPeerID, OfflineInv, LoopInv, ReadsLatest, Looping, ReaderPhase
    <3>2. UNCHANGED <<cpc, call, target, sub, interestOff>>
      BY <2>2 DEF CloseConnsByPeerID
    <3>3. call[c] \in Call /\ call[c] # 0 /\ container'[call[c]] = "open"
      BY <3>2, ClientConstants DEF Live, CallInv, CallTypes, Call
    <3>4. Live(c) /\ call[c] # conns[q]
      BY <2>2, <3>3 DEF Live, CloseConnsByPeerID, Release
    <3>5. p # q /\ p \in PeerId
      BY <1>c, <3>4
    <3>6. Followed(c)
      BY <1>a, <1>5, <3>4 DEF FollowInv
    <3>7. p \in listen[gen] => p \in listen'[gen]
      BY <2>2, <3>1, <3>5 DEF CloseConnsByPeerID, UnsubscribeStateChange, Forget, OfflineInv
    <3>8. [type |-> "unsub", peer |-> q] \in Request
      BY <3>1 DEF Request
    <3>9. WillBeInterested(p) => WillBeInterested(p)'
      <4>1. CASE toServer' = toServer
        BY <3>2, <4>1 DEF WillBeInterested
      <4>2. CASE toServer' = Append(toServer, [type |-> "unsub", peer |-> q])
        BY <3>2, <3>5, <3>8, <4>2, RequestWritten
      <4> QED
        BY <2>2, <4>1, <4>2 DEF CloseConnsByPeerID, UnsubscribeStateChange, Write
    <3> QED
      BY <1>a, <1>5, <3>2, <3>6, <3>7, <3>9, FollowedStays
  <2>3. CASE CleanupAndDone(g)
    <3>1. g = gen /\ pc' = [pc EXCEPT ![Reader(g)] = "lock"] /\ gen' = gen
      BY <2>3 DEF CleanupAndDone, LoopInv, ReadsLatest, Looping, ReaderPhase
    <3>2. PICK h \in connUp' : pc'[Reader(h)] \in {"read", "offline"}
      BY DEF Serving
    <3>3. LoopInv' /\ ThreadInv'
      BY LoopInvNext, ThreadInvNext
    <3>4. h \in Gen
      BY <3>2, <3>3, ClientConstants DEF ThreadInv, Gen
    <3>5. h = gen
      BY <3>1, <3>2, <3>3, <3>4 DEF LoopInv, ReadsLatest, Looping, ReaderPhase
    <3>6. pc'[Reader(gen)] = "lock"
      BY <3>1, ThreadsDiffer DEF ThreadInv
    <3> QED
      BY <3>2, <3>5, <3>6
  <2> QED
    BY <1>5, <2>1, <2>2, <2>3
<1>6. ASSUME NEW d \in Caller, NEW q \in PeerId, OpenConn(d, q), ~ Connect PROVE Followed(c)'
  <2>1. CASE c = d
    <3>1. cpc'[c] = "register"
      BY <1>6, <2>1 DEF OpenConn, Goto, CallInv, CallTypes
    <3> QED
      BY <3>1 DEF Followed
  <2>2. CASE c # d
    <3>1. /\ cpc'[c] = cpc[c] /\ target'[c] = target[c] /\ sub'[c] = sub[c] /\ call'[c] = call[c]
          /\ UNCHANGED <<listen, toServer, interestOff>>
      BY <1>6, <2>2 DEF OpenConn, Goto, CallInv, CallTypes
    <3>2. call[c] # calls + 1 /\ call[c] # 0 /\ call[c] \in Call
      BY <3>1, ClientConstants DEF Live, CallInv, CallTypes, Call
    <3>3. Live(c)
      BY <1>6, <3>1, <3>2 DEF Live, OpenConn, ConnsInv, ConnTypes
    <3>4. Followed(c)
      BY <1>a, <1>6, <3>3 DEF FollowInv
    <3> QED
      BY <1>a, <1>6, <3>1, <3>4 DEF Followed, WillBeInterested
  <2> QED
    BY <2>1, <2>2
<1>7. ASSUME NEW d \in Caller, Register(d) \/ SubscribeFails(d) \/ Deregister(d), ~ Connect PROVE Followed(c)'
  <2>0. Serving /\ gen' = gen /\ gen \in Gen /\ gen \in connUp
    BY <1>a, <1>b, <1>7
  <2>1. /\ UNCHANGED <<call, target, container, toServer, interestOff>>
        /\ c # d => cpc'[c] = cpc[c] /\ sub'[c] = sub[c]
    BY <1>7 DEF Register, SubscribeFails, Deregister, Goto, CallInv, CallTypes
  <2>2. Live(c) /\ Followed(c)
    BY <2>0, <2>1 DEF Live, FollowInv
  <2>3. CASE Register(d)
    <3>1. listen' = [listen EXCEPT ![gen] = @ \cup {target[d]}]
      BY <2>3 DEF Register
    <3>2. p \in listen[gen] => p \in listen'[gen]
      BY <2>0, <3>1 DEF OfflineInv
    <3>3. CASE c # d
      BY <2>0, <2>1, <2>2, <3>2, <3>3 DEF Followed, WillBeInterested
    <3>4. CASE c = d
      <4>1. cpc'[c] = "subscribe" /\ sub'[c] = gen
        BY <2>3, <3>4 DEF Register, Goto, CallInv, CallTypes
      <4>2. p \in listen'[gen]
        BY <2>0, <3>1, <3>4 DEF OfflineInv
      <4> QED
        BY <2>0, <2>1, <4>1, <4>2 DEF Followed
    <3> QED
      BY <3>3, <3>4
  <2>4. CASE SubscribeFails(d)
    <3>1. CASE c = d
      <4>1. cpc'[c] = "fail"
        BY <2>4, <3>1 DEF SubscribeFails, Goto, CallInv, CallTypes
      <4> QED
        BY <4>1 DEF Followed
    <3>2. CASE c # d
      <4>1. sub[d] # gen
        BY <2>0, <2>4 DEF SubscribeFails
      <4>2. listen'[gen] = listen[gen]
        BY <2>0, <2>4, <4>1 DEF SubscribeFails, ForgetOwn, Forget, OfflineInv
      <4> QED
        BY <2>0, <2>1, <2>2, <3>2, <4>2 DEF Followed, WillBeInterested
    <3> QED
      BY <3>1, <3>2
  <2>5. CASE Deregister(d)
    BY <2>5 DEF Deregister, NoDeregister
  <2> QED
    BY <1>7, <2>3, <2>4, <2>5
<1>8. ASSUME NEW d \in Caller, ~ Connect,
             AlreadyWaiting(d) \/ Subscribe(d) \/ WaitEnds(d) \/ WaitTimesOut(d) \/ OpenConnReturns(d)
      PROVE  Followed(c)'
  <2>0. Serving /\ gen' = gen
    BY <1>a, <1>8
  <2>1. /\ UNCHANGED <<call, target, sub, container, listen, interestOff>>
        /\ c # d => cpc'[c] = cpc[c]
    BY <1>8 DEF AlreadyWaiting, Subscribe, WaitEnds, WaitTimesOut, OpenConnReturns, Goto, CallInv, CallTypes
  <2>2. Live(c) /\ Followed(c) /\ p \in PeerId
    BY <1>c, <2>0, <2>1 DEF Live, FollowInv
  <2>3. CASE Subscribe(d)
    <3>1. target[d] \in PeerId /\ toServer' = Append(toServer, [type |-> "sub", peer |-> target[d]])
      BY <2>3 DEF Subscribe, Write, CallInv, CallsStarted
    <3>2. [type |-> "sub", peer |-> target[d]] \in Request
      BY <3>1 DEF Request
    <3>3. WillBeInterested(p) \/ p = target[d] => WillBeInterested(p)'
      BY <2>1, <2>2, <3>1, <3>2, RequestWritten
    <3>4. CASE c # d
      BY <2>0, <2>1, <2>2, <3>3, <3>4, FollowedStays
    <3>5. CASE c = d
      <4>1. cpc[c] = "subscribe" /\ cpc'[c] = "select"
        BY <2>3, <3>5 DEF Subscribe, Goto, CallInv, CallTypes
      <4>2. p \in listen'[gen] /\ WillBeInterested(p)'
        BY <2>1, <2>2, <3>3, <3>5, <4>1 DEF Followed
      <4> QED
        BY <2>0, <2>1, <4>1, <4>2 DEF Followed, WillBeInterested
    <3> QED
      BY <3>4, <3>5
  <2>4. CASE WaitTimesOut(d)
    BY <2>4 DEF WaitTimesOut
  <2>5. CASE AlreadyWaiting(d) \/ WaitEnds(d) \/ OpenConnReturns(d)
    <3>1. /\ toServer' = toServer
          /\ \/ cpc'[c] \in {cpc[c], "fail"}
             \/ cpc[c] \in {"select", "recheck"} /\ cpc'[c] \in {"recheck", "open"}
      BY <2>5 DEF AlreadyWaiting, WaitEnds, OpenConnReturns, Goto, CallInv, CallTypes
    <3> QED
      BY <2>0, <2>1, <2>2, <3>1 DEF Followed, WillBeInterested
  <2> QED
    BY <1>8, <2>3, <2>4, <2>5
<1>9. ASSUME NEW d \in Caller, OpenConnFails(d) \/ CloseConn(d), ~ Connect PROVE Followed(c)'
  <2>0. Serving /\ gen' = gen /\ gen \in Gen
    BY <1>a, <1>b, <1>9
  <2>1. call'[d] = 0 /\ call[d] # 0 /\ target[d] \in PeerId /\ interestOff' = interestOff
    BY <1>9 DEF OpenConnFails, CloseConn, Return, CallInv, CallTypes, CallsStarted
  <2>2. c # d
    BY <2>1 DEF Live
  <2>3. cpc'[c] = cpc[c] /\ call'[c] = call[c] /\ target'[c] = target[c] /\ sub'[c] = sub[c]
    BY <1>9, <2>2 DEF OpenConnFails, CloseConn, Return, Goto, CallInv, CallTypes
  <2>4. call[c] \in Call /\ call[c] # 0 /\ call[c] # call[d]
    BY <2>2, <2>3, ClientConstants DEF Live, CallInv, CallTypes, CallsDiffer, Call
  <2>5. Live(c)
    BY <1>9, <2>3, <2>4 DEF Live, OpenConnFails, CloseConn, Release
  <2>6. Followed(c) /\ p \in PeerId /\ conns[p] = call[c]
    BY <1>c, <2>0, <2>5 DEF FollowInv
  <2>7. CASE UNCHANGED <<listen, toServer>>
    BY <2>0, <2>1, <2>3, <2>6, <2>7 DEF Followed, WillBeInterested
  <2>8. CASE conns[target[d]] = call[d] /\ UnsubscribeStateChange(gen, target[d])
    <3>1. p # target[d]
      BY <2>4, <2>6, <2>8
    <3>2. p \in listen[gen] => p \in listen'[gen]
      BY <2>0, <2>8, <3>1 DEF UnsubscribeStateChange, Forget, OfflineInv
    <3>3. [type |-> "unsub", peer |-> target[d]] \in Request
      BY <2>1 DEF Request
    <3>4. WillBeInterested(p) => WillBeInterested(p)'
      <4>1. CASE toServer' = toServer
        BY <2>1, <2>3, <4>1 DEF WillBeInterested
      <4>2. CASE toServer' = Append(toServer, [type |-> "unsub", peer |-> target[d]])
        BY <2>1, <2>3, <2>6, <3>1, <3>3, <4>2, RequestWritten
      <4> QED
        BY <2>8, <4>1, <4>2 DEF UnsubscribeStateChange, Write
    <3> QED
      BY <2>0, <2>3, <2>6, <3>2, <3>4, FollowedStays
  <2> QED
    BY <1>9, <2>7, <2>8 DEF OpenConnFails, CloseConn
<1>10. CASE Server /\ ~ Connect
  <2>0. Serving /\ gen' = gen
    BY <1>a, <1>10
  <2>1. UNCHANGED <<cpc, call, target, sub, container, listen>>
    BY <1>10 DEF Server, HandleSubscribe, HandleUnsubscribe, PeerArrives, PeerLeaves
  <2>2. Live(c) /\ Followed(c) /\ p \in PeerId
    BY <1>c, <2>0, <2>1 DEF Live, FollowInv
  <2>3. CASE \E q \in PeerId : PeerArrives(q) \/ PeerLeaves(q)
    BY <1>d, <1>10, <2>3 DEF PeerArrives, PeerLeaves
  <2>4. CASE HandleSubscribe \/ HandleUnsubscribe
    <3>1. /\ toServer # <<>> /\ toServer' = Tail(toServer)
          /\ Head(toServer).type = "sub" => interestOff' = interestOff \cup {Head(toServer).peer}
          /\ Head(toServer).type = "unsub" => interestOff' = interestOff \ {Head(toServer).peer}
      BY <2>4 DEF HandleSubscribe, HandleUnsubscribe
    <3>2. WillBeInterested(p) => WillBeInterested(p)'
      BY <2>1, <2>2, <3>1, RequestRead
    <3> QED
      BY <2>0, <2>1, <2>2, <3>2, FollowedStays
  <2> QED
    BY <1>10, <2>3, <2>4 DEF Server
<1>11. CASE UNCHANGED vars /\ ~ Connect
  BY <1>d, <1>11 DEF vars
<1> QED
  BY <1>1, <1>2, <1>3, <1>4, <1>5, <1>6, <1>7, <1>8, <1>9, <1>10, <1>11, StepCases

LEMMA NoDeregisterNext ==
    ASSUME "timeout" \notin May, CallInv, NoDeregister, [Next]_vars
    PROVE  NoDeregister'
<1>1. ASSUME NEW c \in Caller, UserOf(c) PROVE NoDeregister'
  BY <1>1 DEF UserOf, WaitToBeOnlineAndSubscribe, OpenConn, Register, AlreadyWaiting, Subscribe,
     SubscribeFails, WaitEnds, WaitTimesOut, Deregister, OpenConnFails, OpenConnReturns, CloseConn, Return,
     Goto, NoDeregister, CallInv, CallTypes
<1>2. ASSUME ~ \E c \in Caller : UserOf(c) PROVE cpc' = cpc
  BY <1>2 DEF Next, vars, clientVars, relayVars, others, callVars, Connect, Closing, ReadLoop, ReadLoopEnds,
     Server, ListenForStopEvents, HealthCheckTimeout, OnTimeoutClosed, ContextDone, ConnBreaks, CloseMsg,
     ReadFails, StopHealthCheck, NotifyDisconnected, PeersOnline, PeersWentOffline, CloseConnsByPeerID,
     CleanupAndDone, HandleSubscribe, HandleUnsubscribe, PeerArrives, PeerLeaves, CloseAgain, CloseBegins,
     CloseReturns, Close
<1> QED
  BY <1>1, <1>2 DEF NoDeregister

\* As long as no OpenConn times out, both ends keep listening for the departure of every peer
\* with an open Conn, through any order of notices, unsubscriptions, reconnections and calls.
THEOREM InterestStays ==
    ASSUME "timeout" \notin May
    PROVE  Spec => []InterestKept
<1> DEFINE Inv == /\ ThreadInv /\ RunInv /\ CallInv /\ OfflineInv /\ ConnsInv /\ MessagesInv
                  /\ LoopInv /\ NoDeregister /\ FollowInv
<1>1. Init => Inv
  <2> SUFFICES ASSUME Init PROVE Inv
    OBVIOUS
  <2>1. RunInv /\ MessagesInv
    BY DEF RunInv, MessagesInv, Init
  <2>2. LoopInv
    BY ThreadsDiffer DEF Init, LoopInv, ReadsLatest, CloseWaits, ReadLoopsDone, Looping
  <2>3. NoDeregister /\ FollowInv
    BY DEF Init, NoDeregister, FollowInv, Live
  <2> QED
    BY <2>1, <2>2, <2>3, ThreadInvInit, CallInvInit, OfflineInvInit, ConnsInvInit
<1>2. Inv /\ [Next]_vars => Inv'
  BY ThreadInvNext, RunInvNext, CallInvNext, OfflineInvNext, ConnsInvNext, MessagesInvNext, LoopInvNext,
     NoDeregisterNext, FollowInvNext
<1>3. Inv => InterestKept
  <2> SUFFICES ASSUME Inv, NEW c \in Caller, cpc[c] = "open", container[call[c]] = "open", Serving
               PROVE  target[c] \in listen[gen] /\ WillBeInterested(target[c])
    BY DEF InterestKept
  <2>1. Live(c)
    BY DEF Live, CallInv, CallTypes, CallsStarted
  <2> QED
    BY <2>1 DEF FollowInv, Followed
<1> HIDE DEF Inv
<1> QED
  BY <1>1, <1>2, <1>3, PTL DEF Spec
=============================================================================
