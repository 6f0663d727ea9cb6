----------------------------- MODULE RelayClient -----------------------------
(***************************************************************************)
(* The relay client: Client.Connect, OpenConn, close and the goroutines of *)
(* readLoop and listenForStopEvents they start, Conn.Close, and the        *)
(* PeersStateSubscription each connection to the server creates.           *)
(*                                                                         *)
(* Connections to the server are numbered 1, 2, ... by their Connect.      *)
(* c.relayConn and c.stateSubscription are those of the last one, gen: an  *)
(* OpenConn that reads c.stateSubscription late finds the newer one.  A    *)
(* call of OpenConn is a number too, the identity of the connContainer and *)
(* of the waitCh it creates.                                               *)
(*                                                                         *)
(* c.mu and the subscription's mu are held over steps that do not wait, so *)
(* each critical section is one step; readLoopMutex is held by close while *)
(* it waits for wgReadLoop.  The server answers as its own module says,    *)
(* with its notices in the order of the events.  Transport messages and    *)
(* their buffers are in EarlyMsgBuffer, the timers in HealthCheck.         *)
(***************************************************************************)
EXTENDS Naturals, Sequences, FiniteSets

CONSTANTS
    PeerId,     \* remote peers
    Caller,     \* goroutines that call OpenConn
    MaxGen,     \* bound on the calls of Connect that succeed
    MaxCalls,   \* bound on the calls of OpenConn
    MaxFlips,   \* bound on the peers' arrivals and departures at the server
    May,        \* what the environment may do, see below
    NoPeer

ASSUME ClientConstants ==
    /\ MaxGen \in Nat /\ MaxCalls \in Nat /\ MaxFlips \in Nat
    /\ May \subseteq {"timeout",    \* OpenConn's context or its 30 s run out
                     "cancel",     \* the context of a Connect is cancelled
                     "close"}      \* the owner calls Close
    /\ NoPeer \notin PeerId

Gen == 1 .. MaxGen
Call == 1 .. MaxCalls
Reader(g) == <<"reader", g>>
Listener(g) == <<"listener", g>>
Owner == <<"owner", 0>>
Thread == {Reader(g) : g \in Gen} \cup {Listener(g) : g \in Gen} \cup {Owner}

VARIABLES
    gen,        \* the connection c.relayConn and c.stateSubscription belong to, 0 before Connect
    running,    \* c.serviceIsRunning
    connUp,     \* connections to the server that are open
    stopped,    \* connections whose healthcheck.Receiver was stopped
    pc,         \* readLoop, listenForStopEvents and the caller of Close
    offline,    \* the peer whose offline notice each read loop handles
    conns,      \* c.conns, 0 where there is no entry
    container,  \* the state of each connContainer
    openedIn,   \* the connection each container was created in
    waiting,    \* waitingPeers of each subscription, 0 where there is no entry
    listen,     \* listenForOfflinePeers of each subscription
    waitCh,     \* the channel of each waiting OpenConn
    cpc,        \* the goroutines in OpenConn
    call,       \* the call each of them is in
    target,     \* its peerID
    sub,        \* the subscription it uses
    calls,      \* calls of OpenConn so far
    toServer, toClient,     \* messages under way on the connection gen
    online,     \* the peers connected to the server
    interestOn, interestOff,    \* what the server's Listener for gen is interested in
    flips

relayVars == <<gen, running, connUp, stopped>>
clientVars == <<relayVars, pc, offline>>
connVars == <<conns, container, openedIn>>
subVars == <<waiting, listen, waitCh>>
callVars == <<cpc, call, target, sub, calls>>
serverVars == <<online, interestOn, interestOff, flips>>
others == <<connVars, subVars, callVars, toServer, toClient, serverVars>>
vars == <<clientVars, others>>

ReaderPhase == {"none", "read", "offline", "stop", "cleanup"}
ThreadPhase == ReaderPhase \cup {"select", "lock", "wait", "notify", "gone"}
CallPhase == {"idle", "register", "subscribe", "select", "deregister",
              "fail", "recheck", "open"}
Request == [type : {"sub", "unsub"}, peer : PeerId]
Notice == [type : {"online", "offline"}, peer : PeerId]

TypeOK ==
    /\ gen \in 0 .. MaxGen
    /\ running \in BOOLEAN
    /\ connUp \subseteq Gen
    /\ stopped \subseteq Gen
    /\ pc \in [Thread -> ThreadPhase]
    /\ offline \in [Gen -> PeerId \cup {NoPeer}]
    /\ conns \in [PeerId -> Call \cup {0}]
    /\ container \in [Call -> {"none", "open", "closed"}]
    /\ openedIn \in [Call -> 0 .. MaxGen]
    /\ waiting \in [Gen -> [PeerId -> Call \cup {0}]]
    /\ listen \in [Gen -> SUBSET PeerId]
    /\ waitCh \in [Call -> {"none", "empty", "online", "closed"}]
    /\ cpc \in [Caller -> CallPhase]
    /\ call \in [Caller -> Call \cup {0}]
    /\ target \in [Caller -> PeerId \cup {NoPeer}]
    /\ sub \in [Caller -> 0 .. MaxGen]
    /\ calls \in 0 .. MaxCalls
    /\ toServer \in Seq(Request)
    /\ toClient \in Seq(Notice)
    /\ online \subseteq PeerId
    /\ interestOn \subseteq PeerId
    /\ interestOff \subseteq PeerId
    /\ flips \in 0 .. MaxFlips

Init ==
    /\ gen = 0
    /\ running = FALSE
    /\ connUp = {}
    /\ stopped = {}
    /\ pc = [t \in Thread |-> "none"]
    /\ offline = [g \in Gen |-> NoPeer]
    /\ conns = [p \in PeerId |-> 0]
    /\ container = [k \in Call |-> "none"]
    /\ openedIn = [k \in Call |-> 0]
    /\ waiting = [g \in Gen |-> [p \in PeerId |-> 0]]
    /\ listen = [g \in Gen |-> {}]
    /\ waitCh = [k \in Call |-> "none"]
    /\ cpc = [c \in Caller |-> "idle"]
    /\ call = [c \in Caller |-> 0]
    /\ target = [c \in Caller |-> NoPeer]
    /\ sub = [c \in Caller |-> 0]
    /\ calls = 0
    /\ toServer = <<>>
    /\ toClient = <<>>
    /\ online \in SUBSET PeerId
    /\ interestOn = {}
    /\ interestOff = {}
    /\ flips = 0

\* Mutant: Done comes after the read loop's own close.
ReadLoopsReturned ==
    \A g \in Gen : pc[Reader(g)] \notin (ReaderPhase \ {"none"}) \cup {"lock", "wait"}

\* wgReadLoop.Wait() returns: no read loop is before its Done.
ReadLoopsDone == \A g \in Gen : pc[Reader(g)] \notin ReaderPhase \ {"none"}

\* readLoopMutex is held by a close that waits for the read loop.
Locked == \E t \in Thread : pc[t] = "wait"

\* relayConn.Write on connection g: it fails once the connection is closed.
Write(g, m) == toServer' = IF g \in connUp THEN Append(toServer, m) ELSE toServer

(***************************************************************************)
(* PeersStateSubscription, on the subscription of connection g.            *)
(***************************************************************************)

\* OnPeersOnline: the waiter is signalled, its entry removed, its channel closed.
OnPeersOnline(g, p) ==
    /\ waiting' = [waiting EXCEPT ![g][p] = 0]
    /\ waitCh' = [k \in Call |-> IF k = waiting[g][p] THEN "online" ELSE waitCh[k]]
    /\ UNCHANGED listen

\* UnsubscribeStateChange after its message.
Forget(g, p) ==
    /\ waiting' = [waiting EXCEPT ![g][p] = 0]
    /\ listen' = [listen EXCEPT ![g] = @ \ {p}]
    /\ waitCh' = [k \in Call |-> IF k = waiting[g][p] THEN "closed" ELSE waitCh[k]]

UnsubscribeStateChange(g, p) ==
    /\ Write(g, [type |-> "unsub", peer |-> p])
    /\ Forget(g, p)

\* The error paths of WaitToBeOnlineAndSubscribe: only its own entry is removed.
ForgetOwn(g, p, k) ==
    IF waiting[g][p] = k THEN Forget(g, p) ELSE UNCHANGED subVars

Cleanup(g) ==
    /\ waitCh' = [k \in Call |-> IF k \in {waiting[g][p] : p \in PeerId} THEN "closed" ELSE waitCh[k]]
    /\ waiting' = [waiting EXCEPT ![g] = [p \in PeerId |-> 0]]
    /\ listen' = [listen EXCEPT ![g] = {}]

\* The containers of a set of calls are closed and leave the map.
Release(ks) ==
    /\ container' = [k \in Call |-> IF k \in ks THEN "closed" ELSE container[k]]
    /\ conns' = [p \in PeerId |-> IF conns[p] \in ks THEN 0 ELSE conns[p]]
    /\ UNCHANGED openedIn

(***************************************************************************)
(* Connect, and close with its callers.                                    *)
(***************************************************************************)

\* A dial and a handshake that succeed.  The server has a new Listener for it.
Connect ==
    /\ ~ Locked /\ ~ running /\ gen < MaxGen
    /\ gen' = gen + 1
    /\ running' = TRUE
    /\ connUp' = connUp \cup {gen + 1}
    /\ pc' = [pc EXCEPT ![Reader(gen + 1)] = "read", ![Listener(gen + 1)] = "select"]
    /\ toServer' = <<>> /\ toClient' = <<>>
    /\ interestOn' = {} /\ interestOff' = {}
    /\ UNCHANGED <<stopped, offline, connVars, subVars, callVars, online, flips>>

\* Mutant: nothing follows the close of a read loop.
AfterCloseSilent(t) == IF t = Owner THEN "none" ELSE "gone"

AfterClose(t) == CASE t = Owner -> "none"
                   [] t \in {Reader(g) : g \in Gen} -> "notify"
                   [] OTHER -> "gone"

CloseAgain(t) ==
    /\ pc[t] = "lock" /\ ~ Locked /\ ~ running
    /\ pc' = [pc EXCEPT ![t] = AfterClose(t)]
    /\ UNCHANGED <<relayVars, offline, others>>

\* Mutant: the entries of c.conns are closed but the map is kept.
CloseKeepsMap(t) ==
    /\ pc[t] = "lock" /\ ~ Locked /\ running
    /\ running' = FALSE
    /\ container' = [k \in Call |-> IF k \in {conns[p] : p \in PeerId} THEN "closed" ELSE container[k]]
    /\ connUp' = connUp \ {gen}
    /\ pc' = [pc EXCEPT ![t] = "wait"]
    /\ UNCHANGED <<gen, stopped, offline, conns, openedIn, subVars, callVars, toServer, toClient,
                   serverVars>>

\* closeAllConns, then relayConn.Close.
CloseBegins(t) ==
    /\ pc[t] = "lock" /\ ~ Locked /\ running
    /\ running' = FALSE
    /\ Release({conns[p] : p \in PeerId} \ {0})
    /\ connUp' = connUp \ {gen}
    /\ pc' = [pc EXCEPT ![t] = "wait"]
    /\ UNCHANGED <<gen, stopped, offline, subVars, callVars, toServer, toClient, serverVars>>

CloseReturns(t) ==
    /\ pc[t] = "wait" /\ ReadLoopsDone
    /\ pc' = [pc EXCEPT ![t] = AfterClose(t)]
    /\ UNCHANGED <<relayVars, offline, others>>

Close ==
    /\ "close" \in May
    /\ pc[Owner] = "none"
    /\ pc' = [pc EXCEPT ![Owner] = "lock"]
    /\ UNCHANGED <<relayVars, offline, others>>

(***************************************************************************)
(* listenForStopEvents of connection g.                                    *)
(***************************************************************************)

\* OnTimeout fires: the connection the goroutine was started with is closed.
HealthCheckTimeout(g) ==
    /\ pc[Listener(g)] = "select" /\ g \notin stopped
    /\ connUp' = connUp \ {g}
    /\ pc' = [pc EXCEPT ![Listener(g)] = "gone"]
    /\ UNCHANGED <<gen, running, stopped, offline, others>>

\* OnTimeout is closed by a Receiver that was stopped.
OnTimeoutClosed(g) ==
    /\ pc[Listener(g)] = "select" /\ g \in stopped
    /\ pc' = [pc EXCEPT ![Listener(g)] = "gone"]
    /\ UNCHANGED <<relayVars, offline, others>>

ContextDone(g) ==
    /\ "cancel" \in May
    /\ pc[Listener(g)] = "select"
    /\ pc' = [pc EXCEPT ![Listener(g)] = "lock"]
    /\ UNCHANGED <<relayVars, offline, others>>

(***************************************************************************)
(* readLoop of connection g.                                               *)
(***************************************************************************)

Reading(g) == pc[Reader(g)] = "read" /\ g \in connUp /\ toClient # <<>>

PeersOnline(g) ==
    /\ Reading(g) /\ Head(toClient).type = "online"
    /\ OnPeersOnline(gen, Head(toClient).peer)
    /\ toClient' = Tail(toClient)
    /\ UNCHANGED <<clientVars, connVars, callVars, toServer, serverVars>>

\* OnPeersWentOffline up to its Unlock.
PeersWentOffline(g) ==
    /\ Reading(g) /\ Head(toClient).type = "offline"
    /\ IF Head(toClient).peer \in listen[gen]
       THEN /\ offline' = [offline EXCEPT ![g] = Head(toClient).peer]
            /\ pc' = [pc EXCEPT ![Reader(g)] = "offline"]
       ELSE UNCHANGED <<offline, pc>>
    /\ toClient' = Tail(toClient)
    /\ UNCHANGED <<relayVars, connVars, subVars, callVars, toServer, serverVars>>

\* Mutant: the subscription goes although the connection stays.
UnsubscribeOnly(g) ==
    /\ pc[Reader(g)] = "offline"
    /\ UnsubscribeStateChange(gen, offline[g])
    /\ offline' = [offline EXCEPT ![g] = NoPeer]
    /\ pc' = [pc EXCEPT ![Reader(g)] = "read"]
    /\ UNCHANGED <<relayVars, connVars, callVars, toClient, serverVars>>

\* The callback.
CloseConnsByPeerID(g) ==
    /\ pc[Reader(g)] = "offline"
    /\ Release({conns[offline[g]]} \ {0})
    /\ UnsubscribeStateChange(gen, offline[g])
    /\ offline' = [offline EXCEPT ![g] = NoPeer]
    /\ pc' = [pc EXCEPT ![Reader(g)] = "read"]
    /\ UNCHANGED <<relayVars, callVars, toClient, serverVars>>

ReadFails(g) ==
    /\ pc[Reader(g)] = "read" /\ g \notin connUp
    /\ pc' = [pc EXCEPT ![Reader(g)] = "stop"]
    /\ UNCHANGED <<relayVars, offline, others>>

\* The server's close message is read.
CloseMsg(g) ==
    /\ pc[Reader(g)] = "read" /\ g \in connUp
    /\ pc' = [pc EXCEPT ![Reader(g)] = "stop"]
    /\ UNCHANGED <<relayVars, offline, others>>

StopHealthCheck(g) ==
    /\ pc[Reader(g)] = "stop"
    /\ stopped' = stopped \cup {g}
    /\ pc' = [pc EXCEPT ![Reader(g)] = "cleanup"]
    /\ UNCHANGED <<gen, running, connUp, offline, others>>

\* Cleanup, then wgReadLoop.Done.
CleanupAndDone(g) ==
    /\ pc[Reader(g)] = "cleanup"
    /\ Cleanup(gen)
    /\ pc' = [pc EXCEPT ![Reader(g)] = "lock"]
    /\ UNCHANGED <<relayVars, offline, connVars, callVars,
                   toServer, toClient, serverVars>>

NotifyDisconnected(g) ==
    /\ pc[Reader(g)] = "notify"
    /\ pc' = [pc EXCEPT ![Reader(g)] = "gone"]
    /\ UNCHANGED <<relayVars, offline, others>>

(***************************************************************************)
(* OpenConn, and Close of the Conn it returned.                            *)
(***************************************************************************)

Goto(c, l) == cpc' = [cpc EXCEPT ![c] = l]

\* The call is over, its variables are gone.
Return(c) ==
    /\ Goto(c, "idle")
    /\ call' = [call EXCEPT ![c] = 0]
    /\ target' = [target EXCEPT ![c] = NoPeer]
    /\ sub' = [sub EXCEPT ![c] = 0]
    /\ UNCHANGED calls

\* Up to the Unlock: the container enters the map.
OpenConn(c, p) ==
    /\ cpc[c] = "idle" /\ calls < MaxCalls
    /\ running /\ conns[p] = 0
    /\ calls' = calls + 1
    /\ conns' = [conns EXCEPT ![p] = calls + 1]
    /\ container' = [container EXCEPT ![calls + 1] = "open"]
    /\ openedIn' = [openedIn EXCEPT ![calls + 1] = gen]
    /\ call' = [call EXCEPT ![c] = calls + 1]
    /\ target' = [target EXCEPT ![c] = p]
    /\ Goto(c, "register")
    /\ UNCHANGED <<clientVars, subVars, sub, toServer, toClient, serverVars>>

\* Mutant: an entry of an earlier call is overwritten.
RegisterOver(c) ==
    /\ cpc[c] = "register"
    /\ sub' = [sub EXCEPT ![c] = gen]
    /\ waiting' = [waiting EXCEPT ![gen][target[c]] = call[c]]
    /\ listen' = [listen EXCEPT ![gen] = @ \cup {target[c]}]
    /\ waitCh' = [waitCh EXCEPT ![call[c]] = "empty"]
    /\ Goto(c, "subscribe")
    /\ UNCHANGED <<clientVars, connVars, call, target, calls, toServer, toClient, serverVars>>

\* The first critical section of WaitToBeOnlineAndSubscribe.
Register(c) ==
    /\ cpc[c] = "register" /\ waiting[gen][target[c]] = 0
    /\ sub' = [sub EXCEPT ![c] = gen]
    /\ waiting' = [waiting EXCEPT ![gen][target[c]] = call[c]]
    /\ listen' = [listen EXCEPT ![gen] = @ \cup {target[c]}]
    /\ waitCh' = [waitCh EXCEPT ![call[c]] = "empty"]
    /\ Goto(c, "subscribe")
    /\ UNCHANGED <<clientVars, connVars, call, target, calls, toServer, toClient, serverVars>>

AlreadyWaiting(c) ==
    /\ cpc[c] = "register" /\ waiting[gen][target[c]] # 0
    /\ Goto(c, "fail")
    /\ UNCHANGED <<clientVars, connVars, subVars, call, target, sub, calls, toServer, toClient, serverVars>>

Subscribe(c) ==
    /\ cpc[c] = "subscribe" /\ sub[c] \in connUp
    /\ Write(sub[c], [type |-> "sub", peer |-> target[c]])
    /\ Goto(c, "select")
    /\ UNCHANGED <<clientVars, connVars, subVars, call, target, sub, calls, toClient, serverVars>>

SubscribeFails(c) ==
    /\ cpc[c] = "subscribe" /\ sub[c] \notin connUp
    /\ ForgetOwn(sub[c], target[c], call[c])
    /\ Goto(c, "fail")
    /\ UNCHANGED <<clientVars, connVars, call, target, sub, calls, toServer, toClient, serverVars>>

WaitEnds(c) ==
    /\ cpc[c] = "select"
    /\ \/ waitCh[call[c]] = "online" /\ Goto(c, "recheck")
       \/ waitCh[call[c]] = "closed" /\ Goto(c, "fail")
    /\ UNCHANGED <<clientVars, connVars, subVars, call, target, sub, calls, toServer, toClient, serverVars>>

\* timeoutCtx is done: the server is told first, the entry goes after it.
WaitTimesOut(c) ==
    /\ "timeout" \in May
    /\ cpc[c] = "select"
    /\ Write(sub[c], [type |-> "unsub", peer |-> target[c]])
    /\ Goto(c, "deregister")
    /\ UNCHANGED <<clientVars, connVars, subVars, call, target, sub, calls, toClient, serverVars>>

Deregister(c) ==
    /\ cpc[c] = "deregister"
    /\ ForgetOwn(sub[c], target[c], call[c])
    /\ Goto(c, "fail")
    /\ UNCHANGED <<clientVars, connVars, call, target, sub, calls, toServer, toClient, serverVars>>

\* The error path of OpenConn.
OpenConnFails(c) ==
    /\ cpc[c] = "fail"
    /\ Release({call[c]})
    /\ Return(c)
    /\ UNCHANGED <<clientVars, subVars, toServer, toClient, serverVars>>

\* The second look at serviceIsRunning.
OpenConnReturns(c) ==
    /\ cpc[c] = "recheck"
    /\ \/ running /\ Goto(c, "open")
       \/ ~ running /\ Goto(c, "fail")
    /\ UNCHANGED <<clientVars, connVars, subVars, call, target, sub, calls, toServer, toClient, serverVars>>

\* Client.closeConn.
CloseConn(c) ==
    /\ cpc[c] = "open"
    /\ IF conns[target[c]] = call[c]
       THEN UnsubscribeStateChange(gen, target[c]) /\ Release({call[c]})
       ELSE UNCHANGED <<connVars, subVars, toServer>>
    /\ Return(c)
    /\ UNCHANGED <<clientVars, toClient, serverVars>>

(***************************************************************************)
(* The server's side of the connection gen.                                *)
(***************************************************************************)

Send(p, type) == toClient' = Append(toClient, [type |-> type, peer |-> p])

HandleSubscribe ==
    /\ gen \in connUp /\ toServer # <<>> /\ Head(toServer).type = "sub"
    /\ LET p == Head(toServer).peer IN
       /\ interestOn' = interestOn \cup {p}
       /\ interestOff' = interestOff \cup {p}
       /\ IF p \in online THEN Send(p, "online") ELSE UNCHANGED toClient
    /\ toServer' = Tail(toServer)
    /\ UNCHANGED <<clientVars, connVars, subVars, callVars, online, flips>>

HandleUnsubscribe ==
    /\ gen \in connUp /\ toServer # <<>> /\ Head(toServer).type = "unsub"
    /\ interestOn' = interestOn \ {Head(toServer).peer}
    /\ interestOff' = interestOff \ {Head(toServer).peer}
    /\ toServer' = Tail(toServer)
    /\ UNCHANGED <<clientVars, connVars, subVars, callVars, toClient, online, flips>>

PeerArrives(p) ==
    /\ p \notin online /\ flips < MaxFlips
    /\ online' = online \cup {p}
    /\ flips' = flips + 1
    /\ interestOn' = interestOn \ {p}
    /\ IF p \in interestOn /\ gen \in connUp THEN Send(p, "online") ELSE UNCHANGED toClient
    /\ UNCHANGED <<clientVars, connVars, subVars, callVars, toServer, interestOff>>

PeerLeaves(p) ==
    /\ p \in online /\ flips < MaxFlips
    /\ online' = online \ {p}
    /\ flips' = flips + 1
    /\ IF p \in interestOff /\ gen \in connUp THEN Send(p, "offline") ELSE UNCHANGED toClient
    /\ UNCHANGED <<clientVars, connVars, subVars, callVars, toServer, interestOn, interestOff>>

\* The connection is lost.
ConnBreaks(g) ==
    /\ g \in connUp
    /\ connUp' = connUp \ {g}
    /\ UNCHANGED <<gen, running, stopped, pc, offline, others>>

(***************************************************************************)
(* The specification.                                                      *)
(***************************************************************************)

Closing == \E t \in Thread : CloseAgain(t) \/ CloseBegins(t) \/ CloseReturns(t)

ListenForStopEvents(g) == HealthCheckTimeout(g) \/ OnTimeoutClosed(g) \/ ContextDone(g)

ReadLoopEnds(g) == ReadFails(g) \/ StopHealthCheck(g) \/ CleanupAndDone(g) \/ NotifyDisconnected(g)

ReadLoop(g) == PeersOnline(g) \/ PeersWentOffline(g) \/ CloseConnsByPeerID(g) \/ CloseMsg(g)
               \/ ReadLoopEnds(g)

WaitToBeOnlineAndSubscribe(c) ==
    \/ Register(c) \/ AlreadyWaiting(c) \/ Subscribe(c) \/ SubscribeFails(c)
    \/ WaitEnds(c) \/ WaitTimesOut(c) \/ Deregister(c)

UserOf(c) ==
    \/ \E p \in PeerId : OpenConn(c, p)
    \/ WaitToBeOnlineAndSubscribe(c)
    \/ OpenConnFails(c) \/ OpenConnReturns(c) \/ CloseConn(c)

Server == HandleSubscribe \/ HandleUnsubscribe \/ \E p \in PeerId : PeerArrives(p) \/ PeerLeaves(p)

Next ==
    \/ Connect \/ Close \/ Closing
    \/ \E g \in Gen : ListenForStopEvents(g) \/ ReadLoop(g) \/ ConnBreaks(g)
    \/ \E c \in Caller : UserOf(c)
    \/ Server

Spec == Init /\ [][Next]_vars

\* Goroutines run; a goroutine that waits for a mutex gets it in the end.
Fairness ==
    /\ \A t \in Thread : SF_vars(CloseAgain(t) \/ CloseBegins(t)) /\ WF_vars(CloseReturns(t))
    /\ \A g \in Gen : WF_vars(ReadLoopEnds(g)) /\ WF_vars(CloseConnsByPeerID(g))

FairSpec == Spec /\ Fairness

(***************************************************************************)
(* Properties.                                                             *)
(***************************************************************************)

\* A channel in waitingPeers has been neither signalled nor closed: OnPeersOnline,
\* UnsubscribeStateChange and Cleanup never close a channel twice (a panic), whichever of
\* them runs when.
WaitersAreOpen ==
    \A g \in Gen, p \in PeerId : waiting[g][p] # 0 => waitCh[waiting[g][p]] = "empty"

\* No lost wake-up: an OpenConn that waits on a channel nobody has signalled or closed
\* is still in waitingPeers of the subscription it uses.
WaiterIsKnown ==
    \A c \in Caller : cpc[c] = "select" /\ waitCh[call[c]] = "empty"
                          => waiting[sub[c]][target[c]] = call[c]

\* Every waiter is served once: its channel is closed once, and it is not forgotten.
WaitersAreServed == WaitersAreOpen /\ WaiterIsKnown

\* The map holds open containers of the current connection only, and a Conn that was handed
\* out and is not closed is in the map: close() and the offline notices reach every reader.
OpenConnsAreRegistered ==
    /\ \A p \in PeerId : conns[p] # 0 =>
           running /\ container[conns[p]] = "open" /\ openedIn[conns[p]] = gen
    /\ \A c \in Caller : cpc[c] = "open" /\ container[call[c]] = "open" => conns[target[c]] = call[c]

\* The connection is open and its read loop takes notices.
Serving == \E g \in connUp : pc[Reader(g)] \in {"read", "offline"}

\* What the server's interest in p will be once it has read the messages under way: what
\* the last one about p asks for.
WillBeInterested(p) ==
    \/ p \in interestOff /\ \A i \in DOMAIN toServer : toServer[i].peer # p
    \/ \E i \in DOMAIN toServer :
           /\ toServer[i] = [type |-> "sub", peer |-> p]
           /\ \A j \in i + 1 .. Len(toServer) : toServer[j].peer # p

\* Both ends keep listening for the departure of a peer with an open Conn: the client has
\* it in listenForOfflinePeers, and the server is interested or has the request under way.
InterestKept ==
    \A c \in Caller :
        cpc[c] = "open" /\ container[call[c]] = "open" /\ Serving
            => target[c] \in listen[gen] /\ WillBeInterested(target[c])

\* close() does not wait for ever: the read loop always reaches its Done, whatever it does
\* when the connection closes under it.
CloseCompletes == \A t \in Thread : pc[t] = "wait" ~> pc[t] # "wait"

\* The owner learns of every connection that ends, also when Close and a cancelled context
\* race with the read loop for readLoopMutex.
DisconnectNotified ==
    \A g \in Gen : pc[Reader(g)] = "read" /\ g \notin connUp ~> pc[Reader(g)] = "notify"
=============================================================================
