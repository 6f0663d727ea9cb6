---------------------------- MODULE EarlyMsgBuffer ----------------------------
(***************************************************************************)
(* The path of a transport message through the relay client: the read loop *)
(* (handleTransportMsg), earlyMsgBuffer with its cleanup timer, the        *)
(* channel of a connContainer, and Conn.Read.  Every message sits in a     *)
(* buffer of c.bufPool, which must go back to the pool exactly once.       *)
(*                                                                         *)
(* Messages are numbered as they arrive, which is also the order in which  *)
(* they enter the early buffer.  Time is the number of the last message    *)
(* that is older than earlyMsgTTL; a timer is the message it waits for.    *)
(* close() of the client replaces the buffer by a new one, so a buffer is  *)
(* closed when it is no longer the current one.                            *)
(***************************************************************************)
EXTENDS Naturals, Sequences, FiniteSets, SequencesExt

CONSTANTS
    PeerId,     \* remote peers
    Caller,     \* goroutines that open and read connections
    Capacity,   \* earlyMsgCapacity
    ChanSize,   \* connChannelSize
    MaxMsgs,    \* bound on the messages received
    MaxOpens,   \* bound on the calls of OpenConn
    MaxCloses,  \* bound on the calls of close
    NoPeer

ASSUME BufferConstants ==
    /\ {Capacity, ChanSize} \subseteq Nat \ {0}
    /\ {MaxMsgs, MaxOpens, MaxCloses} \subseteq Nat
    /\ NoPeer \notin PeerId

Msg == 1 .. MaxMsgs
Container == 1 .. MaxOpens

VARIABLES
    running,    \* c.serviceIsRunning
    conns,      \* c.conns, 0 where there is no entry
    closed,     \* the containers that were closed
    messages,   \* the channel of each container
    early,      \* earlyMsgBuffer.order, whose front is the message with the least number
    sentBy,     \* the peer each message is from
    bufs,       \* buffers created by closeAllConns: the current one
    timers,     \* timers of the current buffer that will fire
    timer,      \* the one in earlyMsgBuffer.timer, 0 for nil
    firing,     \* calls of removeExpired that wait for the buffer's mutex
    expired,    \* messages up to this one are older than earlyMsgTTL
    rpc, rmsg, rref,    \* the read loop, its message, and what it looked up for it
    cpc, ccont, chand,  \* each caller, its container, its early message
    arrived, opens,
    freed       \* how often the buffer of each message went back to the pool

earlyVars == <<early, timers, timer, firing>>
readerVars == <<rpc, rmsg, rref>>
callerVars == <<cpc, ccont, chand, opens>>
chanVars == <<conns, closed, messages>>
msgVars == <<running, chanVars, earlyVars, sentBy, bufs, expired, readerVars, callerVars, arrived, freed>>

MsgTypeOK ==
    /\ running \in BOOLEAN
    /\ conns \in [PeerId -> Container \cup {0}]
    /\ closed \subseteq Container
    /\ messages \in [Container -> Seq(Msg)]
    /\ \A k \in Container : Len(messages[k]) <= ChanSize
    /\ early \subseteq Msg /\ Cardinality(early) <= Capacity
    /\ sentBy \in [Msg -> PeerId \cup {NoPeer}]
    /\ bufs \in 0 .. MaxCloses
    /\ timers \subseteq Msg /\ timer \in Msg \cup {0}
    /\ firing \in Nat
    /\ expired \in 0 .. MaxMsgs
    /\ rpc \in {"read", "lookup", "put", "write", "gone"}
    /\ rmsg \in Msg \cup {0} /\ rref \in Nat
    /\ cpc \in [Caller -> {"idle", "flush", "open"}]
    /\ ccont \in [Caller -> Container \cup {0}]
    /\ chand \in [Caller -> Msg \cup {0}]
    /\ arrived \in 0 .. MaxMsgs /\ opens \in 0 .. MaxOpens
    /\ freed \in [Msg -> Nat]

MsgInit ==
    /\ running = TRUE
    /\ conns = [p \in PeerId |-> 0] /\ closed = {} /\ messages = [k \in Container |-> <<>>]
    /\ early = {} /\ sentBy = [m \in Msg |-> NoPeer] /\ bufs = 0
    /\ timers = {} /\ timer = 0 /\ firing = 0 /\ expired = 0
    /\ rpc = "read" /\ rmsg = 0 /\ rref = 0
    /\ cpc = [c \in Caller |-> "idle"] /\ ccont = [c \in Caller |-> 0] /\ chand = [c \in Caller |-> 0]
    /\ arrived = 0 /\ opens = 0
    /\ freed = [m \in Msg |-> 0]

Free(ms) == freed' = [m \in Msg |-> IF m \in ms THEN freed[m] + 1 ELSE freed[m]]

(***************************************************************************)
(* The cleanup timer.                                                      *)
(***************************************************************************)

\* scheduleCleanup until message m expires.
ScheduleCleanup(m) == timer' = m /\ timers' = (timers \ {timer}) \cup {m}

StopCleanup == timer' = 0 /\ timers' = timers \ {timer}

Expire ==
    /\ expired < arrived /\ expired + 1 # rmsg
    /\ expired' = expired + 1
    /\ UNCHANGED <<running, chanVars, earlyVars, sentBy, bufs, readerVars, callerVars, arrived, freed>>

Fire(m) ==
    /\ m \in timers /\ m <= expired
    /\ timers' = timers \ {m}
    /\ firing' = firing + 1
    /\ UNCHANGED <<running, chanVars, early, timer, sentBy, bufs, expired, readerVars, callerVars, arrived,
                   freed>>

\* Mutant: removeExpired does not start the timer again.
RemoveExpiredOnce ==
    /\ firing > 0
    /\ firing' = firing - 1
    /\ early' = {m \in early : m > expired}
    /\ Free(early \ early')
    /\ UNCHANGED <<timer, timers>>
    /\ UNCHANGED <<running, chanVars, sentBy, bufs, expired, readerVars, callerVars, arrived>>

\* removeExpired: the messages at the front that have expired, which are all that have.
RemoveExpired ==
    /\ firing > 0
    /\ firing' = firing - 1
    /\ early' = {m \in early : m > expired}
    /\ Free(early \ early')
    /\ IF early' = {} THEN timer' = 0 /\ UNCHANGED timers ELSE ScheduleCleanup(Min(early'))
    /\ UNCHANGED <<running, chanVars, sentBy, bufs, expired, readerVars, callerVars, arrived>>

(***************************************************************************)
(* The read loop.                                                          *)
(***************************************************************************)

Receive(p) ==
    /\ rpc = "read" /\ running /\ arrived < MaxMsgs
    /\ arrived' = arrived + 1
    /\ rmsg' = arrived + 1
    /\ sentBy' = [sentBy EXCEPT ![arrived + 1] = p]
    /\ rpc' = "lookup"
    /\ UNCHANGED <<running, chanVars, earlyVars, bufs, expired, rref, callerVars, freed>>

\* handleTransportMsg's critical section: the container, or the early buffer of the moment.
Lookup ==
    /\ rpc = "lookup"
    /\ \/ /\ ~ running
          /\ rpc' = "gone" /\ rmsg' = 0 /\ rref' = 0
          /\ Free({rmsg})
       \/ /\ running /\ conns[sentBy[rmsg]] # 0
          /\ rpc' = "write" /\ rref' = conns[sentBy[rmsg]]
          /\ UNCHANGED <<rmsg, freed>>
       \/ /\ running /\ conns[sentBy[rmsg]] = 0
          /\ rpc' = "put" /\ rref' = bufs
          /\ UNCHANGED <<rmsg, freed>>
    /\ UNCHANGED <<running, chanVars, earlyVars, sentBy, bufs, expired, callerVars, arrived>>

ReadOn == rpc' = "read" /\ rmsg' = 0 /\ rref' = 0

SamePeer(m) == {x \in early : sentBy[x] = sentBy[m]}

\* Mutant: the replaced message is dropped from the list, its buffer kept.
PutLeaks ==
    /\ rpc = "put" /\ rref = bufs
    /\ Cardinality(early \ SamePeer(rmsg)) < Capacity
    /\ early' = (early \ SamePeer(rmsg)) \cup {rmsg}
    /\ UNCHANGED freed
    /\ IF early' = {rmsg} THEN ScheduleCleanup(rmsg) ELSE UNCHANGED <<timer, timers>>
    /\ ReadOn
    /\ UNCHANGED <<running, chanVars, firing, sentBy, bufs, expired, callerVars, arrived>>

\* put: a message of the same peer is freed, the new one, the youngest, goes to the end.
Put ==
    /\ rpc = "put" /\ rref = bufs
    /\ Cardinality(early \ SamePeer(rmsg)) < Capacity
    /\ early' = (early \ SamePeer(rmsg)) \cup {rmsg}
    /\ Free(SamePeer(rmsg))
    /\ IF early' = {rmsg} THEN ScheduleCleanup(rmsg) ELSE UNCHANGED <<timer, timers>>
    /\ ReadOn
    /\ UNCHANGED <<running, chanVars, firing, sentBy, bufs, expired, callerVars, arrived>>

\* The buffer is closed or full, and the read loop frees the message itself.
PutFails ==
    /\ rpc = "put"
    /\ rref # bufs \/ Cardinality(early \ SamePeer(rmsg)) >= Capacity
    /\ Free({rmsg})
    /\ ReadOn
    /\ UNCHANGED <<running, chanVars, earlyVars, sentBy, bufs, expired, callerVars, arrived>>

\* connContainer.writeMsg: a message a closed or full channel does not take is freed.
WriteMsg(k, m) ==
    IF k \notin closed /\ Len(messages[k]) < ChanSize
    THEN messages' = [messages EXCEPT ![k] = Append(@, m)] /\ UNCHANGED freed
    ELSE Free({m}) /\ UNCHANGED messages

Write ==
    /\ rpc = "write"
    /\ WriteMsg(rref, rmsg)
    /\ ReadOn
    /\ UNCHANGED <<running, conns, closed, earlyVars, sentBy, bufs, expired, callerVars, arrived>>

ReadFails ==
    /\ rpc = "read" /\ ~ running
    /\ rpc' = "gone"
    /\ UNCHANGED <<running, chanVars, earlyVars, sentBy, bufs, expired, rmsg, rref, callerVars, arrived, freed>>

(***************************************************************************)
(* The connections.                                                        *)
(***************************************************************************)

\* OpenConn up to its Unlock: the container enters the map, the early message is popped.
OpenConn(c, p) ==
    /\ cpc[c] = "idle" /\ running /\ conns[p] = 0 /\ opens < MaxOpens
    /\ opens' = opens + 1
    /\ conns' = [conns EXCEPT ![p] = opens + 1]
    /\ ccont' = [ccont EXCEPT ![c] = opens + 1]
    /\ early' = {m \in early : sentBy[m] # p}
    /\ \/ /\ \E m \in early \ early' : chand' = [chand EXCEPT ![c] = m]
          /\ cpc' = [cpc EXCEPT ![c] = "flush"]
          /\ IF early' = {} THEN StopCleanup ELSE UNCHANGED <<timer, timers>>
       \/ /\ early' = early
          /\ cpc' = [cpc EXCEPT ![c] = "open"]
          /\ UNCHANGED <<chand, timer, timers>>
    /\ UNCHANGED <<running, closed, messages, firing, sentBy, bufs, expired, readerVars, arrived, freed>>

Flush(c) ==
    /\ cpc[c] = "flush"
    /\ WriteMsg(ccont[c], chand[c])
    /\ chand' = [chand EXCEPT ![c] = 0]
    /\ cpc' = [cpc EXCEPT ![c] = "open"]
    /\ UNCHANGED <<running, conns, closed, earlyVars, sentBy, bufs, expired, readerVars, ccont, opens, arrived>>

\* Conn.Read copies the payload and frees the buffer.
ConnRead(c) ==
    /\ cpc[c] = "open" /\ messages[ccont[c]] # <<>>
    /\ messages' = [messages EXCEPT ![ccont[c]] = Tail(@)]
    /\ Free({Head(messages[ccont[c]])})
    /\ UNCHANGED <<running, conns, closed, earlyVars, sentBy, bufs, expired, readerVars, callerVars, arrived>>

Queued(ks) == UNION {ToSet(messages[k]) : k \in ks}

\* connContainer.close of the containers ks, and what else is freed in the same step.
CloseContainers(ks, ms) ==
    /\ closed' = closed \cup ks
    /\ messages' = [k \in Container |-> IF k \in ks THEN <<>> ELSE messages[k]]
    /\ conns' = [p \in PeerId |-> IF conns[p] \in ks THEN 0 ELSE conns[p]]
    /\ Free(Queued(ks) \cup ms)

\* Conn.Close; the container may have been closed before.
ConnClose(c) ==
    /\ cpc[c] = "open"
    /\ CloseContainers({k \in {ccont[c]} : \E p \in PeerId : conns[p] = k}, {})
    /\ cpc' = [cpc EXCEPT ![c] = "idle"]
    /\ ccont' = [ccont EXCEPT ![c] = 0]
    /\ UNCHANGED <<running, earlyVars, sentBy, bufs, expired, readerVars, chand, opens, arrived>>

\* The read loop is told that a peer went offline: closeConnsByPeerID.
PeerWentOffline(p) ==
    /\ rpc = "read" /\ conns[p] # 0
    /\ CloseContainers({conns[p]}, {})
    /\ UNCHANGED <<running, earlyVars, sentBy, bufs, expired, readerVars, callerVars, arrived>>

\* close: closeAllConns closes the containers and the early buffer, and makes a new buffer.
CloseAllConns ==
    /\ running /\ bufs < MaxCloses
    /\ running' = FALSE
    /\ CloseContainers({conns[p] : p \in PeerId} \ {0}, early)
    /\ bufs' = bufs + 1
    /\ early' = {} /\ timers' = {} /\ timer' = 0 /\ firing' = 0
    /\ UNCHANGED <<sentBy, expired, readerVars, callerVars, arrived>>

Connect ==
    /\ ~ running /\ rpc = "gone"
    /\ running' = TRUE /\ rpc' = "read"
    /\ UNCHANGED <<chanVars, earlyVars, sentBy, bufs, expired, rmsg, rref, callerVars, arrived, freed>>

(***************************************************************************)
(* The specification.                                                      *)
(***************************************************************************)

ReadLoop ==
    \/ \E p \in PeerId : Receive(p) \/ PeerWentOffline(p)
    \/ Lookup \/ Put \/ PutFails \/ Write \/ ReadFails

Cleanup == Expire \/ RemoveExpired \/ \E m \in Msg : Fire(m)

User(c) == Flush(c) \/ ConnRead(c) \/ ConnClose(c) \/ \E p \in PeerId : OpenConn(c, p)

MsgNext == ReadLoop \/ Cleanup \/ CloseAllConns \/ Connect \/ \E c \in Caller : User(c)

MsgSpec == MsgInit /\ [][MsgNext]_msgVars

\* Time passes, timers fire, and goroutines that have a message in hand go on.
MsgFairness ==
    /\ WF_msgVars(Lookup \/ Put \/ PutFails \/ Write)
    /\ WF_msgVars(Expire) /\ WF_msgVars(RemoveExpired)
    /\ \A m \in Msg : WF_msgVars(Fire(m))

MsgFairSpec == MsgSpec /\ MsgFairness

(***************************************************************************)
(* Properties.                                                             *)
(***************************************************************************)

\* The places a message can be in: the read loop, the early buffer, an OpenConn, a channel.
\* What is left in a closed container, nobody frees.
Places(m) ==
    {<<"reader">> : x \in {rmsg} \cap {m}}
    \cup {<<"early">> : x \in early \cap {m}}
    \cup {<<"opener", c>> : c \in {d \in Caller : chand[d] = m}}
    \cup UNION {{<<"chan", k, i>> : i \in {j \in DOMAIN messages[k] : messages[k][j] = m}} : k \in Container \ closed}

\* A buffer of the pool is in one place or back in the pool, never both and never twice: no
\* message is freed while somebody may still read it, and none is freed twice, however
\* close, OpenConn, the timer and the read loop meet.
OwnedOnce == \A m \in 1 .. arrived : Cardinality(Places(m)) + freed[m] = 1

\* Every early message leaves the buffer: it is popped, replaced, or freed by the timer.
EarlyMsgLeaves == \A m \in Msg : m \in early ~> m \notin early
=============================================================================
