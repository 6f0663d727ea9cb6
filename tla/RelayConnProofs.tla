--------------------------- MODULE RelayConnProofs ---------------------------
(***************************************************************************)
(* Proofs about the two mechanisms on a relay connection that have a       *)
(* module of their own and share no state.                                 *)
(*                                                                         *)
(* EarlyMsgBuffer, for any peers, callers, capacities and any number of    *)
(* messages, connections and restarts: who owns a pooled buffer.           *)
(*                                                                         *)
(* HealthCheck, for any periods, delays and thresholds: types, the         *)
(* Sender's channel, the bound on unnoticed silence, and that a path which *)
(* is fast enough is kept.                                                 *)
(***************************************************************************)
EXTENDS EarlyMsgBuffer, HealthCheck, FiniteSetTheorems, WellFoundedInduction, TLAPS

(***************************************************************************)
(* The inductive invariant of EarlyMsgBuffer: types, one message of a peer *)
(* in the early buffer, and each message in one place or freed once.       *)
(***************************************************************************)

\* Whether message m is in a channel of q, and whether every message of q is there once.
Inside(q, m) == \E k \in Container : \E i \in DOMAIN q[k] : q[k][i] = m
Once(q) == \A k, l \in Container : \A i \in DOMAIN q[k], j \in DOMAIN q[l] :
               q[k][i] = q[l][j] => k = l /\ i = j

InHand(m) == \E c \in Caller : chand[c] = m
Queuing(m) == Inside(messages, m)
Held(m) == rmsg = m \/ m \in early \/ InHand(m) \/ Queuing(m)

\* Types, and what the place of a goroutine says of what it has looked up.
ReaderTypes ==
    /\ running \in BOOLEAN /\ sentBy \in [Msg -> PeerId \cup {NoPeer}]
    /\ \A m \in Msg : m <= arrived => sentBy[m] \in PeerId
    /\ bufs \in 0 .. MaxCloses
    /\ arrived \in 0 .. MaxMsgs /\ expired \in 0 .. arrived
    /\ rpc \in {"read", "lookup", "put", "write", "gone"}
    /\ rmsg \in Msg \cup {0} /\ rref \in Nat
    /\ rpc \in {"read", "gone"} <=> rmsg = 0
    /\ rpc = "write" => rref \in Container

CallerTypes ==
    /\ opens \in 0 .. MaxOpens
    /\ cpc \in [Caller -> {"idle", "flush", "open"}]
    /\ ccont \in [Caller -> Container \cup {0}]
    /\ chand \in [Caller -> Msg \cup {0}]
    /\ \A c \in Caller : (cpc[c] = "flush" <=> chand[c] # 0) /\ (cpc[c] # "idle" => ccont[c] # 0)

ChannelTypes ==
    /\ conns \in [PeerId -> Container \cup {0}] /\ closed \subseteq Container
    /\ messages \in [Container -> Seq(Msg)]
    /\ \A k \in Container : Len(messages[k]) <= ChanSize
    /\ \A k \in closed : messages[k] = <<>>

\* The early buffer is within its capacity and has at most one message of a peer.
EarlyTypes ==
    /\ early \subseteq Msg /\ Cardinality(early) <= Capacity
    /\ timers \subseteq Msg /\ timer \in Msg \cup {0}
    /\ firing \in Nat
    /\ \A x, y \in early : sentBy[x] = sentBy[y] => x = y

\* A message is in one place, and one that is in none was freed once since it arrived.
FreedOnce ==
    /\ freed \in [Msg -> Nat]
    /\ \A m \in Msg : /\ Held(m) => m <= arrived
                      /\ freed[m] = IF m <= arrived /\ ~Held(m) THEN 1 ELSE 0

Alone ==
    /\ Once(messages)
    /\ \A c, d \in Caller : chand[c] # 0 /\ chand[c] = chand[d] => c = d
    /\ \A m \in Msg : /\ rmsg = m => m \notin early /\ ~InHand(m) /\ ~Queuing(m)
                      /\ m \in early => ~InHand(m) /\ ~Queuing(m)
                      /\ InHand(m) => ~Queuing(m)

MsgInv == ReaderTypes /\ CallerTypes /\ ChannelTypes /\ EarlyTypes /\ FreedOnce /\ Alone

-----------------------------------------------------------------------------
(***************************************************************************)
(* The channels.                                                           *)
(***************************************************************************)

LEMMA Numbers == Msg \subseteq Nat /\ Container \subseteq Nat /\ 0 \notin Msg /\ 0 \notin Container
  BY BufferConstants DEF Msg, Container

LEMMA QueuedIs ==
    ASSUME NEW ks \in SUBSET Container, NEW m
    PROVE  m \in Queued(ks) <=> \E k \in ks : \E i \in DOMAIN messages[k] : messages[k][i] = m
  BY DEF Queued, ToSet

\* A message appended to a channel is inside, and once if it was not inside before.
LEMMA AppendInside ==
    ASSUME NEW q, q \in [Container -> Seq(Msg)], NEW k, k \in Container, NEW m, m \in Msg
    PROVE  LET r == [q EXCEPT ![k] = Append(@, m)]
           IN  /\ r \in [Container -> Seq(Msg)]
               /\ \A x : Inside(r, x) <=> Inside(q, x) \/ x = m
               /\ Once(q) /\ ~Inside(q, m) => Once(r)
<1> DEFINE r == [q EXCEPT ![k] = Append(@, m)]
<1> SUFFICES /\ r \in [Container -> Seq(Msg)]
             /\ \A x : Inside(r, x) <=> Inside(q, x) \/ x = m
             /\ Once(q) /\ ~Inside(q, m) => Once(r)
  OBVIOUS
<1>1. r[k] = Append(q[k], m) /\ q[k] \in Seq(Msg) /\ \A l \in Container : l # k => r[l] = q[l]
  OBVIOUS
<1>2. r[k] \in Seq(Msg) /\ r \in [Container -> Seq(Msg)]
  BY <1>1
<1>3. Len(q[k]) \in Nat /\ DOMAIN q[k] = 1 .. Len(q[k]) /\ DOMAIN r[k] = 1 .. Len(q[k]) + 1
  BY <1>1
<1>4. r[k][Len(q[k]) + 1] = m /\ \A i \in DOMAIN q[k] : r[k][i] = q[k][i]
  BY <1>1, <1>3
<1>5. \A i \in DOMAIN r[k] : i \in DOMAIN q[k] \/ i = Len(q[k]) + 1
  BY <1>3
<1>6. DOMAIN q[k] \subseteq DOMAIN r[k] /\ Len(q[k]) + 1 \in DOMAIN r[k]
  BY <1>3
<1>7. \A x : Inside(r, x) <=> Inside(q, x) \/ x = m
  BY <1>1, <1>4, <1>5, <1>6 DEF Inside
<1>8. ASSUME Once(q), ~Inside(q, m) PROVE Once(r)
  <2>1. ASSUME NEW l \in Container, NEW i \in DOMAIN r[l]
        PROVE  \/ i \in DOMAIN q[l] /\ r[l][i] = q[l][i]
               \/ l = k /\ i = Len(q[k]) + 1 /\ r[l][i] = m
    BY <1>1, <1>4, <1>5, <2>1
  <2>2. \A l \in Container : \A i \in DOMAIN q[l] : q[l][i] # m
    BY <1>8 DEF Inside
  <2> QED
    BY <1>8, <2>1, <2>2 DEF Once
<1> QED
  BY <1>2, <1>7, <1>8

\* The message that is taken from the front of a channel is no longer inside.
LEMMA TailInside ==
    ASSUME NEW q, q \in [Container -> Seq(Msg)], NEW k, k \in Container, q[k] # <<>>, Once(q)
    PROVE  LET r == [q EXCEPT ![k] = Tail(@)]
           IN  /\ r \in [Container -> Seq(Msg)] /\ Head(q[k]) \in Msg /\ Inside(q, Head(q[k]))
               /\ \A x : Inside(r, x) <=> Inside(q, x) /\ x # Head(q[k])
               /\ Once(r)
<1> DEFINE r == [q EXCEPT ![k] = Tail(@)]
<1> SUFFICES /\ r \in [Container -> Seq(Msg)] /\ Head(q[k]) \in Msg /\ Inside(q, Head(q[k]))
             /\ \A x : Inside(r, x) <=> Inside(q, x) /\ x # Head(q[k])
             /\ Once(r)
  OBVIOUS
<1>1. r[k] = Tail(q[k]) /\ q[k] \in Seq(Msg) /\ \A l \in Container : l # k => r[l] = q[l]
  OBVIOUS
<1>2. r[k] \in Seq(Msg) /\ r \in [Container -> Seq(Msg)]
  BY <1>1
<1>3. /\ Len(q[k]) \in Nat \ {0} /\ DOMAIN q[k] = 1 .. Len(q[k]) /\ DOMAIN r[k] = 1 .. Len(q[k]) - 1
      /\ \A i \in DOMAIN r[k] : r[k][i] = q[k][i + 1]
  BY <1>1
<1>4. 1 \in DOMAIN q[k] /\ Head(q[k]) = q[k][1]
  BY <1>1, <1>3
<1>5. /\ \A i \in DOMAIN r[k] : i + 1 \in DOMAIN q[k] /\ i + 1 # 1
      /\ \A j \in DOMAIN q[k] : j = 1 \/ (j - 1 \in DOMAIN r[k] /\ j = (j - 1) + 1)
      /\ \A i, j \in DOMAIN r[k] : i + 1 = j + 1 => i = j
  BY <1>3
<1>6. ASSUME NEW x, Inside(r, x) PROVE Inside(q, x) /\ x # Head(q[k])
  <2>1. PICK l \in Container : \E i \in DOMAIN r[l] : r[l][i] = x
    BY <1>6 DEF Inside
  <2>2. PICK i \in DOMAIN r[l] : r[l][i] = x
    BY <2>1
  <2>3. CASE l = k
    BY <1>3, <1>4, <1>5, <2>2, <2>3 DEF Inside, Once
  <2>4. CASE l # k
    BY <1>1, <1>4, <2>2, <2>4 DEF Inside, Once
  <2> QED
    BY <2>3, <2>4
<1>7. ASSUME NEW x, Inside(q, x), x # Head(q[k]) PROVE Inside(r, x)
  <2>1. PICK l \in Container : \E i \in DOMAIN q[l] : q[l][i] = x
    BY <1>7 DEF Inside
  <2>2. PICK i \in DOMAIN q[l] : q[l][i] = x
    BY <2>1
  <2>3. CASE l = k
    <3>1. i - 1 \in DOMAIN r[k] /\ i = (i - 1) + 1
      BY <1>4, <1>5, <1>7, <2>2, <2>3
    <3>2. r[k][i - 1] = x
      BY <1>3, <2>2, <2>3, <3>1
    <3> QED
      BY <3>1, <3>2 DEF Inside
  <2>4. CASE l # k
    BY <1>1, <2>2, <2>4 DEF Inside
  <2> QED
    BY <2>3, <2>4
<1>8. Once(r)
  <2>1. SUFFICES ASSUME NEW l \in Container, NEW n \in Container, NEW i \in DOMAIN r[l],
                        NEW j \in DOMAIN r[n], r[l][i] = r[n][j]
                 PROVE  l = n /\ i = j
    BY DEF Once
  <2>2. CASE l = k /\ n = k
    BY <1>3, <1>5, <2>1, <2>2 DEF Once
  <2>3. CASE l = k /\ n # k
    BY <1>1, <1>3, <1>5, <2>1, <2>3 DEF Once
  <2>4. CASE l # k /\ n = k
    BY <1>1, <1>3, <1>5, <2>1, <2>4 DEF Once
  <2>5. CASE l # k /\ n # k
    BY <1>1, <2>1, <2>5 DEF Once
  <2> QED
    BY <2>2, <2>3, <2>4, <2>5
<1>9. Head(q[k]) \in Msg /\ Inside(q, Head(q[k]))
  BY <1>1, <1>3, <1>4 DEF Inside
<1> QED
  BY <1>2, <1>6, <1>7, <1>8, <1>9

\* What is left when the channels ks are drained.
LEMMA DrainInside ==
    ASSUME NEW q, q \in [Container -> Seq(Msg)], NEW ks, Once(q), NEW r, r \in [Container -> Seq(Msg)],
           \A k \in Container : r[k] = IF k \in ks THEN <<>> ELSE q[k]
    PROVE  /\ Once(r)
           /\ \A x : Inside(r, x) => Inside(q, x)
           /\ \A x : Inside(q, x) /\ ~Inside(r, x) <=>
                         \E k \in Container \cap ks : \E i \in DOMAIN q[k] : q[k][i] = x
<1>1. \A k \in Container : DOMAIN r[k] = IF k \in ks THEN {} ELSE DOMAIN q[k]
  OBVIOUS
<1>2. \A x : Inside(r, x) <=> \E k \in Container \ ks : \E i \in DOMAIN q[k] : q[k][i] = x
  BY <1>1 DEF Inside
<1>3. \A x : Inside(q, x) /\ ~Inside(r, x) <=>
                 \E k \in Container \cap ks : \E i \in DOMAIN q[k] : q[k][i] = x
  BY <1>2 DEF Inside, Once
<1>4. Once(r)
  BY <1>1 DEF Once
<1>5. \A x : Inside(r, x) => Inside(q, x)
  BY <1>2 DEF Inside
<1> QED
  BY <1>3, <1>4, <1>5

(***************************************************************************)
(* The invariant, one group of steps at a time.                            *)
(***************************************************************************)

\* A step that puts the buffers of S back: exactly they leave the places they were in.
LEMMA Release ==
    ASSUME FreedOnce, arrived' = arrived, NEW S, S \subseteq Msg, Free(S),
           \A m \in S : Held(m), \A m \in Msg : Held(m)' <=> Held(m) /\ m \notin S
    PROVE  FreedOnce'
<1>1. freed' \in [Msg -> Nat] /\ \A m \in Msg : freed'[m] = IF m \in S THEN freed[m] + 1 ELSE freed[m]
  BY DEF Free, FreedOnce
<1> QED
  BY <1>1 DEF FreedOnce

LEMMA Keep ==
    ASSUME FreedOnce, arrived' = arrived, freed' = freed, \A m \in Msg : Held(m)' <=> Held(m)
    PROVE  FreedOnce'
  BY DEF FreedOnce

LEMMA MsgInvInit == MsgInit => MsgInv
<1> SUFFICES ASSUME MsgInit PROVE MsgInv
  OBVIOUS
<1> USE BufferConstants, Numbers
<1>1. ReaderTypes
  BY DEF MsgInit, ReaderTypes, Msg
<1>2. CallerTypes
  BY DEF MsgInit, CallerTypes
<1>3. \A k \in Container : messages[k] = <<>> /\ DOMAIN messages[k] = {}
  BY DEF MsgInit
<1>4. ChannelTypes
  BY <1>3 DEF MsgInit, ChannelTypes
<1>5. EarlyTypes
  BY FS_EmptySet DEF MsgInit, EarlyTypes
<1>6. \A m \in Msg : ~Held(m)
  BY <1>3 DEF MsgInit, Held, InHand, Queuing, Inside
<1>7. FreedOnce
  BY <1>6 DEF MsgInit, FreedOnce, Msg
<1>8. Alone
  BY <1>3, <1>6 DEF MsgInit, Alone, Once, Held
<1> QED
  BY <1>1, <1>2, <1>4, <1>5, <1>7, <1>8 DEF MsgInv

\* Steps that leave every message where it is.
LEMMA OwnersStay ==
    ASSUME FreedOnce, Alone, UNCHANGED <<early, chand, messages, rmsg, arrived, freed>>
    PROVE  FreedOnce' /\ Alone'
  BY DEF FreedOnce, Alone, Held, InHand, Queuing

\* The read loop gives its message back.
LEMMA ReaderFrees ==
    ASSUME FreedOnce, Alone, rmsg \in Msg, rmsg' = 0, Free({rmsg}),
           UNCHANGED <<early, chand, messages, arrived>>
    PROVE  FreedOnce' /\ Alone'
<1>1. \A m \in Msg : (InHand(m)' <=> InHand(m)) /\ (Queuing(m)' <=> Queuing(m)) /\ (m \in early' <=> m \in early)
  BY DEF InHand, Queuing
<1>2. \A m \in Msg : Held(m)' <=> Held(m) /\ m \notin {rmsg}
  BY <1>1, Numbers DEF Alone, Held
<1>3. Held(rmsg)
  BY DEF Held
<1>4. FreedOnce'
  BY <1>2, <1>3, Release
<1> QED
  BY <1>1, <1>4, Numbers DEF Alone

LEMMA EarlySubset ==
    ASSUME EarlyTypes, NEW S, S \subseteq early
    PROVE  IsFiniteSet(S) /\ Cardinality(S) \in Nat /\ Cardinality(S) <= Capacity
<1>1. IsFiniteSet(Msg)
  BY FS_Interval, BufferConstants DEF Msg
<1>2. IsFiniteSet(early) /\ IsFiniteSet(S)
  BY <1>1, FS_Subset DEF EarlyTypes
<1>3. Cardinality(S) <= Cardinality(early) /\ Cardinality(S) \in Nat /\ Cardinality(early) \in Nat
  BY <1>2, FS_Subset, FS_CardinalityType
<1> QED
  BY <1>2, <1>3, BufferConstants DEF EarlyTypes

\* A part of the early buffer keeps what EarlyTypes says of it.
LEMMA EarlyShrinks ==
    ASSUME EarlyTypes, early' \subseteq early, timers' \subseteq Msg, timer' \in Msg \cup {0}, firing' \in Nat,
           sentBy' = sentBy
    PROVE  EarlyTypes'
<1>1. Cardinality(early') <= Capacity
  BY EarlySubset
<1> QED
  BY <1>1 DEF EarlyTypes

LEMMA LeastNumber ==
  ASSUME NEW T, T \subseteq Nat, T # {}
  PROVE  \E x \in T : \A y \in T : x <= y
<1> DEFINE R == {ss \in Nat \X Nat : ss[1] < ss[2]}
<1>1. IsWellFoundedOn(R, Nat)
  BY NatLessThanWellFounded DEF OpToRel
<1>2. \E x \in T : \A y \in T : ~ (<<y, x>> \in R)
  <2> HIDE DEF R
  <2> QED BY <1>1, WFMin
<1>3. PICK x \in T : \A y \in T : ~ (<<y, x>> \in R)
  BY <1>2
<1>4. ASSUME NEW y \in T PROVE x <= y
  <2>1. <<y, x>> \notin R
    BY <1>3
  <2>2. x \in Nat /\ y \in Nat
    OBVIOUS
  <2>3. ~(y < x)
    BY <2>1, <2>2
  <2> QED  BY <2>2, <2>3
<1> QED  BY <1>4

LEMMA CleanupNext == MsgInv /\ Cleanup => MsgInv'
<1> SUFFICES ASSUME MsgInv, Cleanup PROVE MsgInv'
  OBVIOUS
<1> USE DEF MsgInv
<1>1. ReaderTypes'
  <2>1. CASE Expire
    BY <2>1 DEF Expire, ReaderTypes, readerVars
  <2>2. ASSUME NEW m \in Msg, Fire(m) PROVE ReaderTypes'
    BY <2>2 DEF Fire, ReaderTypes, readerVars
  <2>3. CASE RemoveExpired
    BY <2>3 DEF RemoveExpired, ReaderTypes, readerVars
  <2> QED
    BY <2>1, <2>2, <2>3 DEF Cleanup
<1>2. UNCHANGED <<chanVars, callerVars, readerVars, arrived, sentBy>>
  BY DEF Cleanup, Expire, Fire, RemoveExpired
<1>3. CallerTypes' /\ ChannelTypes'
  BY <1>2 DEF CallerTypes, ChannelTypes, chanVars, callerVars
<1>4. CASE Expire \/ \E m \in Msg : Fire(m)
  <2>1. UNCHANGED <<early, timer, freed>> /\ timers' \subseteq timers /\ firing' \in Nat
    BY <1>4 DEF Expire, Fire, earlyVars, EarlyTypes
  <2>2. EarlyTypes'
    BY <1>2, <2>1, EarlyShrinks DEF EarlyTypes
  <2>3. FreedOnce' /\ Alone'
    BY <1>2, <2>1, OwnersStay DEF chanVars, callerVars, readerVars
  <2> QED
    BY <1>1, <1>3, <2>2, <2>3
<1>5. CASE RemoveExpired
  <2>1. early' \subseteq early /\ Free(early \ early') /\ early \subseteq Msg
    BY <1>5 DEF RemoveExpired, EarlyTypes
  <2>2. timers' \subseteq Msg /\ timer' \in Msg \cup {0} /\ firing' \in Nat
    <3>1. CASE early' = {}
      BY <1>5, <3>1 DEF RemoveExpired, EarlyTypes
    <3>2. CASE early' # {}
      <4>1. PICK m \in early' : \A x \in early' : m <= x
        <5>1. early' \subseteq Nat /\ IsFiniteSet(early')
          BY <2>1, Numbers, EarlySubset
        <5> QED
          BY <3>2, <5>1, LeastNumber
      <4>2. Min(early') \in early'
        BY <4>1 DEF Min
      <4> QED
        BY <1>5, <2>1, <3>2, <4>2 DEF RemoveExpired, ScheduleCleanup, EarlyTypes
    <3> QED
      BY <3>1, <3>2
  <2>3. EarlyTypes'
    BY <1>2, <2>1, <2>2, EarlyShrinks
  <2>4. \A m \in Msg : /\ rmsg' = rmsg /\ (InHand(m)' <=> InHand(m)) /\ (Queuing(m)' <=> Queuing(m))
    BY <1>2 DEF InHand, Queuing, chanVars, callerVars, readerVars
  <2>5. Alone'
    BY <1>2, <2>1, <2>4 DEF Alone, chanVars, callerVars
  <2>6. \A m \in Msg : Held(m)' <=> Held(m) /\ m \notin early \ early'
    BY <2>1, <2>4 DEF Alone, Held
  <2>7. \A m \in early \ early' : Held(m)
    BY DEF Held
  <2>8. FreedOnce'
    BY <1>2, <2>1, <2>6, <2>7, Release
  <2> QED
    BY <1>1, <1>3, <2>3, <2>5, <2>8
<1> QED
  BY <1>4, <1>5 DEF Cleanup

\* writeMsg of a message its caller holds in no other place: it is queued, or freed.
LEMMA WriteMsgOutcome ==
    ASSUME ChannelTypes, closed' = closed, conns' = conns, Once(messages),
           NEW k, k \in Container, NEW m, m \in Msg, ~Queuing(m), WriteMsg(k, m)
    PROVE  /\ ChannelTypes' /\ Once(messages')
           /\ \/ freed' = freed /\ \A x : Queuing(x)' <=> Queuing(x) \/ x = m
              \/ Free({m}) /\ \A x : Queuing(x)' <=> Queuing(x)
<1>1. CASE k \notin closed /\ Len(messages[k]) < ChanSize
  <2>1. messages' = [messages EXCEPT ![k] = Append(@, m)] /\ freed' = freed
    BY <1>1 DEF WriteMsg
  <2>2. messages \in [Container -> Seq(Msg)] /\ ~Inside(messages, m)
    BY DEF ChannelTypes, Queuing
  <2> HIDE DEF Msg, Container
  <2>6. /\ messages' \in [Container -> Seq(Msg)] /\ Once(messages')
        /\ \A x : Inside(messages', x) <=> Inside(messages, x) \/ x = m
    BY <2>1, <2>2, AppendInside
  <2>7. \A x : Queuing(x)' <=> Queuing(x) \/ x = m
    BY <2>6 DEF Queuing
  <2>3. messages'[k] = Append(messages[k], m) /\ \A l \in Container : l # k => messages'[l] = messages[l]
    BY <2>1 DEF ChannelTypes
  <2>4. messages[k] \in Seq(Msg) /\ Len(messages'[k]) = Len(messages[k]) + 1 /\ Len(messages[k]) \in Nat
    BY <2>3 DEF ChannelTypes
  <2>5. \A l \in Container : Len(messages'[l]) <= ChanSize
    <3>1. Len(messages[k]) + 1 <= ChanSize
      BY <1>1, <2>4, BufferConstants
    <3> QED
      BY <2>3, <2>4, <3>1 DEF ChannelTypes
  <2>8. \A l \in closed' : messages'[l] = <<>>
    BY <1>1, <2>3 DEF ChannelTypes
  <2>9. ChannelTypes'
    BY <2>5, <2>6, <2>8 DEF ChannelTypes
  <2> QED
    BY <2>1, <2>6, <2>7, <2>9
<1>2. CASE ~(k \notin closed /\ Len(messages[k]) < ChanSize)
  <2>1. messages' = messages /\ Free({m})
    BY <1>2 DEF WriteMsg
  <2> QED
    BY <2>1 DEF ChannelTypes, Queuing
<1> QED
  BY <1>1, <1>2

LEMMA ReceiveNext == ASSUME MsgInv, NEW p \in PeerId, Receive(p) PROVE MsgInv'
<1> USE DEF MsgInv
<1>1. arrived + 1 \in Msg /\ arrived \in Nat /\ rmsg = 0
  <2>1. arrived \in 0 .. MaxMsgs /\ arrived < MaxMsgs /\ rpc = "read" /\ rmsg = 0
    BY DEF Receive, ReaderTypes
  <2> QED
    BY <2>1, BufferConstants DEF Msg
<1>2. ReaderTypes'
  <2>1. sentBy' \in [Msg -> PeerId \cup {NoPeer}] /\ sentBy'[arrived + 1] = p
    BY <1>1 DEF Receive, ReaderTypes
  <2>2. \A m \in Msg : m # arrived + 1 => sentBy'[m] = sentBy[m]
    BY <1>1 DEF Receive, ReaderTypes
  <2>3. \A m \in Msg : m <= arrived + 1 => m <= arrived \/ m = arrived + 1
    BY <1>1 DEF Msg
  <2>4. \A m \in Msg : m <= arrived' => sentBy'[m] \in PeerId
    BY <2>1, <2>2, <2>3 DEF Receive, ReaderTypes
  <2>5. arrived' \in 0 .. MaxMsgs /\ expired' \in 0 .. arrived' /\ rmsg' \in Msg
    BY <1>1, BufferConstants DEF Receive, ReaderTypes, Msg
  <2> QED
    BY <1>1, <2>1, <2>4, <2>5, Numbers DEF Receive, ReaderTypes
<1>3. CallerTypes' /\ ChannelTypes'
  BY DEF Receive, CallerTypes, ChannelTypes, chanVars, callerVars
<1>4. \A m \in Msg : /\ early' = early /\ (InHand(m)' <=> InHand(m)) /\ (Queuing(m)' <=> Queuing(m))
                     /\ freed' = freed /\ chand' = chand /\ messages' = messages
  BY DEF Receive, InHand, Queuing, chanVars, callerVars, earlyVars
<1>5. arrived + 1 \notin early /\ \A m \in Msg : Held(m) => m <= arrived
  BY <1>1 DEF FreedOnce, Held
<1>6. EarlyTypes'
  <2>1. \A x \in early : x \in Msg /\ sentBy'[x] = sentBy[x]
    BY <1>5 DEF Receive, ReaderTypes, EarlyTypes
  <2> QED
    BY <1>4, <2>1 DEF Receive, EarlyTypes, earlyVars
<1>7. rmsg' = arrived + 1 /\ arrived' = arrived + 1
  BY DEF Receive
<1>8. ~Held(arrived + 1)
  BY <1>1, <1>5
<1>9. Alone'
  BY <1>1, <1>4, <1>7, <1>8 DEF Alone, Held
<1>10. \A m \in Msg : Held(m)' <=> Held(m) \/ m = arrived + 1
  BY <1>1, <1>4, <1>7 DEF Held, Msg
<1>11. \A m \in Msg : m \in Nat /\ (m <= arrived + 1 <=> m <= arrived \/ m = arrived + 1)
  BY <1>1 DEF Msg
<1>12. FreedOnce'
  <2>1. ASSUME NEW m \in Msg
        PROVE  /\ Held(m)' => m <= arrived'
               /\ freed'[m] = IF m <= arrived' /\ ~Held(m)' THEN 1 ELSE 0
    <3>1. CASE m = arrived + 1
      <4>1. freed[m] = 0
        BY <1>1, <3>1 DEF FreedOnce
      <4> QED
        BY <1>4, <1>7, <1>10, <3>1, <4>1, <1>1
    <3>2. CASE m # arrived + 1
      BY <1>4, <1>7, <1>10, <1>11, <3>2 DEF FreedOnce
    <3> QED
      BY <3>1, <3>2
  <2>2. freed' \in [Msg -> Nat]
    BY DEF Receive, FreedOnce
  <2> QED
    BY <2>1, <2>2 DEF FreedOnce
<1> QED
  BY <1>2, <1>3, <1>6, <1>9, <1>12

LEMMA LookupNext == MsgInv /\ Lookup => MsgInv'
<1> SUFFICES ASSUME MsgInv, Lookup PROVE MsgInv'
  OBVIOUS
<1> USE DEF MsgInv
<1>1. rmsg \in Msg /\ sentBy[rmsg] \in PeerId \cup {NoPeer}
  BY DEF Lookup, ReaderTypes
<1>2. CallerTypes' /\ ChannelTypes' /\ EarlyTypes'
  BY DEF Lookup, CallerTypes, ChannelTypes, EarlyTypes, chanVars, callerVars, earlyVars
<1>3. CASE running /\ rmsg' = rmsg /\ freed' = freed
  <2>1. rpc' = "write" => rref' \in Container
    <3>1. rmsg <= arrived
      BY <1>1 DEF FreedOnce, Held
    <3>2. conns[sentBy[rmsg]] \in Container \cup {0}
      BY <1>1, <3>1 DEF ReaderTypes, ChannelTypes
    <3> QED
      BY <1>3, <3>2 DEF Lookup
  <2>3. ReaderTypes'
    <3>1. rref' \in Nat /\ rpc' \in {"put", "write"} /\ rmsg' # 0
      <4>1. \/ rpc' = "write" /\ rref' = conns[sentBy[rmsg]]
            \/ rpc' = "put" /\ rref' = bufs
        BY <1>3 DEF Lookup
      <4>2. bufs \in Nat
        BY BufferConstants DEF ReaderTypes
      <4> QED
        BY <1>1, <1>3, <2>1, <4>1, <4>2, Numbers
    <3>2. UNCHANGED <<running, sentBy, bufs, arrived, expired, rmsg>>
      BY <1>3 DEF Lookup
    <3> QED
      BY <2>1, <3>1, <3>2 DEF ReaderTypes
  <2>2. FreedOnce' /\ Alone'
    BY <1>3, OwnersStay DEF Lookup, chanVars, callerVars, earlyVars
  <2> QED
    BY <1>2, <2>2, <2>3
<1>4. CASE ~running /\ rpc' = "gone" /\ rmsg' = 0 /\ rref' = 0 /\ Free({rmsg})
  <2>1. ReaderTypes'
    BY <1>4 DEF Lookup, ReaderTypes
  <2>2. FreedOnce' /\ Alone'
    BY <1>1, <1>4, ReaderFrees DEF Lookup, chanVars, callerVars, earlyVars
  <2> QED
    BY <1>2, <2>1, <2>2
<1> QED
  BY <1>3, <1>4 DEF Lookup

LEMMA PutNext == MsgInv /\ Put => MsgInv'
<1> SUFFICES ASSUME MsgInv, Put PROVE MsgInv'
  OBVIOUS
<1> USE DEF MsgInv
<1> DEFINE Old == SamePeer(rmsg)
<1>1. /\ rmsg \in Msg /\ Old \subseteq early /\ early \subseteq Msg /\ rmsg \notin early
      /\ early' = (early \ Old) \cup {rmsg} /\ Free(Old) /\ rmsg' = 0
      /\ UNCHANGED <<chanVars, callerVars, arrived, sentBy, firing>>
      /\ Cardinality(early \ Old) < Capacity
  BY DEF Put, ReadOn, SamePeer, ReaderTypes, EarlyTypes, Alone
<1>2. ReaderTypes'
  BY DEF Put, ReadOn, ReaderTypes
<1>3. CallerTypes' /\ ChannelTypes'
  BY <1>1 DEF CallerTypes, ChannelTypes, chanVars, callerVars
<1>4. \A x \in early \ Old : sentBy[x] # sentBy[rmsg]
  BY DEF SamePeer
<1> HIDE DEF Old
<1>5. EarlyTypes'
  <2>1. IsFiniteSet(early \ Old) /\ Cardinality(early \ Old) \in Nat
    BY EarlySubset
  <2>2. Cardinality(early') = Cardinality(early \ Old) + 1
    BY <1>1, <2>1, FS_AddElement
  <2>3. Cardinality(early') <= Capacity
    BY <1>1, <2>1, <2>2, BufferConstants
  <2>4. timers' \subseteq Msg /\ timer' \in Msg \cup {0}
    BY <1>1 DEF Put, ScheduleCleanup, EarlyTypes
  <2>5. \A x, y \in early' : sentBy[x] = sentBy[y] => x = y
    BY <1>1, <1>4 DEF EarlyTypes
  <2> QED
    BY <1>1, <2>3, <2>4, <2>5 DEF EarlyTypes
<1>6. \A m \in Msg : (InHand(m)' <=> InHand(m)) /\ (Queuing(m)' <=> Queuing(m))
  BY <1>1 DEF InHand, Queuing, chanVars, callerVars
<1>7. Alone'
  BY <1>1, <1>6, Numbers DEF Alone, chanVars, callerVars
<1>8. \A m \in Msg : Held(m)' <=> Held(m) /\ m \notin Old
  BY <1>1, <1>6, Numbers DEF Alone, Held
<1>9. FreedOnce'
  BY <1>1, <1>8, Release DEF Held
<1> QED
  BY <1>2, <1>3, <1>5, <1>7, <1>9

LEMMA PutFailsNext == MsgInv /\ PutFails => MsgInv'
<1> SUFFICES ASSUME MsgInv, PutFails PROVE MsgInv'
  OBVIOUS
<1> USE DEF MsgInv
<1>1. rmsg \in Msg
  BY DEF PutFails, ReaderTypes
<1>2. ReaderTypes' /\ CallerTypes' /\ ChannelTypes' /\ EarlyTypes'
  BY DEF PutFails, ReadOn, ReaderTypes, CallerTypes, ChannelTypes, EarlyTypes, chanVars, callerVars, earlyVars
<1>3. FreedOnce' /\ Alone'
  BY <1>1, ReaderFrees DEF PutFails, ReadOn, chanVars, callerVars, earlyVars
<1> QED
  BY <1>2, <1>3

LEMMA WriteNext == MsgInv /\ Write => MsgInv'
<1> SUFFICES ASSUME MsgInv, Write PROVE MsgInv'
  OBVIOUS
<1> USE DEF MsgInv
<1>1. rmsg \in Msg /\ rref \in Container /\ rmsg' = 0 /\ UNCHANGED <<early, callerVars, closed, conns, arrived>>
  BY DEF Write, ReadOn, ReaderTypes, earlyVars
<1>2. ReaderTypes' /\ CallerTypes' /\ EarlyTypes'
  BY DEF Write, ReadOn, ReaderTypes, CallerTypes, EarlyTypes, callerVars, earlyVars
<1>3. ~Queuing(rmsg) /\ rmsg \notin early /\ ~InHand(rmsg) /\ Once(messages)
  BY <1>1 DEF Alone
<1>4. /\ ChannelTypes' /\ Once(messages')
      /\ \/ freed' = freed /\ \A x : Queuing(x)' <=> Queuing(x) \/ x = rmsg
         \/ Free({rmsg}) /\ \A x : Queuing(x)' <=> Queuing(x)
  BY <1>1, <1>3, WriteMsgOutcome DEF Write
<1>5. \A m : InHand(m)' <=> InHand(m)
  BY <1>1 DEF InHand, callerVars
<1>6. Alone'
  BY <1>1, <1>3, <1>4, <1>5, Numbers DEF Alone, callerVars
<1>7. CASE freed' = freed /\ \A x : Queuing(x)' <=> Queuing(x) \/ x = rmsg
  <2>1. \A m \in Msg : Held(m)' <=> Held(m)
    BY <1>1, <1>5, <1>7, Numbers DEF Held
  <2> QED
    BY <1>1, <1>2, <1>4, <1>6, <1>7, <2>1, Keep
<1>8. CASE Free({rmsg}) /\ \A x : Queuing(x)' <=> Queuing(x)
  <2>1. \A m \in Msg : Held(m)' <=> Held(m) /\ m \notin {rmsg}
    BY <1>1, <1>3, <1>5, <1>8, Numbers DEF Held
  <2>2. FreedOnce'
    BY <1>1, <1>8, <2>1, Release DEF Held
  <2> QED
    BY <1>2, <1>4, <1>6, <2>2
<1> QED
  BY <1>4, <1>7, <1>8

LEMMA ReadFailsNext == MsgInv /\ (ReadFails \/ Connect \/ UNCHANGED msgVars) => MsgInv'
<1> SUFFICES ASSUME MsgInv, ReadFails \/ Connect \/ UNCHANGED msgVars PROVE MsgInv'
  OBVIOUS
<1> USE DEF MsgInv
<1>1. ReaderTypes'
  BY DEF ReadFails, Connect, msgVars, ReaderTypes, readerVars
<1>2. UNCHANGED <<chanVars, earlyVars, callerVars, rmsg, arrived, freed, sentBy>>
  BY DEF ReadFails, Connect, msgVars, readerVars
<1>3. CallerTypes' /\ ChannelTypes' /\ EarlyTypes'
  BY <1>2 DEF CallerTypes, ChannelTypes, EarlyTypes, chanVars, callerVars, earlyVars
<1>4. FreedOnce' /\ Alone'
  BY <1>2, OwnersStay DEF chanVars, callerVars, earlyVars
<1> QED
  BY <1>1, <1>3, <1>4

LEMMA OpenConnNext == ASSUME MsgInv, NEW c \in Caller, NEW p \in PeerId, OpenConn(c, p) PROVE MsgInv'
<1> USE DEF MsgInv
<1>1. /\ cpc[c] = "idle" /\ chand[c] = 0 /\ opens + 1 \in Container /\ opens' = opens + 1 /\ opens' \in 0 .. MaxOpens
      /\ UNCHANGED <<running, closed, messages, firing, sentBy, bufs, expired, readerVars, arrived, freed>>
  <2>1. opens \in Nat /\ opens < MaxOpens /\ cpc[c] = "idle"
    BY BufferConstants DEF OpenConn, CallerTypes
  <2> QED
    BY <2>1, BufferConstants DEF OpenConn, CallerTypes, Container
<1>2. /\ ReaderTypes'
      /\ early' = {m \in early : sentBy[m] # p} /\ early \subseteq Msg /\ early' \subseteq early
      /\ conns' = [conns EXCEPT ![p] = opens + 1] /\ ccont' = [ccont EXCEPT ![c] = opens + 1]
  BY <1>1 DEF OpenConn, ReaderTypes, readerVars, EarlyTypes
<1>3. ChannelTypes'
  BY <1>1, <1>2 DEF ChannelTypes
<1>4. EarlyTypes'
  <2>1. timers' \subseteq Msg /\ timer' \in Msg \cup {0} /\ firing' \in Nat
    BY <1>1 DEF OpenConn, StopCleanup, EarlyTypes
  <2> QED
    BY <1>1, <1>2, <2>1, EarlyShrinks
<1>5. \A m : Queuing(m)' <=> Queuing(m)
  BY <1>1 DEF Queuing
<1>6. CASE cpc' = [cpc EXCEPT ![c] = "open"] /\ early' = early /\ chand' = chand
  <2>1. CallerTypes'
    BY <1>1, <1>2, <1>6, Numbers DEF CallerTypes
  <2>2. FreedOnce' /\ Alone'
    BY <1>1, <1>6, OwnersStay DEF readerVars
  <2> QED
    BY <1>2, <1>3, <1>4, <2>1, <2>2
<1>7. ASSUME NEW m \in early \ early', chand' = [chand EXCEPT ![c] = m], cpc' = [cpc EXCEPT ![c] = "flush"]
      PROVE  MsgInv'
  <2>1. m \in Msg /\ m # 0 /\ m \in early /\ sentBy[m] = p /\ early' = early \ {m}
    BY <1>2, <1>7, Numbers DEF EarlyTypes
  <2>2. CallerTypes'
    BY <1>1, <1>2, <1>7, <2>1, Numbers DEF CallerTypes
  <2>3. chand'[c] = m /\ \A d \in Caller : d # c => chand'[d] = chand[d]
    BY <1>7 DEF CallerTypes
  <2>4. \A x \in Msg : InHand(x)' <=> InHand(x) \/ x = m
    BY <1>1, <2>3, Numbers DEF InHand
  <2>5. rmsg' = rmsg /\ messages' = messages
    BY <1>1 DEF readerVars
  <2>6. \A x \in Msg : Held(x)' <=> Held(x)
    BY <1>5, <2>1, <2>4, <2>5 DEF Held
  <2>7. FreedOnce'
    BY <1>1, <2>6, Keep
  <2>8. \A d \in Caller : chand[d] # m
    BY <2>1 DEF Alone, InHand
  <2>9. Alone'
    BY <1>5, <2>1, <2>3, <2>4, <2>5, <2>8 DEF Alone
  <2> QED
    BY <1>2, <1>3, <1>4, <2>2, <2>7, <2>9
<1> QED
  BY <1>6, <1>7 DEF OpenConn

LEMMA FlushNext == ASSUME MsgInv, NEW c \in Caller, Flush(c) PROVE MsgInv'
<1> USE DEF MsgInv
<1> DEFINE m == chand[c]
<1>1. /\ m \in Msg /\ m # 0 /\ ccont[c] \in Container
      /\ chand' = [chand EXCEPT ![c] = 0] /\ cpc' = [cpc EXCEPT ![c] = "open"]
      /\ UNCHANGED <<conns, closed, early, rmsg, arrived, ccont, opens>>
  BY DEF Flush, CallerTypes, earlyVars, readerVars
<1>2. ReaderTypes' /\ CallerTypes' /\ EarlyTypes'
  BY <1>1, Numbers DEF Flush, ReaderTypes, CallerTypes, EarlyTypes, readerVars, earlyVars
<1>3. ~Queuing(m) /\ m \notin early /\ rmsg # m /\ Once(messages) /\ InHand(m)
  BY <1>1 DEF Alone, InHand
<1>4. /\ ChannelTypes' /\ Once(messages')
      /\ \/ freed' = freed /\ \A x : Queuing(x)' <=> Queuing(x) \/ x = m
         \/ Free({m}) /\ \A x : Queuing(x)' <=> Queuing(x)
  BY <1>1, <1>3, WriteMsgOutcome DEF Flush
<1>5. chand'[c] = 0 /\ \A d \in Caller : d # c => chand'[d] = chand[d] /\ chand[d] # m
  BY <1>1 DEF CallerTypes, Alone
<1>6. \A x \in Msg : InHand(x)' <=> InHand(x) /\ x # m
  BY <1>5, Numbers DEF InHand
<1> HIDE DEF m
<1>7. Alone'
  BY <1>1, <1>3, <1>4, <1>5, <1>6 DEF Alone
<1>8. CASE freed' = freed /\ \A x : Queuing(x)' <=> Queuing(x) \/ x = m
  <2>1. \A x \in Msg : Held(x)' <=> Held(x)
    BY <1>1, <1>3, <1>6, <1>8 DEF Held
  <2> QED
    BY <1>1, <1>2, <1>4, <1>7, <1>8, <2>1, Keep
<1>9. CASE Free({m}) /\ \A x : Queuing(x)' <=> Queuing(x)
  <2>1. \A x \in Msg : Held(x)' <=> Held(x) /\ x \notin {m}
    BY <1>1, <1>3, <1>6, <1>9 DEF Held
  <2>2. FreedOnce'
    BY <1>1, <1>3, <1>9, <2>1, Release DEF Held
  <2> QED
    BY <1>2, <1>4, <1>7, <2>2
<1> QED
  BY <1>4, <1>8, <1>9

LEMMA ConnReadNext == ASSUME MsgInv, NEW c \in Caller, ConnRead(c) PROVE MsgInv'
<1> USE DEF MsgInv
<1> DEFINE k == ccont[c]
           m == Head(messages[k])
<1>1. /\ k \in Container /\ messages[k] # <<>> /\ messages' = [messages EXCEPT ![k] = Tail(@)]
      /\ Free({m}) /\ UNCHANGED <<conns, closed, early, chand, rmsg, arrived>>
  BY DEF ConnRead, CallerTypes, callerVars, earlyVars, readerVars
<1>2. ReaderTypes' /\ CallerTypes' /\ EarlyTypes'
  BY DEF ConnRead, ReaderTypes, CallerTypes, EarlyTypes, callerVars, readerVars, earlyVars
<1> HIDE DEF k
<1>3. /\ messages' \in [Container -> Seq(Msg)] /\ m \in Msg /\ Inside(messages, m) /\ Once(messages')
      /\ \A x : Inside(messages', x) <=> Inside(messages, x) /\ x # m
  <2>1. messages \in [Container -> Seq(Msg)] /\ Once(messages)
    BY DEF ChannelTypes, Alone
  <2> QED
    BY <1>1, <2>1, TailInside
<1>4. ChannelTypes'
  <2>1. messages'[k] = Tail(messages[k]) /\ \A l \in Container : l # k => messages'[l] = messages[l]
    BY <1>1 DEF ChannelTypes
  <2>2. messages[k] \in Seq(Msg) /\ Len(messages[k]) \in Nat /\ Len(messages'[k]) = Len(messages[k]) - 1
    BY <1>1, <2>1 DEF ChannelTypes
  <2>3. \A l \in Container : Len(messages'[l]) <= ChanSize
    <3>1. Len(messages[k]) <= ChanSize
      BY <1>1 DEF ChannelTypes
    <3>2. Len(messages'[k]) <= ChanSize
      BY <2>2, <3>1, BufferConstants
    <3> QED
      BY <2>1, <3>2 DEF ChannelTypes
  <2>4. k \notin closed
    BY <1>1 DEF ChannelTypes
  <2> QED
    BY <1>1, <1>3, <2>1, <2>3, <2>4 DEF ChannelTypes
<1> HIDE DEF m
<1>5. Queuing(m) /\ \A x : (Queuing(x)' <=> Queuing(x) /\ x # m) /\ (InHand(x)' <=> InHand(x))
  BY <1>1, <1>3 DEF Queuing, InHand
<1>6. Alone'
  BY <1>1, <1>3, <1>5 DEF Alone
<1>7. \A x \in Msg : Held(x)' <=> Held(x) /\ x \notin {m}
  BY <1>1, <1>3, <1>5 DEF Held, Alone
<1>8. FreedOnce'
  BY <1>1, <1>3, <1>5, <1>7, Release DEF Held
<1> QED
  BY <1>2, <1>4, <1>6, <1>8

\* Closing containers frees what is in their channels, with the messages S that are freed
\* in the same step: those of the early buffer, or none.
LEMMA CloseNext ==
    ASSUME MsgInv, NEW ks \in SUBSET Container, NEW S, S \subseteq early, CloseContainers(ks, S),
           early' = early \ S, ReaderTypes', CallerTypes', EarlyTypes',
           UNCHANGED <<chand, rmsg, arrived>>
    PROVE  MsgInv'
<1> USE DEF MsgInv
<1>1. /\ messages \in [Container -> Seq(Msg)] /\ Once(messages) /\ early \subseteq Msg
      /\ messages' = [k \in Container |-> IF k \in ks THEN <<>> ELSE messages[k]]
      /\ Free(Queued(ks) \cup S)
  BY DEF CloseContainers, ChannelTypes, Alone, EarlyTypes
<1>2. /\ messages' \in [Container -> Seq(Msg)] /\ Once(messages')
      /\ \A x : Inside(messages', x) => Inside(messages, x)
      /\ \A x : Inside(messages, x) /\ ~Inside(messages', x) <=>
                    \E k \in Container \cap ks : \E i \in DOMAIN messages[k] : messages[k][i] = x
  <2>1. /\ messages' \in [Container -> Seq(Msg)]
        /\ \A k \in Container : messages'[k] = IF k \in ks THEN <<>> ELSE messages[k]
    BY <1>1
  <2>2. messages \in [Container -> Seq(Msg)] /\ Once(messages)
    BY <1>1
  <2>3. \A x : Inside(messages', x) => Inside(messages, x)
    BY <2>1, <2>2, DrainInside
  <2>4. \A x : Inside(messages, x) /\ ~Inside(messages', x) <=>
                    \E k \in Container \cap ks : \E i \in DOMAIN messages[k] : messages[k][i] = x
    BY <2>1, <2>2, DrainInside
  <2>5. Once(messages')
    BY <2>1, <2>2, DrainInside
  <2> QED
    BY <2>1, <2>3, <2>4, <2>5
<1>3. \A x : x \in Queued(ks) <=> Queuing(x) /\ ~Queuing(x)'
  <2>1. \A x : x \in Queued(ks) <=> \E k \in Container \cap ks : \E i \in DOMAIN messages[k] : messages[k][i] = x
    BY QueuedIs
  <2> QED
    BY <1>2, <2>1 DEF Queuing
<1>4. Queued(ks) \subseteq Msg
  BY <1>1, QueuedIs
<1>5. ChannelTypes'
  <2>1. \A k \in Container : messages'[k] = IF k \in ks THEN <<>> ELSE messages[k]
    BY <1>1
  <2>2. \A k \in Container : Len(messages'[k]) <= ChanSize
    BY <2>1, BufferConstants DEF ChannelTypes
  <2>3. closed' = closed \cup ks /\ conns' \in [PeerId -> Container \cup {0}]
    BY DEF CloseContainers, ChannelTypes
  <2> QED
    BY <1>2, <2>1, <2>2, <2>3 DEF ChannelTypes
<1>6. \A x : (Queuing(x)' => Queuing(x)) /\ (InHand(x)' <=> InHand(x))
  BY <1>2 DEF Queuing, InHand
<1>7. Alone'
  BY <1>2, <1>6 DEF Alone
<1>8. \A x \in Msg : Held(x)' <=> Held(x) /\ x \notin Queued(ks) \cup S
  BY <1>3, <1>6 DEF Held, Alone
<1>9. \A x \in Queued(ks) \cup S : Held(x)
  BY <1>3 DEF Held
<1>10. FreedOnce'
  BY <1>1, <1>4, <1>8, <1>9, Release
<1> QED
  BY <1>5, <1>7, <1>10

LEMMA ConnCloseNext == ASSUME MsgInv, NEW c \in Caller, ConnClose(c) PROVE MsgInv'
<1> USE DEF MsgInv
<1> DEFINE ks == {k \in {ccont[c]} : \E p \in PeerId : conns[p] = k}
<1>1. ks \in SUBSET Container /\ CloseContainers(ks, {}) /\ chand[c] = 0
  BY DEF ConnClose, CallerTypes
<1>2. early' = early /\ UNCHANGED <<chand, rmsg, arrived>>
  BY DEF ConnClose, earlyVars, readerVars
<1>3. ReaderTypes' /\ EarlyTypes' /\ CallerTypes'
  BY <1>1 DEF ConnClose, ReaderTypes, EarlyTypes, CallerTypes, readerVars, earlyVars
<1> QED
  BY <1>1, <1>2, <1>3, CloseNext

LEMMA PeerWentOfflineNext == ASSUME MsgInv, NEW p \in PeerId, PeerWentOffline(p) PROVE MsgInv'
<1> USE DEF MsgInv
<1>1. {conns[p]} \in SUBSET Container /\ CloseContainers({conns[p]}, {})
  BY DEF PeerWentOffline, ChannelTypes
<1>2. early' = early /\ UNCHANGED <<chand, rmsg, arrived>>
  BY DEF PeerWentOffline, earlyVars, readerVars, callerVars
<1>3. ReaderTypes' /\ EarlyTypes' /\ CallerTypes'
  BY DEF PeerWentOffline, ReaderTypes, EarlyTypes, CallerTypes, readerVars, earlyVars, callerVars
<1> QED
  BY <1>1, <1>2, <1>3, CloseNext

LEMMA CloseAllConnsNext == MsgInv /\ CloseAllConns => MsgInv'
<1> SUFFICES ASSUME MsgInv, CloseAllConns PROVE MsgInv'
  OBVIOUS
<1> USE DEF MsgInv
<1> DEFINE ks == {conns[p] : p \in PeerId} \ {0}
<1>1. ks \in SUBSET Container /\ CloseContainers(ks, early)
  BY DEF CloseAllConns, ChannelTypes
<1>2. early' = early \ early /\ early' = {} /\ UNCHANGED <<chand, rmsg, arrived, sentBy>>
  BY DEF CloseAllConns, readerVars, callerVars
<1>3. ReaderTypes'
  <2>1. bufs' \in 0 .. MaxCloses
    BY BufferConstants DEF CloseAllConns, ReaderTypes
  <2> QED
    BY <2>1 DEF CloseAllConns, ReaderTypes, readerVars
<1>4. CallerTypes'
  BY DEF CloseAllConns, CallerTypes, callerVars
<1>5. EarlyTypes'
  BY <1>2, EarlyShrinks DEF CloseAllConns
<1> QED
  BY <1>1, <1>2, <1>3, <1>4, <1>5, CloseNext

LEMMA MsgInvNext == MsgInv /\ [MsgNext]_msgVars => MsgInv'
<1> SUFFICES ASSUME MsgInv, [MsgNext]_msgVars PROVE MsgInv'
  OBVIOUS
<1>1. CASE ReadLoop
  BY <1>1, ReceiveNext, PeerWentOfflineNext, LookupNext, PutNext, PutFailsNext, WriteNext, ReadFailsNext DEF ReadLoop
<1>2. ASSUME NEW c \in Caller, User(c) PROVE MsgInv'
  BY <1>2, OpenConnNext, FlushNext, ConnReadNext, ConnCloseNext DEF User
<1>3. CASE Cleanup \/ CloseAllConns \/ Connect \/ UNCHANGED msgVars
  BY <1>3, CleanupNext, CloseAllConnsNext, ReadFailsNext
<1> QED
  BY <1>1, <1>2, <1>3 DEF MsgNext

\* The place of a message, when it has one.
LEMMA PlaceOf ==
    ASSUME MsgInv, NEW m, m \in Msg
    PROVE  /\ ~Held(m) => Places(m) = {}
           /\ Held(m) => \E x : Places(m) = {x}
<1> USE DEF MsgInv
<1> DEFINE Opener == {<<"opener", c>> : c \in {d \in Caller : chand[d] = m}}
           Chan == UNION {{<<"chan", k, i>> : i \in {j \in DOMAIN messages[k] : messages[k][j] = m}} :
                             k \in Container \ closed}
           Reader == {<<"reader">> : x \in {rmsg} \cap {m}}
           Early == {<<"early">> : x \in early \cap {m}}
<1>1. Places(m) = Reader \cup Early \cup Opener \cup Chan
  BY DEF Places
<1>2. Reader = IF rmsg = m THEN {<<"reader">>} ELSE {}
  OBVIOUS
<1>3. Early = IF m \in early THEN {<<"early">>} ELSE {}
  OBVIOUS
<1>4. /\ ~InHand(m) => Opener = {}
      /\ \A c \in Caller : chand[c] = m => Opener = {<<"opener", c>>}
  <2>1. m # 0
    BY Numbers
  <2>2. ASSUME NEW c \in Caller, chand[c] = m PROVE \A d \in Caller : chand[d] = m <=> d = c
    BY <2>1, <2>2 DEF Alone
  <2> QED
    BY <2>2 DEF InHand
<1>5. /\ ~Queuing(m) => Chan = {}
      /\ \A k \in Container : \A i \in DOMAIN messages[k] : messages[k][i] = m => Chan = {<<"chan", k, i>>}
  <2>1. \A x : x \in Chan <=> \E k \in Container \ closed : \E i \in DOMAIN messages[k] :
                                  messages[k][i] = m /\ x = <<"chan", k, i>>
    OBVIOUS
  <2>2. \A k \in closed : DOMAIN messages[k] = {}
    BY DEF ChannelTypes
  <2>3. \A x : x \in Chan <=> \E k \in Container : \E i \in DOMAIN messages[k] :
                                  messages[k][i] = m /\ x = <<"chan", k, i>>
    BY <2>1, <2>2
  <2> HIDE DEF Chan
  <2>4. ~Queuing(m) => Chan = {}
    BY <2>3 DEF Queuing, Inside
  <2>5. ASSUME NEW k \in Container, NEW i \in DOMAIN messages[k], messages[k][i] = m
        PROVE  Chan = {<<"chan", k, i>>}
    <3>1. \A l \in Container : \A j \in DOMAIN messages[l] : messages[l][j] = m => l = k /\ j = i
      BY <2>5 DEF Alone, Once
    <3>2. \A x : x \in Chan <=> x = <<"chan", k, i>>
      BY <2>3, <2>5, <3>1
    <3> QED
      BY <3>2
  <2> QED
    BY <2>4, <2>5
<1> HIDE DEF Opener, Chan, Reader, Early
<1>6. ~Held(m) => Places(m) = {}
  BY <1>1, <1>2, <1>3, <1>4, <1>5 DEF Held
<1>7. CASE rmsg = m
  BY <1>1, <1>2, <1>3, <1>4, <1>5, <1>6, <1>7 DEF Alone
<1>8. CASE m \in early
  BY <1>1, <1>2, <1>3, <1>4, <1>5, <1>6, <1>8 DEF Alone
<1>9. CASE InHand(m)
  <2>1. PICK c \in Caller : chand[c] = m
    BY <1>9 DEF InHand
  <2>2. Places(m) = {<<"opener", c>>}
    BY <1>1, <1>2, <1>3, <1>4, <1>5, <1>9, <2>1 DEF Alone
  <2> QED
    BY <1>6, <2>2
<1>10. CASE Queuing(m)
  <2>1. PICK k \in Container : \E i \in DOMAIN messages[k] : messages[k][i] = m
    BY <1>10 DEF Queuing, Inside
  <2>2. PICK i \in DOMAIN messages[k] : messages[k][i] = m
    BY <2>1
  <2>3. Places(m) = {<<"chan", k, i>>}
    BY <1>1, <1>2, <1>3, <1>4, <1>5, <1>10, <2>2 DEF Alone
  <2> QED
    BY <1>6, <2>3
<1> QED
  BY <1>6, <1>7, <1>8, <1>9, <1>10 DEF Held

\* However many peers, connections and restarts meet, and whatever the capacities are, a
\* pooled buffer is in one place or back in the pool: freed once, and by nobody while the
\* read loop, the early buffer, an OpenConn or a channel still has it.
THEOREM BuffersAreOwnedOnce == MsgSpec => []OwnedOnce
<1>1. MsgInv => OwnedOnce
  <2> SUFFICES ASSUME MsgInv, NEW m \in 1 .. arrived PROVE Cardinality(Places(m)) + freed[m] = 1
    BY DEF OwnedOnce
  <2>1. m \in Msg /\ m <= arrived
    BY BufferConstants DEF MsgInv, ReaderTypes, Msg
  <2>2. CASE Held(m)
    <3>1. freed[m] = 0
      BY <2>1, <2>2 DEF MsgInv, FreedOnce
    <3>2. Cardinality(Places(m)) = 1
      BY <2>1, <2>2, PlaceOf, FS_Singleton
    <3> QED
      BY <3>1, <3>2
  <2>3. CASE ~Held(m)
    <3>1. freed[m] = 1
      BY <2>1, <2>3 DEF MsgInv, FreedOnce
    <3>2. Cardinality(Places(m)) = 0
      BY <2>1, <2>3, PlaceOf, FS_EmptySet
    <3> QED
      BY <3>1, <3>2
  <2> QED
    BY <2>2, <2>3
<1> QED
  BY MsgInvInit, MsgInvNext, <1>1, PTL DEF MsgSpec

\* The early buffer stays within earlyMsgCapacity and has at most one message of a peer,
\* no channel holds more than connChannelSize, and a closed one holds nothing.
THEOREM BuffersAreBounded ==
    MsgSpec => [](/\ MsgTypeOK
                  /\ \A x, y \in early : sentBy[x] = sentBy[y] => x = y
                  /\ \A k \in closed : messages[k] = <<>>)
<1> DEFINE Bounds == /\ MsgTypeOK
                     /\ \A x, y \in early : sentBy[x] = sentBy[y] => x = y
                     /\ \A k \in closed : messages[k] = <<>>
<1>1. MsgInv => Bounds
  <2> SUFFICES ASSUME MsgInv PROVE Bounds
    OBVIOUS
  <2>1. expired \in 0 .. MaxMsgs
    BY BufferConstants DEF MsgInv, ReaderTypes
  <2> QED
    BY <2>1 DEF MsgInv, ReaderTypes, CallerTypes, ChannelTypes, EarlyTypes, FreedOnce, MsgTypeOK
<1> HIDE DEF Bounds
<1>2. MsgSpec => []Bounds
  BY MsgInvInit, MsgInvNext, <1>1, PTL DEF MsgSpec
<1> QED
  BY <1>2 DEF Bounds

-----------------------------------------------------------------------------
(***************************************************************************)
(* HealthCheck.                                                            *)
(***************************************************************************)


LEMMA Constants ==
    /\ Interval \in Nat /\ Window \in Nat /\ RWindow \in Nat /\ Threshold \in Nat
    /\ Interval > 0 /\ Window > 0 /\ RWindow > 0 /\ Threshold > 0 /\ Interval < Window
    /\ WriteTimeout \in Nat /\ MaxDelay \in Nat /\ MaxLost \in Nat
  BY HealthCheckConstants

LEMMA Periods ==
    /\ Period["interval"] = Interval /\ Period["timeout"] = Window /\ Period["heartbeat"] = RWindow
    /\ \A t \in Ticker : Period[t] \in Nat /\ Period[t] > 0 /\ Period[t] <= Interval + Window + RWindow
  BY Constants DEF Period, Ticker

(***************************************************************************)
(* The tickers.                                                            *)
(***************************************************************************)

Tick == [left : 1 .. Interval + Window + RWindow, due : BOOLEAN]

TickerTypes ==
    /\ ticks \in [Ticker -> Tick]
    /\ \A t \in Ticker : ticks[t].left <= Period[t]

LEMMA TickFields ==
    ASSUME TickerTypes, NEW t, t \in Ticker
    PROVE  ticks[t].left \in Nat /\ ticks[t].left >= 1 /\ ticks[t].left <= Period[t] /\ ticks[t].due \in BOOLEAN
  BY Constants DEF TickerTypes, Tick

LEMMA TakeEffect ==
    ASSUME TickerTypes, NEW t, t \in Ticker, Take(t)
    PROVE  /\ TickerTypes'
           /\ ticks[t].due /\ ~ ticks'[t].due
           /\ \A u \in Ticker : ticks'[u].left = ticks[u].left /\ (u # t => ticks'[u].due = ticks[u].due)
<1>1. ticks[t].due /\ ticks' = [ticks EXCEPT ![t] = [ticks[t] EXCEPT !.due = FALSE]]
  BY DEF Take
<1>2. ticks[t] \in Tick /\ [ticks[t] EXCEPT !.due = FALSE] \in Tick
  BY DEF TickerTypes, Tick
<1>3. ticks'[t] = [ticks[t] EXCEPT !.due = FALSE] /\ \A u \in Ticker : u # t => ticks'[u] = ticks[u]
  BY <1>1 DEF TickerTypes
<1>4. ticks'[t].left = ticks[t].left /\ ticks'[t].due = FALSE
  BY <1>2, <1>3 DEF Tick
<1>5. \A u \in Ticker : ticks'[u].left = ticks[u].left /\ (u # t => ticks'[u].due = ticks[u].due)
  BY <1>3, <1>4
<1>6. TickerTypes'
  BY <1>1, <1>2, <1>5 DEF TickerTypes
<1> QED
  BY <1>1, <1>4, <1>5, <1>6

\* A running ticker counts down and starts again when it fires.
LEMMA PassEffect ==
    ASSUME TickerTypes, Pass
    PROVE  /\ TickerTypes'
           /\ \A t \in Ticker : ~ Stopped(t) /\ ticks[t].left = 1 => ticks'[t].left = Period[t] /\ ticks'[t].due
           /\ \A t \in Ticker : ~ Stopped(t) /\ ticks[t].left # 1 =>
                  ticks'[t].left = ticks[t].left - 1 /\ ticks'[t].due = ticks[t].due
<1>1. ASSUME NEW t \in Ticker
      PROVE  /\ ticks'[t] \in Tick /\ ticks'[t].left <= Period[t]
             /\ ~ Stopped(t) /\ ticks[t].left = 1 => ticks'[t].left = Period[t] /\ ticks'[t].due
             /\ ~ Stopped(t) /\ ticks[t].left # 1 =>
                    ticks'[t].left = ticks[t].left - 1 /\ ticks'[t].due = ticks[t].due
  <2>1. /\ Period[t] \in 1 .. Interval + Window + RWindow
        /\ ticks[t] \in Tick
        /\ ticks[t].left \in Nat /\ ticks[t].left >= 1 /\ ticks[t].left <= Period[t]
    BY <1>1, Constants, Periods, TickFields DEF TickerTypes
  <2>2. CASE Stopped(t)
    <3>1. ticks'[t] = [left |-> Period[t], due |-> FALSE]
      BY <1>1, <2>2 DEF Pass
    <3> QED
      BY <2>1, <2>2, <3>1 DEF Tick
  <2>3. CASE ~ Stopped(t) /\ ticks[t].left = 1
    <3>1. ticks'[t] = [left |-> Period[t], due |-> TRUE]
      BY <1>1, <2>3 DEF Pass
    <3> QED
      BY <2>1, <2>3, <3>1 DEF Tick
  <2>4. CASE ~ Stopped(t) /\ ticks[t].left # 1
    <3>1. ticks'[t] = [ticks[t] EXCEPT !.left = ticks[t].left - 1]
      BY <1>1, <2>4 DEF Pass
    <3>2. ticks[t].left - 1 \in 1 .. Interval + Window + RWindow
      BY <2>1, <2>4, Constants, Periods
    <3>3. ticks'[t].left = ticks[t].left - 1 /\ ticks'[t].due = ticks[t].due
      BY <2>1, <3>1 DEF Tick
    <3>4. ticks'[t] \in Tick
      BY <2>1, <3>1, <3>2 DEF Tick
    <3> QED
      BY <2>1, <2>4, <3>3, <3>4
  <2> QED
    BY <2>2, <2>3, <2>4
<1>2. ticks' = [t \in Ticker |-> ticks'[t]]
  BY DEF Pass
<1>3. ticks' \in [Ticker -> Tick]
  BY <1>1, <1>2
<1> QED
  BY <1>1, <1>3 DEF TickerTypes

(***************************************************************************)
(* Types.  A goroutine that has not given up has failed less often than    *)
(* the threshold.                                                          *)
(***************************************************************************)

SenderTypes ==
    /\ sender \in {"select", "blocked", "gone"}
    /\ sFail \in 0 .. Threshold
    /\ sender # "gone" => sFail < Threshold

WriterTypes ==
    /\ writer \in {"select", "write", "gone"}
    /\ writing \in 0 .. WriteTimeout

ReceiverTypes ==
    /\ receiver \in {"select", "gone"}
    /\ rFail \in 0 .. Threshold
    /\ receiver = "select" => rFail < Threshold

NetTypes ==
    /\ toClient \subseteq 0 .. MaxDelay
    /\ toServer \subseteq 0 .. MaxDelay
    /\ lost \in 0 .. MaxLost
    /\ quiet \in 0 .. Quiet

Flags ==
    /\ sAlive \in BOOLEAN /\ ack \in BOOLEAN /\ healthCheck \in BOOLEAN
    /\ connS \in BOOLEAN /\ ctxDone \in BOOLEAN /\ connC \in BOOLEAN
    /\ rAlive \in BOOLEAN /\ heartbeat \in BOOLEAN /\ stopped \in BOOLEAN
    /\ silent \in BOOLEAN

Types == TickerTypes /\ SenderTypes /\ WriterTypes /\ ReceiverTypes /\ NetTypes /\ Flags

LEMMA QuietIsNat == Quiet \in Nat
  BY Constants DEF Quiet

LEMMA FlagsNext == Flags /\ [Next]_vars => Flags'
<1> SUFFICES ASSUME Flags, [Next]_vars PROVE Flags'
  OBVIOUS
<1> USE DEF Flags, senderVars, writerVars, serverVars, receiverVars, netVars
<1>1. CASE StartHealthCheck
  <2>1. CASE SendHealthCheck
    BY <2>1, Zenon DEF SendHealthCheck
  <2>2. CASE CheckTimeout
    BY <2>2, Zenon DEF CheckTimeout
  <2>3. CASE TakeAck \/ SenderStopped
    BY <2>3, Zenon DEF TakeAck, SenderStopped
  <2> QED
    BY <1>1, <2>1, <2>2, <2>3 DEF StartHealthCheck
<1>2. CASE HandleHealthcheckEvents
  <2>1. CASE WriteHealthCheck \/ WriteEnds
    BY <2>1, ZenonT(40) DEF WriteHealthCheck, WriteEnds
  <2>2. CASE WriteFails \/ TimeoutReceived \/ WriterStopped
    BY <2>2, ZenonT(40) DEF WriteFails, TimeoutReceived, WriterStopped
  <2> QED
    BY <1>2, <2>1, <2>2 DEF HandleHealthcheckEvents
<1>3. CASE OnHCResponse \/ WorkReturns
  BY <1>3, Zenon DEF OnHCResponse, WorkReturns
<1>4. CASE Client
  <2>1. CASE CheckHeartbeat
    BY <2>1, Zenon DEF CheckHeartbeat
  <2>2. CASE HandleHealthCheck \/ TakeHeartbeat \/ ReceiverStopped
    BY <2>2, ZenonT(40) DEF HandleHealthCheck, TakeHeartbeat, ReceiverStopped
  <2>3. CASE OnTimeout \/ ReadLoopEnds
    BY <2>3, Zenon DEF OnTimeout, ReadLoopEnds
  <2> QED
    BY <1>4, <2>1, <2>2, <2>3 DEF Client
<1>5. CASE Network
  <2>1. CASE Lose \/ FallSilent
    BY <2>1, ZenonT(40) DEF Lose, FallSilent
  <2>2. CASE Close \/ CloseArrives
    BY <2>2, Zenon DEF Close, CloseArrives
  <2> QED
    BY <1>5, <2>1, <2>2 DEF Network
<1>6. CASE Pass
  BY <1>6, Zenon DEF Pass
<1>7. CASE UNCHANGED vars
  BY <1>7, Zenon DEF vars
<1> QED
  BY <1>1, <1>2, <1>3, <1>4, <1>5, <1>6, <1>7 DEF Next

LEMMA TypesInit == Init => Types
<1> SUFFICES ASSUME Init PROVE Types
  OBVIOUS
<1>1. TickerTypes
  <2>1. PICK d \in 0 .. MaxDelay :
            /\ d < Interval
            /\ ticks = [t \in Ticker |-> [left |-> IF t = "heartbeat" THEN Period[t] ELSE Period[t] - d,
                                          due |-> FALSE]]
    BY DEF Init
  <2>2. ASSUME NEW t \in Ticker
        PROVE  (IF t = "heartbeat" THEN Period[t] ELSE Period[t] - d) \in 1 .. Period[t]
    BY <2>1, Periods, Constants DEF Ticker
  <2>3. ASSUME NEW t \in Ticker PROVE ticks[t] \in Tick /\ ticks[t].left <= Period[t]
    <3>1. PICK n \in 1 .. Period[t] : ticks[t] = [left |-> n, due |-> FALSE]
      BY <2>1, <2>2
    <3>2. n \in 1 .. Interval + Window + RWindow
      BY <3>1, Periods, Constants
    <3> QED
      BY <3>1, <3>2, Periods DEF Tick
  <2>4. ticks = [t \in Ticker |-> ticks[t]]
    BY <2>1
  <2> QED
    BY <2>3, <2>4 DEF TickerTypes
<1>2. SenderTypes /\ WriterTypes /\ ReceiverTypes
  BY Constants DEF Init, SenderTypes, WriterTypes, ReceiverTypes
<1>3. NetTypes
  BY QuietIsNat, Constants DEF Init, NetTypes
<1>4. Flags
  BY Zenon DEF Init, Flags
<1> QED
  BY <1>1, <1>2, <1>3, <1>4 DEF Types

LEMMA TypesNext == Types /\ [Next]_vars => Types'
<1> SUFFICES ASSUME Types, [Next]_vars PROVE Types'
  OBVIOUS
<1>0. Flags'
  BY FlagsNext DEF Types
<1> USE DEF senderVars, writerVars, serverVars, receiverVars, netVars
<1>1. CASE StartHealthCheck
  <2>1. TickerTypes'
    <3>1. CASE SendHealthCheck \/ CheckTimeout
      BY <3>1, TakeEffect DEF SendHealthCheck, CheckTimeout, Types, Ticker
    <3>2. CASE TakeAck \/ SenderStopped
      BY <3>2 DEF TakeAck, SenderStopped, Types, TickerTypes
    <3> QED
      BY <1>1, <3>1, <3>2 DEF StartHealthCheck
  <2>2. SenderTypes'
    BY <1>1, Constants
       DEF StartHealthCheck, SendHealthCheck, CheckTimeout, TakeAck, SenderStopped, Types, SenderTypes
  <2>3. UNCHANGED <<writerVars, serverVars, receiverVars, netVars, quiet>>
    BY <1>1 DEF StartHealthCheck, SendHealthCheck, CheckTimeout, TakeAck, SenderStopped
  <2> QED
    BY <1>0, <2>1, <2>2, <2>3 DEF Types, WriterTypes, ReceiverTypes, NetTypes
<1>2. CASE HandleHealthcheckEvents \/ OnHCResponse \/ WorkReturns
  <2>1. UNCHANGED <<ticks, sender, sAlive, sFail, receiverVars, connC, silent, lost, quiet>>
    BY <1>2 DEF HandleHealthcheckEvents, WriteHealthCheck, WriteEnds, WriteFails, TimeoutReceived,
                WriterStopped, OnHCResponse, WorkReturns
  <2>2. WriterTypes'
    BY <1>2, Constants DEF HandleHealthcheckEvents, WriteHealthCheck, WriteEnds, WriteFails, TimeoutReceived,
                WriterStopped, OnHCResponse, WorkReturns, Types, WriterTypes
  <2>3. \/ UNCHANGED <<toClient, toServer>>
        \/ toClient' \in {{}, toClient \cup {0}} /\ UNCHANGED toServer
        \/ UNCHANGED toClient /\ \E a \in toServer : toServer' = toServer \ {a}
    BY <1>2 DEF HandleHealthcheckEvents, WriteHealthCheck, WriteEnds, WriteFails, TimeoutReceived,
                WriterStopped, OnHCResponse, WorkReturns
  <2>4. NetTypes'
    <3>1. 0 \in 0 .. MaxDelay
      BY Constants
    <3>2. toClient' \subseteq 0 .. MaxDelay /\ toServer' \subseteq 0 .. MaxDelay
      BY <2>3, <3>1 DEF Types, NetTypes
    <3> QED
      BY <2>1, <3>2 DEF Types, NetTypes
  <2> QED
    BY <1>0, <2>1, <2>2, <2>4 DEF Types, TickerTypes, SenderTypes, ReceiverTypes
<1>3. CASE Client
  <2>1. TickerTypes'
    <3>1. CASE CheckHeartbeat
      BY <3>1, TakeEffect DEF CheckHeartbeat, Types, Ticker
    <3>2. CASE HandleHealthCheck \/ TakeHeartbeat \/ ReceiverStopped \/ OnTimeout \/ ReadLoopEnds
      BY <3>2 DEF HandleHealthCheck, TakeHeartbeat, ReceiverStopped, OnTimeout, ReadLoopEnds, Types, TickerTypes
    <3> QED
      BY <1>3, <3>1, <3>2 DEF Client
  <2>2. ReceiverTypes'
    BY <1>3, Constants DEF Client, HandleHealthCheck, TakeHeartbeat, CheckHeartbeat, ReceiverStopped, OnTimeout,
                           ReadLoopEnds, Types, ReceiverTypes
  <2>3. UNCHANGED <<sender, sAlive, sFail, ack, healthCheck, writerVars, serverVars, silent, lost, quiet>>
    BY <1>3 DEF Client, HandleHealthCheck, TakeHeartbeat, CheckHeartbeat, ReceiverStopped, OnTimeout, ReadLoopEnds
  <2>4. \/ UNCHANGED <<toClient, toServer>>
        \/ toServer' = toServer \cup {0} /\ \E a \in toClient : toClient' = toClient \ {a}
    BY <1>3 DEF Client, HandleHealthCheck, TakeHeartbeat, CheckHeartbeat, ReceiverStopped, OnTimeout, ReadLoopEnds
  <2>5. NetTypes'
    <3>1. 0 \in 0 .. MaxDelay
      BY Constants
    <3>2. toClient' \subseteq 0 .. MaxDelay /\ toServer' \subseteq 0 .. MaxDelay
      BY <2>4, <3>1 DEF Types, NetTypes
    <3> QED
      BY <2>3, <3>2 DEF Types, NetTypes
  <2> QED
    BY <1>0, <2>1, <2>2, <2>3, <2>5 DEF Types, SenderTypes, WriterTypes
<1>4. CASE Network
  <2>1. UNCHANGED <<senderVars, writerVars, receiverVars, ctxDone, quiet>>
    BY <1>4 DEF Network, Lose, FallSilent, Close, CloseArrives
  <2>2. toClient' \subseteq toClient /\ toServer' \subseteq toServer
    BY <1>4 DEF Network, Lose, FallSilent, Close, CloseArrives
  <2>3. lost' = lost \/ (lost < MaxLost /\ lost' = lost + 1)
    BY <1>4 DEF Network, Lose, FallSilent, Close, CloseArrives
  <2>4. NetTypes'
    BY <2>1, <2>2, <2>3, Constants DEF Types, NetTypes
  <2> QED
    BY <1>0, <2>1, <2>4 DEF Types, TickerTypes, SenderTypes, WriterTypes, ReceiverTypes
<1>5. CASE Pass
  <2>1. TickerTypes'
    BY <1>5, PassEffect DEF Types
  <2>2. UNCHANGED <<sender, sAlive, sFail, ack, healthCheck, writer, serverVars, receiverVars, connC, silent, lost>>
    BY <1>5 DEF Pass
  <2>3. writing' \in 0 .. WriteTimeout
    <3>1. CASE writer = "write"
      <4>1. writing # WriteTimeout /\ writing' = writing + 1
        BY <1>5, <3>1 DEF Pass, Busy
      <4> QED
        BY <4>1, Constants DEF Types, WriterTypes
    <3>2. CASE writer # "write"
      BY <1>5, <3>2, Constants DEF Pass
    <3> QED
      BY <3>1, <3>2
  <2>4. toClient' \subseteq 0 .. MaxDelay /\ toServer' \subseteq 0 .. MaxDelay
    <3>1. CASE silent
      BY <1>5, <3>1 DEF Pass
    <3>2. CASE ~ silent
      <4>1. MaxDelay \notin toClient /\ MaxDelay \notin toServer
        BY <1>5, <3>2 DEF Pass, Busy
      <4>2. toClient' = {a + 1 : a \in toClient} /\ toServer' = {a + 1 : a \in toServer}
        BY <1>5, <3>2 DEF Pass, Older
      <4> QED
        BY <4>1, <4>2, Constants DEF Types, NetTypes
    <3> QED
      BY <3>1, <3>2
  <2>5. quiet' \in 0 .. Quiet
    BY <1>5, QuietIsNat DEF Pass, Types, NetTypes
  <2> QED
    BY <1>0, <2>1, <2>2, <2>3, <2>4, <2>5 DEF Types, SenderTypes, WriterTypes, ReceiverTypes, NetTypes
<1>6. CASE UNCHANGED vars
  BY <1>0, <1>6 DEF vars, Types, TickerTypes, SenderTypes, WriterTypes, ReceiverTypes, NetTypes
<1> QED
  BY <1>1, <1>2, <1>3, <1>4, <1>5, <1>6 DEF Next

LEMMA TypesHold == Spec => []Types
<1> QED
  BY TypesInit, TypesNext, PTL DEF Spec

\* Every variable has its type, the counters never pass the threshold and the tickers their
\* periods, for any periods and delays.
THEOREM TypeCorrect == Spec => []TypeOK
<1>1. Types => TypeOK
  BY DEF Types, TickerTypes, Tick, SenderTypes, WriterTypes, ReceiverTypes, NetTypes, Flags, TypeOK
<1> QED
  BY <1>1, TypesHold, PTL

(***************************************************************************)
(* The Sender's channel.                                                   *)
(***************************************************************************)

\* The goroutines end after their connection.
EndInv ==
    /\ writer = "gone" \/ ctxDone => ~ connS
    /\ stopped => ~ connC

LEMMA EndInvNext == EndInv /\ [Next]_vars => EndInv'
<1> SUFFICES ASSUME EndInv, [Next]_vars PROVE EndInv'
  OBVIOUS
<1> USE DEF EndInv, senderVars, writerVars, serverVars, receiverVars, netVars
<1>1. CASE StartHealthCheck
  BY <1>1 DEF StartHealthCheck, SendHealthCheck, CheckTimeout, TakeAck, SenderStopped
<1>2. CASE HandleHealthcheckEvents \/ OnHCResponse \/ WorkReturns
  BY <1>2 DEF HandleHealthcheckEvents, WriteHealthCheck, WriteEnds, WriteFails, TimeoutReceived,
              WriterStopped, OnHCResponse, WorkReturns
<1>3. CASE Client
  BY <1>3 DEF Client, HandleHealthCheck, TakeHeartbeat, CheckHeartbeat, ReceiverStopped, OnTimeout, ReadLoopEnds
<1>4. CASE Network
  BY <1>4 DEF Network, Lose, FallSilent, Close, CloseArrives
<1>5. CASE Pass
  BY <1>5 DEF Pass
<1>6. CASE UNCHANGED vars
  BY <1>6 DEF vars
<1> QED
  BY <1>1, <1>2, <1>3, <1>4, <1>5, <1>6 DEF Next

\* While the Sender runs, time passes only when it has nothing to do and its connection is open.
LEMMA IdleWhenTimePasses ==
    ASSUME EndInv, Pass, sender = "select"
    PROVE  /\ ~ ticks["interval"].due /\ ~ ticks["timeout"].due /\ ~ ack
           /\ connS /\ writer # "gone"
           /\ writer = "select" => ~ healthCheck
           /\ writer = "write" => silent /\ writing # WriteTimeout
           /\ ~ silent => connC
  BY DEF Pass, Busy, EndInv

\* A tick finds the channel empty and the writer free, since a write that began with the last
\* tick has ended.
WriteInv ==
    /\ sender # "blocked"
    /\ sender = "select" =>
           /\ ticks["interval"].due => ticks["interval"].left = Interval /\ ~ healthCheck /\ writer # "write"
           /\ healthCheck => ticks["interval"].left = Interval /\ writer # "write"
           /\ writer = "write" => ticks["interval"].left + writing = Interval

LEMMA WriteInvNext ==
    ASSUME ShortWrites, Types, EndInv, WriteInv, [Next]_vars
    PROVE  WriteInv'
<1> USE DEF WriteInv, senderVars, writerVars, serverVars, receiverVars, netVars
<1>0. /\ TickerTypes /\ Period["interval"] = Interval
      /\ ticks["interval"].left \in Nat /\ ticks["interval"].left >= 1 /\ ticks["interval"].left <= Interval
  BY TickFields, Periods DEF Types, Ticker
<1>1. CASE StartHealthCheck
  <2>1. CASE SendHealthCheck
    <3>1. ~ ticks'["interval"].due /\ ticks'["interval"].left = ticks["interval"].left /\ ticks["interval"].due
      BY <1>0, <2>1, TakeEffect DEF SendHealthCheck, Ticker
    <3> QED
      BY <2>1, <3>1 DEF SendHealthCheck
  <2>2. CASE CheckTimeout
    <3>1. ticks'["interval"].left = ticks["interval"].left /\ (ticks'["interval"].due = ticks["interval"].due)
      BY <1>0, <2>2, TakeEffect DEF CheckTimeout, Ticker
    <3> QED
      BY <2>2, <3>1 DEF CheckTimeout
  <2>3. CASE TakeAck \/ SenderStopped
    BY <2>3 DEF TakeAck, SenderStopped
  <2> QED
    BY <1>1, <2>1, <2>2, <2>3 DEF StartHealthCheck
<1>2. CASE HandleHealthcheckEvents \/ OnHCResponse \/ WorkReturns
  BY <1>0, <1>2, Constants DEF HandleHealthcheckEvents, WriteHealthCheck, WriteEnds, WriteFails, TimeoutReceived,
     WriterStopped, OnHCResponse, WorkReturns
<1>3. CASE Client
  <2>1. CASE CheckHeartbeat
    <3>1. ticks'["interval"].left = ticks["interval"].left /\ (ticks'["interval"].due = ticks["interval"].due)
      BY <1>0, <2>1, TakeEffect DEF CheckHeartbeat, Ticker
    <3> QED
      BY <2>1, <3>1 DEF CheckHeartbeat
  <2>2. CASE HandleHealthCheck \/ TakeHeartbeat \/ ReceiverStopped \/ OnTimeout \/ ReadLoopEnds
    BY <2>2 DEF HandleHealthCheck, TakeHeartbeat, ReceiverStopped, OnTimeout, ReadLoopEnds
  <2> QED
    BY <1>3, <2>1, <2>2 DEF Client
<1>4. CASE Network
  BY <1>4 DEF Network, Lose, FallSilent, Close, CloseArrives
<1>5. CASE Pass
  <2>1. UNCHANGED <<sender, healthCheck, writer>>
    BY <1>5 DEF Pass
  <2>2. CASE sender # "select"
    BY <2>1, <2>2
  <2>3. CASE sender = "select"
    <3>1. /\ ~ ticks["interval"].due
          /\ writer = "select" => ~ healthCheck
          /\ writer # "gone"
          /\ writer = "write" => writing # WriteTimeout
      BY <1>5, <2>3, IdleWhenTimePasses
    <3>2. /\ ticks["interval"].left = 1 => ticks'["interval"].left = Interval
          /\ ticks["interval"].left # 1 =>
                 ticks'["interval"].left = ticks["interval"].left - 1 /\ ~ ticks'["interval"].due
      BY <1>0, <1>5, <2>3, <3>1, PassEffect DEF Stopped, Ticker
    <3>3. CASE writer = "write"
      <4>1. /\ writing' = writing + 1 /\ writing \in Nat /\ writing < WriteTimeout
            /\ ticks["interval"].left + writing = Interval /\ ~ healthCheck
        BY <1>5, <2>3, <3>1, <3>3, Constants, SMTT(40) DEF Pass, Types, WriterTypes
      <4>2. ticks["interval"].left # 1
        BY <1>0, <4>1, Constants DEF ShortWrites
      <4>3. ticks'["interval"].left + writing' = Interval
        BY <1>0, <3>2, <4>1, <4>2, Constants
      <4> QED
        BY <2>1, <2>3, <3>2, <4>1, <4>2, <4>3
    <3>4. CASE writer = "select"
      <4>1. ~ healthCheck' /\ writer' = "select"
        BY <2>1, <3>1, <3>4
      <4> QED
        BY <2>1, <2>3, <3>2, <4>1
    <3> QED
      BY <3>1, <3>3, <3>4 DEF Types, WriterTypes
  <2> QED
    BY <2>2, <2>3
<1>6. CASE UNCHANGED vars
  BY <1>6 DEF vars
<1> QED
  BY <1>1, <1>2, <1>3, <1>4, <1>5, <1>6 DEF Next

SenderInv == Types /\ EndInv /\ WriteInv

LEMMA SenderInvHolds ==
    ASSUME ShortWrites
    PROVE  Spec => []SenderInv
<1>1. Init => SenderInv
  <2> SUFFICES ASSUME Init PROVE EndInv /\ WriteInv
    BY TypesInit DEF SenderInv
  <2>1. EndInv
    BY DEF Init, EndInv
  <2>2. ~ ticks["interval"].due
    BY DEF Init, Ticker
  <2> QED
    BY <2>1, <2>2 DEF Init, WriteInv
<1>2. SenderInv /\ [Next]_vars => SenderInv'
  BY TypesNext, EndInvNext, WriteInvNext DEF SenderInv
<1> QED
  BY <1>1, <1>2, PTL DEF Spec

\* As long as a write that blocks fails before the next tick, the Sender always finds room in
\* HealthCheck, on a path that works, one that is silent, and one that closes.
THEOREM SenderIsNeverStuck ==
    ASSUME ShortWrites
    PROVE  Spec => []SenderNeverBlocks
<1>1. SenderInv => SenderNeverBlocks
  BY DEF SenderInv, WriteInv, SenderNeverBlocks
<1> QED
  BY <1>1, SenderInvHolds, PTL

(***************************************************************************)
(* Silence.  Since the path fell silent no longer has passed than the      *)
(* rounds that have failed, the one in progress, and the first one, which  *)
(* an answer of before may have saved.                                     *)
(***************************************************************************)

Rounds(fail, alive) == IF alive THEN fail ELSE fail + 1

Within(n, t) ==
    /\ ticks[t].due => ticks[t].left = Period[t]
    /\ quiet + ticks[t].left <= n * Period[t] + Period[t] + (IF ticks[t].due THEN Period[t] ELSE 0)

LEMMA Products ==
    ASSUME NEW n, n \in Nat, NEW w, w \in Nat
    PROVE  /\ n * w \in Nat /\ (n + 1) * w = n * w + w
           /\ \A m \in Nat : n <= m => n * w <= m * w
<1>1. n * w \in Nat /\ (n + 1) * w = n * w + w
  OBVIOUS
<1>2. ASSUME NEW m \in Nat, n <= m PROVE n * w <= m * w
  <2>1. m - n \in Nat /\ (m - n) * w \in Nat
    BY <1>2
  <2>2. m * w = n * w + (m - n) * w
    BY <1>2
  <2> QED
    BY <1>1, <2>1, <2>2
<1> QED
  BY <1>1, <1>2

\* Nothing has passed yet.
LEMMA WithinAtStart ==
    ASSUME Types, NEW n, n \in Nat, NEW t, t \in Ticker, quiet = 0,
           ticks[t].due => ticks[t].left = Period[t]
    PROVE  Within(n, t)
<1>1. ticks[t].left \in Nat /\ ticks[t].left <= Period[t] /\ Period[t] \in Nat /\ n * Period[t] \in Nat
  BY TickFields, Periods, Products DEF Types
<1> QED
  BY <1>1 DEF Within

\* The check at the end of a round begins the next one.
LEMMA WithinAfterCheck ==
    ASSUME Types, NEW n, n \in Nat, NEW t, t \in Ticker, Within(n, t), Take(t), quiet' = quiet
    PROVE  Within(n + 1, t)'
<1>1. /\ ticks[t].left = Period[t] /\ ~ ticks'[t].due /\ ticks'[t].left = ticks[t].left
      /\ quiet + Period[t] <= n * Period[t] + Period[t] + Period[t]
  BY TakeEffect DEF Types, Within
<1>2. (n + 1) * Period[t] = n * Period[t] + Period[t] /\ Period[t] \in Nat /\ n * Period[t] \in Nat
  BY Products, Periods
<1>3. quiet + Period[t] <= (n + 1) * Period[t] + Period[t]
  BY <1>1, <1>2
<1> QED
  BY <1>1, <1>2, <1>3 DEF Within

LEMMA WithinWhenTimePasses ==
    ASSUME Types, NEW n, n \in Nat, NEW t, t \in Ticker, Within(n, t), Pass, ~ Stopped(t), ~ ticks[t].due
    PROVE  Within(n, t)'
<1>1. /\ ticks[t].left \in Nat /\ ticks[t].left >= 1 /\ Period[t] \in Nat /\ n * Period[t] \in Nat /\ quiet \in Nat
      /\ quiet + ticks[t].left <= n * Period[t] + Period[t]
  BY TickFields, Periods, Products, QuietIsNat DEF Types, NetTypes, Within
<1>2. quiet' \in Nat /\ quiet' <= quiet + 1
  BY <1>1, QuietIsNat DEF Pass
<1>3. CASE ticks[t].left = 1
  <2>1. ticks'[t].due /\ ticks'[t].left = Period[t]
    BY <1>3, PassEffect DEF Types
  <2> QED
    BY <1>1, <1>2, <1>3, <2>1 DEF Within
<1>4. CASE ticks[t].left # 1
  <2>1. ~ ticks'[t].due /\ ticks'[t].left = ticks[t].left - 1
    BY <1>4, PassEffect DEF Types
  <2> QED
    BY <1>1, <1>2, <1>4, <2>1 DEF Within
<1> QED
  BY <1>3, <1>4

LEMMA WithinBounds ==
    ASSUME Types, NEW n, n \in Nat, n <= Threshold, NEW t, t \in Ticker, Within(n, t)
    PROVE  quiet <= (Threshold + 1) * Period[t]
<1>1. ticks[t].left \in Nat /\ ticks[t].left >= 1 /\ Period[t] \in Nat /\ quiet \in Nat /\ Threshold \in Nat
  BY TickFields, Periods, QuietIsNat, Constants DEF Types, NetTypes
<1> DEFINE w == Period[t]
<1>3. n * w \in Nat /\ n * w <= Threshold * w
  BY <1>1, Products
<1>4. Threshold * w \in Nat /\ (Threshold + 1) * w = Threshold * w + w
  BY <1>1, Products
<1>2. quiet + ticks[t].left <= n * Period[t] + Period[t] + (IF ticks[t].due THEN ticks[t].left ELSE 0)
  BY DEF Within
<1> QED
  BY <1>1, <1>2, <1>3, <1>4

SenderHears ==
    sender = "select" =>
        /\ ack => quiet = 0
        /\ sAlive => sFail = 0
        /\ Within(Rounds(sFail, sAlive), "timeout")

ReceiverHears ==
    receiver = "select" =>
        /\ heartbeat => quiet = 0
        /\ rAlive => rFail = 0
        /\ Within(Rounds(rFail, rAlive), "heartbeat")

\* The Receiver gives up and the connection is closed in the same instant.
LastWindow == receiver = "gone" /\ connC => quiet <= (Threshold + 1) * RWindow

QuietInv == (~ silent => quiet = 0) /\ SenderHears /\ ReceiverHears /\ LastWindow

LEMMA SilenceCounts == Types /\ QuietInv /\ [Next]_vars => (~ silent => quiet = 0)'
<1> USE DEF QuietInv, senderVars, writerVars, serverVars, receiverVars, netVars
<1>1. Pass /\ QuietInv => (~ silent => quiet = 0)'
  BY DEF Pass
<1>2. Network /\ QuietInv => (~ silent => quiet = 0)'
  BY DEF Network, Lose, FallSilent, Close, CloseArrives
<1>3. StartHealthCheck \/ HandleHealthcheckEvents \/ OnHCResponse \/ WorkReturns \/ Client \/ UNCHANGED vars
      => UNCHANGED <<silent, quiet>>
  BY DEF vars, StartHealthCheck, SendHealthCheck, CheckTimeout, TakeAck, SenderStopped, HandleHealthcheckEvents,
     WriteHealthCheck, WriteEnds, WriteFails, TimeoutReceived, WriterStopped, OnHCResponse, WorkReturns,
     Client, HandleHealthCheck, TakeHeartbeat, CheckHeartbeat, ReceiverStopped, OnTimeout, ReadLoopEnds
<1> QED
  BY <1>1, <1>2, <1>3 DEF Next

LEMMA RoundsAreNat == Types => Rounds(sFail, sAlive) \in Nat /\ Rounds(rFail, rAlive) \in Nat
  BY Constants DEF Types, SenderTypes, ReceiverTypes, Rounds

LEMMA SenderHearsNext ==
    ASSUME Types, EndInv, QuietInv, [Next]_vars
    PROVE  SenderHears'
<1> SUFFICES ASSUME sender' = "select" PROVE SenderHears'
  BY DEF SenderHears
<1> USE DEF senderVars, writerVars, serverVars, receiverVars, netVars
<1>0. sender = "select"
  BY DEF Next, vars, StartHealthCheck, SendHealthCheck, CheckTimeout, TakeAck, SenderStopped,
     HandleHealthcheckEvents, WriteHealthCheck, WriteEnds, WriteFails, TimeoutReceived, WriterStopped,
     OnHCResponse, WorkReturns, Client, HandleHealthCheck, TakeHeartbeat, CheckHeartbeat, ReceiverStopped,
     OnTimeout, ReadLoopEnds, Network, Lose, FallSilent, Close, CloseArrives, Pass
<1>00. /\ ack => quiet = 0
       /\ sAlive => sFail = 0
       /\ Within(Rounds(sFail, sAlive), "timeout")
  BY <1>0 DEF QuietInv, SenderHears
<1>a. PICK n : n \in Nat /\ n = Rounds(sFail, sAlive)
  BY RoundsAreNat
<1>b. ASSUME UNCHANGED <<sAlive, sFail, quiet>>, ack' => ack \/ quiet = 0,
             ticks'["timeout"].left = ticks["timeout"].left, ticks'["timeout"].due = ticks["timeout"].due
      PROVE  SenderHears'
  BY <1>00, <1>b DEF SenderHears, Within, Rounds
<1>1. CASE SendHealthCheck
  <2>1. ticks'["timeout"].left = ticks["timeout"].left /\ (ticks'["timeout"].due = ticks["timeout"].due)
    BY <1>1, TakeEffect DEF SendHealthCheck, Ticker, Types
  <2> QED
    BY <1>1, <1>b, <2>1 DEF SendHealthCheck
<1>2. CASE CheckTimeout
  <2>1. Within(n + 1, "timeout")'
    BY <1>00, <1>2, <1>a, WithinAfterCheck DEF CheckTimeout, Ticker
  <2>2. ack' = ack /\ quiet' = quiet
    BY <1>2 DEF CheckTimeout
  <2>3. ~ sAlive' /\ Rounds(sFail, sAlive)' = n + 1
    <3>1. CASE sAlive
      BY <1>00, <1>2, <1>a, <3>1 DEF CheckTimeout, Rounds
    <3>2. CASE ~ sAlive
      BY <1>2, <1>a, <3>2 DEF CheckTimeout, Rounds
    <3> QED
      BY <3>1, <3>2
  <2> QED
    BY <1>00, <2>1, <2>2, <2>3 DEF SenderHears, Within
<1>3. CASE TakeAck
  <2>1. quiet = 0 /\ quiet' = 0 /\ ticks' = ticks /\ sFail' = 0 /\ sAlive'
    BY <1>00, <1>3 DEF TakeAck
  <2>2. Within(0, "timeout")
    BY <1>00, <2>1, WithinAtStart DEF Ticker, Within
  <2>3. Rounds(sFail, sAlive)' = 0
    BY <2>1 DEF Rounds
  <2> QED
    BY <2>1, <2>2, <2>3 DEF SenderHears, Within
<1>4. CASE HandleHealthcheckEvents \/ WorkReturns
  BY <1>4, <1>b DEF HandleHealthcheckEvents, WriteHealthCheck, WriteEnds, WriteFails, TimeoutReceived,
     WriterStopped, WorkReturns
<1>5. CASE OnHCResponse
  BY <1>5, <1>b DEF OnHCResponse, QuietInv
<1>6. CASE Client
  <2>1. CASE CheckHeartbeat
    <3>1. ticks'["timeout"].left = ticks["timeout"].left /\ (ticks'["timeout"].due = ticks["timeout"].due)
      BY <2>1, TakeEffect DEF CheckHeartbeat, Ticker, Types
    <3> QED
      BY <1>b, <2>1, <3>1 DEF CheckHeartbeat
  <2>2. CASE HandleHealthCheck \/ TakeHeartbeat \/ ReceiverStopped \/ OnTimeout \/ ReadLoopEnds
    BY <1>b, <2>2 DEF HandleHealthCheck, TakeHeartbeat, ReceiverStopped, OnTimeout, ReadLoopEnds
  <2> QED
    BY <1>6, <2>1, <2>2 DEF Client
<1>7. CASE Network
  BY <1>7, <1>b DEF Network, Lose, FallSilent, Close, CloseArrives
<1>8. CASE Pass
  <2>1. ~ ticks["timeout"].due /\ ~ ack
    BY <1>0, <1>8, IdleWhenTimePasses
  <2>2. Within(n, "timeout")'
    BY <1>0, <1>00, <1>8, <1>a, <2>1, WithinWhenTimePasses DEF Ticker, Stopped
  <2>3. UNCHANGED <<ack, sAlive, sFail>>
    BY <1>8 DEF Pass
  <2> QED
    BY <1>00, <1>a, <2>1, <2>2, <2>3 DEF SenderHears, Within, Rounds
<1>9. CASE UNCHANGED vars
  BY <1>9, <1>b DEF vars
<1>10. ~ SenderStopped
  BY DEF SenderStopped
<1> QED
  BY <1>1, <1>2, <1>3, <1>4, <1>5, <1>6, <1>7, <1>8, <1>9, <1>10 DEF Next, StartHealthCheck

LEMMA ReceiverHearsNext ==
    ASSUME Types, EndInv, QuietInv, [Next]_vars
    PROVE  ReceiverHears'
<1> SUFFICES ASSUME receiver' = "select" PROVE ReceiverHears'
  BY DEF ReceiverHears
<1> USE DEF senderVars, writerVars, serverVars, receiverVars, netVars
<1>0. receiver = "select"
  BY DEF Next, vars, StartHealthCheck, SendHealthCheck, CheckTimeout, TakeAck, SenderStopped,
     HandleHealthcheckEvents, WriteHealthCheck, WriteEnds, WriteFails, TimeoutReceived, WriterStopped,
     OnHCResponse, WorkReturns, Client, HandleHealthCheck, TakeHeartbeat, CheckHeartbeat, ReceiverStopped,
     OnTimeout, ReadLoopEnds, Network, Lose, FallSilent, Close, CloseArrives, Pass
<1>00. /\ heartbeat => quiet = 0
       /\ rAlive => rFail = 0
       /\ Within(Rounds(rFail, rAlive), "heartbeat")
  BY <1>0 DEF QuietInv, ReceiverHears
<1>a. PICK n : n \in Nat /\ n = Rounds(rFail, rAlive)
  BY RoundsAreNat
<1>b. ASSUME UNCHANGED <<rAlive, rFail, quiet>>, heartbeat' => heartbeat \/ quiet = 0,
             ticks'["heartbeat"].left = ticks["heartbeat"].left, ticks'["heartbeat"].due = ticks["heartbeat"].due
      PROVE  ReceiverHears'
  BY <1>00, <1>b DEF ReceiverHears, Within, Rounds
<1>1. CASE StartHealthCheck
  <2>1. CASE SendHealthCheck \/ CheckTimeout
    <3>1. ticks'["heartbeat"].left = ticks["heartbeat"].left /\ (ticks'["heartbeat"].due = ticks["heartbeat"].due)
      BY <2>1, TakeEffect DEF SendHealthCheck, CheckTimeout, Ticker, Types
    <3> QED
      BY <1>b, <2>1, <3>1 DEF SendHealthCheck, CheckTimeout
  <2>2. CASE TakeAck \/ SenderStopped
    BY <1>b, <2>2 DEF TakeAck, SenderStopped
  <2> QED
    BY <1>1, <2>1, <2>2 DEF StartHealthCheck
<1>2. CASE HandleHealthcheckEvents \/ OnHCResponse \/ WorkReturns
  BY <1>2, <1>b DEF HandleHealthcheckEvents, WriteHealthCheck, WriteEnds, WriteFails, TimeoutReceived,
     WriterStopped, OnHCResponse, WorkReturns
<1>3. CASE HandleHealthCheck
  BY <1>3, <1>b DEF HandleHealthCheck, QuietInv
<1>4. CASE TakeHeartbeat
  <2>1. quiet = 0 /\ quiet' = 0 /\ ticks' = ticks /\ rFail' = 0 /\ rAlive'
    BY <1>00, <1>4 DEF TakeHeartbeat
  <2>2. Within(0, "heartbeat")
    BY <1>00, <2>1, WithinAtStart DEF Ticker, Within
  <2>3. Rounds(rFail, rAlive)' = 0
    BY <2>1 DEF Rounds
  <2> QED
    BY <2>1, <2>2, <2>3 DEF ReceiverHears, Within
<1>5. CASE CheckHeartbeat
  <2>1. Within(n + 1, "heartbeat")'
    BY <1>00, <1>5, <1>a, WithinAfterCheck DEF CheckHeartbeat, Ticker
  <2>2. heartbeat' = heartbeat /\ quiet' = quiet
    BY <1>5 DEF CheckHeartbeat
  <2>3. ~ rAlive' /\ Rounds(rFail, rAlive)' = n + 1
    <3>1. CASE rAlive
      BY <1>00, <1>5, <1>a, <3>1 DEF CheckHeartbeat, Rounds
    <3>2. CASE ~ rAlive
      BY <1>5, <1>a, <3>2 DEF CheckHeartbeat, Rounds
    <3> QED
      BY <3>1, <3>2
  <2> QED
    BY <1>00, <2>1, <2>2, <2>3 DEF ReceiverHears, Within
<1>6. CASE OnTimeout \/ ReadLoopEnds
  BY <1>6, <1>b DEF OnTimeout, ReadLoopEnds
<1>7. CASE Network
  BY <1>7, <1>b DEF Network, Lose, FallSilent, Close, CloseArrives
<1>8. CASE Pass
  <2>1. ~ ticks["heartbeat"].due /\ ~ heartbeat
    BY <1>0, <1>8 DEF Pass, Busy
  <2>2. Within(n, "heartbeat")'
    BY <1>0, <1>00, <1>8, <1>a, <2>1, WithinWhenTimePasses DEF Ticker, Stopped
  <2>3. UNCHANGED <<heartbeat, rAlive, rFail>>
    BY <1>8 DEF Pass
  <2> QED
    BY <1>00, <1>a, <2>1, <2>2, <2>3 DEF ReceiverHears, Within, Rounds
<1>9. CASE UNCHANGED vars
  BY <1>9, <1>b DEF vars
<1>10. ~ ReceiverStopped
  BY DEF ReceiverStopped
<1> QED
  BY <1>1, <1>2, <1>3, <1>4, <1>5, <1>6, <1>7, <1>8, <1>9, <1>10 DEF Next, Client

\* A window that has not run out is no more than the last.
LEMMA HearingBounds ==
    ASSUME Types, QuietInv
    PROVE  /\ sender = "select" => quiet <= (Threshold + 1) * Window
           /\ receiver = "select" => quiet <= (Threshold + 1) * RWindow
<1>1. ASSUME sender = "select" PROVE quiet <= (Threshold + 1) * Window
  <2>1. Rounds(sFail, sAlive) <= Threshold /\ Rounds(sFail, sAlive) \in Nat
    BY <1>1, RoundsAreNat, Constants DEF Types, SenderTypes, Rounds
  <2>2. Within(Rounds(sFail, sAlive), "timeout")
    BY <1>1 DEF QuietInv, SenderHears
  <2> QED
    BY <2>1, <2>2, WithinBounds, Periods DEF Ticker
<1>2. ASSUME receiver = "select" PROVE quiet <= (Threshold + 1) * RWindow
  <2>1. Rounds(rFail, rAlive) <= Threshold /\ Rounds(rFail, rAlive) \in Nat
    BY <1>2, RoundsAreNat, Constants DEF Types, ReceiverTypes, Rounds
  <2>2. Within(Rounds(rFail, rAlive), "heartbeat")
    BY <1>2 DEF QuietInv, ReceiverHears
  <2> QED
    BY <2>1, <2>2, WithinBounds, Periods DEF Ticker
<1> QED
  BY <1>1, <1>2

LEMMA LastWindowNext ==
    ASSUME Types, EndInv, QuietInv, [Next]_vars
    PROVE  LastWindow'
<1> SUFFICES ASSUME receiver' = "gone", connC' PROVE quiet' <= (Threshold + 1) * RWindow
  BY DEF LastWindow
<1> USE DEF senderVars, writerVars, serverVars, receiverVars, netVars
<1>0. receiver \in {"select", "gone"}
  BY DEF Types, ReceiverTypes
<1>1. connC
  BY DEF Next, vars, StartHealthCheck, SendHealthCheck, CheckTimeout, TakeAck, SenderStopped,
     HandleHealthcheckEvents, WriteHealthCheck, WriteEnds, WriteFails, TimeoutReceived, WriterStopped,
     OnHCResponse, WorkReturns, Client, HandleHealthCheck, TakeHeartbeat, CheckHeartbeat, ReceiverStopped,
     OnTimeout, ReadLoopEnds, Network, Lose, FallSilent, Close, CloseArrives, Pass
<1>2. ~ stopped
  BY <1>1 DEF EndInv
<1>3. ~ Pass
  <2> SUFFICES ASSUME Pass PROVE FALSE
    OBVIOUS
  <2>1. receiver = "gone"
    BY DEF Pass
  <2> QED
    BY <1>2, <2>1 DEF Pass, Busy
<1>4. quiet' = quiet
  BY <1>3 DEF Next, vars, StartHealthCheck, SendHealthCheck, CheckTimeout, TakeAck, SenderStopped,
     HandleHealthcheckEvents, WriteHealthCheck, WriteEnds, WriteFails, TimeoutReceived, WriterStopped,
     OnHCResponse, WorkReturns, Client, HandleHealthCheck, TakeHeartbeat, CheckHeartbeat, ReceiverStopped,
     OnTimeout, ReadLoopEnds, Network, Lose, FallSilent, Close, CloseArrives
<1> QED
  BY <1>0, <1>1, <1>4, HearingBounds DEF QuietInv, LastWindow

LEMMA QuietInvHolds ==
    ASSUME ShortWrites
    PROVE  Spec => []QuietInv
<1>1. Init => QuietInv
  <2> SUFFICES ASSUME Init PROVE QuietInv
    OBVIOUS
  <2>1. Types
    BY TypesInit
  <2>2. /\ quiet = 0 /\ ~ ack /\ ~ heartbeat /\ ~ sAlive /\ ~ rAlive /\ receiver = "select"
        /\ \A t \in Ticker : ~ ticks[t].due
    BY DEF Init
  <2>3. Within(Rounds(sFail, sAlive), "timeout") /\ Within(Rounds(rFail, rAlive), "heartbeat")
    BY <2>1, <2>2, WithinAtStart, RoundsAreNat DEF Ticker
  <2> QED
    BY <2>2, <2>3 DEF QuietInv, SenderHears, ReceiverHears, LastWindow
<1>2. SenderInv /\ QuietInv /\ [Next]_vars => QuietInv'
  BY SilenceCounts, SenderHearsNext, ReceiverHearsNext, LastWindowNext DEF SenderInv, QuietInv
<1> QED
  BY <1>1, <1>2, SenderInvHolds, PTL DEF Spec

\* Each end notices a path that has fallen silent after Threshold + 1 of its windows, whatever
\* the phase of its ticker and whatever was under way when the silence began.
THEOREM SilenceIsHeard ==
    ASSUME ShortWrites
    PROVE  Spec => []SilenceIsNoticed
<1>1. SenderInv /\ QuietInv => SilenceIsNoticed
  <2> SUFFICES ASSUME SenderInv, QuietInv PROVE SilenceIsNoticed
    OBVIOUS
  <2>1. sender \in {"select", "gone"} /\ receiver \in {"select", "gone"}
    BY DEF SenderInv, WriteInv, Types, SenderTypes, ReceiverTypes
  <2> QED
    BY <2>1, HearingBounds DEF SilenceIsNoticed, QuietInv, LastWindow, SenderInv
<1> QED
  BY <1>1, SenderInvHolds, QuietInvHolds, PTL

(***************************************************************************)
(* A path that works.  In every round of a ticker a message is on its way  *)
(* that will be there before the round ends, or has been, or was lost.     *)
(***************************************************************************)

\* A heartbeat that is to leave with the next tick, is about to leave or is under way reaches
\* the client in time to leave the rest of d to what follows.
Coming(t, d) ==
    \/ ticks["interval"].left + d < ticks[t].left
    \/ (ticks["interval"].due \/ healthCheck \/ writer = "write") /\ d < ticks[t].left
    \/ \E a \in toClient : d < ticks[t].left + a

AnswerComing ==
    \/ Coming("timeout", 2 * MaxDelay)
    \/ \E a \in toServer : MaxDelay < ticks["timeout"].left + a

Open == connS /\ connC /\ sender = "select"

SenderKeeps ==
    ~ silent =>
        /\ lost >= sFail
        /\ sender = "select" /\ ticks["timeout"].due => sAlive \/ lost > sFail
        /\ Open => sAlive \/ ack \/ lost > sFail \/ AnswerComing

ReceiverKeeps ==
    ~ silent =>
        /\ lost >= rFail
        /\ receiver = "select" /\ ticks["heartbeat"].due => rAlive \/ lost > rFail
        /\ receiver = "select" /\ Open => rAlive \/ heartbeat \/ lost > rFail \/ Coming("heartbeat", MaxDelay)

LEMMA NothingComesBack ==
    ASSUME [Next]_vars
    PROVE  /\ ~ silent' => ~ silent
           /\ ~ silent' /\ Open' => Open
           /\ receiver' = "select" => receiver = "select"
           /\ sender' = "select" => sender = "select"
  BY DEF Open, Next, vars, StartHealthCheck, SendHealthCheck, CheckTimeout, TakeAck, SenderStopped,
     HandleHealthcheckEvents, WriteHealthCheck, WriteEnds, WriteFails, TimeoutReceived, WriterStopped,
     OnHCResponse, WorkReturns, Client, HandleHealthCheck, TakeHeartbeat, CheckHeartbeat, ReceiverStopped,
     OnTimeout, ReadLoopEnds, Network, Lose, FallSilent, Close, CloseArrives, Pass,
     senderVars, writerVars, serverVars, receiverVars, netVars

\* Only the clock moves a ticker's hand, and only a case of a select takes its tick.
LEMMA HandsStay ==
    ASSUME TickerTypes, [Next]_vars, ~ Pass
    PROVE  /\ \A t \in Ticker : ticks'[t].left = ticks[t].left
           /\ ~ SendHealthCheck => ticks'["interval"].due = ticks["interval"].due
           /\ ~ CheckTimeout => ticks'["timeout"].due = ticks["timeout"].due
           /\ ~ CheckHeartbeat => ticks'["heartbeat"].due = ticks["heartbeat"].due
<1>1. CASE SendHealthCheck
  BY <1>1, TakeEffect DEF SendHealthCheck, Ticker
<1>2. CASE CheckTimeout
  BY <1>2, TakeEffect DEF CheckTimeout, Ticker
<1>3. CASE CheckHeartbeat
  BY <1>3, TakeEffect DEF CheckHeartbeat, Ticker
<1>4. CASE ~ SendHealthCheck /\ ~ CheckTimeout /\ ~ CheckHeartbeat
  <2>1. ticks' = ticks
    BY <1>4 DEF Next, vars, StartHealthCheck, TakeAck, SenderStopped,
       HandleHealthcheckEvents, WriteHealthCheck, WriteEnds, WriteFails, TimeoutReceived, WriterStopped,
       OnHCResponse, WorkReturns, Client, HandleHealthCheck, TakeHeartbeat, ReceiverStopped,
       OnTimeout, ReadLoopEnds, Network, Lose, FallSilent, Close, CloseArrives,
       senderVars, writerVars, serverVars, receiverVars, netVars
  <2> QED
    BY <2>1
<1> QED
  BY <1>1, <1>2, <1>3, <1>4

\* A heartbeat leaves, and stays on its way, until it arrives or is lost.
LEMMA ComingStays ==
    ASSUME Types, EndInv, [Next]_vars, ~ Pass, Open', ~ silent', NEW t, t \in Ticker, NEW d, d \in Nat,
           Coming(t, d)
    PROVE  \/ Coming(t, d)'
           \/ lost' = lost + 1
           \/ HandleHealthCheck /\ \E a \in toClient : d < ticks[t].left + a
<1>1. /\ TickerTypes /\ ticks[t].left \in Nat /\ ticks["interval"].left \in Nat
      /\ ticks'[t].left = ticks[t].left /\ ticks'["interval"].left = ticks["interval"].left
  BY TickFields, HandsStay, Periods DEF Types, Ticker
<1>2. Open /\ ~ silent /\ ~ ctxDone
  BY NothingComesBack DEF EndInv, Open
<1> USE DEF senderVars, writerVars, serverVars, receiverVars, netVars
<1>3. CASE SendHealthCheck
  BY <1>1, <1>3 DEF SendHealthCheck, Coming
<1>4. ASSUME ticks'["interval"].due = ticks["interval"].due, UNCHANGED <<healthCheck, writer>>,
             toClient \subseteq toClient'
      PROVE  Coming(t, d)'
  BY <1>1, <1>4 DEF Coming
<1>5. CASE StartHealthCheck /\ ~ SendHealthCheck
  BY <1>1, <1>4, <1>5, HandsStay DEF StartHealthCheck, CheckTimeout, TakeAck, SenderStopped
<1>6. CASE WriteHealthCheck
  BY <1>1, <1>6 DEF WriteHealthCheck, Coming
<1>7. CASE WriteEnds
  <2>1. 0 \in toClient' /\ toClient \subseteq toClient' /\ UNCHANGED <<ticks, healthCheck>>
    BY <1>2, <1>7 DEF WriteEnds
  <2> QED
    BY <1>1, <2>1 DEF Coming
<1>8. CASE WriteFails \/ TimeoutReceived \/ WriterStopped \/ WorkReturns
  BY <1>2, <1>8 DEF WriteFails, TimeoutReceived, WriterStopped, WorkReturns, Open
<1>9. CASE OnHCResponse
  BY <1>4, <1>9 DEF OnHCResponse
<1>10. CASE HandleHealthCheck
  <2>1. UNCHANGED <<ticks, healthCheck, writer>>
    BY <1>10 DEF HandleHealthCheck
  <2> QED
    BY <1>10, <2>1 DEF Coming
<1>11. CASE Client /\ ~ HandleHealthCheck
  <2>1. ticks'["interval"].due = ticks["interval"].due
    <3>1. CASE CheckHeartbeat
      BY <1>1, <3>1, TakeEffect DEF CheckHeartbeat, Ticker
    <3>2. CASE TakeHeartbeat \/ ReceiverStopped \/ OnTimeout \/ ReadLoopEnds
      BY <3>2 DEF TakeHeartbeat, ReceiverStopped, OnTimeout, ReadLoopEnds
    <3> QED
      BY <1>11, <3>1, <3>2 DEF Client
  <2>2. UNCHANGED <<healthCheck, writer, toClient>>
    BY <1>11 DEF Client, TakeHeartbeat, CheckHeartbeat, ReceiverStopped, OnTimeout, ReadLoopEnds
  <2> QED
    BY <1>4, <2>1, <2>2
<1>12. CASE Network
  BY <1>2, <1>12 DEF Network, Lose, FallSilent, Close, CloseArrives, Open
<1>13. CASE UNCHANGED vars
  BY <1>4, <1>13 DEF vars
<1> QED
  BY <1>3, <1>5, <1>6, <1>7, <1>8, <1>9, <1>10, <1>11, <1>12, <1>13 DEF Next, HandleHealthcheckEvents

\* What is coming in time is not there too late.
LEMMA ComingWhenTimePasses ==
    ASSUME Types, EndInv, Pass, Open, ~ silent, NEW t, t \in Ticker, ~ Stopped(t), NEW d, d \in Nat,
           MaxDelay <= d, Coming(t, d)
    PROVE  ticks[t].left # 1 /\ Coming(t, d)'
<1>1. /\ TickerTypes /\ ticks[t].left \in Nat /\ ticks["interval"].left \in Nat
      /\ ticks[t].left >= 1 /\ ticks["interval"].left >= 1 /\ MaxDelay \in Nat
  BY TickFields, Periods, Constants DEF Types, Ticker
<1>2. ~ ticks["interval"].due /\ ~ healthCheck /\ writer # "write"
  BY IdleWhenTimePasses DEF Open, Types, WriterTypes
<1>3. MaxDelay \notin toClient /\ toClient' = {a + 1 : a \in toClient}
  BY DEF Pass, Busy, Older
<1>4. /\ ticks["interval"].left = 1 => ticks'["interval"].due
      /\ ticks["interval"].left # 1 => ticks'["interval"].left = ticks["interval"].left - 1
      /\ ticks[t].left # 1 => ticks'[t].left = ticks[t].left - 1
  BY <1>1, PassEffect DEF Open, Stopped, Ticker
<1>5. CASE ticks["interval"].left + d < ticks[t].left
  <2>1. ticks[t].left # 1 /\ ticks'[t].left = ticks[t].left - 1
    BY <1>1, <1>4, <1>5
  <2>2. CASE ticks["interval"].left = 1
    BY <1>1, <1>4, <1>5, <2>1, <2>2 DEF Coming
  <2>3. CASE ticks["interval"].left # 1
    <3>1. ticks'["interval"].left + d < ticks'[t].left
      BY <1>1, <1>4, <1>5, <2>1, <2>3
    <3> QED
      BY <2>1, <3>1 DEF Coming
  <2> QED
    BY <2>2, <2>3
<1>6. CASE \E a \in toClient : d < ticks[t].left + a
  <2>1. PICK a \in toClient : d < ticks[t].left + a
    BY <1>6
  <2>2. a \in Nat /\ a < MaxDelay
    <3>1. a \in 0 .. MaxDelay /\ a # MaxDelay
      BY <1>3 DEF Types, NetTypes
    <3> QED
      BY <1>1, <3>1
  <2>3. ticks[t].left # 1 /\ ticks'[t].left = ticks[t].left - 1
    BY <1>1, <1>4, <2>1, <2>2
  <2>4. a + 1 \in toClient' /\ d < ticks'[t].left + (a + 1)
    BY <1>1, <1>3, <2>1, <2>2, <2>3
  <2> QED
    BY <2>3, <2>4 DEF Coming
<1> QED
  BY <1>2, <1>5, <1>6 DEF Coming

\* An end's losses count what fails, and a window without an answer is one of them.
LEMMA SenderKeepsNext ==
    ASSUME FastPath, Types, EndInv, QuietInv, SenderKeeps, [Next]_vars
    PROVE  SenderKeeps'
<1> SUFFICES ASSUME ~ silent'
             PROVE  /\ lost' >= sFail'
                    /\ sender' = "select" /\ ticks'["timeout"].due => sAlive' \/ lost' > sFail'
                    /\ Open' => sAlive' \/ ack' \/ lost' > sFail' \/ AnswerComing'
  BY DEF SenderKeeps
<1> USE DEF senderVars, writerVars, serverVars, receiverVars, netVars
<1>0. /\ ~ silent
      /\ lost >= sFail
      /\ sender = "select" /\ ticks["timeout"].due => sAlive \/ lost > sFail
      /\ Open => sAlive \/ ack \/ lost > sFail \/ AnswerComing
      /\ Open' => Open
      /\ sender' = "select" => sender = "select"
  BY NothingComesBack DEF SenderKeeps
<1>1. /\ lost \in Nat /\ sFail \in Nat /\ MaxDelay \in Nat /\ TickerTypes
      /\ ticks["timeout"].left \in Nat /\ ticks["timeout"].left >= 1
      /\ ticks["interval"].left \in Nat /\ ticks["interval"].left <= Interval
      /\ Interval \in Nat /\ Window \in Nat
  BY TickFields, Periods, Constants DEF Types, SenderTypes, NetTypes, Ticker
<1>2. lost' = lost \/ lost' = lost + 1
  BY DEF Next, vars, StartHealthCheck, SendHealthCheck, CheckTimeout, TakeAck, SenderStopped,
     HandleHealthcheckEvents, WriteHealthCheck, WriteEnds, WriteFails, TimeoutReceived, WriterStopped,
     OnHCResponse, WorkReturns, Client, HandleHealthCheck, TakeHeartbeat, CheckHeartbeat, ReceiverStopped,
     OnTimeout, ReadLoopEnds, Network, Lose, FallSilent, Close, CloseArrives, Pass
<1>3. CASE CheckTimeout
  <2>1. /\ sender = "select" /\ ticks["timeout"].due /\ ~ ticks'["timeout"].due
        /\ ticks'["timeout"].left = ticks["timeout"].left /\ ticks'["interval"].left = ticks["interval"].left
        /\ lost' = lost
    BY <1>1, <1>3, TakeEffect DEF CheckTimeout, Ticker
  <2>2. lost' >= sFail'
    BY <1>0, <1>1, <1>3, <2>1 DEF CheckTimeout
  <2>3. ticks["timeout"].left = Window
    BY <2>1, Periods DEF QuietInv, SenderHears, Within
  <2>4. ticks'["interval"].left + 2 * MaxDelay < ticks'["timeout"].left
    BY <1>1, <2>1, <2>3, Constants DEF FastPath
  <2>5. AnswerComing'
    BY <2>4 DEF AnswerComing, Coming
  <2> QED
    BY <2>1, <2>2, <2>5
<1>4. CASE TakeAck
  <2>1. sFail' = 0 /\ sAlive' /\ lost' = lost
    BY <1>4 DEF TakeAck
  <2> QED
    BY <1>1, <2>1
<1>5. CASE Pass
  <2>1. UNCHANGED <<sAlive, sFail, ack, lost, sender, connS, connC>>
    BY <1>5 DEF Pass
  <2>2. CASE sender # "select"
    BY <1>0, <2>1, <2>2 DEF Open
  <2>3. CASE sender = "select"
    <3>1. Open /\ ~ ack /\ ~ Stopped("timeout")
      BY <1>0, <1>5, <2>3, IdleWhenTimePasses DEF Open, Stopped
    <3>2. ASSUME AnswerComing PROVE ticks["timeout"].left # 1 /\ AnswerComing'
      <4>1. CASE Coming("timeout", 2 * MaxDelay)
        <5>1. 2 * MaxDelay \in Nat /\ MaxDelay <= 2 * MaxDelay
          BY <1>1
        <5>2. ticks["timeout"].left # 1 /\ Coming("timeout", 2 * MaxDelay)'
          BY <1>0, <1>5, <3>1, <4>1, <5>1, ComingWhenTimePasses DEF Ticker
        <5> QED
          BY <5>2 DEF AnswerComing
      <4>2. CASE \E a \in toServer : MaxDelay < ticks["timeout"].left + a
        <5>1. PICK a \in toServer : MaxDelay < ticks["timeout"].left + a
          BY <4>2
        <5>2. a \in Nat /\ a < MaxDelay /\ a + 1 \in toServer'
          BY <1>0, <1>1, <1>5, <5>1 DEF Pass, Busy, Older, Types, NetTypes
        <5>3. ticks["timeout"].left # 1
          BY <1>1, <5>1, <5>2
        <5>4. ticks'["timeout"].left = ticks["timeout"].left - 1
          BY <1>1, <1>5, <3>1, <5>3, PassEffect DEF Ticker
        <5>5. MaxDelay < ticks'["timeout"].left + (a + 1)
          BY <1>1, <5>1, <5>2, <5>4
        <5> QED
          BY <5>2, <5>3, <5>5 DEF AnswerComing
      <4> QED
        BY <3>2, <4>1, <4>2 DEF AnswerComing
    <3>3. ticks'["timeout"].due => ticks["timeout"].left = 1
      BY <1>0, <1>1, <1>5, <2>3, <3>1, PassEffect, IdleWhenTimePasses DEF Ticker
    <3> QED
      BY <1>0, <2>1, <2>3, <3>1, <3>2, <3>3
  <2> QED
    BY <2>2, <2>3
<1>6. CASE ~ CheckTimeout /\ ~ TakeAck /\ ~ Pass
  <2>1. UNCHANGED <<sAlive, sFail>> /\ (ack => ack')
    BY <1>6 DEF Next, vars, StartHealthCheck, SendHealthCheck, SenderStopped,
       HandleHealthcheckEvents, WriteHealthCheck, WriteEnds, WriteFails, TimeoutReceived, WriterStopped,
       OnHCResponse, WorkReturns, Client, HandleHealthCheck, TakeHeartbeat, CheckHeartbeat, ReceiverStopped,
       OnTimeout, ReadLoopEnds, Network, Lose, FallSilent, Close, CloseArrives
  <2>2. (ticks'["timeout"].due = ticks["timeout"].due) /\ ticks'["timeout"].left = ticks["timeout"].left
    BY <1>1, <1>6, HandsStay DEF Ticker
  <2>3. ASSUME Open', AnswerComing PROVE ack' \/ lost' = lost + 1 \/ AnswerComing'
    <3>1. CASE Coming("timeout", 2 * MaxDelay)
      <4>1. 2 * MaxDelay \in Nat
        BY <1>1
      <4>2. \/ Coming("timeout", 2 * MaxDelay)'
            \/ lost' = lost + 1
            \/ HandleHealthCheck /\ \E a \in toClient : 2 * MaxDelay < ticks["timeout"].left + a
        BY <1>6, <2>3, <3>1, <4>1, ComingStays DEF Ticker
      <4>3. ASSUME HandleHealthCheck, \E a \in toClient : 2 * MaxDelay < ticks["timeout"].left + a
            PROVE  AnswerComing'
        <5>1. PICK a \in toClient : 2 * MaxDelay < ticks["timeout"].left + a
          BY <4>3
        <5>2. a \in Nat /\ a <= MaxDelay
          BY <1>1 DEF Types, NetTypes
        <5>3. MaxDelay < ticks'["timeout"].left + 0
          BY <1>1, <2>2, <5>1, <5>2
        <5>4. 0 \in toServer'
          BY <4>3 DEF HandleHealthCheck
        <5> QED
          BY <5>3, <5>4 DEF AnswerComing
      <4> QED
        BY <4>2, <4>3 DEF AnswerComing
    <3>2. CASE \E a \in toServer : MaxDelay < ticks["timeout"].left + a
      <4>1. ack' \/ lost' = lost + 1 \/ toServer \subseteq toServer'
        BY <1>6 DEF Next, vars, StartHealthCheck, SendHealthCheck, SenderStopped,
           HandleHealthcheckEvents, WriteHealthCheck, WriteEnds, WriteFails, TimeoutReceived, WriterStopped,
           OnHCResponse, WorkReturns, Client, HandleHealthCheck, TakeHeartbeat, CheckHeartbeat, ReceiverStopped,
           OnTimeout, ReadLoopEnds, Network, Lose, FallSilent, Close, CloseArrives
      <4> QED
        BY <2>2, <3>2, <4>1 DEF AnswerComing
    <3> QED
      BY <2>3, <3>1, <3>2 DEF AnswerComing
  <2> QED
    BY <1>0, <1>1, <1>2, <2>1, <2>2, <2>3
<1> QED
  BY <1>3, <1>4, <1>5, <1>6

LEMMA ReceiverKeepsNext ==
    ASSUME FastPath, Types, EndInv, WriteInv, QuietInv, ReceiverKeeps, [Next]_vars
    PROVE  ReceiverKeeps'
<1> SUFFICES ASSUME ~ silent'
             PROVE  /\ lost' >= rFail'
                    /\ receiver' = "select" /\ ticks'["heartbeat"].due => rAlive' \/ lost' > rFail'
                    /\ receiver' = "select" /\ Open' =>
                           rAlive' \/ heartbeat' \/ lost' > rFail' \/ Coming("heartbeat", MaxDelay)'
  BY DEF ReceiverKeeps
<1> USE DEF senderVars, writerVars, serverVars, receiverVars, netVars
<1>0. /\ ~ silent
      /\ lost >= rFail
      /\ receiver = "select" /\ ticks["heartbeat"].due => rAlive \/ lost > rFail
      /\ receiver = "select" /\ Open => rAlive \/ heartbeat \/ lost > rFail \/ Coming("heartbeat", MaxDelay)
      /\ Open' => Open
      /\ receiver' = "select" => receiver = "select"
  BY NothingComesBack DEF ReceiverKeeps
<1>1. /\ lost \in Nat /\ rFail \in Nat /\ MaxDelay \in Nat /\ TickerTypes
      /\ ticks["heartbeat"].left \in Nat /\ ticks["heartbeat"].left >= 1
      /\ ticks["interval"].left \in Nat /\ ticks["interval"].left <= Interval
      /\ Interval \in Nat /\ RWindow \in Nat
  BY TickFields, Periods, Constants DEF Types, ReceiverTypes, NetTypes, Ticker
<1>2. lost' = lost \/ lost' = lost + 1
  BY DEF Next, vars, StartHealthCheck, SendHealthCheck, CheckTimeout, TakeAck, SenderStopped,
     HandleHealthcheckEvents, WriteHealthCheck, WriteEnds, WriteFails, TimeoutReceived, WriterStopped,
     OnHCResponse, WorkReturns, Client, HandleHealthCheck, TakeHeartbeat, CheckHeartbeat, ReceiverStopped,
     OnTimeout, ReadLoopEnds, Network, Lose, FallSilent, Close, CloseArrives, Pass
<1>3. CASE CheckHeartbeat
  <2>1. /\ receiver = "select" /\ ticks["heartbeat"].due /\ ~ ticks'["heartbeat"].due
        /\ ticks'["heartbeat"].left = ticks["heartbeat"].left /\ ticks'["interval"].left = ticks["interval"].left
        /\ lost' = lost
    BY <1>1, <1>3, TakeEffect DEF CheckHeartbeat, Ticker
  <2>2. lost' >= rFail'
    BY <1>0, <1>1, <1>3, <2>1 DEF CheckHeartbeat
  <2>3. ticks["heartbeat"].left = RWindow
    BY <2>1, Periods DEF QuietInv, ReceiverHears, Within
  <2>4. ticks'["interval"].left + MaxDelay < ticks'["heartbeat"].left
    BY <1>1, <2>1, <2>3, Constants DEF FastPath
  <2>5. Coming("heartbeat", MaxDelay)'
    BY <2>4 DEF Coming
  <2> QED
    BY <2>1, <2>2, <2>5
<1>4. CASE TakeHeartbeat
  <2>1. rFail' = 0 /\ rAlive' /\ lost' = lost
    BY <1>4 DEF TakeHeartbeat
  <2> QED
    BY <1>1, <2>1
<1>5. CASE Pass
  <2>1. UNCHANGED <<rAlive, rFail, heartbeat, lost, receiver, sender, connS, connC>>
    BY <1>5 DEF Pass
  <2>2. CASE receiver # "select"
    BY <1>0, <2>1, <2>2
  <2>3. CASE receiver = "select"
    <3>1. ~ heartbeat /\ ~ ticks["heartbeat"].due /\ ~ Stopped("heartbeat")
      BY <1>5, <2>3 DEF Pass, Busy, Stopped
    <3>2. ASSUME Open, Coming("heartbeat", MaxDelay)
          PROVE  ticks["heartbeat"].left # 1 /\ Coming("heartbeat", MaxDelay)'
      BY <1>0, <1>1, <1>5, <3>1, <3>2, ComingWhenTimePasses DEF Ticker
    <3>3. ticks'["heartbeat"].due => ticks["heartbeat"].left = 1
      BY <1>1, <1>5, <3>1, PassEffect DEF Ticker
    <3>4. Open
      BY <1>0, <1>5 DEF Pass, Busy, EndInv, WriteInv, Types, SenderTypes, WriterTypes, Open
    <3> QED
      BY <1>0, <2>1, <2>3, <3>1, <3>2, <3>3, <3>4
  <2> QED
    BY <2>2, <2>3
<1>6. CASE ~ CheckHeartbeat /\ ~ TakeHeartbeat /\ ~ Pass
  <2>1. UNCHANGED <<rAlive, rFail>> /\ (heartbeat => heartbeat')
    BY <1>6 DEF Next, vars, StartHealthCheck, SendHealthCheck, CheckTimeout, TakeAck, SenderStopped,
       HandleHealthcheckEvents, WriteHealthCheck, WriteEnds, WriteFails, TimeoutReceived, WriterStopped,
       OnHCResponse, WorkReturns, Client, HandleHealthCheck, ReceiverStopped,
       OnTimeout, ReadLoopEnds, Network, Lose, FallSilent, Close, CloseArrives
  <2>2. (ticks'["heartbeat"].due = ticks["heartbeat"].due) /\ ticks'["heartbeat"].left = ticks["heartbeat"].left
    BY <1>1, <1>6, HandsStay DEF Ticker
  <2>3. ASSUME Open', Coming("heartbeat", MaxDelay)
        PROVE  heartbeat' \/ lost' = lost + 1 \/ Coming("heartbeat", MaxDelay)'
    <3>1. Coming("heartbeat", MaxDelay)' \/ lost' = lost + 1 \/ HandleHealthCheck
      BY <1>1, <1>6, <2>3, ComingStays DEF Ticker
    <3> QED
      BY <3>1 DEF HandleHealthCheck
  <2> QED
    BY <1>0, <1>1, <1>2, <2>1, <2>2, <2>3
<1> QED
  BY <1>3, <1>4, <1>5, <1>6

\* No end gives up a connection that works, with fewer than Threshold messages lost, for any
\* periods that leave room for the delays and for a write: an answer is never due after the
\* check that asks for it, in no phase of the three tickers.
THEOREM LiveConnStays ==
    ASSUME FastPath, ShortWrites
    PROVE  Spec => []LiveConnIsKept
<1>1. Init => SenderKeeps /\ ReceiverKeeps
  <2> SUFFICES ASSUME Init PROVE SenderKeeps /\ ReceiverKeeps
    OBVIOUS
  <2>1. PICK d \in 0 .. MaxDelay :
            /\ d < Interval
            /\ ticks = [t \in Ticker |-> [left |-> IF t = "heartbeat" THEN Period[t] ELSE Period[t] - d,
                                          due |-> FALSE]]
    BY DEF Init
  <2>2. /\ ticks["interval"].left = Interval - d /\ ticks["timeout"].left = Window - d
        /\ ticks["heartbeat"].left = RWindow
        /\ ~ ticks["timeout"].due /\ ~ ticks["heartbeat"].due
    BY <2>1, Periods DEF Ticker
  <2>3. ticks["interval"].left + 2 * MaxDelay < ticks["timeout"].left
    BY <2>1, <2>2, Constants DEF FastPath
  <2>4. ticks["interval"].left + MaxDelay < ticks["heartbeat"].left
    BY <2>1, <2>2, Constants DEF FastPath
  <2>5. AnswerComing /\ Coming("heartbeat", MaxDelay)
    BY <2>3, <2>4 DEF AnswerComing, Coming
  <2>6. lost >= sFail /\ lost >= rFail
    BY DEF Init
  <2> QED
    BY <2>2, <2>5, <2>6 DEF SenderKeeps, ReceiverKeeps
<1>2. SenderInv /\ QuietInv /\ SenderKeeps /\ ReceiverKeeps /\ [Next]_vars => (SenderKeeps /\ ReceiverKeeps)'
  BY SenderKeepsNext, ReceiverKeepsNext DEF SenderInv
<1>3. SenderInv /\ SenderKeeps /\ ReceiverKeeps => LiveConnIsKept
  BY Constants DEF SenderInv, Types, SenderTypes, ReceiverTypes, NetTypes, SenderKeeps, ReceiverKeeps, LiveConnIsKept
<1> QED
  BY <1>1, <1>2, <1>3, SenderInvHolds, QuietInvHolds, PTL DEF Spec
=============================================================================
