------------------------- MODULE UpdateDeliveryProofs -------------------------
(***************************************************************************)
(* Proofs about UpdateDelivery for any number of handlers and timers, any  *)
(* capacity of the channel and any number of changes: a peer that lags has *)
(* a cause, and a stream implements UpdateStream.                          *)
(***************************************************************************)
EXTENDS UpdateDelivery, SequenceTheorems, WellFoundedInduction, TLAPS

\* The updates there are at the present version.
Issued == {MapOf(v) : v \in 0 .. version} \cup {Token(k) : k \in 1 .. MaxTokens}

-----------------------------------------------------------------------------
(* What SendUpdates says of the newest version sent. *)

\* A set of bounded numbers has a greatest one.
LEMMA GreatestExists ==
  ASSUME NEW n \in Nat, NEW S \in SUBSET (0 .. n), S # {}
  PROVE  \E m \in S : \A k \in S : k <= m
<1> DEFINE T == {n - k : k \in S}
           R == {ss \in Nat \X Nat : ss[1] < ss[2]}
<1>1. IsWellFoundedOn(R, Nat)
  BY NatLessThanWellFounded DEF OpToRel
<1>2. \A k \in S : k \in Nat /\ k <= n /\ n - k \in Nat
  OBVIOUS
<1>3. T \subseteq Nat /\ T # {}
  BY <1>2
<1>4. PICK x \in T : \A y \in T : <<y, x>> \notin R
  <2> HIDE DEF R, T
  <2> QED
    BY <1>1, <1>3, WFMin
<1>5. \A y \in T : ~ (y < x)
  BY <1>3, <1>4
<1>6. PICK m \in S : x = n - m
  OBVIOUS
<1>7. ASSUME NEW k \in S PROVE k <= m
  <2>1. n - k \in T
    OBVIOUS
  <2>2. ~ (n - k < n - m)
    BY <1>5, <1>6, <2>1
  <2> QED
    BY <1>2, <2>2
<1> QED
  BY <1>7

\* What is sent is a sequence of issued updates, and the peer then knows the newest
\* of the versions it knew and those it was sent.
LEMMA SendUpdatesKnown ==
  ASSUME version \in Nat, known \in 0 .. version,
         NEW us \in Seq(Issued), SendUpdates(us)
  PROVE  /\ known' \in 0 .. version /\ known <= known'
         /\ \A i \in DOMAIN us : us[i].kind = "map" => us[i].n <= known'
<1> DEFINE S == {known} \cup {us[i].n : i \in {j \in DOMAIN us : us[j].kind = "map"}}
           Bounds(v) == \A i \in DOMAIN us : us[i].kind = "map" => us[i].n <= v /\ known <= v
<1>1. \A i \in DOMAIN us : us[i].kind = "map" => us[i].n \in 0 .. version
  <2> SUFFICES ASSUME NEW i \in DOMAIN us, us[i].kind = "map" PROVE us[i].n \in 0 .. version
    OBVIOUS
  <2>1. us[i] \in Issued
    OBVIOUS
  <2> QED
    BY <2>1 DEF Issued, MapOf, Token
<1>2. S \in SUBSET (0 .. version) /\ S # {}
  BY <1>1
<1>3. PICK m \in S : \A k \in S : k <= m
  <2> HIDE DEF S
  <2> QED
    BY <1>2, GreatestExists
<1>4. Bounds(m)
  BY <1>3
<1>5. known' = CHOOSE v \in S : Bounds(v)
  BY DEF SendUpdates
<1>6. known' \in S /\ Bounds(known')
  <2> HIDE DEF S, Bounds
  <2> QED
    BY <1>4, <1>5
<1>7. known <= known'
  <2>1. CASE \E i \in DOMAIN us : us[i].kind = "map"
    BY <1>6, <2>1
  <2>2. CASE ~ \E i \in DOMAIN us : us[i].kind = "map"
    BY <1>6, <2>2
  <2> QED
    BY <2>1, <2>2
<1> QED
  BY <1>2, <1>6, <1>7

-----------------------------------------------------------------------------
(***************************************************************************)
(* The inductive invariant.                                                *)
(***************************************************************************)

DeliveryTypes ==
  /\ version \in 0 .. MaxVersion
  /\ pc \in [Procs -> {"idle", "notify", "asking", "waiting", "loaded", "send",
                       "sent", "unlock", "initial", "serving"}]
  /\ seen \in [Procs -> 0 .. version]
  /\ mu \in Handlers \cup {None}
  /\ update \in BOOLEAN /\ next \in BOOLEAN /\ timer \in BOOLEAN
  /\ channel \in Seq(Issued) \cup {None} /\ pending \in Seq(Issued)
  /\ sent \in Seq(Updates)
  /\ tokens \in 0 .. MaxTokens
  /\ known \in 0 .. version /\ missed \in 0 .. version

\* A goroutine that waits for the account is in one batch, or in the next one.
WaitersInOneBatch ==
  /\ \A p \in requests : p \in Procs /\ pc[p] = "waiting"
  /\ \A b \in batches : \A p \in b : p \in Procs \ requests /\ pc[p] = "waiting"
  /\ \A b, c \in batches : b # c => b \cap c = {}

\* The channel exists while the stream is served, the debouncer holds updates back only
\* while its timer runs, and only then.
ServedHasChannel ==
  /\ channel # None <=> pc[Sync] = "serving"
  /\ timer => pc[Sync] = "serving"
  /\ pending # <<>> => timer

\* Why a peer, sent or about to be sent an older version, will be told of the newest or
\* will not: the causes that do not lie on the channel.
Cause ==
  \/ next \/ update \/ missed = version
  \/ \E p \in Senders : \/ pc[p] \in {"notify", "asking", "waiting"}
                        \/ pc[p] \in {"loaded", "send"} /\ seen[p] = version

Occurs(e, s) == \E i \in DOMAIN s : s[i] = e
OnTheWay == Occurs(MapOf(version), Queue)

\* The peer counts as told what its stream has read, from then on.
LagIsCovered ==
  /\ pc[Sync] \in {"loaded", "initial"} /\ seen[Sync] < version => Cause
  /\ pc[Sync] = "initial" => seen[Sync] <= known
  /\ pc[Sync] = "serving" /\ known < version => Cause \/ OnTheWay

DeliveryInv == DeliveryTypes /\ WaitersInOneBatch /\ ServedHasChannel /\ LagIsCovered

LEMMA DeliveryInvInit == Init => DeliveryInv
<1> SUFFICES ASSUME Init PROVE DeliveryInv
  OBVIOUS
<1> USE ConstantsAssumption DEF Init
<1>1. DeliveryTypes
  <2>1. pending \in Seq(Issued) /\ sent \in Seq(Updates)
    BY EmptySeq
  <2>2. 0 \in 0 .. MaxVersion /\ 0 \in 0 .. MaxTokens /\ 0 \in 0 .. 0
    OBVIOUS
  <2> QED
    BY <2>1, <2>2 DEF DeliveryTypes
<1>2. WaitersInOneBatch
  BY DEF WaitersInOneBatch
<1>3. ServedHasChannel
  BY DEF ServedHasChannel, Procs
<1>4. LagIsCovered
  BY DEF LagIsCovered, Procs
<1> QED
  BY <1>1, <1>2, <1>3, <1>4 DEF DeliveryInv

\* What was issued stays issued when the account changes.
LEMMA IssuedGrows ==
  /\ version' = version => Issued' = Issued
  /\ version \in Nat /\ version' = version + 1 => Issued \subseteq Issued'
  BY DEF Issued

LEMMA SeqIssuedGrows ==
  ASSUME version \in Nat, version' = version + 1
  PROVE  Seq(Issued) \subseteq Seq(Issued')
  BY IssuedGrows, SeqMonotonic

LEMMA IssuedAreUpdates ==
  ASSUME version \in 0 .. MaxVersion
  PROVE  Issued \subseteq Updates /\ Seq(Issued) \subseteq Seq(Updates) /\ None \notin Seq(Issued)
<1>1. Issued \subseteq Updates
  BY ConstantsAssumption DEF Issued, Updates
<1> QED
  BY <1>1, ConstantsAssumption, SeqMonotonic

LEMMA MapOfIsIssued ==
  ASSUME NEW v \in 0 .. version
  PROVE  MapOf(v) \in Issued
  BY DEF Issued

LEMMA NewerIsMax ==
  ASSUME NEW n \in Nat, NEW v \in 0 .. n, NEW w \in 0 .. n
  PROVE  Newer(v, w) \in 0 .. n /\ v <= Newer(v, w) /\ w <= Newer(v, w)
  BY DEF Newer

\* A map has one of the versions so far.
LEMMA IssuedMaps ==
  ASSUME NEW u \in Issued, u.kind = "map"
  PROVE  u.n \in 0 .. version /\ u = MapOf(u.n)
  BY DEF Issued, MapOf, Token

\* An update is held back behind the others, or in the place of a map if both are maps.
LEMMA CoalescedCases ==
  ASSUME pending \in Seq(Issued), NEW u \in Issued
  PROVE  /\ Coalesced(u) \in Seq(Issued) /\ Coalesced(u) # <<>>
         /\ \/ Coalesced(u) = Append(pending, u) /\ Superseded(u) = 0
            \/ /\ pending # <<>> /\ u.kind = "map" /\ pending[Len(pending)].kind = "map"
               /\ Coalesced(u) = [pending EXCEPT ![Len(pending)] = u]
               /\ Superseded(u) = pending[Len(pending)].n
<1>1. CASE pending # <<>> /\ u.kind = "map" /\ pending[Len(pending)].kind = "map"
  <2>1. Coalesced(u) = [pending EXCEPT ![Len(pending)] = u]
    BY <1>1 DEF Coalesced
  <2>2. Len(pending) \in Nat \ {0}
    BY <1>1, EmptySeq
  <2>3. Coalesced(u) \in Seq(Issued) /\ Len(Coalesced(u)) = Len(pending)
    BY <2>1, <2>2, ExceptSeq
  <2>4. ~ (Len(Coalesced(u)) > Len(pending)) /\ Coalesced(u) # <<>>
    BY <2>2, <2>3, EmptySeq
  <2> QED
    BY <1>1, <2>1, <2>3, <2>4 DEF Superseded
<1>2. CASE ~ (pending # <<>> /\ u.kind = "map" /\ pending[Len(pending)].kind = "map")
  <2>1. Coalesced(u) = Append(pending, u)
    BY <1>2 DEF Coalesced
  <2>2. Len(pending) \in Nat /\ Len(Coalesced(u)) = Len(pending) + 1
    BY <2>1, AppendProperties
  <2> QED
    BY <2>1, <2>2, AppendProperties DEF Superseded
<1> QED
  BY <1>1, <1>2

LEMMA DeliveryTypesNext == DeliveryInv /\ [Next]_vars => DeliveryTypes'
<1> SUFFICES ASSUME DeliveryInv, [Next]_vars PROVE DeliveryTypes'
  OBVIOUS
<1> USE ConstantsAssumption DEF DeliveryInv, DeliveryTypes, Goto, Senders, sender, stream
<1>0. /\ Sync \in Procs /\ Handlers \subseteq Procs /\ Timers \subseteq Procs
      /\ version \in Nat
      /\ \A p \in Senders : p \in Procs /\ seen[p] \in 0 .. version
  BY DEF Procs
<1>n. \A v, w \in 0 .. version : Newer(v, w) \in 0 .. version
  BY <1>0, NewerIsMax
<1>1. ASSUME NEW h \in Handlers, Change(h) PROVE DeliveryTypes'
  <2>1. Seq(Issued) \subseteq Seq(Issued')
    BY <1>0, <1>1, SeqIssuedGrows DEF Change
  <2>2. pending' \in Seq(Issued)' /\ channel' \in Seq(Issued)' \cup {None}
    BY <1>1, <2>1 DEF Change
  <2>3. /\ version' \in 0 .. MaxVersion /\ 0 .. version \subseteq 0 .. version'
    BY <1>0, <1>1 DEF Change
  <2>4. /\ seen' \in [Procs -> 0 .. version'] /\ known' \in 0 .. version' /\ missed' \in 0 .. version'
    BY <1>1, <2>3 DEF Change
  <2> QED
    BY <1>0, <1>1, <2>2, <2>3, <2>4 DEF Change
<1>2. ASSUME version' = version, DeliveryTypes,
             /\ pc' \in [Procs -> {"idle", "notify", "asking", "waiting", "loaded", "send",
                                   "sent", "unlock", "initial", "serving"}]
             /\ UNCHANGED <<seen, stream>> \/ (UNCHANGED stream /\ seen' \in [Procs -> 0 .. version])
             /\ mu' \in Handlers \cup {None} /\ update' \in BOOLEAN /\ next' \in BOOLEAN
      PROVE  DeliveryTypes'
  BY <1>2, IssuedGrows
<1>3. ASSUME NEW h \in Handlers, Notify(h) \/ CheckUpdate(h) \/ Unlock(h) PROVE DeliveryTypes'
  BY <1>0, <1>2, <1>3 DEF Notify, UpdateAccountPeers, BufferSendUpdateAccountPeers, CheckUpdate, Unlock
<1>4. ASSUME NEW t \in Timers, TimerFires(t) PROVE DeliveryTypes'
  BY <1>0, <1>2, <1>4 DEF TimerFires
<1>5. ASSUME NEW p \in Procs, GetAccountWithBackpressure(p) PROVE DeliveryTypes'
  BY <1>2, <1>5 DEF GetAccountWithBackpressure
<1>6. CASE TakeBatch \/ ProcessGetAccountBatch
  <2>1. CASE TakeBatch
    BY <1>2, <2>1 DEF TakeBatch
  <2>2. CASE ProcessGetAccountBatch
    <3>1. PICK batch \in batches :
             /\ seen' = [p \in Procs |-> IF p \in batch THEN version ELSE seen[p]]
             /\ pc' = [p \in Procs |-> IF p \in batch THEN "loaded" ELSE pc[p]]
             /\ UNCHANGED <<version, requests, mu, update, next, stream>>
      BY <2>2 DEF ProcessGetAccountBatch
    <3>2. seen' \in [Procs -> 0 .. version]
      BY <1>0, <3>1
    <3>3. pc' \in [Procs -> {"idle", "notify", "asking", "waiting", "loaded", "send",
                            "sent", "unlock", "initial", "serving"}]
      BY <3>1
    <3> QED
      BY <1>2, <3>1, <3>2, <3>3
  <2> QED
    BY <1>6, <2>1, <2>2
<1>7. ASSUME version' = version, DeliveryTypes,
             /\ pc' \in [Procs -> {"idle", "notify", "asking", "waiting", "loaded", "send",
                                   "sent", "unlock", "initial", "serving"}]
             /\ UNCHANGED <<seen, mu, update, next>>
             /\ timer' \in BOOLEAN /\ tokens' \in 0 .. MaxTokens
             /\ channel' \in Seq(Issued) \cup {None} /\ pending' \in Seq(Issued)
             /\ sent' \in Seq(Updates)
             /\ known' \in 0 .. version /\ missed' \in 0 .. version
      PROVE  DeliveryTypes'
  BY <1>7, IssuedGrows
<1>8. ASSUME NEW p \in Senders, HasChannel(p) \/ Done(p) PROVE DeliveryTypes'
  <2>1. missed' = missed \/ missed' = Newer(missed, seen[p])
    BY <1>8 DEF HasChannel, Done, Behind
  <2>2. missed' \in 0 .. version
    BY <1>0, <1>n, <2>1
  <2> QED
    BY <1>0, <1>7, <1>8, <2>2 DEF HasChannel, Done
<1>9. ASSUME NEW p \in Senders, SendUpdate(p) PROVE DeliveryTypes'
  <2>1. MapOf(seen[p]) \in Issued
    BY <1>0, MapOfIsIssued
  <2>2. channel' \in Seq(Issued) \cup {None}
    <3>1. channel # None => Append(channel, MapOf(seen[p])) \in Seq(Issued)
      BY <2>1, AppendProperties
    <3>2. channel' = channel \/ (channel # None /\ channel' = Append(channel, MapOf(seen[p])))
      BY <1>9 DEF SendUpdate
    <3> QED
      BY <3>1, <3>2
  <2>3. missed' \in 0 .. version
    BY <1>0, <1>9, <1>n DEF SendUpdate, Behind
  <2> QED
    BY <1>0, <1>7, <1>9, <2>2, <2>3 DEF SendUpdate
<1>10. CASE PushNewTokens
  <2>1. tokens' \in 1 .. MaxTokens
    BY <1>10, SMTT(40) DEF PushNewTokens
  <2>2. Token(tokens') \in Issued
    BY <2>1 DEF Issued
  <2>3. channel \in Seq(Issued)
    BY <1>10 DEF PushNewTokens, ServedHasChannel
  <2>4. channel' \in Seq(Issued)
    BY <1>10, <2>2, <2>3, AppendProperties DEF PushNewTokens
  <2> QED
    BY <1>7, <1>10, <2>1, <2>4, SMTT(40) DEF PushNewTokens
<1>11. CASE Connect \/ CreateChannel
  BY <1>0, <1>7, <1>11, EmptySeq, ZenonT(40) DEF Connect, CreateChannel
<1>12. CASE SendInitialSync
  BY <1>0, <1>7, <1>12 DEF SendInitialSync, Newer
<1>13. CASE StreamEnds
  BY <1>0, <1>7, <1>13, EmptySeq DEF StreamEnds
<1>14. CASE ProcessUpdate
  <2>1. channel \in Seq(Issued) /\ channel # <<>>
    BY <1>14 DEF ProcessUpdate, ServedHasChannel
  <2>2. Head(channel) \in Issued /\ Tail(channel) \in Seq(Issued)
    BY <2>1, HeadTailProperties
  <2>3. CASE timer
    <3>1. Coalesced(Head(channel)) \in Seq(Issued)
      BY <2>2, CoalescedCases
    <3>3. ASSUME pending # <<>>, pending[Len(pending)].kind = "map"
          PROVE  pending[Len(pending)].n \in 0 .. version
      BY <3>3, EmptySeq, ElementOfSeq, IssuedMaps
    <3>4. Superseded(Head(channel)) \in 0 .. version
      <4>1. \/ Superseded(Head(channel)) = 0
            \/ /\ pending # <<>> /\ pending[Len(pending)].kind = "map"
               /\ Superseded(Head(channel)) = pending[Len(pending)].n
        BY <2>2, CoalescedCases
      <4> QED
        BY <1>0, <3>3, <4>1
    <3>5. missed' \in 0 .. version
      BY <1>14, <1>n, <2>3, <3>4 DEF ProcessUpdate
    <3> QED
      BY <1>7, <1>14, <2>2, <2>3, <3>1, <3>5 DEF ProcessUpdate
  <2>4. CASE ~timer
    <3>1. <<Head(channel)>> \in Seq(Issued) /\ SendUpdates(<<Head(channel)>>)
      BY <1>14, <2>2, <2>4 DEF ProcessUpdate
    <3>2. known' \in 0 .. version
      BY <1>0, <3>1, SendUpdatesKnown
    <3>3. sent' \in Seq(Updates)
      BY <3>1, IssuedAreUpdates, ConcatProperties DEF SendUpdates
    <3> QED
      BY <1>7, <1>14, <2>2, <2>4, <3>2, <3>3 DEF ProcessUpdate
  <2> QED
    BY <2>3, <2>4
<1>15. CASE GetPendingUpdates
  <2>1. SendUpdates(pending) /\ pending \in Seq(Issued)
    BY <1>15 DEF GetPendingUpdates
  <2>2. known' \in 0 .. version
    BY <1>0, <2>1, SendUpdatesKnown
  <2>3. sent' \in Seq(Updates)
    BY <2>1, IssuedAreUpdates, ConcatProperties DEF SendUpdates
  <2> QED
    BY <1>7, <1>15, <2>2, <2>3, EmptySeq DEF GetPendingUpdates
<1>16. CASE UNCHANGED vars
  BY <1>7, <1>16 DEF vars
<1> QED
  BY <1>1, <1>3, <1>4, <1>5, <1>6, <1>8, <1>9, <1>10, <1>11, <1>12, <1>13, <1>14, <1>15, <1>16
  DEF Next, Sender, StartStream, HandleUpdates

LEMMA WaitersInOneBatchNext == DeliveryInv /\ [Next]_vars => WaitersInOneBatch'
<1> SUFFICES ASSUME DeliveryInv, [Next]_vars PROVE WaitersInOneBatch'
  OBVIOUS
<1> USE DEF DeliveryInv, DeliveryTypes, WaitersInOneBatch, Goto
<1>0. Sync \in Procs /\ Handlers \subseteq Procs /\ Timers \subseteq Procs /\ Senders \subseteq Procs
  BY DEF Procs, Senders
<1>1. ASSUME NEW p \in Procs, pc[p] # "waiting", NEW l, Goto(p, l), UNCHANGED <<requests, batches>>
      PROVE  WaitersInOneBatch'
  BY <1>1
<1>2. ASSUME NEW h \in Handlers, Change(h) \/ Notify(h) \/ CheckUpdate(h) \/ Unlock(h)
      PROVE  WaitersInOneBatch'
  BY <1>0, <1>1, <1>2
  DEF Change, Notify, UpdateAccountPeers, BufferSendUpdateAccountPeers, CheckUpdate, Unlock
<1>3. ASSUME NEW t \in Timers, TimerFires(t) PROVE WaitersInOneBatch'
  BY <1>0, <1>1, <1>3 DEF TimerFires
<1>4. ASSUME NEW p \in Procs, GetAccountWithBackpressure(p) PROVE WaitersInOneBatch'
  BY <1>4 DEF GetAccountWithBackpressure
<1>5. CASE TakeBatch
  BY <1>5 DEF TakeBatch
<1>6. CASE ProcessGetAccountBatch
  <2>1. PICK batch \in batches :
           /\ batches' = batches \ {batch}
           /\ pc' = [p \in Procs |-> IF p \in batch THEN "loaded" ELSE pc[p]]
           /\ requests' = requests
    BY <1>6 DEF ProcessGetAccountBatch
  <2>2. \A b \in batches' : b \in batches /\ b \cap batch = {}
    BY <2>1
  <2> QED
    BY <2>1, <2>2
<1>7. ASSUME NEW p \in Senders, Sender(p) PROVE WaitersInOneBatch'
  BY <1>0, <1>1, <1>7 DEF Sender, HasChannel, SendUpdate, Done
<1>8. CASE Connect \/ StartStream \/ StreamEnds
  BY <1>0, <1>1, <1>8 DEF Connect, StartStream, SendInitialSync, CreateChannel, StreamEnds
<1>9. CASE UNCHANGED sender
  BY <1>9 DEF sender
<1> QED
  BY <1>2, <1>3, <1>4, <1>5, <1>6, <1>7, <1>8, <1>9
  DEF Next, HandleUpdates, ProcessUpdate, GetPendingUpdates, PushNewTokens, vars

LEMMA ServedHasChannelNext == DeliveryInv /\ [Next]_vars => ServedHasChannel'
<1> SUFFICES ASSUME DeliveryInv, [Next]_vars PROVE ServedHasChannel'
  OBVIOUS
<1> USE DEF DeliveryInv, DeliveryTypes, ServedHasChannel, Goto, stream
<1>0. Sync \in Procs /\ Senders \subseteq Procs /\ Sync \notin Senders
      /\ Handlers \subseteq Senders /\ Timers \subseteq Senders
  BY ConstantsAssumption DEF Procs, Senders
<1>1. Seq(Issued) \subseteq Seq(Updates) /\ None \notin Seq(Issued)
  BY IssuedAreUpdates
<1>2. ASSUME pc'[Sync] = pc[Sync], UNCHANGED <<channel, timer, pending>> PROVE ServedHasChannel'
  BY <1>2
<1>3. ASSUME NEW h \in Handlers, Change(h) \/ Notify(h) \/ CheckUpdate(h) \/ Unlock(h)
      PROVE  ServedHasChannel'
  BY <1>0, <1>2, <1>3
  DEF Change, Notify, UpdateAccountPeers, BufferSendUpdateAccountPeers, CheckUpdate, Unlock
<1>4. ASSUME NEW t \in Timers, TimerFires(t) PROVE ServedHasChannel'
  BY <1>0, <1>2, <1>4 DEF TimerFires
<1>5. ASSUME NEW p \in Procs, GetAccountWithBackpressure(p) PROVE ServedHasChannel'
  BY <1>0, <1>5 DEF GetAccountWithBackpressure
<1>6. CASE TakeBatch
  BY <1>2, <1>6 DEF TakeBatch
<1>7. CASE ProcessGetAccountBatch
  <2>1. PICK batch \in batches :
           /\ pc' = [p \in Procs |-> IF p \in batch THEN "loaded" ELSE pc[p]]
           /\ UNCHANGED stream
    BY <1>7 DEF ProcessGetAccountBatch
  <2>2. CASE Sync \in batch
    BY <1>0, <2>1, <2>2 DEF WaitersInOneBatch
  <2>3. CASE Sync \notin batch
    BY <1>0, <1>2, <2>1, <2>3
  <2> QED
    BY <2>2, <2>3
<1>8. ASSUME NEW p \in Senders, HasChannel(p) \/ Done(p) PROVE ServedHasChannel'
  BY <1>0, <1>2, <1>8 DEF HasChannel, Done
<1>9. ASSUME NEW p \in Senders, SendUpdate(p) PROVE ServedHasChannel'
  <2>1. seen[p] \in 0 .. version
    BY <1>0
  <2>2. channel # None => Append(channel, MapOf(seen[p])) \in Seq(Issued)
    BY <2>1, MapOfIsIssued, AppendProperties
  <2>3. channel' = channel \/ (channel # None /\ channel' \in Seq(Issued))
    BY <1>9, <2>2 DEF SendUpdate
  <2> QED
    BY <1>0, <1>1, <1>9, <2>3 DEF SendUpdate
<1>10. CASE PushNewTokens
  <2>1. tokens' \in 1 .. MaxTokens
    BY <1>10, ConstantsAssumption DEF PushNewTokens
  <2>2. Token(tokens') \in Issued
    BY <2>1 DEF Issued
  <2>3. channel \in Seq(Issued)
    BY <1>10 DEF PushNewTokens
  <2>4. channel' \in Seq(Issued)
    BY <1>10, <2>2, <2>3, AppendProperties DEF PushNewTokens
  <2> QED
    BY <1>1, <1>10, <2>4 DEF PushNewTokens, sender
<1>11. CASE Connect \/ StartStream \/ StreamEnds
  BY <1>0, <1>1, <1>11, EmptySeq DEF Connect, StartStream, SendInitialSync, CreateChannel, StreamEnds
<1>12. CASE ProcessUpdate
  <2>1. channel' \in Seq(Issued)
    BY <1>12, HeadTailProperties DEF ProcessUpdate
  <2> QED
    BY <1>1, <1>12, <2>1 DEF ProcessUpdate, sender
<1>13. CASE GetPendingUpdates
  BY <1>13 DEF GetPendingUpdates, sender
<1>14. CASE UNCHANGED vars
  BY <1>2, <1>14 DEF vars, sender
<1> QED
  BY <1>3, <1>4, <1>5, <1>6, <1>7, <1>8, <1>9, <1>10, <1>11, <1>12, <1>13, <1>14
  DEF Next, Sender, HandleUpdates

-----------------------------------------------------------------------------
(* Where an update occurs. *)

LEMMA OccursConcat ==
  ASSUME NEW S, NEW s \in Seq(S), NEW t \in Seq(S), NEW e
  PROVE  Occurs(e, s \o t) <=> Occurs(e, s) \/ Occurs(e, t)
<1> USE DEF Occurs
<1>1. /\ DOMAIN s = 1 .. Len(s) /\ DOMAIN t = 1 .. Len(t)
      /\ Len(s) \in Nat /\ Len(t) \in Nat
      /\ DOMAIN (s \o t) = 1 .. Len(s) + Len(t)
      /\ \A i \in 1 .. Len(s) + Len(t) : (s \o t)[i] = IF i <= Len(s) THEN s[i] ELSE t[i - Len(s)]
  BY ConcatProperties, LenProperties
<1>2. Occurs(e, s \o t) => Occurs(e, s) \/ Occurs(e, t)
  BY <1>1
<1>3. ASSUME NEW i \in DOMAIN s, s[i] = e PROVE Occurs(e, s \o t)
  BY <1>1, <1>3
<1>4. ASSUME NEW i \in DOMAIN t, t[i] = e PROVE Occurs(e, s \o t)
  <2>1. i + Len(s) \in 1 .. Len(s) + Len(t) /\ (s \o t)[i + Len(s)] = t[i]
    BY <1>1
  <2> QED
    BY <1>1, <1>4, <2>1
<1> QED
  BY <1>2, <1>3, <1>4

LEMMA OccursAppend ==
  ASSUME NEW S, NEW s \in Seq(S), NEW x \in S, NEW e
  PROVE  Occurs(e, Append(s, x)) <=> Occurs(e, s) \/ e = x
<1>1. /\ Len(s) \in Nat /\ DOMAIN s = 1 .. Len(s) /\ DOMAIN Append(s, x) = 1 .. Len(s) + 1
      /\ \A i \in 1 .. Len(s) : Append(s, x)[i] = s[i]
      /\ Append(s, x)[Len(s) + 1] = x
  BY AppendProperties, LenProperties
<1> QED
  BY <1>1 DEF Occurs

LEMMA OccursHeadTail ==
  ASSUME NEW S, NEW s \in Seq(S), s # <<>>, NEW e
  PROVE  Occurs(e, s) => e = Head(s) \/ Occurs(e, Tail(s))
<1>1. /\ Len(s) \in Nat \ {0} /\ DOMAIN s = 1 .. Len(s) /\ DOMAIN Tail(s) = 1 .. Len(s) - 1
      /\ \A i \in 1 .. Len(s) - 1 : Tail(s)[i] = s[i + 1]
      /\ Head(s) = s[1]
  BY HeadTailProperties, LenProperties, EmptySeq
<1>2. ASSUME NEW i \in 1 .. Len(s), s[i] = e, i # 1 PROVE Occurs(e, Tail(s))
  <2>1. i - 1 \in 1 .. Len(s) - 1 /\ Tail(s)[i - 1] = s[i]
    BY <1>1, <1>2
  <2> QED
    BY <1>1, <1>2, <2>1 DEF Occurs
<1> QED
  BY <1>1, <1>2 DEF Occurs

LEMMA OccursReplaceLast ==
  ASSUME NEW S, NEW s \in Seq(S), s # <<>>, NEW u \in S, NEW e
  PROVE  /\ Occurs(e, s) => e = s[Len(s)] \/ Occurs(e, [s EXCEPT ![Len(s)] = u])
         /\ Occurs(u, [s EXCEPT ![Len(s)] = u])
<1>1. Len(s) \in Nat \ {0} /\ DOMAIN s = 1 .. Len(s)
  BY LenProperties, EmptySeq
<1> QED
  BY <1>1 DEF Occurs

-----------------------------------------------------------------------------
(* A lag stays covered. *)

LEMMA LagIsCoveredNext == DeliveryInv /\ [Next]_vars => LagIsCovered'
<1> SUFFICES ASSUME DeliveryInv, [Next]_vars PROVE LagIsCovered'
  OBVIOUS
<1> USE DEF DeliveryInv, DeliveryTypes, Goto
<1>0. /\ Sync \in Procs /\ Senders \subseteq Procs /\ Sync \notin Senders
      /\ Handlers \subseteq Senders /\ Timers \subseteq Senders
      /\ version \in Nat /\ known \in Nat /\ missed \in Nat /\ missed <= version
      /\ \A p \in Procs : seen[p] \in Nat /\ seen[p] <= version
  BY ConstantsAssumption DEF Procs, Senders
<1>1. ASSUME Cause', pc'[Sync] = pc[Sync], UNCHANGED <<seen, known>> PROVE LagIsCovered'
  BY <1>1 DEF LagIsCovered
<1>2. ASSUME NEW h \in Handlers, Change(h) PROVE LagIsCovered'
  BY <1>0, <1>1, <1>2 DEF Change, Cause, stream
<1>3. ASSUME NEW h \in Handlers, Notify(h) PROVE LagIsCovered'
  BY <1>0, <1>1, <1>3 DEF Notify, UpdateAccountPeers, BufferSendUpdateAccountPeers, Cause, stream
<1>4. ASSUME Cause => Cause', UNCHANGED <<version, seen, known, pending, channel>>, pc'[Sync] = pc[Sync]
      PROVE  LagIsCovered'
  BY <1>4 DEF LagIsCovered, OnTheWay, Queue
<1>5. ASSUME NEW p \in Procs, p \in Senders => pc[p] \in {"idle", "sent", "unlock"}, NEW l, Goto(p, l),
             next \/ update => next' \/ update', UNCHANGED <<version, seen, missed>>
      PROVE  Cause => Cause'
  BY <1>0, <1>5 DEF Cause
<1>6. ASSUME NEW h \in Handlers, CheckUpdate(h) \/ Unlock(h) PROVE LagIsCovered'
  <2>1. next \/ update => next' \/ update'
    BY <1>6 DEF CheckUpdate, Unlock
  <2> QED
    BY <1>0, <1>4, <1>5, <1>6, <2>1 DEF CheckUpdate, Unlock, stream
<1>7. ASSUME NEW t \in Timers, TimerFires(t) PROVE LagIsCovered'
  BY <1>0, <1>1, <1>7 DEF TimerFires, Cause, stream
<1>8. ASSUME NEW p \in Procs, GetAccountWithBackpressure(p) PROVE LagIsCovered'
  <2>1. CASE p \in Senders
    BY <1>0, <1>1, <1>8, <2>1 DEF GetAccountWithBackpressure, Cause, stream
  <2>2. CASE p = Sync
    BY <1>0, <1>8, <2>2 DEF GetAccountWithBackpressure, LagIsCovered
  <2> QED
    BY <2>1, <2>2 DEF Procs
<1>9. CASE TakeBatch
  BY <1>4, <1>9 DEF TakeBatch, Cause, stream
<1>10. CASE ProcessGetAccountBatch
  <2>1. PICK batch \in batches :
           /\ seen' = [p \in Procs |-> IF p \in batch THEN version ELSE seen[p]]
           /\ pc' = [p \in Procs |-> IF p \in batch THEN "loaded" ELSE pc[p]]
           /\ UNCHANGED <<version, update, next, stream>>
    BY <1>10 DEF ProcessGetAccountBatch
  <2>2. Cause => Cause'
    BY <1>0, <2>1 DEF Cause, stream
  <2>3. CASE Sync \in batch
    BY <1>0, <2>1, <2>3 DEF LagIsCovered
  <2>4. CASE Sync \notin batch
    <3>1. pc'[Sync] = pc[Sync] /\ seen'[Sync] = seen[Sync] /\ UNCHANGED <<version, known, pending, channel>>
      BY <1>0, <2>1, <2>4 DEF stream
    <3> QED
      BY <2>2, <3>1 DEF LagIsCovered, OnTheWay, Queue
  <2> QED
    BY <2>3, <2>4
<1>11. ASSUME NEW p \in Senders, HasChannel(p) PROVE LagIsCovered'
  <2>1. pc'[Sync] = pc[Sync]
    BY <1>0, <1>11 DEF HasChannel
  <2>2. CASE channel # None
    <3>1. Cause => Cause'
      BY <1>0, <1>11, <2>2 DEF HasChannel, Cause
    <3> QED
      BY <1>4, <1>11, <2>1, <3>1 DEF HasChannel
  <2>3. CASE channel = None /\ pc[Sync] \in {"loaded", "initial"}
    <3>1. missed' = Newer(missed, seen[p])
      BY <1>11, <2>3 DEF HasChannel, Behind
    <3>2. Cause => Cause'
      BY <1>0, <1>11, <3>1 DEF HasChannel, Cause, Newer
    <3> QED
      BY <1>4, <1>11, <2>1, <3>2 DEF HasChannel
  <2>4. CASE pc[Sync] \notin {"loaded", "initial", "serving"}
    BY <2>1, <2>4 DEF LagIsCovered
  <2> QED
    BY <2>2, <2>3, <2>4 DEF ServedHasChannel
<1>12. ASSUME NEW p \in Senders, SendUpdate(p) PROVE LagIsCovered'
  <2>1. pc'[Sync] = pc[Sync] /\ pc[p] = "send" /\ UNCHANGED <<version, seen, update, next, pending, known>>
    BY <1>0, <1>12 DEF SendUpdate
  <2>2. CASE missed' = Newer(missed, seen[p]) /\ UNCHANGED channel
    <3>1. Cause => Cause'
      BY <1>0, <1>12, <2>2 DEF SendUpdate, Cause, Newer
    <3> QED
      BY <1>4, <2>1, <2>2, <3>1
  <2>3. CASE channel # None /\ channel' = Append(channel, MapOf(seen[p])) /\ UNCHANGED missed
    <3>1. MapOf(seen[p]) \in Issued /\ channel \in Seq(Issued)
      BY <1>0, <2>3, MapOfIsIssued
    <3>2. channel' \in Seq(Issued) /\ channel' # None
      <4>1. Append(channel, MapOf(seen[p])) \in Seq(Issued)
        BY <3>1, AppendProperties
      <4> QED
        BY <2>3, <4>1, IssuedAreUpdates
    <3>3. OnTheWay => OnTheWay'
      BY <2>1, <2>3, <3>1, <3>2, OccursConcat, OccursAppend, ZenonT(40) DEF OnTheWay, Queue
    <3>4. seen[p] = version => OnTheWay'
      BY <2>1, <2>3, <3>1, <3>2, OccursConcat, OccursAppend, ZenonT(40) DEF OnTheWay, Queue
    <3>5. Cause => Cause' \/ seen[p] = version
      BY <1>0, <1>12, <2>1, <2>3 DEF SendUpdate, Cause
    <3>6. pc[Sync] = "serving"
      BY <2>3 DEF ServedHasChannel
    <3> QED
      BY <2>1, <3>3, <3>4, <3>5, <3>6 DEF LagIsCovered
  <2>4. CASE pc[Sync] \notin {"loaded", "initial", "serving"}
    BY <2>1, <2>4 DEF LagIsCovered
  <2>5. channel = None /\ pc[Sync] \in {"loaded", "initial", "serving"} => Behind(p) = Newer(missed, seen[p])
    BY DEF Behind, ServedHasChannel
  <2> QED
    BY <1>12, <2>2, <2>3, <2>4, <2>5 DEF SendUpdate
<1>13. ASSUME NEW p \in Senders, Done(p) PROVE LagIsCovered'
  BY <1>0, <1>4, <1>5, <1>13 DEF Done, stream
<1>14. ASSUME pc'[Sync] = "serving", pc[Sync] = "serving", known <= known',
              known' < version' => (Cause \/ OnTheWay => Cause' \/ OnTheWay'), version' = version
       PROVE  LagIsCovered'
  <2>1. known' \in Nat
    BY <1>0, DeliveryTypesNext
  <2> QED
    BY <1>0, <1>14, <2>1 DEF LagIsCovered
<1>15. CASE PushNewTokens
  <2>1. /\ pc[Sync] = "serving" /\ UNCHANGED <<sender, pending, known, missed>>
        /\ channel' = channel \/ channel' = Append(channel, Token(tokens'))
    BY <1>15 DEF PushNewTokens
  <2>2. Token(tokens') \in Issued
    <3>1. tokens' \in 1 .. MaxTokens
      BY <1>15, ConstantsAssumption DEF PushNewTokens
    <3> QED
      BY <3>1 DEF Issued
  <2>3. channel \in Seq(Issued) /\ channel # None
    BY <2>1 DEF ServedHasChannel
  <2>4. Append(channel, Token(tokens')) \in Seq(Issued)
    BY <2>2, <2>3, AppendProperties
  <2>5. channel' \in Seq(Issued) /\ channel' # None
    BY <2>1, <2>3, <2>4, IssuedAreUpdates
  <2>6. Occurs(MapOf(version), channel) => Occurs(MapOf(version), channel')
    <3>1. Occurs(MapOf(version), channel) => Occurs(MapOf(version), Append(channel, Token(tokens')))
      BY <2>2, <2>3, OccursAppend
    <3> QED
      BY <2>1, <3>1
  <2>7. OnTheWay => OnTheWay'
    BY <2>1, <2>3, <2>5, <2>6, OccursConcat DEF OnTheWay, Queue, sender
  <2> QED
    BY <1>0, <1>14, <2>1, <2>7 DEF Cause, sender
<1>16. CASE Connect
  BY <1>0, <1>16 DEF Connect, LagIsCovered
<1>17. CASE SendInitialSync
  <2>1. Cause => Cause'
    BY <1>0, <1>17 DEF SendInitialSync, Cause
  <2> QED
    BY <1>0, <1>17, <2>1 DEF SendInitialSync, LagIsCovered, Newer
<1>18. CASE CreateChannel
  <2>1. Cause => Cause'
    BY <1>0, <1>18 DEF CreateChannel, Cause
  <2> QED
    BY <1>0, <1>18, <2>1 DEF CreateChannel, LagIsCovered
<1>19. CASE StreamEnds
  BY <1>0, <1>19 DEF StreamEnds, LagIsCovered
<1>20. CASE ProcessUpdate
  <2> DEFINE u == Head(channel)
  <2>1. /\ pc[Sync] = "serving" /\ channel # <<>> /\ channel' = Tail(channel) /\ UNCHANGED sender
        /\ channel \in Seq(Issued) /\ channel # None
    BY <1>20 DEF ProcessUpdate, ServedHasChannel
  <2>2. u \in Issued /\ Tail(channel) \in Seq(Issued) /\ Tail(channel) # None
    BY <2>1, HeadTailProperties, IssuedAreUpdates
  <2>3. OnTheWay => Occurs(MapOf(version), pending) \/ u = MapOf(version)
                    \/ Occurs(MapOf(version), channel')
    BY <2>1, <2>2, OccursConcat, OccursHeadTail DEF OnTheWay, Queue
  <2>4. pending' \in Seq(Issued)
    BY DeliveryTypesNext, <2>1, IssuedGrows DEF sender
  <2>5. Occurs(MapOf(version), pending') \/ Occurs(MapOf(version), channel') => OnTheWay'
    BY <2>1, <2>2, <2>4, OccursConcat DEF OnTheWay, Queue, sender
  <2>6. CASE timer
    <3>1. /\ pending' = Coalesced(u) /\ known' = known
          /\ missed' = IF Superseded(u) > u.n THEN Newer(missed, Superseded(u)) ELSE missed
      BY <1>20, <2>6 DEF ProcessUpdate
    <3>2. CASE pending' = Append(pending, u) /\ Superseded(u) = 0
      <4>1. Occurs(MapOf(version), pending) \/ u = MapOf(version) => Occurs(MapOf(version), pending')
        BY <2>2, <3>2, OccursAppend
      <4>2. missed' >= missed /\ missed' <= version
        BY <1>0, <2>1, <3>1, <3>2, DeliveryTypesNext DEF Newer, sender
      <4>3. Cause => Cause'
        BY <1>0, <2>1, <4>2, DeliveryTypesNext DEF Cause, sender
      <4> QED
        BY <1>0, <1>14, <2>1, <2>3, <2>5, <3>1, <4>1, <4>3 DEF sender
    <3>3. CASE /\ pending # <<>> /\ u.kind = "map" /\ pending[Len(pending)].kind = "map"
               /\ pending' = [pending EXCEPT ![Len(pending)] = u]
               /\ Superseded(u) = pending[Len(pending)].n
      <4>1. Occurs(MapOf(version), pending) =>
               pending[Len(pending)] = MapOf(version) \/ Occurs(MapOf(version), pending')
        BY <2>2, <3>3, OccursReplaceLast
      <4>2. u = MapOf(version) => Occurs(MapOf(version), pending')
        BY <2>2, <3>3, OccursReplaceLast
      <4>3. u.n \in 0 .. version /\ u = MapOf(u.n)
        BY <2>2, <3>3, IssuedMaps
      <4>4. Superseded(u) \in 0 .. version
        BY <3>3, EmptySeq, ElementOfSeq, IssuedMaps
      <4>5. missed' >= missed /\ missed' <= version
        BY <1>0, <3>1, <4>3, <4>4 DEF Newer
      <4>6. pending[Len(pending)] = MapOf(version) => u = MapOf(version) \/ missed' = version
        BY <1>0, <3>1, <3>3, <4>3, <4>4 DEF Newer, MapOf
      <4>7. (Cause => Cause') /\ (missed' = version => Cause')
        BY <1>0, <2>1, <4>5, DeliveryTypesNext DEF Cause, sender
      <4> QED
        BY <1>0, <1>14, <2>1, <2>3, <2>5, <3>1, <4>1, <4>2, <4>6, <4>7 DEF sender
    <3> QED
      BY <2>2, <3>1, <3>2, <3>3, CoalescedCases
  <2>7. CASE ~timer
    <3>1. SendUpdates(<<u>>) /\ UNCHANGED <<pending, missed>> /\ <<u>> \in Seq(Issued)
      BY <1>20, <2>2, <2>7 DEF ProcessUpdate
    <3>2. /\ known' \in 0 .. version /\ known <= known'
          /\ \A i \in DOMAIN <<u>> : <<u>>[i].kind = "map" => <<u>>[i].n <= known'
      BY <1>0, <3>1, SendUpdatesKnown
    <3>3. u.kind = "map" => u.n <= known'
      <4>1. 1 \in DOMAIN <<u>> /\ <<u>>[1] = u
        OBVIOUS
      <4> QED
        BY <3>2, <4>1
    <3>4. u = MapOf(version) => known' = version
      BY <1>0, <3>2, <3>3 DEF MapOf
    <3> QED
      BY <1>0, <1>14, <2>1, <2>3, <2>5, <3>1, <3>2, <3>4 DEF Cause, sender
  <2> QED
    BY <2>6, <2>7
<1>21. CASE GetPendingUpdates
  <2>1. /\ pc[Sync] = "serving" /\ UNCHANGED <<sender, channel, missed>> /\ SendUpdates(pending)
        /\ pending' = <<>> /\ channel \in Seq(Issued) /\ channel # None
    BY <1>21 DEF GetPendingUpdates, ServedHasChannel
  <2>2. /\ known' \in 0 .. version /\ known <= known'
        /\ \A i \in DOMAIN pending : pending[i].kind = "map" => pending[i].n <= known'
    BY <1>0, <2>1, SendUpdatesKnown
  <2>3. Occurs(MapOf(version), pending) => known' = version
    BY <1>0, <2>2 DEF Occurs, MapOf
  <2>4. OnTheWay => Occurs(MapOf(version), pending) \/ Occurs(MapOf(version), channel)
    BY <2>1, OccursConcat DEF OnTheWay, Queue
  <2>5. Occurs(MapOf(version), channel) => OnTheWay'
    BY <2>1, ConcatEmptySeq DEF OnTheWay, Queue, sender
  <2> QED
    BY <1>0, <1>14, <2>1, <2>2, <2>3, <2>4, <2>5 DEF Cause, sender
<1>22. CASE UNCHANGED vars
  BY <1>4, <1>22 DEF vars, sender, stream, Cause
<1> QED
  BY <1>2, <1>3, <1>6, <1>7, <1>8, <1>9, <1>10, <1>11, <1>12, <1>13, <1>15, <1>16, <1>17, <1>18,
     <1>19, <1>20, <1>21, <1>22
  DEF Next, Sender, StartStream, HandleUpdates

LEMMA DeliveryInvariant == Spec => []DeliveryInv
<1>1. DeliveryInv /\ [Next]_vars => DeliveryInv'
  BY DeliveryTypesNext, WaitersInOneBatchNext, ServedHasChannelNext, LagIsCoveredNext DEF DeliveryInv
<1> QED
  BY DeliveryInvInit, <1>1, PTL DEF Spec

\* A connected peer that has not been sent the newest map will be, by something on its
\* way, or one of the four leaks of the code is the reason: whatever the interleaving of
\* handlers, timers, batches and streams.
THEOREM LagAlwaysHasCause == Spec => []LagHasCause
<1>1. DeliveryInv => LagHasCause
  BY DEF DeliveryInv, LagIsCovered, LagHasCause, Cause, OnTheWay, Occurs
<1> QED
  BY DeliveryInvariant, <1>1, PTL

-----------------------------------------------------------------------------
(***************************************************************************)
(* Refinement: what is held back followed by what is on the channel is the *)
(* queue of UpdateStream.  First, how the pieces of that queue move.       *)
(***************************************************************************)

LEMMA HeadAndTail ==
  ASSUME NEW S, NEW c \in Seq(S), c # <<>>
  PROVE  /\ Len(c) \in Nat \ {0} /\ Head(c) \in S /\ Head(c) = c[1]
         /\ Tail(c) \in Seq(S) /\ Len(Tail(c)) = Len(c) - 1
         /\ \A i \in 1 .. Len(c) - 1 : Tail(c)[i] = c[i + 1]
  BY HeadTailProperties, EmptySeq

LEMMA MoveHead ==
  ASSUME NEW S, NEW s \in Seq(S), NEW c \in Seq(S), c # <<>>
  PROVE  Append(s, Head(c)) \o Tail(c) = s \o c
<1> DEFINE q == Append(s, Head(c)) \o Tail(c)
<1>1. Len(s) \in Nat
  BY LenProperties
<1>2. /\ Append(s, Head(c)) \in Seq(S) /\ Len(Append(s, Head(c))) = Len(s) + 1
      /\ \A i \in 1 .. Len(s) : Append(s, Head(c))[i] = s[i]
      /\ Append(s, Head(c))[Len(s) + 1] = c[1]
  BY HeadAndTail, AppendProperties
<1>3. /\ q \in Seq(S) /\ Len(q) = Len(s) + 1 + Len(Tail(c))
      /\ \A i \in 1 .. Len(s) + 1 + Len(Tail(c)) :
            q[i] = IF i <= Len(s) + 1 THEN Append(s, Head(c))[i] ELSE Tail(c)[i - (Len(s) + 1)]
  BY <1>2, HeadAndTail, ConcatProperties
<1>4. /\ s \o c \in Seq(S) /\ Len(s \o c) = Len(s) + Len(c)
      /\ \A i \in 1 .. Len(s) + Len(c) : (s \o c)[i] = IF i <= Len(s) THEN s[i] ELSE c[i - Len(s)]
  BY ConcatProperties
<1>5. Len(q) = Len(s \o c)
  BY <1>1, <1>3, <1>4, HeadAndTail
<1>6. ASSUME NEW i \in 1 .. Len(q) PROVE q[i] = (s \o c)[i]
  <2> HIDE DEF q
  <2>0. Len(c) \in Nat \ {0} /\ Len(Tail(c)) = Len(c) - 1 /\ \A j \in 1 .. Len(c) - 1 : Tail(c)[j] = c[j + 1]
    BY HeadAndTail
  <2>1. CASE i <= Len(s)
    BY <1>1, <1>2, <1>3, <1>4, <2>0, <2>1
  <2>2. CASE i = Len(s) + 1
    BY <1>1, <1>2, <1>3, <1>4, <2>0, <2>2
  <2>3. CASE i > Len(s) + 1
    <3>1. i - (Len(s) + 1) \in 1 .. Len(c) - 1
      BY <1>1, <1>3, <2>0, <2>3
    <3>2. Tail(c)[i - (Len(s) + 1)] = c[i - Len(s)]
      BY <1>1, <2>0, <3>1
    <3> QED
      BY <1>1, <1>3, <1>4, <2>0, <2>3, <3>2
  <2> QED
    BY <1>1, <1>3, <2>0, <2>1, <2>2, <2>3
<1> QED
  BY <1>3, <1>4, <1>5, <1>6, SeqEqual

LEMMA CutConcat ==
  ASSUME NEW S, NEW s \in Seq(S), NEW c \in Seq(S), s # <<>>
  PROVE  /\ Len(s) \in 1 .. Len(s \o c)
         /\ SubSeq(s \o c, 1, Len(s)) = s
         /\ SubSeq(s \o c, Len(s) + 1, Len(s \o c)) = c
<1>1. Len(s) \in Nat \ {0} /\ Len(c) \in Nat /\ Len(s \o c) = Len(s) + Len(c)
  BY LenProperties, EmptySeq, ConcatProperties
<1>2. SubSeq(s \o c, 1, Len(s)) = s
  BY <1>1, SubSeqOfConcat1, SubSeqFull
<1>3. CASE c = <<>>
  BY <1>1, <1>3, SubSeqEmpty, EmptySeq
<1>4. CASE c # <<>>
  <2>1. Len(c) \in Nat \ {0}
    BY <1>4, EmptySeq
  <2>2. SubSeq(s \o c, Len(s) + 1, Len(s) + Len(c)) = SubSeq(c, Len(s) + 1 - Len(s), Len(s) + Len(c) - Len(s))
    BY <1>1, <2>1, SubSeqOfConcat2
  <2> QED
    BY <1>1, <2>1, <2>2, SubSeqFull
<1> QED
  BY <1>1, <1>2, <1>3, <1>4

LEMMA ReplaceLast ==
  ASSUME NEW S, NEW s \in Seq(S), s # <<>>, NEW x \in S,
         NEW f \in Seq(S), Len(f) = Len(s) - 1, \A i \in 1 .. Len(s) - 1 : f[i] = s[i]
  PROVE  [s EXCEPT ![Len(s)] = x] = Append(f, x)
<1>1. Len(s) \in Nat \ {0} /\ Len(s) \in 1 .. Len(s)
  BY EmptySeq
<1>2. PICK a \in Seq(S) : /\ a = [s EXCEPT ![Len(s)] = x] /\ Len(a) = Len(s)
                          /\ \A i \in 1 .. Len(s) : a[i] = IF i = Len(s) THEN x ELSE s[i]
  <2>1. /\ [s EXCEPT ![Len(s)] = x] \in Seq(S) /\ Len([s EXCEPT ![Len(s)] = x]) = Len(s)
        /\ \A i \in 1 .. Len(s) : [s EXCEPT ![Len(s)] = x][i] = IF i = Len(s) THEN x ELSE s[i]
    BY <1>1, ExceptSeq
  <2> QED
    BY <2>1
<1>3. PICK b \in Seq(S) : /\ b = Append(f, x) /\ Len(b) = Len(f) + 1
                          /\ \A i \in 1 .. Len(f) : b[i] = f[i]
                          /\ b[Len(f) + 1] = x
  BY AppendProperties, ZenonT(40)
<1>4. Len(a) = Len(b)
  BY <1>1, <1>2, <1>3
<1>5. ASSUME NEW i \in 1 .. Len(a) PROVE a[i] = b[i]
  BY <1>1, <1>2, <1>3
<1> QED
  BY <1>2, <1>3, <1>4, <1>5, SeqEqual, ZenonT(40)

LEMMA DropLast ==
  ASSUME NEW S, NEW s \in Seq(S), NEW c \in Seq(S), s # <<>>, c # <<>>
  PROVE  [s EXCEPT ![Len(s)] = Head(c)] \o Tail(c)
            = SubSeq(s \o c, 1, Len(s) - 1) \o SubSeq(s \o c, Len(s) + 1, Len(s \o c))
<1> DEFINE f == SubSeq(s, 1, Len(s) - 1)
<1>1. Len(s) \in Nat \ {0} /\ DOMAIN s = 1 .. Len(s)
  BY EmptySeq, LenProperties
<1>2. /\ f \in Seq(S) /\ Len(f) = Len(s) - 1
      /\ \A i \in 1 .. Len(s) - 1 : f[i] = s[i]
  <2>1. \A i \in 1 .. Len(s) - 1 : s[i] \in S
    BY <1>1, ElementOfSeq
  <2>2. /\ f \in Seq(S)
        /\ Len(f) = IF 1 <= Len(s) - 1 THEN Len(s) - 1 - 1 + 1 ELSE 0
        /\ \A i \in 1 .. Len(s) - 1 - 1 + 1 : f[i] = s[1 + i - 1]
    <3> HIDE DEF f
    <3>1. 1 \in Int /\ Len(s) - 1 \in Int
      BY <1>1
    <3> QED
      BY <2>1, <3>1, SubSeqProperties DEF f
  <2> QED
    BY <1>1, <2>2
<1>3. SubSeq(s \o c, 1, Len(s) - 1) = f
  <2>1. CASE Len(s) = 1
    BY <1>1, <2>1, SubSeqEmpty
  <2>2. CASE Len(s) # 1
    <3>1. 1 \in 1 .. Len(s) /\ Len(s) - 1 \in 1 .. Len(s)
      BY <1>1, <2>2
    <3> QED
      BY <3>1, SubSeqOfConcat1
  <2> QED
    BY <2>1, <2>2
<1>4. [s EXCEPT ![Len(s)] = Head(c)] = Append(f, Head(c))
  <2> HIDE DEF f
  <2>1. Head(c) \in S
    BY HeadAndTail
  <2> QED
    BY <1>2, <2>1, ReplaceLast
<1>5. SubSeq(s \o c, Len(s) + 1, Len(s \o c)) = c
  BY CutConcat
<1> HIDE DEF f
<1>6. Append(f, Head(c)) \o Tail(c) = f \o c
  BY <1>2, MoveHead
<1> QED
  BY <1>3, <1>4, <1>5, <1>6

-----------------------------------------------------------------------------
(* Each step of the delivery is a step of the update stream, or none. *)

LEMMA DeliveryStepRefines == DeliveryInv /\ [Next]_vars => [Abstract!Next]_(Abstract!vars)
<1> SUFFICES ASSUME DeliveryInv, [Next]_vars PROVE [Abstract!Next]_(Abstract!vars)
  OBVIOUS
<1> USE DEF DeliveryInv, DeliveryTypes
<1>0. /\ Sync \in Procs /\ version \in Nat /\ Issued \subseteq Updates
      /\ None \notin Seq(Issued) /\ None # <<>> /\ Senders \subseteq Procs
  <2>1. Sync \in Procs /\ Senders \subseteq Procs
    BY DEF Procs
  <2>2. Issued \subseteq Updates /\ None \notin Seq(Issued)
    BY IssuedAreUpdates
  <2>3. None # <<>>
    BY <2>2, EmptySeq
  <2> QED
    BY <2>1, <2>2, <2>3
<1>1. ASSUME UNCHANGED <<pending, channel, sent>> PROVE UNCHANGED Abstract!vars
  BY <1>1 DEF Abstract!vars, Queue
<1>2. ASSUME channel # None, NEW u \in Issued, channel' = Append(channel, u), UNCHANGED <<pending, sent>>
      PROVE  Abstract!Accept
  <2>1. channel \in Seq(Issued)
    BY <1>2
  <2>2. channel' \in Seq(Issued)
    BY <1>2, <2>1, AppendProperties
  <2>3. channel # None /\ channel' # None
    BY <1>0, <1>2, <2>2
  <2>4. Append(channel, u) = channel \o <<u>> /\ <<u>> \in Seq(Issued)
    BY <2>1, AppendIsConcat
  <2>5. pending \o (channel \o <<u>>) = (pending \o channel) \o <<u>>
    BY <2>1, <2>4, ConcatAssociative
  <2>6. pending \o channel \in Seq(Issued)
    BY <2>1, ConcatProperties
  <2>7. Append(pending \o channel, u) = (pending \o channel) \o <<u>>
    BY <2>6, AppendIsConcat
  <2>8. Queue' = Append(Queue, u)
    BY <1>2, <2>3, <2>4, <2>5, <2>7 DEF Queue
  <2> QED
    BY <1>0, <1>2, <2>8 DEF Abstract!Accept
<1>3. ASSUME NEW p \in Senders, SendUpdate(p) PROVE [Abstract!Next]_(Abstract!vars)
  <2>1. MapOf(seen[p]) \in Issued
    BY <1>0, MapOfIsIssued
  <2>2. /\ UNCHANGED <<pending, sent>>
        /\ UNCHANGED channel \/ (channel # None /\ channel' = Append(channel, MapOf(seen[p])))
    BY <1>3 DEF SendUpdate
  <2> QED
    BY <1>1, <1>2, <2>1, <2>2 DEF Abstract!Next
<1>4. CASE PushNewTokens
  <2>1. tokens' \in 1 .. MaxTokens
    BY <1>4, ConstantsAssumption DEF PushNewTokens
  <2>2. Token(tokens') \in Issued
    BY <2>1 DEF Issued
  <2>3. /\ channel # None /\ UNCHANGED <<pending, sent>>
        /\ UNCHANGED channel \/ channel' = Append(channel, Token(tokens'))
    BY <1>4 DEF PushNewTokens, ServedHasChannel
  <2> QED
    BY <1>1, <1>2, <2>2, <2>3 DEF Abstract!Next
<1>5. CASE CreateChannel
  <2>1. channel = None /\ pending = <<>> /\ channel' = <<>> /\ UNCHANGED <<pending, sent>>
    BY <1>5 DEF CreateChannel, ServedHasChannel
  <2>2. Queue' = Queue
    BY <2>1 DEF Queue
  <2> QED
    BY <2>1, <2>2 DEF Abstract!vars
<1>6. CASE StreamEnds
  <2>1. channel' = None /\ pending' = <<>> /\ sent' = <<>>
    BY <1>6 DEF StreamEnds
  <2>2. <<>> \o <<>> = <<>>
    BY EmptySeq, ConcatEmptySeq
  <2>3. Queue' = <<>> /\ sent' = <<>>
    BY <2>1, <2>2 DEF Queue
  <2> QED
    BY <2>3 DEF Abstract!Next, Abstract!Reset
<1>7. CASE ProcessUpdate
  <2> DEFINE u == Head(channel)
             q == pending \o channel
  <2>1. channel \in Seq(Issued) /\ channel # None /\ channel # <<>> /\ channel' = Tail(channel)
    BY <1>7 DEF ProcessUpdate, ServedHasChannel
  <2>2. u \in Issued /\ Tail(channel) \in Seq(Issued) /\ Tail(channel) # None
    BY <1>0, <2>1, HeadTailProperties
  <2>3. Queue = q /\ Queue' = pending' \o Tail(channel)
    BY <2>1, <2>2 DEF Queue
  <2>4. CASE timer
    <3>1. pending' = Coalesced(u) /\ UNCHANGED sent
      BY <1>7, <2>4 DEF ProcessUpdate
    <3>2. CASE pending' = Append(pending, u)
      <4>1. Queue' = Queue
        BY <2>1, <2>3, <3>2, MoveHead
      <4> QED
        BY <3>1, <4>1 DEF Abstract!vars
    <3>3. CASE /\ pending # <<>> /\ u.kind = "map" /\ pending[Len(pending)].kind = "map"
               /\ pending' = [pending EXCEPT ![Len(pending)] = u]
      <4> DEFINE i == Len(pending)
      <4>1. Queue' = SubSeq(q, 1, i - 1) \o SubSeq(q, i + 1, Len(q))
        BY <2>1, <2>3, <3>3, DropLast
      <4>2. /\ i \in Nat \ {0} /\ Len(channel) \in Nat \ {0} /\ Len(q) = i + Len(channel)
            /\ \A j \in 1 .. i + Len(channel) : q[j] = IF j <= i THEN pending[j] ELSE channel[j - i]
        BY <2>1, <3>3, EmptySeq, ConcatProperties
      <4>3. i \in 1 .. Len(q) - 1 /\ q[i] = pending[i] /\ q[i + 1] = channel[1]
        <5> HIDE DEF i, q
        <5>1. i \in 1 .. i + Len(channel) /\ i + 1 \in 1 .. i + Len(channel) /\ i + 1 - i = 1
          BY <4>2
        <5> QED
          BY <4>2, <5>1
      <4>4. channel[1] = u
        BY <2>1, HeadAndTail
      <4>5. Abstract!IsMap(q[i]) /\ Abstract!IsMap(q[i + 1])
        BY <3>3, <4>3, <4>4 DEF Abstract!IsMap
      <4>6. \E j \in 1 .. Len(Queue) - 1 :
               /\ Abstract!IsMap(Queue[j]) /\ Abstract!IsMap(Queue[j + 1])
               /\ Queue' = SubSeq(Queue, 1, j - 1) \o SubSeq(Queue, j + 1, Len(Queue))
        <5> HIDE DEF i, q
        <5> QED
          BY <2>3, <4>1, <4>3, <4>5
      <4> QED
        BY <3>1, <4>6 DEF Abstract!Next, Abstract!Supersede
    <3> QED
      BY <2>2, <3>1, <3>2, <3>3, CoalescedCases
  <2>5. CASE ~timer
    <3>1. pending = <<>> /\ UNCHANGED pending /\ sent' = sent \o <<u>>
      BY <1>7, <2>5 DEF ProcessUpdate, ServedHasChannel, SendUpdates
    <3>2. Queue = channel /\ Queue' = Tail(channel)
      BY <2>1, <2>2, <2>3, <3>1, ConcatEmptySeq
    <3>3. Len(channel) \in Nat \ {0} /\ u = channel[1]
      BY <2>1, HeadAndTail
    <3>4. Tail(channel) = SubSeq(channel, 2, Len(channel))
      BY <2>1, TailIsSubSeq
    <3>5. SubSeq(channel, 1, 1) = <<u>>
      <4>1. 1 \in 1 .. Len(channel) /\ 1 \in 1 .. 1
        BY <3>3
      <4>2. SubSeq(channel, 1, 1) = <<channel[1]>> \o SubSeq(channel, 1 + 1, 1)
        BY <2>1, <4>1, SubSeqRecursiveFirst
      <4>3. SubSeq(channel, 1 + 1, 1) = <<>>
        BY SubSeqEmpty
      <4>4. <<channel[1]>> \in Seq(Issued)
        BY <2>2, <3>3
      <4> QED
        BY <3>3, <4>2, <4>3, <4>4, ConcatEmptySeq
    <3>6. 1 \in 1 .. Len(Queue) /\ sent' = sent \o SubSeq(Queue, 1, 1) /\ Queue' = SubSeq(Queue, 1 + 1, Len(Queue))
      BY <3>1, <3>2, <3>3, <3>4, <3>5
    <3> QED
      BY <3>6 DEF Abstract!Next, Abstract!Deliver
  <2> QED
    BY <2>4, <2>5
<1>8. CASE GetPendingUpdates
  <2>1. /\ channel \in Seq(Issued) /\ channel # None /\ UNCHANGED channel
        /\ pending' = <<>> /\ sent' = sent \o pending
    BY <1>8 DEF GetPendingUpdates, ServedHasChannel, SendUpdates
  <2>2. Queue = pending \o channel /\ Queue' = channel
    BY <2>1, ConcatEmptySeq DEF Queue
  <2>3. CASE pending = <<>>
    BY <2>1, <2>2, <2>3, ConcatEmptySeq DEF Abstract!vars
  <2>4. CASE pending # <<>>
    <3>1. /\ Len(pending) \in 1 .. Len(Queue)
          /\ sent' = sent \o SubSeq(Queue, 1, Len(pending))
          /\ Queue' = SubSeq(Queue, Len(pending) + 1, Len(Queue))
      BY <2>1, <2>2, <2>4, CutConcat, SMTT(40)
    <3> QED
      BY <3>1 DEF Abstract!Next, Abstract!Deliver
  <2> QED
    BY <2>3, <2>4
<1>9. CASE UNCHANGED <<pending, channel, sent>>
  BY <1>1, <1>9
<1>10. ASSUME NEW h \in Handlers, Change(h) \/ Notify(h) \/ CheckUpdate(h) \/ Unlock(h)
       PROVE  UNCHANGED <<pending, channel, sent>>
  BY <1>10
  DEF Change, Notify, UpdateAccountPeers, BufferSendUpdateAccountPeers, CheckUpdate, Unlock, stream
<1>11. ASSUME NEW p \in Senders, HasChannel(p) \/ Done(p) PROVE UNCHANGED <<pending, channel, sent>>
  BY <1>11 DEF HasChannel, Done, stream
<1> QED
  BY <1>3, <1>4, <1>5, <1>6, <1>7, <1>8, <1>9, <1>10, <1>11
  DEF Next, Sender, StartStream, HandleUpdates, TimerFires, GetAccountWithBackpressure, TakeBatch,
      ProcessGetAccountBatch, Connect, SendInitialSync, vars, stream

\* A stream sends what the channel accepted, in its order and nothing left out but maps
\* right before newer ones, whatever the debouncer's timer does.
THEOREM StreamKeepsOrder == Spec => ImplementsUpdateStream
<1>1. Init => Abstract!Init
  BY EmptySeq, ConcatEmptySeq DEF Init, Abstract!Init, Queue
<1> QED
  BY DeliveryInvariant, DeliveryStepRefines, <1>1, PTL
  DEF Spec, ImplementsUpdateStream, Abstract!Spec
=============================================================================
