--------------------------- MODULE LoginExpiryProofs ---------------------------
(***************************************************************************)
(* Proofs about LoginExpiry for any number of peers, users, jobs and       *)
(* administrators and any bounds: the entries of the jobs map run, and     *)
(* neither an expired login nor a blocked owner keeps a stream.            *)
(***************************************************************************)
EXTENDS LoginExpiry, SequenceTheorems, TLAPS

(***************************************************************************)
(* The inductive invariants.                                               *)
(***************************************************************************)

Types == TypeOK /\ calls \in [Peer \cup Admin -> Seq(Call)]

\* A goroutine that has not taken the scheduler's mutex yet has no channel to close.
FreshIsNotCancelled == \A j \in Job : pc[j] \in {"free", "spawned"} => j \notin cancelled

\* Only a call of expireAndUpdatePeers that is under way has peers to save, and a stream
\* is one of a stored peer.
ExpiryBounds ==
    /\ \A e \in Job \cup User : pc[e] # "expiring" => todo[e] = {}
    /\ stream \subseteq stored

\* A peer that was let in and was expired, or its owner blocked, before its channel was
\* made has slipped through.
LateSyncSlipped == \A p \in Peer : InFlight(p) =>
    /\ p \in expired => p \in slipped
    /\ p \in stored /\ Owner[p] \in blocked => p \in slipped

JobInv == FreshIsNotCancelled /\ ListedJobRuns
StreamInv == ExpiryBounds /\ LateSyncSlipped /\ ExpiredStreamIsClosed /\ BlockedStreamIsClosed

-----------------------------------------------------------------------------
(* Types *)

LEMMA TypesInit == Init => Types
<1> SUFFICES ASSUME Init PROVE Types
  OBVIOUS
<1> USE ExpiryConstants DEF Init
<1>1. calls \in [Peer \cup Admin -> Seq(Call)] /\ \A h \in Peer \cup Admin : calls[h] = <<>>
  BY EmptySeq
<1>2. \A h \in Peer \cup Admin : \A i \in DOMAIN calls[h] : calls[h][i] \in Call
  BY <1>1
<1>3. scope.kinds \subseteq Kind /\ scope.peers \subseteq Peer
  OBVIOUS
<1> QED
  BY <1>1, <1>2, <1>3 DEF Types, TypeOK, Kind, JobState, SyncState

\* The calls a handler makes of the schedulers, one after the other.
LEMMA CallSequences ==
    /\ \A ks : SchedulerCalls(ks) \in Seq(Call)
    /\ \A k \in Kind : \A new, changed : SettingsCalls(k, k \in enabled, new, changed) \in Seq(Call)
<1>1. /\ <<>> \in Seq(Call)
      /\ \A c \in Call : <<c>> \in Seq(Call)
      /\ \A c, d \in Call : <<c, d>> \in Seq(Call)
  OBVIOUS
<1>2. \A s, t \in Seq(Call) : s \o t \in Seq(Call)
  BY ConcatProperties
<1>3. \A op \in {"ensure", "cancel", "spawn"}, k \in Kind : <<op, k>> \in Call
  BY DEF Call
<1>4. "login" \in Kind /\ "inactivity" \in Kind
  BY DEF Kind
<1>5. ASSUME NEW ks PROVE SchedulerCalls(ks) \in Seq(Call)
  <2>1. << <<"ensure", "login">> >> \in Seq(Call)
        /\ << <<"cancel", "inactivity">>, <<"spawn", "inactivity">> >> \in Seq(Call)
    BY <1>1, <1>3, <1>4
  <2> QED
    BY <1>1, <1>2, <2>1 DEF SchedulerCalls
<1>6. ASSUME NEW k \in Kind, NEW new, NEW changed
      PROVE  SettingsCalls(k, k \in enabled, new, changed) \in Seq(Call)
  <2>1. /\ << <<"ensure", k>> >> \in Seq(Call) /\ << <<"cancel", k>> >> \in Seq(Call)
        /\ << <<"cancel", k>>, <<"ensure", k>> >> \in Seq(Call)
        /\ << <<"cancel", k>>, <<"spawn", k>> >> \in Seq(Call)
    BY <1>1, <1>3
  <2> QED
    BY <1>1, <1>2, <2>1 DEF SettingsCalls
<1> QED
  BY <1>5, <1>6

\* Whoever asks a scheduler asks it of an expiration.
LEMMA CallTypes ==
    ASSUME Types, NEW h \in Peer \cup Admin, calls[h] # <<>>
    PROVE  Head(calls[h])[2] \in Kind /\ Tail(calls[h]) \in Seq(Call)
<1>1. calls[h] \in Seq(Call)
  BY DEF Types
<1>2. Head(calls[h]) \in Call /\ Tail(calls[h]) \in Seq(Call)
  BY <1>1, HeadTailProperties
<1> QED
  BY <1>2 DEF Call

LEMMA ForgetType ==
    ASSUME overdue \in [Kind -> SUBSET Peer], NEW S, NEW ks
    PROVE  Forget(S, ks) \in [Kind -> SUBSET Peer]
  BY DEF Forget

LEMMA TypesNext == Types /\ [Next]_vars => Types'
<1> SUFFICES ASSUME Types, [Next]_vars PROVE Types'
  OBVIOUS
<1> USE ExpiryConstants DEF TypeOK, JobState, SyncState, settings, rows, jobVars, expireVars, ghosts
<1>0. /\ scope.kinds \subseteq Kind /\ scope.jobs \subseteq Job /\ scope.callers \subseteq Peer
      /\ scope.edited \subseteq Peer
      /\ "login" \in Kind /\ "inactivity" \in Kind
  BY DEF Types, Kind
<1>1. ASSUME calls' \in [Peer \cup Admin -> Seq(Call)]
      PROVE  \A h \in Peer \cup Admin : \A i \in DOMAIN calls'[h] : calls'[h][i] \in Call
  <2> SUFFICES ASSUME NEW h \in Peer \cup Admin, NEW i \in DOMAIN calls'[h] PROVE calls'[h][i] \in Call
    OBVIOUS
  <2>1. calls'[h] \in Seq(Call)
    BY <1>1
  <2> QED
    BY <2>1
<1>2. ASSUME NEW j \in Job, Schedule(j) \/ Tick(j) \/ Stop(j) \/ GetNextExpiration(j) \/ EndJob(j)
      PROVE  Types'
  <2>1. Due(kind[j]) \subseteq Peer
    BY DEF Types, Due, Late, Kind
  <2>2. UNCHANGED <<settings, rows, blocked, stream, sync, calls, kind, hit, slipped>>
    BY <1>2 DEF Schedule, Tick, Stop, GetNextExpiration, EndJob
  <2>3. listed' \in [Kind -> Job \cup {None}] /\ cancelled' \subseteq Job
    BY <1>2 DEF Types, Schedule, Tick, Stop, GetNextExpiration, EndJob
  <2>4. pc' \in [Job \cup User -> JobState]
    BY <1>2 DEF Types, Schedule, Tick, Stop, GetNextExpiration, EndJob
  <2>5. missed' \subseteq Peer
    BY <1>2 DEF Types, Schedule, Tick, Stop, GetNextExpiration, EndJob
  <2>6. todo' \in [Job \cup User -> SUBSET Peer]
    BY <1>2, <2>1 DEF Types, Schedule, Tick, Stop, GetNextExpiration, EndJob
  <2> QED
    BY <2>2, <2>3, <2>4, <2>5, <2>6 DEF Types
<1>s. ASSUME UNCHANGED <<settings, stored, overdue, sync, calls, listed, kind, cancelled>>,
             connected' \subseteq stored /\ expired' \subseteq stored \ connected',
             blocked' \subseteq User, stream' \subseteq Peer, pc' \in [Job \cup User -> JobState],
             todo' \in [Job \cup User -> SUBSET Peer], hit' \in [Job \cup User -> SUBSET Peer],
             slipped' \subseteq Peer, missed' \subseteq Peer
      PROVE  Types'
  BY <1>s DEF Types
<1>3. ASSUME NEW e \in Job \cup User, SavePeerStatus(e) PROVE Types'
  <2>1. PICK p \in todo[e] :
           /\ \/ /\ expired' = expired \cup {p} /\ connected' = connected \ {p} /\ p \in stored
                 /\ todo' = [todo EXCEPT ![e] = @ \ {p}]
                 /\ hit' = [hit EXCEPT ![e] = @ \cup {p}]
                 /\ slipped' = IF InFlight(p) THEN slipped \cup {p} ELSE slipped
                 /\ missed' = missed \ {p}
                 /\ UNCHANGED pc
              \/ /\ pc' = [pc EXCEPT ![e] = IF e \in Job THEN "waiting" ELSE "free"]
                 /\ slipped' = slipped \cup todo[e] \cup hit[e]
                 /\ todo' = [todo EXCEPT ![e] = {}]
                 /\ hit' = [hit EXCEPT ![e] = {}]
                 /\ UNCHANGED <<expired, connected, missed>>
           /\ UNCHANGED <<settings, stored, overdue, blocked, stream, sync, calls, listed, kind, cancelled, acts>>
    BY <1>3 DEF SavePeerStatus
  <2>2. /\ p \in Peer /\ todo[e] \subseteq Peer /\ hit[e] \subseteq Peer
    BY DEF Types
  <2>3. /\ connected' \subseteq stored /\ expired' \subseteq stored \ connected'
        /\ slipped' \subseteq Peer /\ missed' \subseteq Peer
    BY <2>1, <2>2 DEF Types
  <2>4. pc' \in [Job \cup User -> JobState]
    BY <2>1 DEF Types
  <2>5. todo' \in [Job \cup User -> SUBSET Peer] /\ hit' \in [Job \cup User -> SUBSET Peer]
    <3>1. PICK S \in SUBSET Peer, T \in SUBSET Peer : todo' = [todo EXCEPT ![e] = S] /\ hit' = [hit EXCEPT ![e] = T]
      <4>1. todo[e] \ {p} \in SUBSET Peer /\ hit[e] \cup {p} \in SUBSET Peer /\ {} \in SUBSET Peer
        BY <2>2
      <4> QED
        BY <2>1, <4>1
    <3> QED
      BY <3>1 DEF Types
  <2> QED
    BY <1>s, <2>1, <2>3, <2>4, <2>5 DEF Types
<1>4. ASSUME NEW e \in Job \cup User, DisconnectPeers(e) PROVE Types'
  BY <1>4, <1>s DEF DisconnectPeers, Types
<1>5. ASSUME NEW u \in User, BlockUser(u) \/ UnblockUser(u) PROVE Types'
  <2>1. CASE BlockUser(u)
    <3>1. Of(u) \subseteq Peer
      BY DEF Of, Types
    <3>2. todo' \in [Job \cup User -> SUBSET Peer] /\ slipped' \subseteq Peer
      BY <2>1, <3>1 DEF BlockUser, Types
    <3>3. pc' \in [Job \cup User -> JobState] /\ blocked' \subseteq User
      BY <2>1 DEF BlockUser, Types
    <3> QED
      BY <1>s, <2>1, <3>2, <3>3 DEF BlockUser, Types
  <2>2. CASE UnblockUser(u)
    BY <1>s, <2>2 DEF UnblockUser, Types
  <2> QED
    BY <1>5, <2>1, <2>2
<1>6. ASSUME calls' \in [Peer \cup Admin -> Seq(Call)], overdue' \in [Kind -> SUBSET Peer],
             stored' \subseteq stored, connected' \subseteq stored' /\ expired' \subseteq stored' \ connected',
             stream' \subseteq Peer, sync' \in [Peer -> SyncState], slipped' \subseteq Peer, missed' \subseteq Peer,
             UNCHANGED <<settings, blocked, jobVars, expireVars>>
      PROVE  Types'
  BY <1>1, <1>6 DEF Types
<1>7. ASSUME NEW p \in Peer, MarkConnected(p) PROVE Types'
  BY <1>0, <1>6, <1>7, CallSequences, ForgetType DEF MarkConnected, Types
<1>8. ASSUME NEW p \in Peer, ReadSettings(p) PROVE Types'
  BY <1>6, <1>8, CallSequences DEF ReadSettings, Types
<1>9. ASSUME NEW p \in Peer, Connect(p) \/ EndSync(p) \/ SyncPeer(p) PROVE Types'
  <2>1. CASE Connect(p)
    BY <1>6, <2>1 DEF Connect, Types
  <2>2. CASE EndSync(p)
    BY <1>6, <2>2 DEF EndSync, Types
  <2>3. CASE SyncPeer(p)
    BY <1>6, <2>3 DEF SyncPeer, Types
  <2> QED
    BY <1>9, <2>1, <2>2, <2>3
<1>10. ASSUME NEW p \in Peer, Disconnect(p) PROVE Types'
  BY <1>6, <1>10, CallSequences, ForgetType DEF Disconnect, Types
<1>11. ASSUME NEW p \in Peer, LoginPeer(p) \/ DeletePeer(p) PROVE Types'
  BY <1>6, <1>11, ForgetType DEF LoginPeer, DeletePeer, Types
<1>12. ASSUME NEW k \in Kind, NEW p \in Peer, Elapse(k, p) PROVE Types'
  BY <1>6, <1>12 DEF Elapse, Types
<1>13. ASSUME NEW h \in Peer \cup Admin, AskScheduler(h) PROVE Types'
  <2> DEFINE k == Head(calls[h])[2]
  <2>1. k \in Kind /\ Tail(calls[h]) \in Seq(Call)
    BY <1>13, CallTypes DEF AskScheduler
  <2>2. /\ calls' = [calls EXCEPT ![h] = Tail(@)] /\ (missed' = missed \/ missed' = missed \cup connected)
        /\ UNCHANGED <<settings, rows, blocked, stream, sync, expireVars, slipped, acts>>
        /\ Cancel(k) \/ UNCHANGED <<listed, cancelled>>
        /\ Spawn(k) \/ UNCHANGED <<pc, kind>>
    BY <1>13 DEF AskScheduler
  <2>3. listed' \in [Kind -> Job \cup {None}] /\ cancelled' \subseteq Job
    BY <2>1, <2>2 DEF Cancel, Types
  <2>4. pc' \in [Job \cup User -> JobState] /\ kind' \in [Job -> Kind]
    BY <1>0, <2>1, <2>2 DEF Spawn, Types
  <2>5. calls' \in [Peer \cup Admin -> Seq(Call)]
    BY <2>1, <2>2 DEF Types
  <2>6. missed' \subseteq Peer
    BY <2>2 DEF Types
  <2> QED
    BY <1>1, <2>2, <2>3, <2>4, <2>5, <2>6 DEF Types
<1>14. ASSUME NEW a \in Admin, UpdateAccountSettings(a) PROVE Types'
  <2>1. PICK k \in scope.kinds, new \in BOOLEAN, changed \in BOOLEAN :
           /\ enabled' = IF new THEN enabled \cup {k} ELSE enabled \ {k}
           /\ UNCHANGED overdue \/ \E S \in SUBSET stored : overdue' = [overdue EXCEPT ![k] = S]
           /\ calls' = [calls EXCEPT ![a] = SettingsCalls(k, k \in enabled, new, changed)]
           /\ UNCHANGED <<scope, exempt, stored, connected, expired, blocked, stream, sync, jobVars, expireVars, ghosts>>
    BY <1>14, ZenonT(40) DEF UpdateAccountSettings
  <2>2. SettingsCalls(k, k \in enabled, new, changed) \in Seq(Call)
    BY <1>0, CallSequences
  <2>3. calls' \in [Peer \cup Admin -> Seq(Call)]
    BY <2>1, <2>2 DEF Types
  <2>4. overdue' \in [Kind -> SUBSET Peer] /\ enabled' \subseteq scope.kinds
    BY <1>0, <2>1 DEF Types
  <2> QED
    BY <1>1, <2>1, <2>3, <2>4 DEF Types
<1>15. ASSUME NEW a \in Admin, NEW p \in Peer, UpdatePeer(a, p) PROVE Types'
  <2>1. PICK k \in scope.kinds :
           /\ exempt' = [exempt EXCEPT ![k] = IF p \in @ THEN @ \ {p} ELSE @ \cup {p}]
           /\ \/ calls' = [calls EXCEPT ![a] = <<>>]
              \/ calls' = [calls EXCEPT ![a] = << <<"cancel", k>>, <<IF k = "login" THEN "ensure" ELSE "spawn", k>> >>]
           /\ UNCHANGED <<scope, enabled, rows, blocked, stream, sync, jobVars, expireVars, ghosts>>
    BY <1>15 DEF UpdatePeer
  <2>2. k \in Kind
    BY <1>0
  <2>3. <<>> \in Seq(Call) /\ << <<"cancel", k>>, <<IF k = "login" THEN "ensure" ELSE "spawn", k>> >> \in Seq(Call)
    BY <2>2 DEF Call
  <2>4. calls' \in [Peer \cup Admin -> Seq(Call)]
    <3>1. PICK c \in Seq(Call) : calls' = [calls EXCEPT ![a] = c]
      BY <2>1, <2>3
    <3> QED
      BY <3>1 DEF Types
  <2>5. exempt' \in [Kind -> SUBSET Peer]
    BY <2>1, <2>2 DEF Types
  <2> QED
    BY <1>1, <2>1, <2>4, <2>5 DEF Types
<1>16. CASE UNCHANGED vars
  BY <1>1, <1>16 DEF vars, Types
<1> QED
  BY <1>0, <1>2, <1>3, <1>4, <1>5, <1>7, <1>8, <1>9, <1>10, <1>11, <1>12, <1>13, <1>14, <1>15, <1>16
  DEF Next, JobStep, BlockStep, SyncStep

LEMMA TypesHold == Spec => []Types
  BY TypesInit, TypesNext, PTL DEF Spec

-----------------------------------------------------------------------------
(* The map of running jobs *)

LEMMA JobInvInit == Init => JobInv
  BY ExpiryConstants DEF Init, JobInv, FreshIsNotCancelled, ListedJobRuns

LEMMA JobInvNext == Types /\ JobInv /\ [Next]_vars => JobInv'
<1> SUFFICES ASSUME Types, JobInv, [Next]_vars PROVE JobInv'
  OBVIOUS
<1> USE ExpiryConstants DEF JobInv, FreshIsNotCancelled, ListedJobRuns
<1>0. /\ scope.jobs \subseteq Job
      /\ pc \in [Job \cup User -> JobState] /\ kind \in [Job -> Kind]
      /\ listed \in [Kind -> Job \cup {None}] /\ cancelled \subseteq Job /\ None \notin Job
      /\ \A k \in Kind : listed[k] # None => listed[k] \in Job
  BY DEF Types, TypeOK
<1>1. ASSUME UNCHANGED jobVars PROVE JobInv'
  BY <1>1 DEF jobVars
<1>2. ASSUME NEW j \in Job, Schedule(j) PROVE JobInv'
  <2>1. kind[j] \in Kind
    BY <1>0
  <2> QED
    BY <1>0, <1>2, <2>1 DEF Schedule
<1>3. ASSUME NEW j \in Job, Tick(j) PROVE JobInv'
  BY <1>0, <1>3 DEF Tick
<1>4. ASSUME NEW j \in Job, Stop(j) PROVE JobInv'
  BY <1>0, <1>4 DEF Stop
<1>5. ASSUME NEW j \in Job, GetNextExpiration(j) PROVE JobInv'
  BY <1>0, <1>5 DEF GetNextExpiration
<1>6. ASSUME NEW j \in Job, EndJob(j) PROVE JobInv'
  BY <1>0, <1>6 DEF EndJob
<1>7. ASSUME NEW e \in Job \cup User, SavePeerStatus(e) PROVE JobInv'
  BY <1>0, <1>7 DEF SavePeerStatus
<1>8. ASSUME NEW e \in Job \cup User, DisconnectPeers(e) PROVE JobInv'
  BY <1>0, <1>8 DEF DisconnectPeers
<1>9. ASSUME NEW u \in User, BlockUser(u) PROVE JobInv'
  BY <1>0, <1>9 DEF BlockUser
<1>10. ASSUME NEW h \in Peer \cup Admin, AskScheduler(h) PROVE JobInv'
  <2> DEFINE k == Head(calls[h])[2]
  <2>1. k \in Kind
    BY <1>10, CallTypes DEF AskScheduler
  <2>2. \/ Cancel(k) /\ UNCHANGED <<pc, kind>>
        \/ UNCHANGED jobVars
        \/ Spawn(k) /\ UNCHANGED <<listed, cancelled>>
    BY <1>10 DEF AskScheduler
  <2>3. CASE Cancel(k) /\ UNCHANGED <<pc, kind>>
    BY <1>0, <2>1, <2>3 DEF Cancel
  <2>4. CASE Spawn(k) /\ UNCHANGED <<listed, cancelled>>
    BY <1>0, <2>1, <2>4 DEF Spawn
  <2> QED
    BY <1>1, <2>2, <2>3, <2>4
<1>11. ASSUME NEW p \in Peer, SyncStep(p) \/ SyncPeer(p) \/ Disconnect(p) \/ LoginPeer(p) \/ DeletePeer(p)
       PROVE  JobInv'
  BY <1>1, <1>11
  DEF SyncStep, MarkConnected, ReadSettings, Connect, EndSync, SyncPeer, Disconnect, LoginPeer, DeletePeer
<1>12. CASE UNCHANGED vars
  BY <1>1, <1>12 DEF vars
<1>13. ASSUME NEW k \in Kind, NEW p \in Peer, Elapse(k, p) PROVE JobInv'
  BY <1>1, <1>13 DEF Elapse
<1>14. ASSUME NEW a \in Admin, UpdateAccountSettings(a) \/ \E p \in scope.edited : UpdatePeer(a, p)
       PROVE  JobInv'
  BY <1>1, <1>14 DEF UpdateAccountSettings, UpdatePeer
<1>15. ASSUME NEW u \in User, UnblockUser(u) PROVE JobInv'
  BY <1>1, <1>15 DEF UnblockUser
<1>16. scope.kinds \subseteq Kind /\ scope.callers \subseteq Peer
  BY DEF Types, TypeOK
<1> QED
  BY <1>2, <1>3, <1>4, <1>5, <1>6, <1>7, <1>8, <1>9, <1>10, <1>11, <1>12, <1>13, <1>14, <1>15, <1>16
  DEF Next, JobStep, BlockStep

\* The job that DefaultScheduler lists for an account runs, is of that kind, and has not
\* been cancelled, however cancellations, ends and new jobs interleave: IsSchedulerRunning
\* never vouches for a job that is gone.
THEOREM ListedJobsRun == Spec => []ListedJobRuns
<1>1. JobInv => ListedJobRuns
  BY DEF JobInv
<1> QED
  BY TypesHold, JobInvInit, JobInvNext, <1>1, PTL DEF Spec

-----------------------------------------------------------------------------
(* The streams of expired and of blocked peers *)

LEMMA StreamInvInit == Init => StreamInv
  BY ExpiryConstants DEF Init, StreamInv, ExpiryBounds, LateSyncSlipped, InFlight, ExpiredStreamIsClosed,
     BlockedStreamIsClosed

LEMMA StreamInvNext == Types /\ StreamInv /\ [Next]_vars => StreamInv'
<1> SUFFICES ASSUME Types, StreamInv, [Next]_vars PROVE StreamInv'
  OBVIOUS
<1> USE ExpiryConstants DEF StreamInv, ExpiryBounds, LateSyncSlipped, ExpiredStreamIsClosed, BlockedStreamIsClosed
<1>0. /\ scope.kinds \subseteq Kind /\ scope.callers \subseteq Peer
      /\ todo \in [Job \cup User -> SUBSET Peer] /\ hit \in [Job \cup User -> SUBSET Peer]
      /\ pc \in [Job \cup User -> JobState]
      /\ stream \subseteq Peer /\ sync \in [Peer -> SyncState] /\ stored \subseteq Peer
      /\ \A p \in Peer : InFlight(p) <=> sync[p] \in {"checked", "marked", "connecting"}
  BY DEF Types, TypeOK, InFlight
<1>1. ASSUME stored' = stored, expired' \subseteq expired, blocked' \subseteq blocked, stream' \subseteq stream,
             UNCHANGED <<sync, slipped, todo, hit>>,
             \A e \in Job \cup User : pc'[e] # "expiring" => pc[e] # "expiring"
      PROVE  StreamInv'
  BY <1>0, <1>1 DEF InFlight
<1>2. ASSUME NEW j \in Job, Schedule(j) \/ Stop(j) \/ GetNextExpiration(j) \/ EndJob(j) PROVE StreamInv'
  BY <1>0, <1>1, <1>2 DEF Schedule, Stop, GetNextExpiration, EndJob, rows, expireVars, ghosts
<1>3. ASSUME NEW j \in Job, Tick(j) PROVE StreamInv'
  BY <1>0, <1>3 DEF Tick, rows, ghosts, InFlight
<1>4. ASSUME NEW e \in Job \cup User, SavePeerStatus(e) PROVE StreamInv'
  <2>1. PICK p \in todo[e] :
           /\ pc[e] = "expiring"
           /\ \/ /\ expired' = expired \cup {p} /\ p \in stored
                 /\ todo' = [todo EXCEPT ![e] = @ \ {p}]
                 /\ hit' = [hit EXCEPT ![e] = @ \cup {p}]
                 /\ slipped' = IF InFlight(p) THEN slipped \cup {p} ELSE slipped
                 /\ UNCHANGED pc
              \/ /\ pc' = [pc EXCEPT ![e] = IF e \in Job THEN "waiting" ELSE "free"]
                 /\ slipped' = slipped \cup todo[e] \cup hit[e]
                 /\ todo' = [todo EXCEPT ![e] = {}]
                 /\ hit' = [hit EXCEPT ![e] = {}]
                 /\ UNCHANGED expired
           /\ UNCHANGED <<stored, blocked, stream, sync>>
    BY <1>4 DEF SavePeerStatus
  <2>2. ExpiryBounds'
    BY <1>0, <2>1
  <2>3. LateSyncSlipped'
    BY <1>0, <2>1 DEF InFlight
  <2>4. ExpiredStreamIsClosed'
    BY <1>0, <2>1
  <2>5. BlockedStreamIsClosed'
    BY <1>0, <2>1
  <2> QED
    BY <2>2, <2>3, <2>4, <2>5
<1>5. ASSUME NEW e \in Job \cup User, DisconnectPeers(e) PROVE StreamInv'
  <2>1. ExpiryBounds' /\ LateSyncSlipped'
    BY <1>0, <1>5 DEF DisconnectPeers, rows, ghosts, InFlight
  <2>2. ExpiredStreamIsClosed' /\ BlockedStreamIsClosed'
    BY <1>0, <1>5 DEF DisconnectPeers, rows, ghosts
  <2> QED
    BY <2>1, <2>2
<1>6. ASSUME NEW u \in User, BlockUser(u) PROVE StreamInv'
  <2>1. ExpiryBounds' /\ ExpiredStreamIsClosed'
    BY <1>0, <1>6 DEF BlockUser, rows
  <2>2. LateSyncSlipped'
    BY <1>0, <1>6 DEF BlockUser, rows, Of, InFlight
  <2>3. BlockedStreamIsClosed'
    BY <1>0, <1>6 DEF BlockUser, rows, Of
  <2> QED
    BY <2>1, <2>2, <2>3
<1>7. ASSUME NEW u \in User, UnblockUser(u) PROVE StreamInv'
  BY <1>0, <1>1, <1>7 DEF UnblockUser, rows, jobVars, expireVars, ghosts
<1>8. ASSUME NEW p \in Peer, SyncPeer(p) PROVE StreamInv'
  BY <1>0, <1>8 DEF SyncPeer, peerLoginExpired, checkIfPeerOwnerIsBlocked, rows, jobVars, expireVars, ghosts, InFlight
<1>9. ASSUME NEW p \in Peer, MarkConnected(p) PROVE StreamInv'
  BY <1>0, <1>9 DEF MarkConnected, jobVars, expireVars, ghosts, InFlight
<1>10. ASSUME NEW p \in Peer, ReadSettings(p) PROVE StreamInv'
  BY <1>0, <1>10 DEF ReadSettings, rows, jobVars, expireVars, ghosts, InFlight
<1>11. ASSUME NEW p \in Peer, Connect(p) PROVE StreamInv'
  BY <1>0, <1>11 DEF Connect, rows, jobVars, expireVars, ghosts, InFlight
<1>12. ASSUME NEW p \in Peer, Disconnect(p) \/ EndSync(p) PROVE StreamInv'
  BY <1>0, <1>12 DEF Disconnect, EndSync, rows, jobVars, expireVars, InFlight
<1>13. ASSUME NEW p \in Peer, DeletePeer(p) PROVE StreamInv'
  BY <1>0, <1>13 DEF DeletePeer, jobVars, expireVars, ghosts, InFlight
<1>14. ASSUME NEW p \in Peer, LoginPeer(p) \/ \E k \in Kind : Elapse(k, p) PROVE StreamInv'
  BY <1>0, <1>1, <1>14 DEF LoginPeer, Elapse, jobVars, expireVars, ghosts
<1>15. ASSUME NEW h \in Peer \cup Admin, AskScheduler(h) PROVE StreamInv'
  <2>1. /\ UNCHANGED <<rows, blocked, stream, sync, expireVars, slipped>>
        /\ \A e \in Job \cup User : pc'[e] # "expiring" => pc[e] # "expiring"
    BY <1>0, <1>15 DEF AskScheduler, Cancel, Spawn, jobVars
  <2> QED
    BY <1>1, <2>1 DEF rows, expireVars
<1>16. ASSUME NEW a \in Admin, UpdateAccountSettings(a) \/ \E p \in scope.edited : UpdatePeer(a, p)
       PROVE  StreamInv'
  BY <1>1, <1>16 DEF UpdateAccountSettings, UpdatePeer, rows, jobVars, expireVars, ghosts
<1>17. CASE UNCHANGED vars
  BY <1>1, <1>17 DEF vars, rows, jobVars, expireVars, ghosts
<1> QED
  BY <1>0, <1>2, <1>3, <1>4, <1>5, <1>6, <1>7, <1>8, <1>9, <1>10, <1>11, <1>12, <1>13, <1>14, <1>15, <1>16, <1>17
  DEF Next, JobStep, BlockStep, SyncStep

\* A peer whose login was marked expired keeps no stream but those somebody is about to
\* close, and those that slipped through one of the two gaps.
THEOREM ExpiredStreamsAreClosed == Spec => []ExpiredStreamIsClosed
<1>1. StreamInv => ExpiredStreamIsClosed
  BY DEF StreamInv
<1> QED
  BY TypesHold, StreamInvInit, StreamInvNext, <1>1, PTL DEF Spec

\* So it is with the peers of a blocked user, also when their Sync calls and jobs that
\* expire them run at the same time.
THEOREM BlockedStreamsAreClosed == Spec => []BlockedStreamIsClosed
<1>1. StreamInv => BlockedStreamIsClosed
  BY DEF StreamInv
<1> QED
  BY TypesHold, StreamInvInit, StreamInvNext, <1>1, PTL DEF Spec
=============================================================================
