------------------------------ MODULE LoginExpiry ------------------------------
(***************************************************************************)
(* Who may stay connected: the peers of an account that users have added   *)
(* by single sign-on, the settings that let their logins and their idle    *)
(* sessions expire, the two jobs of DefaultScheduler that expire them, and *)
(* the blocking of a user.  Sync, LoginPeer, SaveOrAddUsers,               *)
(* UpdateAccountSettings and the jobs meet only in the database and in the *)
(* map of running jobs; none takes a lock the others take.                 *)
(*                                                                         *)
(* A transaction is one step.  Time is abstracted to the set of peers whose *)
(* login, or whose time without a connection, is longer than the settings  *)
(* allow; the ticker of a job may fire at any moment.  One stream per peer  *)
(* is followed (PeerSync has several), and the store fails only for a row  *)
(* that is gone.                                                           *)
(***************************************************************************)
EXTENDS Naturals, Sequences, FiniteSets

CONSTANTS
    Peer, User, Owner,  \* peers with a user ID, and Peer.UserID
    Admin,              \* concurrent calls of UpdateAccountSettings
    Job,                \* goroutines of the schedulers
    Scopes,             \* bounds, each [peers, callers, jobs, kinds, edited, calls]: the peers of the
                        \* account, those whose clients call Sync, the goroutines, the expirations in
                        \* use, the peers UpdatePeer is called for, and how often administrators
                        \* block, unblock, delete, update a peer or change settings
    None

Kind == {"login", "inactivity"}  \* peerLoginExpiry and peerInactivityExpiry

ASSUME ExpiryConstants ==
    /\ Owner \in [Peer -> User] /\ None \notin Job
    /\ Scopes \subseteq [peers : SUBSET Peer, callers : SUBSET Peer, jobs : SUBSET Job, kinds : SUBSET Kind,
                  edited : SUBSET Peer, calls : Nat]

VARIABLES
    scope,      \* one of Scopes, the same throughout
    enabled,    \* those the settings enable: Peer{Login,Inactivity}ExpirationEnabled
    exempt,     \* peers with LoginExpirationEnabled or InactivityExpirationEnabled unset
    overdue,    \* peers the clock has run out for, whatever enabled says
    stored, connected, expired,   \* the rows, and two fields of PeerStatus
    blocked,    \* users with Blocked set
    stream,     \* peers with an open update channel
    sync,       \* progress of each peer's Sync call
    calls,      \* what a handler still has to ask of the schedulers
    listed,     \* DefaultScheduler.jobs for the account
    pc, kind,   \* progress of goroutines and of calls that block, and whose job it is
    cancelled,  \* goroutines whose cancel channel is closed
    todo, hit,  \* expireAndUpdatePeers: peers still to save, peers saved
    slipped, missed,  \* the known gaps, see below
    acts        \* how many calls administrators have made

rows == <<stored, connected, expired, overdue>>
jobVars == <<listed, pc, kind, cancelled>>
expireVars == <<todo, hit>>
ghosts == <<slipped, missed>>
settings == <<scope, enabled, exempt>>
vars == <<settings, rows, blocked, stream, sync, calls, jobVars, expireVars, ghosts, acts>>

JobState == {"free", "spawned", "waiting", "expiring", "deciding", "ending"}
SyncState == {"idle", "checked", "marked", "connecting", "open", "left", "leaving"}
(* The peer was let in, and has no channel to close yet. *)
InFlight(p) == sync[p] \in {"checked", "marked", "connecting"}
Call == {"ensure", "cancel", "spawn"} \X Kind

TypeOK ==
    /\ scope \in Scopes /\ enabled \subseteq scope.kinds
    /\ overdue \in [Kind -> SUBSET Peer] /\ exempt \in [Kind -> SUBSET Peer]
    /\ stored \subseteq Peer /\ connected \subseteq stored /\ expired \subseteq stored \ connected
    /\ blocked \subseteq User /\ stream \subseteq Peer
    /\ sync \in [Peer -> SyncState]
    /\ \A h \in Peer \cup Admin : \A i \in DOMAIN calls[h] : calls[h][i] \in Call
    /\ listed \in [Kind -> Job \cup {None}]
    /\ pc \in [Job \cup User -> JobState]
    /\ kind \in [Job -> Kind] /\ cancelled \subseteq Job
    /\ todo \in [Job \cup User -> SUBSET Peer] /\ hit \in [Job \cup User -> SUBSET Peer]
    /\ slipped \subseteq Peer /\ missed \subseteq Peer

Init ==
    /\ scope \in Scopes /\ enabled \in SUBSET scope.kinds
    /\ overdue = [k \in Kind |-> {}] /\ exempt = [k \in Kind |-> {}]
    /\ stored = scope.peers /\ connected = {} /\ expired = {}
    /\ blocked = {} /\ stream = {}
    /\ sync = [p \in Peer |-> "idle"]
    /\ calls = [h \in Peer \cup Admin |-> <<>>]
    /\ listed = [k \in Kind |-> None]
    /\ pc = [e \in Job \cup User |-> "free"]
    /\ kind = [j \in Job |-> "login"] /\ cancelled = {}
    /\ todo = [e \in Job \cup User |-> {}] /\ hit = [e \in Job \cup User |-> {}]
    /\ slipped = {} /\ missed = {}
    /\ acts = 0

Of(u) == {p \in stored : Owner[p] = u}
Forget(S, ks) == [k \in Kind |-> IF k \in ks THEN overdue[k] \ S ELSE overdue[k]]

(* Peer.LoginExpired and Peer.SessionExpired, the latter for peers that are not connected. *)
Late(k) == overdue[k] \ exempt[k]

peerLoginExpired(p) == p \in expired \/ ("login" \in enabled /\ p \in Late("login"))
\* Mutant of checkIfPeerOwnerIsBlocked: the owner is looked up, Blocked is not read.
OwnerIsUnknown(p) == Owner[p] \notin User
checkIfPeerOwnerIsBlocked(p) == Owner[p] \in blocked

(* getExpiredPeers, getInactivePeers: neither asks whether expiration is enabled. *)
Due(k) == IF k = "login" THEN Late(k) \ expired ELSE Late(k) \ (connected \cup expired)
(* getNextPeerExpiration, getNextInactivePeerExpiration: is there a next run? *)
NextExpiration(k) == IF k = "login" THEN connected \ (expired \cup exempt[k]) # {}
                     ELSE stored \ (connected \cup expired \cup exempt[k]) # {}

-----------------------------------------------------------------------------
(* DefaultScheduler *)

\* Mutant of Cancel: the channel is closed, the entry stays.
CancelKeepsEntry(k) ==
    /\ cancelled' = cancelled \cup ({listed[k]} \ {None})
    /\ UNCHANGED listed

Cancel(k) ==
    /\ listed' = [listed EXCEPT ![k] = None]
    /\ cancelled' = cancelled \cup ({listed[k]} \ {None})

(* go Schedule(...): a goroutine that has not taken the scheduler's mutex yet. *)
Spawn(k) ==
    IF NextExpiration(k)
    THEN \E j \in scope.jobs : /\ pc[j] = "free"
                               /\ pc' = [pc EXCEPT ![j] = "spawned"]
                               /\ kind' = [kind EXCEPT ![j] = k]
    ELSE UNCHANGED <<pc, kind>>

Ending(k) == listed[k] # None /\ pc[listed[k]] = "ending"

(* The next thing handler h asks of a scheduler: "ensure" is               *)
(* schedulePeerLoginExpiration, "cancel" then "spawn" is                   *)
(* checkAndSchedulePeerInactivityExpiration.  A peer is missed when its    *)
(* job is found listed although that job has already decided to end, or    *)
(* when a late cancel meets a job another change of the settings wants.    *)
AskScheduler(h) ==
    LET op == Head(calls[h])[1]  k == Head(calls[h])[2] IN
    /\ calls[h] # <<>> /\ (h \in Peer => sync[h] \in {"connecting", "leaving"})
    /\ calls' = [calls EXCEPT ![h] = Tail(@)]
    /\ \/ /\ op = "cancel"
          /\ Cancel(k)
          /\ missed' = IF Len(calls[h]) = 1 /\ k \in enabled THEN missed \cup connected ELSE missed
          /\ UNCHANGED <<pc, kind>>
       \/ /\ op = "ensure" /\ listed[k] # None
          /\ missed' = IF Ending(k) THEN missed \cup connected ELSE missed
          /\ UNCHANGED jobVars
       \/ /\ op = "spawn" \/ listed[k] = None
          /\ op # "cancel"
          /\ Spawn(k)
          /\ UNCHANGED <<listed, cancelled, missed>>
    /\ UNCHANGED <<settings, rows, blocked, stream, sync, expireVars, slipped, acts>>

Schedule(j) ==
    LET k == kind[j] IN
    /\ pc[j] = "spawned"
    /\ IF listed[k] # None
       THEN /\ pc' = [pc EXCEPT ![j] = "free"]
            /\ missed' = IF Ending(k) THEN missed \cup connected ELSE missed
            /\ UNCHANGED listed
       ELSE /\ pc' = [pc EXCEPT ![j] = "waiting"]
            /\ listed' = [listed EXCEPT ![k] = j]
            /\ UNCHANGED missed
    /\ UNCHANGED <<settings, rows, blocked, stream, sync, calls, kind, cancelled, expireVars, slipped, acts>>

(* The ticker fires and the job reads whom to expire: getExpiredPeers, getInactivePeers. *)
Tick(j) ==
    /\ pc[j] = "waiting" /\ j \notin cancelled
    /\ pc' = [pc EXCEPT ![j] = "expiring"]
    /\ todo' = [todo EXCEPT ![j] = Due(kind[j])]
    /\ UNCHANGED <<settings, rows, blocked, stream, sync, calls, listed, kind, cancelled, hit, ghosts, acts>>

Stop(j) ==
    /\ pc[j] = "waiting" /\ j \in cancelled
    /\ pc' = [pc EXCEPT ![j] = "free"]
    /\ cancelled' = cancelled \ {j}
    /\ UNCHANGED <<settings, rows, blocked, stream, sync, calls, listed, kind, expireVars, ghosts, acts>>

(* After expireAndUpdatePeers the job reads when to run next. *)
GetNextExpiration(j) ==
    /\ pc[j] = "deciding"
    /\ pc' = [pc EXCEPT ![j] = IF NextExpiration(kind[j]) THEN "waiting" ELSE "ending"]
    /\ UNCHANGED <<settings, rows, blocked, stream, sync, calls, listed, kind, cancelled, expireVars, ghosts, acts>>

\* Mutant of EndJob: the goroutine returns without removing the entry.
EndKeepsEntry(j) ==
    /\ pc[j] = "ending"
    /\ pc' = [pc EXCEPT ![j] = "free"]
    /\ cancelled' = cancelled \ {j}
    /\ UNCHANGED <<settings, rows, blocked, stream, sync, calls, listed, kind, expireVars, ghosts, acts>>

(* delete(wm.jobs, ID) is by account, whoever is listed now. *)
EndJob(j) ==
    /\ pc[j] = "ending"
    /\ pc' = [pc EXCEPT ![j] = "free"]
    /\ listed' = [listed EXCEPT ![kind[j]] = None]
    /\ cancelled' = cancelled \ {j}
    /\ UNCHANGED <<settings, rows, blocked, stream, sync, calls, kind, expireVars, ghosts, acts>>

-----------------------------------------------------------------------------
(* expireAndUpdatePeers, run by a job or by a call that blocks a user: the *)
(* rows are written from copies read earlier, one by one, and the channels *)
(* closed after the last.  If a row is gone the call gives up at once.     *)

SavePeerStatus(e) == \E p \in todo[e] :
    /\ pc[e] = "expiring"
    /\ IF p \in stored
       THEN /\ expired' = expired \cup {p} /\ connected' = connected \ {p}
            /\ todo' = [todo EXCEPT ![e] = @ \ {p}]
            /\ hit' = [hit EXCEPT ![e] = @ \cup {p}]
            /\ slipped' = IF InFlight(p) THEN slipped \cup {p} ELSE slipped
            /\ missed' = missed \ {p}
            /\ UNCHANGED pc
       ELSE /\ pc' = [pc EXCEPT ![e] = IF e \in Job THEN "waiting" ELSE "free"]
            /\ slipped' = slipped \cup todo[e] \cup hit[e]
            /\ todo' = [todo EXCEPT ![e] = {}]
            /\ hit' = [hit EXCEPT ![e] = {}]
            /\ UNCHANGED <<expired, connected, missed>>
    /\ UNCHANGED <<settings, stored, overdue, blocked, stream, sync, calls, listed, kind, cancelled, acts>>

\* Mutant of DisconnectPeers: the peers that are idle now are not worth a call.
DisconnectConnectedPeers(e) ==
    /\ pc[e] = "expiring" /\ todo[e] = {}
    /\ stream' = stream \ (hit[e] \cap connected)
    /\ hit' = [hit EXCEPT ![e] = {}]
    /\ pc' = [pc EXCEPT ![e] = IF e \in Job THEN "deciding" ELSE "free"]
    /\ UNCHANGED <<settings, rows, blocked, sync, calls, listed, kind, cancelled, todo, ghosts, acts>>

DisconnectPeers(e) ==
    /\ pc[e] = "expiring" /\ todo[e] = {}
    /\ stream' = stream \ hit[e]
    /\ hit' = [hit EXCEPT ![e] = {}]
    /\ pc' = [pc EXCEPT ![e] = IF e \in Job THEN "deciding" ELSE "free"]
    /\ UNCHANGED <<settings, rows, blocked, sync, calls, listed, kind, cancelled, todo, ghosts, acts>>

BlockUser(u) ==
    /\ u \notin blocked /\ pc[u] = "free" /\ acts < scope.calls
    /\ blocked' = blocked \cup {u}
    /\ todo' = [todo EXCEPT ![u] = Of(u) \ expired]
    /\ pc' = [pc EXCEPT ![u] = "expiring"]
    /\ slipped' = slipped \cup {p \in Of(u) : InFlight(p)}
    /\ acts' = acts + 1
    /\ UNCHANGED <<settings, rows, stream, sync, calls, listed, kind, cancelled, hit, missed>>

UnblockUser(u) ==
    /\ u \in blocked /\ acts < scope.calls
    /\ blocked' = blocked \ {u}
    /\ acts' = acts + 1
    /\ UNCHANGED <<settings, rows, stream, sync, calls, jobVars, expireVars, ghosts>>

-----------------------------------------------------------------------------
(* Peers *)

SyncPeer(p) ==
    /\ sync[p] = "idle" /\ p \in stored
    /\ ~checkIfPeerOwnerIsBlocked(p) /\ ~peerLoginExpired(p)
    /\ sync' = [sync EXCEPT ![p] = "checked"]
    /\ UNCHANGED <<settings, rows, blocked, stream, calls, jobVars, expireVars, ghosts, acts>>

(* What MarkPeerConnected asks of the schedulers: by the flags of the peer it has saved, *)
(* and by the settings, which are read after its transaction.                            *)
SchedulerCalls(ks) ==
    (IF "login" \in ks THEN << <<"ensure", "login">> >> ELSE <<>>) \o
    (IF "inactivity" \in ks THEN << <<"cancel", "inactivity">>, <<"spawn", "inactivity">> >> ELSE <<>>)
Flagged(p) == {k \in Kind : p \notin exempt[k]}

(* MarkPeerConnected(true): "whenever peer got connected that means that it logged in". *)
MarkConnected(p) ==
    /\ sync[p] = "checked" /\ p \in stored
    /\ connected' = connected \cup {p} /\ expired' = expired \ {p}
    /\ overdue' = Forget({p}, {"inactivity"})
    /\ sync' = [sync EXCEPT ![p] = "marked"]
    /\ calls' = [calls EXCEPT ![p] = SchedulerCalls(Flagged(p))]
    /\ UNCHANGED <<settings, stored, blocked, stream, jobVars, expireVars, ghosts, acts>>

ReadSettings(p) ==
    LET wanted == {k \in enabled : \E i \in DOMAIN calls[p] : calls[p][i][2] = k} IN
    /\ \/ sync[p] = "marked" /\ sync' = [sync EXCEPT ![p] = "connecting"]
       \/ sync[p] = "left" /\ sync' = [sync EXCEPT ![p] = "leaving"]
    /\ calls' = [calls EXCEPT ![p] = SchedulerCalls(wanted)]
    /\ UNCHANGED <<settings, rows, blocked, stream, jobVars, expireVars, ghosts, acts>>

(* OnPeerConnected; it fails for a peer deleted since. *)
Connect(p) ==
    /\ sync[p] = "connecting" /\ calls[p] = <<>> /\ p \in stored
    /\ stream' = stream \cup {p}
    /\ sync' = [sync EXCEPT ![p] = "open"]
    /\ UNCHANGED <<settings, rows, blocked, calls, jobVars, expireVars, ghosts, acts>>

(* The client leaves, or the stream finds its channel closed: OnPeerDisconnected. *)
Disconnect(p) ==
    /\ sync[p] = "open" /\ p \in stored
    /\ stream' = stream \ {p} /\ connected' = connected \ {p}
    /\ overdue' = Forget({p}, {"inactivity"})
    /\ sync' = [sync EXCEPT ![p] = "left"]
    /\ calls' = [calls EXCEPT ![p] = SchedulerCalls(Flagged(p))]
    /\ slipped' = slipped \ {p} /\ missed' = missed \ {p}
    /\ UNCHANGED <<settings, stored, expired, blocked, jobVars, expireVars, acts>>

EndSync(p) ==
    /\ calls[p] = <<>>
    /\ sync[p] = "leaving" \/ (p \notin stored /\ sync[p] # "idle")
    /\ sync' = [sync EXCEPT ![p] = "idle"]
    /\ stream' = stream \ {p} /\ slipped' = slipped \ {p}
    /\ UNCHANGED <<settings, rows, blocked, calls, jobVars, expireVars, missed, acts>>

(* LoginPeer with the owner's token; a login that has not expired changes nothing. *)
LoginPeer(p) ==
    /\ p \in stored /\ ~checkIfPeerOwnerIsBlocked(p) /\ peerLoginExpired(p)
    /\ expired' = expired \ {p}
    /\ overdue' = Forget({p}, {"login"})
    /\ UNCHANGED <<settings, stored, connected, blocked, stream, sync, calls, jobVars, expireVars, ghosts, acts>>

DeletePeer(p) ==
    /\ p \in stored /\ acts < scope.calls /\ acts' = acts + 1
    /\ stored' = stored \ {p} /\ connected' = connected \ {p} /\ expired' = expired \ {p}
    /\ overdue' = Forget({p}, Kind)
    /\ stream' = stream \ {p}
    /\ UNCHANGED <<settings, blocked, sync, calls, jobVars, expireVars, ghosts>>

Elapse(k, p) ==
    /\ p \in stored \ overdue[k] /\ (k = "inactivity" => p \notin connected)
    /\ overdue' = [overdue EXCEPT ![k] = @ \cup {p}]
    /\ UNCHANGED <<settings, stored, connected, expired, blocked, stream, sync, calls, jobVars, expireVars, ghosts, acts>>

-----------------------------------------------------------------------------
(* UpdateAccountSettings: the transaction, and the calls that follow it.   *)
(* old and new are the flag before and after, changed says that the        *)
(* duration is another one.                                                *)
SettingsCalls(k, old, new, changed) ==
    IF k = "login"
    THEN (IF old = new THEN <<>> ELSE IF new THEN << <<"ensure", k>> >> ELSE << <<"cancel", k>> >>) \o
         (IF changed THEN << <<"cancel", k>>, <<"ensure", k>> >> ELSE <<>>)
    ELSE IF new THEN (IF changed THEN << <<"cancel", k>>, <<"spawn", k>> >> ELSE <<>>)
         ELSE (IF old THEN << <<"cancel", k>> >> ELSE <<>>)

UpdateAccountSettings(a) == \E k \in scope.kinds, new \in BOOLEAN, changed \in BOOLEAN :
    /\ calls[a] = <<>> /\ acts < scope.calls
    /\ enabled' = IF new THEN enabled \cup {k} ELSE enabled \ {k}
    /\ IF changed THEN \E S \in {{}, stored \ IF k = "login" THEN {} ELSE connected} :
                           overdue' = [overdue EXCEPT ![k] = S]
       ELSE new # (k \in enabled) /\ UNCHANGED overdue
    /\ calls' = [calls EXCEPT ![a] = SettingsCalls(k, k \in enabled, new, changed)]
    /\ acts' = acts + 1
    /\ UNCHANGED <<scope, exempt, stored, connected, expired, blocked, stream, sync, jobVars, expireVars, ghosts>>

(* UpdatePeer sets or unsets one of the peer's flags; only setting it tells a scheduler. *)
UpdatePeer(a, p) == \E k \in scope.kinds :
    /\ calls[a] = <<>> /\ p \in stored /\ acts < scope.calls
    /\ exempt' = [exempt EXCEPT ![k] = IF p \in @ THEN @ \ {p} ELSE @ \cup {p}]
    /\ calls' = [calls EXCEPT ![a] =
                    IF p \notin exempt[k] \/ k \notin enabled THEN <<>>
                    ELSE << <<"cancel", k>>, <<IF k = "login" THEN "ensure" ELSE "spawn", k>> >>]
    /\ acts' = acts + 1
    /\ UNCHANGED <<scope, enabled, rows, blocked, stream, sync, jobVars, expireVars, ghosts>>

-----------------------------------------------------------------------------
JobStep(j) == \/ Schedule(j) \/ Tick(j) \/ Stop(j) \/ SavePeerStatus(j)
              \/ DisconnectPeers(j) \/ GetNextExpiration(j) \/ EndJob(j)
BlockStep(u) == SavePeerStatus(u) \/ DisconnectPeers(u)
SyncStep(p) == MarkConnected(p) \/ ReadSettings(p) \/ Connect(p) \/ EndSync(p)

Next ==
    \/ \E j \in Job : JobStep(j)
    \/ \E u \in User : BlockStep(u) \/ BlockUser(u) \/ UnblockUser(u)
    \/ \E p \in scope.callers : SyncStep(p) \/ SyncPeer(p) \/ Disconnect(p)
    \/ \E p \in Peer : LoginPeer(p)
    \/ \E p \in Peer : DeletePeer(p)
    \/ \E k \in scope.kinds, p \in Peer : Elapse(k, p)
    \/ \E h \in Peer \cup Admin : AskScheduler(h)
    \/ \E a \in Admin : UpdateAccountSettings(a)
    \/ \E a \in Admin, p \in scope.edited : UpdatePeer(a, p)

Spec == Init /\ [][Next]_vars

(* Goroutines run on, tickers fire, calls are carried through and streams  *)
(* notice that their channel is closed.  Nobody has to call anything.      *)
Fairness ==
    /\ \A j \in Job : WF_vars(JobStep(j))
    /\ \A u \in User : WF_vars(BlockStep(u))
    /\ \A p \in Peer : WF_vars(SyncStep(p)) /\ WF_vars(p \notin stream /\ Disconnect(p))
    /\ \A h \in Peer \cup Admin : WF_vars(AskScheduler(h))
FairSpec == Spec /\ Fairness

-----------------------------------------------------------------------------
(* "This will trigger peer disconnect": a peer whose login is marked       *)
(* expired has no open stream, unless whoever marked it is about to close  *)
(* it, or the stream slipped through: its Sync had been let in before and  *)
(* created the channel after CloseChannels, or the expiry gave up half     *)
(* way because another of its peers was deleted.                           *)
ExpiredStreamIsClosed == \A p \in expired \cap stream :
    p \in slipped \/ \E e \in Job \cup User : p \in hit[e]

(* A blocked user keeps no stream and gets none: an open stream of one of  *)
(* the user's peers is on somebody's list to be closed, or it slipped      *)
(* through the same two gaps.                                              *)
BlockedStreamIsClosed == \A p \in stream :
    Owner[p] \in blocked => p \in slipped \/ \E e \in Job \cup User : p \in todo[e] \cup hit[e]

(* The entry of the jobs map is a goroutine that runs and can be cancelled: *)
(* IsSchedulerRunning never vouches for a job that is gone or cancelled.   *)
ListedJobRuns == \A k \in Kind : listed[k] # None =>
    /\ pc[listed[k]] \notin {"free", "spawned"}
    /\ kind[listed[k]] = k
    /\ listed[k] \notin cancelled

(* A connected peer whose login is overdue is expired, as long as login    *)
(* expiration stays enabled for the account and for the peer, unless it    *)
(* was missed: it connected while the job had decided to end and was still *)
(* listed.                                                                 *)
OverdueIsExpired == \A p \in Peer :
    (p \in connected \cap Late("login") /\ "login" \in enabled)
        ~> (p \notin connected \cap Late("login") \/ "login" \notin enabled \/ p \in missed)
=============================================================================
