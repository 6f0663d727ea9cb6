---------------------------- MODULE UpdateDelivery ----------------------------
(***************************************************************************)
(* How a change of an account reaches a connected peer of the management   *)
(* server: the request handler commits the change and asks the network map *)
(* controller for updates, at once (UpdateAccountPeers) or buffered        *)
(* (bufferSendUpdateAccountPeers); a sender reads the account through the  *)
(* request buffer, computes the peer's map and puts it on the peer's       *)
(* update channel; the Sync stream debounces the channel and sends.        *)
(*                                                                         *)
(* One account, one of its peers.  An account is its version, the number   *)
(* of changes so far, which is also the serial of the maps made of it.     *)
(* Handlers are the goroutines of API requests, Timers those of fired      *)
(* buffer timers, and Sync is the handler of the peer's Sync streams, one  *)
(* after the other (PeerSync has the overlapping ones).                    *)
(***************************************************************************)
EXTENDS Naturals, Sequences, FiniteSets

CONSTANTS Handlers, Timers, Sync, None,
          channelBufferSize,
          MaxVersion,     \* bound on the changes of the account
          MaxStreams,     \* bound on the Sync streams
          MaxTokens       \* bound on the token refreshes

Senders == Handlers \cup Timers
Procs == Senders \cup {Sync}

MapOf(v) == [kind |-> "map", n |-> v]
Token(k) == [kind |-> "control", n |-> k]
Updates == {MapOf(v) : v \in 0 .. MaxVersion} \cup {Token(k) : k \in 1 .. MaxTokens}

\* None is no process, and no channel: nil, not an empty one.
ASSUME ConstantsAssumption ==
  /\ channelBufferSize \in Nat \ {0}
  /\ {MaxVersion, MaxStreams, MaxTokens} \subseteq Nat
  /\ Sync \notin Senders /\ None \notin Handlers
  /\ None \notin Seq(Updates)

VARIABLES
  version,     \* of the account in the store
  pc,          \* where each goroutine is
  seen,        \* the version each goroutine has read
  requests,    \* AccountRequestBuffer: goroutines waiting for the next batch,
  batches,     \*   and the batches whose account is being read
  mu,          \* bufferUpdate: the handler that holds the lock, or None
  update,      \*   a notification came while it was held
  next,        \*   the timer is armed
  channel,     \* the peer's update channel, or None
  pending,     \* UpdateDebouncer: updates held back
  timer,       \*   whether its timer runs
  sent,        \* the updates sent on the stream
  tokens,      \* how many token refreshes there were
  streams,     \* how many Sync streams there were
  known,       \* the newest version the peer has been sent
  missed       \* the newest version whose map found no room, or no channel
               \*   yet though the stream had already read an older one, or
               \*   gave way to an older map in the debouncer

sender == <<version, pc, seen, requests, batches, mu, update, next>>
stream == <<channel, pending, timer, sent, tokens, streams, known, missed>>
vars == <<sender, stream>>

Newer(v, w) == IF v < w THEN w ELSE v

TypeOK ==
  /\ version \in 0 .. MaxVersion
  /\ pc \in [Procs -> {"idle", "notify", "asking", "waiting", "loaded", "send",
                       "sent", "unlock", "initial", "serving"}]
  /\ seen \in [Procs -> 0 .. version]
  /\ requests \subseteq Procs /\ batches \subseteq SUBSET Procs
  /\ mu \in Handlers \cup {None}
  /\ {update, next, timer} \subseteq BOOLEAN
  /\ channel = None \/ Len(channel) <= channelBufferSize
  /\ {known, missed} \subseteq 0 .. version

Init ==
  /\ version = 0 /\ pc = [p \in Procs |-> "idle"] /\ seen = [p \in Procs |-> 0]
  /\ requests = {} /\ batches = {}
  /\ mu = None /\ update = FALSE /\ next = FALSE
  /\ channel = None /\ pending = <<>> /\ timer = FALSE
  /\ sent = <<>> /\ tokens = 0 /\ streams = 0 /\ known = 0 /\ missed = 0

Goto(p, l) == pc' = [pc EXCEPT ![p] = l]

-----------------------------------------------------------------------------
(* A change and its notification. *)

Change(h) ==
  /\ pc[h] = "idle" /\ version < MaxVersion
  /\ version' = version + 1
  /\ Goto(h, "notify")
  /\ UNCHANGED <<seen, requests, batches, mu, update, next, stream>>

UpdateAccountPeers(h) ==
  /\ pc[h] = "notify"
  /\ Goto(h, "asking")
  /\ UNCHANGED <<version, seen, requests, batches, mu, update, next, stream>>

\* OnPeersAdded, OnPeersUpdated and OnPeersDeleted: who holds the lock sends;
\* the others leave a mark for it.
BufferSendUpdateAccountPeers(h) ==
  /\ pc[h] = "notify"
  /\ \/ /\ mu = None
        /\ mu' = h /\ next' = FALSE
        /\ Goto(h, "asking")
        /\ UNCHANGED update
     \/ /\ mu # None
        /\ update' = TRUE
        /\ Goto(h, "idle")
        /\ UNCHANGED <<mu, next>>
  /\ UNCHANGED <<version, seen, requests, batches, stream>>

\* Mutant of CheckUpdate: the mark is cleared and no timer armed.
ClearUpdate(h) ==
  /\ pc[h] = "sent" /\ mu = h
  /\ update' = FALSE
  /\ Goto(h, "unlock")
  /\ UNCHANGED <<version, seen, requests, batches, mu, next, stream>>

\* The holder arms the timer when somebody left a mark; a mark left after
\* this look, before the lock is free, stays behind.
CheckUpdate(h) ==
  /\ pc[h] = "sent" /\ mu = h
  /\ update' = FALSE
  /\ next' = (next \/ update)
  /\ Goto(h, "unlock")
  /\ UNCHANGED <<version, seen, requests, batches, mu, stream>>

Unlock(h) ==
  /\ pc[h] = "unlock"
  /\ mu' = None
  /\ Goto(h, "idle")
  /\ UNCHANGED <<version, seen, requests, batches, update, next, stream>>

TimerFires(t) ==
  /\ next /\ pc[t] = "idle"
  /\ next' = FALSE
  /\ Goto(t, "asking")
  /\ UNCHANGED <<version, seen, requests, batches, mu, update, stream>>

-----------------------------------------------------------------------------
(* AccountRequestBuffer. *)

GetAccountWithBackpressure(p) ==
  /\ pc[p] = "asking"
  /\ requests' = requests \cup {p}
  /\ Goto(p, "waiting")
  /\ UNCHANGED <<version, seen, batches, mu, update, next, stream>>

\* A batch takes the requests that have come in, then reads the account.
TakeBatch ==
  /\ requests # {}
  /\ batches' = batches \cup {requests}
  /\ requests' = {}
  /\ UNCHANGED <<version, pc, seen, mu, update, next, stream>>

ProcessGetAccountBatch ==
  \E batch \in batches :
    /\ batches' = batches \ {batch}
    /\ seen' = [p \in Procs |-> IF p \in batch THEN version ELSE seen[p]]
    /\ pc' = [p \in Procs |-> IF p \in batch THEN "loaded" ELSE pc[p]]
    /\ UNCHANGED <<version, requests, mu, update, next, stream>>

-----------------------------------------------------------------------------
(* sendUpdateAccountPeers and PeersUpdateManager.SendUpdate. *)

Behind(p) == IF pc[Sync] \in {"loaded", "initial"} THEN Newer(missed, seen[p]) ELSE missed

HasChannel(p) ==
  /\ pc[p] = "loaded"
  /\ IF channel = None THEN Goto(p, "sent") /\ missed' = Behind(p)
     ELSE Goto(p, "send") /\ UNCHANGED missed
  /\ UNCHANGED <<version, seen, requests, batches, mu, update, next,
                 channel, pending, timer, sent, tokens, streams, known>>

\* A full channel drops the update.
SendUpdate(p) ==
  /\ pc[p] = "send"
  /\ Goto(p, "sent")
  /\ \/ /\ channel = None
        /\ missed' = Behind(p) /\ UNCHANGED channel
     \/ /\ channel # None /\ Len(channel) = channelBufferSize
        /\ missed' = Newer(missed, seen[p]) /\ UNCHANGED channel
     \/ /\ channel # None /\ Len(channel) < channelBufferSize
        /\ channel' = Append(channel, MapOf(seen[p])) /\ UNCHANGED missed
  /\ UNCHANGED <<version, seen, requests, batches, mu, update, next,
                 pending, timer, sent, tokens, streams, known>>

Done(p) ==
  /\ pc[p] = "sent" /\ mu # p
  /\ Goto(p, "idle")
  /\ UNCHANGED <<version, seen, requests, batches, mu, update, next, stream>>

\* pushNewRelayTokens, while the stream of the peer lasts.
PushNewTokens ==
  /\ pc[Sync] = "serving" /\ tokens < MaxTokens
  /\ tokens' = tokens + 1
  /\ channel' = IF Len(channel) < channelBufferSize THEN Append(channel, Token(tokens')) ELSE channel
  /\ UNCHANGED <<sender, pending, timer, sent, streams, known, missed>>

-----------------------------------------------------------------------------
(* The Sync stream of the peer. *)

\* SyncPeer reads the account like a sender.
Connect ==
  /\ pc[Sync] = "idle" /\ streams < MaxStreams
  /\ streams' = streams + 1
  /\ Goto(Sync, "asking")
  /\ UNCHANGED <<version, seen, requests, batches, mu, update, next,
                 channel, pending, timer, sent, tokens, known, missed>>

SendInitialSync ==
  /\ pc[Sync] = "loaded"
  /\ known' = Newer(known, seen[Sync])
  /\ Goto(Sync, "initial")
  /\ UNCHANGED <<version, seen, requests, batches, mu, update, next,
                 channel, pending, timer, sent, tokens, streams, missed>>

CreateChannel ==
  /\ pc[Sync] = "initial"
  /\ channel' = <<>>
  /\ Goto(Sync, "serving")
  /\ UNCHANGED <<version, seen, requests, batches, mu, update, next,
                 pending, timer, sent, tokens, streams, known, missed>>

\* Sent updates reach the client, which ignores maps older than its own.
SendUpdates(us) ==
  /\ sent' = sent \o us
  /\ known' = CHOOSE v \in {known} \cup {us[i].n : i \in {j \in DOMAIN us : us[j].kind = "map"}} :
                \A i \in DOMAIN us : us[i].kind = "map" => us[i].n <= v /\ known <= v

\* Mutant of Coalesced: the last update gives way, whatever it is.
CoalescedAlways(u) ==
  IF pending = <<>> THEN <<u>> ELSE [pending EXCEPT ![Len(pending)] = u]

\* A map replaces the map at the end of what is held back.
Coalesced(u) ==
  IF pending # <<>> /\ u.kind = "map" /\ pending[Len(pending)].kind = "map"
  THEN [pending EXCEPT ![Len(pending)] = u]
  ELSE Append(pending, u)

\* The version that making room for u drops.
Superseded(u) == IF Len(Coalesced(u)) > Len(pending) THEN 0 ELSE pending[Len(pending)].n

\* An update is sent at once, or held back while the debounce timer runs.
ProcessUpdate ==
  LET u == Head(channel)
  IN /\ pc[Sync] = "serving" /\ channel # <<>>
     /\ channel' = Tail(channel)
     /\ timer' = TRUE
     /\ \/ /\ timer
           /\ pending' = Coalesced(u)
           /\ missed' = IF Superseded(u) > u.n THEN Newer(missed, Superseded(u)) ELSE missed
           /\ UNCHANGED <<sent, known>>
        \/ /\ ~timer
           /\ SendUpdates(<<u>>)
           /\ UNCHANGED <<pending, missed>>
     /\ UNCHANGED <<sender, tokens, streams>>

\* Mutant of GetPendingUpdates: only a quiet period is noticed.
GetNoPendingUpdates ==
  /\ pc[Sync] = "serving" /\ timer /\ pending = <<>>
  /\ timer' = FALSE
  /\ UNCHANGED <<sender, channel, pending, sent, tokens, streams, known, missed>>

\* The debounce timer expires: what was held back is sent and the timer starts
\* again; without anything, updates are sent at once from now on.
GetPendingUpdates ==
  /\ pc[Sync] = "serving" /\ timer
  /\ timer' = (pending # <<>>)
  /\ SendUpdates(pending)
  /\ pending' = <<>>
  /\ UNCHANGED <<sender, channel, tokens, streams, missed>>

\* The client is gone: cancelPeerRoutines closes the channel, Stop clears the
\* debouncer.
StreamEnds ==
  /\ pc[Sync] = "serving"
  /\ channel' = None /\ pending' = <<>> /\ timer' = FALSE /\ sent' = <<>>
  /\ Goto(Sync, "idle")
  /\ UNCHANGED <<version, seen, requests, batches, mu, update, next, tokens, streams, known, missed>>

-----------------------------------------------------------------------------
Sender(p) == HasChannel(p) \/ SendUpdate(p) \/ Done(p)

Notify(h) == UpdateAccountPeers(h) \/ BufferSendUpdateAccountPeers(h)

HandleUpdates == ProcessUpdate \/ GetPendingUpdates

StartStream == SendInitialSync \/ CreateChannel

Next ==
  \/ \E h \in Handlers : Change(h) \/ Notify(h) \/ CheckUpdate(h) \/ Unlock(h)
  \/ \E t \in Timers : TimerFires(t)
  \/ \E p \in Procs : GetAccountWithBackpressure(p)
  \/ TakeBatch \/ ProcessGetAccountBatch
  \/ \E p \in Senders : Sender(p)
  \/ Connect \/ StartStream \/ HandleUpdates \/ StreamEnds \/ PushNewTokens

Spec == Init /\ [][Next]_vars

\* Goroutines are scheduled, timers fire and requests are answered; nobody has
\* to change the account, connect, or stay.
Fairness ==
  /\ \A h \in Handlers : WF_vars(Notify(h)) /\ WF_vars(CheckUpdate(h)) /\ WF_vars(Unlock(h))
  /\ \A t \in Timers : WF_vars(TimerFires(t))
  /\ \A p \in Procs : WF_vars(GetAccountWithBackpressure(p))
  /\ WF_vars(TakeBatch) /\ WF_vars(ProcessGetAccountBatch)
  /\ \A p \in Senders : WF_vars(Sender(p))
  /\ WF_vars(StartStream) /\ WF_vars(HandleUpdates)

FairSpec == Spec /\ Fairness

-----------------------------------------------------------------------------
(* Properties. *)

Queue == pending \o (IF channel = None THEN <<>> ELSE channel)

\* Whenever a connected peer is behind, something still on its way explains it:
\* a notification, an armed timer, a sender that has read the newest version, or
\* its map on the channel or in the debouncer.  The code has four leaks, which are
\* named: a full channel, a channel that did not exist yet, an older map coming
\* after the newest and replacing it (these three in "missed"), and a mark that
\* bufferSendUpdateAccountPeers left after the holder's last look.
LagHasCause ==
  (pc[Sync] = "serving" /\ known < version) =>
    \/ next \/ update \/ missed = version
    \/ \E p \in Senders : \/ pc[p] \in {"notify", "asking", "waiting"}
                          \/ pc[p] \in {"loaded", "send"} /\ seen[p] = version
    \/ \E i \in DOMAIN Queue : Queue[i] = MapOf(version)

\* A connected peer gets the newest map, unless one of the four leaks hit it.
EventuallyCurrent ==
  []<>(pc[Sync] # "serving" \/ known = version \/ missed = version \/ update)

\* The stream sends what the channel accepted, in order and nothing left out,
\* except maps right before newer ones: "preserves the order of messages".
Abstract == INSTANCE UpdateStream WITH Update <- Updates, queue <- Queue
ImplementsUpdateStream == Abstract!Spec
=============================================================================
