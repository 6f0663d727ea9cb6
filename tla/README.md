# TLA+ models of the NetBird server components

This directory holds TLA+ specifications of the concurrent core of the NetBird
server code under `src/server`: the signal server, the relay server, the relay
client with its health check and message buffers, and of the management server the
Sync streams, the delivery of updates, the expiration of logins, the configuration of
an account, the network maps computed from it and the control of reverse proxies.  TLC checks the models on small
instances, TLAPS proves every safety property of the runs that pass for every size.

Contents: [inventory](#inventory), [plan](#plan), [modules](#modules-and-code),
[runs](#runs-and-bounds), [fairness](#fairness), [proofs](#proofs),
[findings and known limits](#findings-and-known-limits-of-the-code),
[what is not modelled](#not-modelled).

## Inventory

The repository holds four Go services (management, signal, relay, and `combined`,
which runs all three in one process), the client libraries the agent uses to talk
to them (`shared`), deployment tools and a web dashboard.  What follows lists the
parts with state of their own, how they interact, and what makes them correct.
The prefix `src/server/` is left out.

An agent logs in to *management* and keeps one Sync stream open, over which it
receives its network map.  It exchanges connection offers with other agents
through *signal*.  Two agents that cannot reach each other directly each keep a
connection to a *relay* server, over which the relay client offers one `net.Conn`
per remote peer to WireGuard.  All three servers have the same problem at heart: a
peer reconnects before the server has noticed the end of its last connection, and
the handlers of the old and the new one share state that is indexed by peer.

### Signal server (`signal/peer`, `signal/server`) - `SignalRegistry`

*State*: `Registry.Peers`, a `sync.Map` from peer id to the `*Peer` of its current
stream; the `ActivePeers` counter; one `ConnectStream` handler per gRPC stream with
a cancel function; one goroutine per forwarded message.
*Operations*: `Register` (LoadOrStore, compare StreamID, CompareAndSwap, retry,
cancel the old stream), `Deregister` (CompareAndDelete), `Send`,
`forwardMessageToPeer` (second lookup, send, timeout that cancels the target).
*Hard*: all registry operations of several streams of one peer interleave; the
cancel of a replaced stream and its own deregistration run late; a send that times
out holds a stream that may have been replaced.
*Correct when*: the newest accepted stream is the registered one, every other one
is told to stop, no handler removes another stream's entry, and the counter counts
the entries.

### Relay server: presence (`relay/server`, `relay/server/store`) - `RelayServer`

*State*: `Store.peers`; `PeerNotifier.listeners` with, per `Listener`, two sets of
interesting peers and a bounded event channel; per connection the goroutines of
`Accept`, `Work` and `listenForEvents`; five locks, some held while waiting.
*Operations*: `Accept`, `AddPeer`/`DeletePeer`, `PeerCameOnline`/`PeerWentOffline`,
subscription and unsubscription, delivery of notices, `Shutdown`.
*Hard*: a connection that replaces another; events against subscriptions; a full
channel; `Shutdown` against `Accept`.
*Correct when*: the stored connection is the only open one, a subscriber told that
a peer is online is told when it leaves, nothing survives `Shutdown`, and no cycle
of waits arises.

### Relay health check (`shared/relay/healthcheck`) - `HealthCheck`

*State*: two tickers and a failure counter in the `Sender`, one of each in the
`Receiver`, three one-slot channels between goroutines, messages that may be late
or (QUIC datagrams) lost.
*Correct when*: a path that works is never given up, one that does not is given up
in bounded time, and every goroutine ends.

### Relay client (`shared/relay/client`) - `RelayClient`, `EarlyMsgBuffer`

*State*: `serviceIsRunning`, the current connection and its
`PeersStateSubscription`, the map of `connContainer`s, waiting channels, the early
message buffer with its timer, the buffer pool; goroutines `readLoop`,
`listenForStopEvents`, the callers of `OpenConn`, `Close` and `Conn.Read`.
*Operations*: `Connect`, `OpenConn`, `close` from four places, presence notices,
transport messages, cleanup of early messages.
*Hard*: `close` waits for a read loop that itself calls `close`; an `OpenConn` that
waits while the connection is lost, made again, or its peer leaves; channels that
must not be closed twice; pooled buffers that change owner between locks.
*Correct when*: open connections are in the map and belong to the current
connection, every close ends, the owner is told of a lost connection, the client
and server agree on whose departure matters, and each buffer is freed once.

### Relay manager, guard and server picker (`shared/relay/client`) - not modelled

*State*: the home `Client`, `RelayTrack`s of foreign servers each with a lock, the
guard's two one-slot channels, disconnect listeners by server address.
*Operations*: `Serve`, `OpenConn`, `onServerDisconnected`, `StartReconnectTrys`,
`PickServer`, `cleanUpUnusedRelays`.
*Hard*: the picked client may be lost before `storeClient` installs its disconnect
listener; eviction goes by address and may hit a newer client; the picker's timeout
leaves behind a client that connects late; a client drained from the guard's
channel is not closed; the cleanup waits for a track's lock with the map locked.
*Correct when*: without a home connection a reconnection is under way, and no
connected client is left that nobody knows.

### Relay transport, messages, authentication (`relay/server/listener`, `shared/relay/messages`, `shared/relay/auth`)

WebSocket and QUIC listeners hand connections to `Relay.Accept`; messages are
stateless byte layouts; tokens are HMACs.  No shared state of their own.

### Management: Sync streams (`management/internals/shared/grpc`, `management/server`, `.../network_map`) - `PeerSync`

*State per peer*: a lock, `PeerStatus` in the store, the update channel in
`PeersUpdateManager`, the token refresh, membership of the ephemeral list; the
`syncSem` counter for all.
*Operations*: `Sync`, `handleUpdates`, `cancelPeerRoutines`, `MarkPeerConnected`,
`OnPeerDisconnected`, `DeletePeer`, `expireAndUpdatePeers`.
*Hard*: connect and disconnect hold the lock but undo by peer id what a newer
stream has set up; `LastSeen` is both a time and the token that tells streams
apart; deletion and expiration do not take the lock.
*Correct when*: the peer is shown connected only while a stream will undo it, the
routines come and go together, and nothing is left when all streams have ended.

### Management: update delivery (`.../network_map/controller`, `.../update_channel`, `management/internals/shared/grpc`, `management/server/account_request_buffer.go`) - `UpdateDelivery`, `UpdateStream`

*State*: `sendAccountUpdateLocks` (a lock taken with TryLock, a mark, a timer per
account), the requests waiting for the next read of an account, a channel of 100
updates per peer, the `UpdateDebouncer` of each stream.
*Operations*: `UpdateAccountPeers` at once, `bufferSendUpdateAccountPeers`, the batch of
account reads, `SendUpdate`, `handleUpdates` with the debouncer, token refreshes on the
same channel.
*Hard*: a mark that is set between the holder's look and its `Unlock`; two senders that
read different versions and send in the other order; an update dropped on a full
channel; a change after the first map was read and before the channel exists.
*Correct when*: a connected peer ends with the newest map, and the stream keeps the
order of what the channel accepted.

### Management: login expiration (`management/server/scheduler.go`, `account.go`, `peer.go`, `user.go`) - `LoginExpiry`

*State*: `PeerStatus.Connected` and `LoginExpired`, `LastLogin`, the expiration flags of
account and peer, `User.Blocked`, `DefaultScheduler.jobs` with a cancel channel per
account, one goroutine per job.
*Operations*: `SyncPeer`, `MarkPeerConnected`, `LoginPeer`, `expireAndUpdatePeers` from a job
or from blocking a user, `Schedule`, `Cancel`, `UpdateAccountSettings`, `UpdatePeer`,
`DeletePeer`.
*Hard*: a job that ends deletes the entry by account, whoever is listed; "is it
running?" is asked of a job that has decided to end; rows and channels are written one
after the other from copies; a stream is let in, marked and given a channel in three steps.
*Correct when*: an expired or blocked peer keeps no stream, the jobs map lists a job
that runs, and a connected peer whose login is overdue is expired in the end.

### Management: configuration of an account (`management/server`, `.../networks`, `.../zones`) - `AccountConfig`, `AccountMembers`

*State*: groups, policies, posture checks, routes, name servers, DNS settings, zones,
networks with routers and resources, setup keys, users and peers, which refer to each
other by id; the network serial.
*Operations*: creating, saving and deleting each of them; `AddPeer`, `SaveOrAddUsers`,
`SyncUserJWTGroups`, `DeleteUser`.
*Hard*: each operation predicts from a few fields whether any peer's map changes; each
deletion must know every kind of object that may refer to what it deletes; some calls read
what they act on before their transaction.
*Correct when*: no reference that is looked up on saving dangles later, no change of a map
goes unsent (but for the cases under the limits), and a setup key is not used more often than
it may be.

### Management: network maps (`management/server/types`) - `NetworkMap`

*State*: none; a map is computed from an account in two phases, a cut of the account for
the peer and the calculation from the cut alone.
*Hard*: whatever the second phase looks at must be in the cut; the maps of two peers are
computed apart and must agree on the tunnel between them.
*Correct when*: the cut loses nothing, peers see each other mutually, and a routing peer
admits whom it is a next hop for.

### Management: reverse proxies (`.../reverseproxy`, `management/internals/shared/grpc/proxy.go`) - `AccountServices`, `ProxyControl`

*State*: the services of an account with their targets, domain and cluster; the row of
each proxy with its session; `connectedProxies` by proxy id, `clusterProxies` by address,
a channel of 100 mappings per stream.
*Operations*: creating, saving, deleting and reloading services; a peer that exposes,
renews and stops a service, and the reaper; `GetMappingUpdate` with its snapshot, sender
and cleanup; `SendServiceUpdateToCluster`.
*Hard*: a notice is sent after its transaction, so it may meet a snapshot that has or has
not seen the change; streams of a reconnecting proxy overlap and clean up by proxy id; a
service that moves to another cluster has to leave the old one; a service that is renewed
while the reaper looks at it.
*Correct when*: a connected proxy serves the services of its cluster as they are, and is not
marked disconnected.

### Management: jobs (`management/server/job`) - not modelled

*State*: `jobChannels` and `pending`.  *Hard*: `CloseChannel` by peer id against a
newer stream; `SendJob`'s two critical sections.  *Correct when*: a pending job is
answered, failed or still waits for a live stream.

### Management: ephemeral peers (`management/internals/modules/peers/ephemeral`) - not modelled

*State*: a linked list with deadlines, one timer.  *Hard*: a timer that has fired
waits for the lock while the list changes; a peer that reconnects between the
collection and `DeletePeers`.

### The rest of management

The SQL store, roles and permissions, invitations and personal access tokens, domains,
the HTTP API and identity-provider clients (translation), the login filter (data), access
tokens.

### Clients, tools, dashboard

The gRPC clients of signal and management (`shared/signal`, `shared/management`),
`combined`, the provisioner and installer scripts, and the dashboard.

## Plan

Every module declares its parameters as CONSTANTS with a named assumption, has one
action per operation or per stretch of code between two points where others may
run, and states invariants as conjunctions of named parts; recursion is avoided, so
that every module can be proved about.  The order follows importance and risk:

| # | Module | Abstract specification | Theorems | State |
|---|--------|------------------------|----------|-------|
| 1 | `SignalRegistry` | `SignalService`, an atomic registry | types, registry, refinement | done |
| 2 | `RelayServer` | - | store invariants, presence notices | done |
| 3 | `RelayClient` | - | connections, waiters, interest | done |
| 4 | `HealthCheck` | - | types, the Sender's channel, both windows, that a live connection is kept | done |
| 5 | `EarlyMsgBuffer` | - | ownership of buffers, capacities | done |
| 6 | `PeerSync` | - | all its safety invariants | done |
| 7 | `UpdateDelivery` | `UpdateStream`, an ordered stream that may skip superseded maps | LagHasCause, the refinement | done |
| 8 | `NetworkMap` | the map of the whole account | pruning, mutual visibility, admission | done |
| 9 | `AccountConfig`, on `NetworkMap` | - | NoDanglingReference, NoMissedUpdate | done |
| 10 | `AccountMembers`, on `AccountConfig` | - | KeyLimitHolds | done |
| 11 | `LoginExpiry` | - | ListedJobRuns, ExpiredStreamIsClosed, BlockedStreamIsClosed | done |
| 12 | `AccountServices`, on `AccountMembers` | - | its part of NoDanglingReference | done |
| 13 | `ProxyControl`, on `AccountServices` | the set of enabled services of a cluster | SessionRowKept, ProxyIsCurrent | done |
| 14 | `RelayManager` on top of a reduced `RelayClient`: guard, picker, tracks | a home connection or a reconnection | every live client is known | not begun |
| 15 | `EphemeralPeers`: list, timer, cleanup against reconnection | - | a timer runs for the first deadline | not begun |
| 16 | `Jobs`: channels, pending, late close | - | pending jobs have a stream or fail | not begun |

`RelayServer` and `RelayClient` are not composed: each models the other as an
environment (`RelayClient`'s `Server` answers as `RelayServer` does, but sends
notices in the order of events; `RelayServer`'s `Client` sends any legal
subscription).  The modules of management share their actors, not their state:
`UpdateDelivery` takes from `PeerSync` that a served stream is the registered one or sees
its channel closed, and so follows one stream after the other; `LoginExpiry` likewise
follows one stream per peer; `AccountConfig` decides *whether* maps are sent again,
`UpdateDelivery` shows what then becomes of them, with the account reduced to a version.
`ProxyControl` extends `AccountServices`, that `AccountMembers`, that `AccountConfig` and that
`NetworkMap`: the properties of the maps are checked in every state that any of the
operations reach, and the proxies are told of services by the operations themselves.

Every safety property of the modules written so far has its theorem; what the plan has
left are modules 14 to 16.  The liveness properties stay with TLC (see
[proofs](#proofs)).

## Modules and code

Each `MC` module instantiates the module it is named after for TLC, and each `Proofs`
module extends it with its theorems; `RelayConnProofs` has those of `EarlyMsgBuffer` and
of `HealthCheck`, and `AccountProofs` those of everything below `ProxyControl`.  `PROJECT.json` maps every definition to its lines.
Definitions that exist to be swapped in for one of the code's steps (a dropped guard,
a missing reset) say `Mutant` in their comment and belong to no specification; each
property has one that TLC finds violating it.

### `SignalRegistry`, `SignalService`

A stream is one run of `ConnectStream` with the `*peer.Peer` it creates.

| State | Code |
|-------|------|
| `peers`, `active` | `Registry.Peers`, the `ActivePeers` counter |
| `pc`, `streamID`, `seen` | the handler's progress, `Peer.StreamID`, the `pp` that `Register` loaded |
| `cancelled`, `closed` | `Peer.Cancel` was called, the gRPC context is done |
| `fwd` | `Send` and the goroutine of `forwardMessageToPeer` with the peer it looked up |

`NewPeer`; `StoreNew`, `LoadOlder`, `Refuse` (LoadOrStore and the comparison),
`CompareAndSwap`, `CancelOld`, `CountUp`; `Listen`, `SendHeader`, `StopServing`;
`Deregister`, `CountDown`; `Send`, `Lookup`, `SendReturns`, `SendTimesOut`.  Each
operation on the `sync.Map` is one step, since the registry's own mutex is never
taken.  The clock may return any reading of `Time`, also an earlier one.

### `RelayServer`

A connection is one `Accept` with its `*Peer`, its `Work` goroutine and its
`listenForEvents` goroutine.

| State | Code |
|-------|------|
| `peers`, `broken` | `Store.peers`, connections closed or lost |
| `pc`, `responding` | `Accept` and `Work`; `Accept` calls that still answer the handshake while `Work` runs |
| `listeners`, `intOn`, `intOff`, `eventChan` | `PeerNotifier.listeners` and each `Listener`'s fields |
| `lpc`, `batch` | `listenForEvents` and the events it has drained |
| `todo`, `blockedOn` | how far a notification has come and the full channel it waits for |
| `reply`, `view` | the answer to a subscription; what the client was last told of a peer |
| `server`, `toClose` | `Shutdown` |

Locks are modelled where their holder may wait: `closeMu`, `peersLock`,
`listenersMutex`, `Listener.mu`, `notificationMutex`.

### `RelayClient`

Connections are numbered by their `Connect`, calls of `OpenConn` by their order; a
call's number is the identity of its container and its waiting channel.

| State | Code |
|-------|------|
| `gen`, `running`, `connUp`, `stopped` | `c.relayConn`, `c.serviceIsRunning`, open connections, stopped Receivers |
| `pc`, `offline` | `readLoop` and `listenForStopEvents` of each connection, the caller of `Close`; the notice being handled |
| `conns`, `container`, `openedIn` | `c.conns` and the containers |
| `waiting`, `listen`, `waitCh` | each `PeersStateSubscription`'s maps, the channels in them |
| `cpc`, `call`, `target`, `sub` | callers in `OpenConn` |
| `toServer`, `toClient`, `online`, `interestOn`, `interestOff` | messages under way and the server's part |

### `HealthCheck`

`StartHealthCheck` of the Sender, `handleHealthcheckEvents` that writes for it,
`OnHCResponse` and the end of `Work` at the server; `handleHealthCheck`,
`waitForHealthcheck` and `OnTimeout` at the client; a `Pass` of time.  The clock
waits while a goroutine can step (their steps take no time compared with seconds), and
what is possible at the same instant comes in any order, which covers Go's random
`select`.  Messages are ages in a set.  `FastPath` and `ShortWrites` say what the periods
leave room for: a round trip within `HealthCheckTimeout` (20 s, which the Sender's window
adds to its interval), and a write that gives up (after 10 s) before the next tick of 25 s.

### `EarlyMsgBuffer`

Messages are numbered as they arrive.  `Lookup`, `Put`/`PutFails`, `Write` are the
read loop between its locks; `OpenConn` pops the early message under the lock and
`Flush` writes it after; `Expire`, `Fire` and `RemoveExpired` are the timer, its
goroutine waiting for the mutex, and the cleanup.  `freed` counts returns to the pool.
The list of early messages is the set `early`: they enter it in the order of their
numbers, so its front is the least.

### `PeerSync`

| State | Code |
|-------|------|
| `stored`, `status` | the peer's row, its `PeerStatus` |
| `channel`, `closed` | `peerChannels[peerID]`, by the stream it was created for; closed channels |
| `refresh`, `listed` | `SetupRefresh`/`CancelRefresh`; membership of the EphemeralManager's list |
| `lock`, `syncSem` | the peer's lock, `Server.syncSem` |
| `pc`, `start` | each `Sync` call and its `syncStart` |
| `apc`, `read`, `overwritten` | `DeletePeer`, `expireAndUpdatePeers`; `overwritten` is a history variable |

`SyncAndMarkPeer` stands for `SyncPeer` and `MarkPeerConnected`, which run under the
lock; `Serve` for the ephemeral unlisting, `CreateChannel`, `SetupRefresh`, the
release of the lock and of `syncSem`, which nothing of this peer can see half done
except the administrator, whose deletion before or after `Serve` covers both cases.
`OnPeerDisconnected` and `CancelPeerRoutines` are the two halves of the end, also
of a failed `Sync`.

### `UpdateDelivery`, `UpdateStream`

An account is its version, which is also the serial of the maps made of it.

| State | Code |
|-------|------|
| `version`, `seen` | the account in the store; the version each goroutine has read |
| `requests`, `batches` | `AccountRequestBuffer.getAccountRequests`; batches taken whose account is being read |
| `mu`, `update`, `next` | `bufferUpdate`: its lock, mark and timer |
| `channel`, `pending`, `timer` | the peer's update channel, `UpdateDebouncer.pendingUpdates`, whether its timer runs |
| `sent`, `tokens` | what the stream has sent; refreshed tokens, which are control messages on the channel |
| `known`, `missed` | history: the newest version the peer was sent; the newest version one of the leaks dropped |

`Change` is any request handler's commit.  `HasChannel` and `SendUpdate` are the two looks a
sender takes at the peer's channel, `TakeBatch` and `ProcessGetAccountBatch` the two halves
of a batch, `SendInitialSync` and `CreateChannel` the gap at the start of a stream.
`UpdateStream` is the promise of the debouncer's comments: order is preserved and only maps
right before newer ones are left out.

### `NetworkMap`

`GetPeerNetworkMapComponents` and `Calculate` are the two phases, with one operator per
function of the code; `WholeAccount` puts the uncut account into the shape of components,
which is what the property `PruningIsExact` compares with.  A policy has one rule, and its
`enabled` stands for the flags of both.  A firewall rule is the policy it comes from, the
other peer and a direction; protocols, ports and addresses only decorate it.  The list of
a policy's posture checks may be saved in any order, and `Policy.Equal` compares it
unordered.

### `AccountConfig`, `AccountMembers`

`acct` is the account in the shape `NetworkMap` describes; `updated` and `bumped` say whether
the last operation called `UpdateAccountPeers` and incremented the serial.  Each operation
is an action named as in the code, with the validation as its guard: one that is refused
changes nothing and is no step.  `AddPeer`, `SaveOrAddUsers` and `SyncUserJWTGroups` read
groups, keys and settings before their transaction (`joining`, `saving`), so other
operations come between.

### `AccountServices`, `ProxyControl`

| State | Code |
|-------|------|
| `acct.services`, `acct.embedded` | rows of services and targets; `ProxyMeta` of peers |
| `notices` | what a handler that has committed has still to pass to `SendServiceUpdateToCluster` |
| `reaping`, `unused` | what the reaper has read; peers `DeletePeer` has found unused, before its transaction |
| `raced` | history: the named exception of `ProxyIsCurrent` |
| `stream`, `connectedProxies`, `clusterProxies`, `row` | `GetMappingUpdate` calls with `sendChan`, the two maps, the row |

`InjectProxyPolicies` adds to an account one policy for each enabled service, target and
embedded proxy of its cluster, before maps are computed.  A handler holds its notices
until they are sent one by one.  `GetMappingUpdate` is cut where it reads or writes what
others share: `Connect`, `RegisterProxyToCluster`, `SendSnapshot`, `Sender`, `GiveUp` and
`UnregisterProxyFromCluster`.  Storing in both maps is one step, and so are unlisting and
`DisconnectProxy`: what may come between leads to states that it leads to before or after.

### `LoginExpiry`

| State | Code |
|-------|------|
| `enabled`, `exempt` | `Settings.Peer{Login,Inactivity}ExpirationEnabled`; peers whose own flag is unset |
| `stored`, `connected`, `expired`, `overdue` | rows, `PeerStatus`, and whose time has run out |
| `blocked`, `stream`, `sync` | `User.Blocked`, peers with an update channel, the progress of each `Sync` call |
| `listed`, `pc`, `kind`, `cancelled` | `DefaultScheduler.jobs`, its goroutines, closed cancel channels |
| `calls` | what a handler has still to ask of the schedulers after its transaction |
| `todo`, `hit` | `expireAndUpdatePeers`: copies still to be saved, peers whose channels will be closed |
| `slipped`, `missed` | history: the named gaps of the properties |

The goroutine of a job is `Schedule`, `Tick`, `SavePeerStatus` (one row each),
`DisconnectPeers`, `GetNextExpiration`, and `EndJob` or `Stop`.  The same two middle steps serve the
call that blocks a user.  A ticker may fire at any moment after its job began to wait.

## Runs and bounds

| Run | Bounds | What it shows |
|-----|--------|---------------|
| `signal_registry` | two streams of one peer, clock readings 1..3, one message | NoOrphanStream, NewestStreamWins, CancelHitsItsTarget, the refinement `ImplementsService`, and DeadStreamLeaves, for which every retry of `Register` must end |
| `relay_notices` | a subscriber, two successive connections of its target, channel of 2, shutdown | no lost offline or online notice |
| `relay_store_race` | two overlapping connections of a peer that (un)subscribes to itself, channel of 1, shutdown | OneOpenConn, ShutdownClosesAll, BrokenConnLeaves (which excepts the circular wait) |
| `relay_client` | one peer, two callers, two connections, two calls, one arrival or departure, timeouts | connections and waiting channels |
| `relay_client_live` | one caller, one connection, two calls, one arrival or departure, Close and cancel | CloseCompletes, DisconnectNotified, InterestKept |
| `healthcheck` | units of 5 s: interval 10 s, windows 30 s and 20 s, two attempts, one loss, delays up to 5 s each way | no false alarm, bounded detection, all goroutines end |
| `early_msgs` | three peers, one caller, three messages, early buffer of 2, channel of 1, two opens, one close | ownership of buffers; no message stays |
| `peer_sync` | three streams, clock up to 6, `syncLim` 2, one deletion or expiration | ConnectedHasOwner, RegisteredIsActive, ReplacedStreamNotices, EndedLeavesNothing, OnlyOwnerDisconnects |
| `account_config` | three peers, two groups, and in each of thirteen scopes one set of features: two policies with a posture check; two routes with a policy; a route that moves between the groups; a name server group, DNS settings and a zone; a network with a router and a resource; the same with a routing peer that is not approved; a route and policies that name a peer whose posture fails; a one-off setup key and two machines; a user and a machine; two services whose targets are peers, one of them exposed; a service and two streams of a proxy, channel of 1; two services, two handlers and one stream; a proxy that returns with the address of another cluster | NoDanglingReference, PruningIsExact, MutualVisibility, RoutersAdmitClients, NoMissedUpdate, KeyLimitHolds, ProxyIsCurrent, SessionRowKept |
| `update_delivery` | two handlers, one timer goroutine, two changes, two streams, two token refreshes, channel of 2 | LagHasCause, EventuallyCurrent, and the refinement `ImplementsUpdateStream` |
| `login_expiry` | one user; two peers and a goroutine, or one peer with two goroutines, or one peer and two calls of administrators; either expiration | ExpiredStreamIsClosed, BlockedStreamIsClosed, ListedJobRuns, OverdueIsExpired |
| `relay_deadlock` | channel of 1 | violation of NoCircularWait |

*Why these bounds.*  The hazards are races of two: an old and a new stream, an event
and a subscription, two closers.  Two streams of one peer in `signal_registry` give
every race of LoadOrStore, CompareAndSwap and CompareAndDelete between a holder and a
challenger; that no third one matters is what the proofs show.  `peer_sync` needs
three: one whose end is late, one it interferes with, and one that waits for the lock
with an older `syncStart`; its clock needs a reading per start and per end.
Subscriptions in `relay_store_race` are to the peer itself because that lets one
connection be subscriber and source, so all three of its goroutines meet.  The
channel of 244 events is cut to 1 or 2, so that it fills; a full channel is reached
in the code when a subscriber with many peers stalls in a write.  In `relay_store_race` it
is 1: the offline notice of a connection fills it, and the notifier of the next one blocks.
That wait ends, because the circular wait takes three notices to one subscriber and with
them three connections, which `relay_deadlock` has; `BrokenConnLeaves` names it as its
exception, since a connection behind such a notifier stays in the store for ever.  `healthcheck` keeps
the slack the code has (35 s against 25 s at the client: 10 s; 45 s in 25 s rounds at
the server: 20 s) over a shorter interval, and starts the tickers in every phase a
connection can have; the code's default of one attempt is the same automaton with a
lower threshold, in which one lost datagram may end a connection, so a threshold of
two with one loss is the case that says something.  In `early_msgs` three messages of
three peers overfill a buffer of two.  `MaxCalls`, `MaxGen`, `MaxFlips`, `MaxTime`,
`MaxMsgs`, `MaxOpens`, `MaxCloses` and `MaxLost` only bound what the environment
starts.  Deadlock is not checked, because all calls may have returned; the
deadlock that matters is stated as `NoCircularWait`, and that goroutines end as
liveness.

In `account_config` a scope is a choice of objects and inputs made in the initial state: what
goes wrong between two objects does so within a scope, and three peers and two groups
give every overlap of two groups with a peer inside both, one or neither, one of the peers
unapproved or expired.  A channel of one mapping overflows when a service changes its
domain, which sends two.  The numbers of policies stay below `FirstProxyPolicy` (100), from
where those injected for services are numbered: in the code both are strings that never meet.
`update_delivery` needs two changes for one sender to overtake
another, two streams for one to begin while a sender holds an older version, and a channel
of two that a token and a map fill.  In `login_expiry` two goroutines give the job that
ends after it was cancelled, and two peers the row that is gone half way.

*Symmetry.*  Streams (`peer_sync`), callers (`relay_client`) and the target's
connections (`relay_notices`) are interchangeable; the runs with liveness use none.

*What the environment may do* is a constant `May` in four modules, so that one module
serves several questions.  `relay_notices` leaves out unsubscription and
`relay_client_live` leaves out timeouts, since the properties fail with them; both cases
are described under the limits below.

## Fairness

Safety runs state none.  Where liveness is checked:

- `SignalRegistry`: weak fairness of each handler and each forwarding goroutine. A
  goroutine that can run does; the operations do not wait for each other.
- `RelayServer`: strong fairness of `Accept`, `Work` and `ListenForEvents`, which
  wait for Go mutexes that are handed over in bounded time (Go's `Mutex` in its
  starvation mode, and `RWMutex`, which lets no new reader past a waiting writer);
  weak fairness of the step that `Shutdown` is in.
- `RelayClient`: strong fairness of taking `readLoopMutex`, weak fairness of the
  rest of `close` and of the read loop's end.  Callers and owner need not act.
- `HealthCheck`: weak fairness of time and of the goroutines, strong fairness of
  the two `select` cases that compete with a case that is always ready, which Go
  chooses among at random.
- `EarlyMsgBuffer`: weak fairness of the read loop, of time and of the timer.
- `UpdateDelivery`: weak fairness of every goroutine that has been started, of the timers
  and of the request buffer.  Nobody has to change the account, connect or stay.
- `LoginExpiry`: weak fairness of jobs, of begun calls, and of a stream's reaction to its
  closed channel.  Clients need not connect, log in or leave, time need not pass.

Clients, peers, operators and networks are under no fairness.

## Proofs

All theorems hold for any number of streams, connections, peers, callers, messages, jobs
and objects of an account; where one needs more than the assumptions of its module's
constants, its ASSUME says so and the list below names it.  The assumptions of the
constants are typings (`RulesAssumption`: a policy that is saved has a rule over the groups and checks it
may name, and each side of it groups or a single peer or resource, not both, as
`policies_handler.go:151` builds it; `IdsAssumption`: ids of peers and resources are not
empty, and a machine that joins is a peer; `StreamsAssumption`: streams and addresses are
not empty; `KeysAssumption`; `None` is no key, job or channel) and one inequality (the
Sender's interval is shorter than its window, `sender.go:57`).  Each component has one
inductive invariant, split into parts that a step can be proved to preserve separately.

- `SignalRegistryProofs`.  `TypeInv` adds to the types that a load or lookup that
  passed its check has found a stream.  `RegistryInv` adds `EntryIsRegistered` (an
  entry's handler is between registration and deregistration) and `SeenIsOlder` (the
  stream that is about to be compared or cancelled has an older StreamID), without
  which a retry of CompareAndSwap could replace a newer stream.  From it follow
  `NoOrphan`, `NewestWins`, `CancelIsAimed` (with `ReplacedStaysReplaced`: a stream that
  was taken out of the registry is never stored again, so the late `Cancel` cannot hit a
  registered one), and `RefinesService`: each step of a handler is a step of
  `SignalService` or a stutter, `DstIsRegistered` being needed for a send that times
  out, which stops a stream that was once accepted.
- `RelayServerProofs`.  `StoreInv`: `EntryIsCurrent` (a stored connection belongs to
  its peer and has not been deleted), `LeavingIsBroken` (`Work` returns only from a
  closed connection), `OneOpenConn`, and `ClosingIsComplete` (while `Shutdown` runs no
  `Accept` does and what is open is in its list).  `NoticesReach` is proved for any
  number of subscribers and targets that neither unsubscribe nor connect while the last
  `Accept` of their id is still announcing (`May` without `"unsubscribe"` and
  `"overlap"`; with either the formula fails, see the limits).  Its `NoticeInv` follows a
  notice along its way: `InterestFirst` (nothing is read, sent or queued of a peer before
  the interest in it is registered), `OnlineIsFollowed` (whatever says "online" is
  followed by an "offline" once the peer has left the store), `AnnouncementIsDue` (who
  knows nothing yet has a reply, an event or a connection that will tell it) and
  `OnlineSent` (a drained batch sends its online events first).
- `RelayClientProofs`.  Types and identities first (`ThreadInv`, `RunInv`, `CallInv`:
  no two callers are in the same call; `OfflineInv`; `MessagesInv`).  `ConnsInv` says
  that map and open containers are the same set.  `WaitInv` says that an entry's
  channel is untouched (`WaitersAreOpen`), entries of different subscriptions or peers
  have different channels (`EntriesDiffer`), a caller that waits has its entry
  (`WaiterHasEntry`), and calls to come have fresh channels (`ChannelIsNew`).  All
  removals are shown to be instances of one relation, `Shrinks`.  `InterestStays` holds
  while no OpenConn times out (`"timeout" \notin May`; with timeouts it fails, see the
  limits).  `FollowInv` says that every live call is followed: its peer is in the
  client's set and in the server's, or a request or notice under way will bring that
  about; `LoopInv` that a read loop which still runs reads the latest connection and that
  `close` leaves none behind, without which a notice of an earlier connection could remove
  an interest of the next.
- `PeerSyncProofs`.  `SyncInv`: `HolderHasLock` (what makes the guarded stretches
  exclusive), `SeenSinceMarked` (the peer was seen no earlier than the start of any
  stream that marked it, so an older stream's disconnect is skipped),
  `OnceOverwritten`, and `RoutinesTogether` (who owns refresh and channel, and that
  the peer is listed whenever neither exists).  `syncSem` is proved exact with the
  cardinality theorems of the library.

- `RelayConnProofs`, on `EarlyMsgBuffer`, for any peers, callers and capacities.  `MsgInv`:
  `FreedOnce` (a buffer is in hand or back in the pool, and freed once) needs to know that
  no two places hold one message, which is `Alone`: the read loop, the early buffer, the
  message an OpenConn has taken, and each position of each channel.  `EarlyTypes` adds that
  the early buffer has one message of a peer at most, so that what OpenConn pops is one
  message and not some of several.
- `RelayConnProofs`, on `HealthCheck`, for any periods, delays, threshold and number of losses.  `SenderInv`
  adds to the types `EndInv` (a goroutine ends after its connection) and `WriteInv` (a
  write that lasts since a tick, and the time to the next one, add up to the interval),
  from which the channel is empty at every tick.  `QuietInv` bounds the time since the
  path fell silent by the rounds that have failed, the one in progress, and a first one that an
  earlier answer may have saved; it yields `SilenceIsHeard`.  `LiveConnStays` needs
  `SenderKeeps` and `ReceiverKeeps`: as long as the path works, failures are at most losses,
  and in every round a heartbeat that will be answered in time is about to leave or under way, has been
  answered, or was lost.  Assumed are `ShortWrites`, and `FastPath` for the last theorem.
- `UpdateDeliveryProofs`.  `DeliveryInv`: `WaitersInOneBatch` (who waits for the account
  is in the batch to come or in one under way, and in one only), `ServedHasChannel`, and `LagIsCovered`
  (the newest map is on its way to a stream that lacks it, or a handler, a timer, a mark
  or a batch will send it, or it was dropped).  `StreamKeepsOrder` is the refinement: each step of
  channel, debouncer and stream is one of `UpdateStream`'s or a stutter.
- `LoginExpiryProofs`.  `JobInv`: `ListedJobRuns` needs that a goroutine which has not yet begun
  has not been cancelled.  `StreamInv`: `ExpiryBounds` (only a call that is under way has
  peers to save) and `LateSyncSlipped` (a peer that was let in and then expired or blocked
  is one of the gaps the properties name).
- `AccountProofs`, about `ProxyControl` and so about the account with its members and
  services together.  `Consistent` has one part per kind of reference that the server looks up; `Grown` is the lemma
  for operations that remove nothing, and each deletion is shown to be guarded by the
  references to what it deletes.  A key's usage stays within its limit (`KeyHolds`) because
  the transaction of `AddPeer` looks again.  `RowFollowsSession` proves
  `ServedProxyStaysConnected`: the row says connected while the stream it names is served.
- `AccountProofs`, on the network map, which is a function of the account: what is proved of
  every consistent account holds in every state.  `Enough(a, p, c)` is what components
  `c` must keep of the account `a` for peer `p` (`KeepsGroups`, `KeepsPolicies`,
  `KeepsFailures`, `KeepsResources`, `KeepsRoutes`).  `CutEnough` and `WholeEnough` show it of
  the cut and of the whole account, the lemmas named `...Kept` that each function of
  `Calculate` yields the same from any components that keep enough, and `EnoughIsSame` puts
  them together: that is `PruningLosesNothing`.  `LinksKept` and `ClientsKept` express what
  a map knows by relations on the account, `Linked` and `Serves`, which are symmetric
  between approved peers: hence `TunnelsHaveTwoEnds` and `ClientsAreAdmitted`.
- `AccountProofs`, on updates.  Two accounts are `Alike` if they agree on peers, resources
  and routers, on the policies and routes that are live (they name a peer, a resource or a
  group that is not empty), on the groups these name, on the posture they judge, and on DNS; `AlikeMaps` proves that
  alike accounts give every approved peer the same map, `InjectedAlike` that this survives the
  policies of services, which are numbered by position and have to be matched.  Then
  each operation either tells the peers (`IsTold`), is one of the two named exceptions, leaves the account alike (`Quiet`), or sends
  under the old serial as the property says (`IsSent`), which is `UpdatesAreSent`.  `NamesInv`
  is the invariant behind it: peers and resources have ids that are not empty, so that the
  code's tests for an empty id decide as intended.
- `AccountProofs`, on proxies.  `ProxyInv` says of every handler that the last of its notices
  that a cluster heeds tells the truth about the service (`NoticesSettle`), and of the stream
  that updates go to that, once nobody has a notice left about a service, what waits in
  its channel has the last word on it, and what it holds is right when nothing waits
  (`Follows`).  `Announces` is what each operation on services has to tell for this.  With all
  notices sent and the channel empty `ProxiesAreCurrent` follows.

Only model-checked:

- liveness, that is `BrokenConnLeaves`, `CloseCompletes`, `DeadStreamLeaves`, `DisconnectNotified`,
  `EarlyMsgLeaves`, `EventuallyCurrent`, `OverdueIsExpired` and `SilentPathEnds`: fairness
  is defined by ENABLED, which is out of the prover's reach.  `LiveConnStays` and
  `SilenceIsHeard` bound in time what can be bounded by an invariant.  `BrokenConnLeaves`
  is claimed only for as long as the server has not come to the circular wait of
  `relay_deadlock`, which refutes it without that exception.

No proof needs an induction over data: queues are spoken of by their positions, the least
failing posture check and the numbering of injected policies by the well-foundedness of the
naturals (`LeastNumber`) and by the library's facts of its sequences.

The type invariants, `NoDeadEntry` of `RelayServer` and `SyncSemCounts` of `PeerSync` are
proved and in no run.

## Findings and known limits of the code

One run is expected to find a violation of what a comment says: in `relay_deadlock`
("all events will be processed", `relay/server/store/listener.go:28`) a notifier blocks on the
full channel holding `Listener.mu`, a subscription holds `notificationMutex` and waits for
`Listener.mu`, and the listener that would empty the channel waits for `notificationMutex`.

Two more disagreements with comments were found with the same models and are described here:

- *Events out of order.*  The comment of `Listener.eventChan` says events "will be processed
  in the order they were sent"; a drained batch is sent with all online events first
  (`listener.go:82`).  A peer that leaves and returns is announced as online, then as offline.
- *Reuse after Close.*  "The client can be reused by calling Connect again"
  (`shared/relay/client/client.go:147`): the old read loop's own `close` (line 532) runs after
  its `Done`, and closes the connection that a Connect in between has made.

The following formulas fail in the models, so no run states them.  They describe
behaviour that the code has and that nothing in it promises against, except the first.

*Signal, relay and Sync streams*


- *A failed dispatcher leaves an entry.*  `ListenForMessages` fails after `Register`:
  `ConnectStream` returns without `Deregister`, and the peer stays registered until a
  newer stream replaces it.  The comment of `Registry` (`signal/peer/peer.go:47`) speaks
  of registered peers as connected ones.  The dispatcher in this repository never fails.
- *A stale online notice after unsubscription* (`relay_notices` with `"unsubscribe"`).
  The target comes online and its event is drained; the subscriber unsubscribes; the
  batch is sent; the target leaves, with nobody interested; the subscriber subscribes
  again.  The client's last news is "online", the target is gone, no notice is due.
- *A stale online notice of an overlapping dial* (`relay_notices` with `"overlap"`).  A
  connection is replaced before its `Accept` has announced it; the newer one leaves, the
  subscriber is told, and then the replaced one's `PeerCameOnline` follows.
- *Interest lost after a timeout* (`relay_client_live` with `"timeout"`).  An OpenConn
  times out and removes its entry; another opens the same peer and subscribes; then the
  first one's unsubscription is written.  The server forgets the interest, so the
  open connection will not be closed when the peer leaves.
- *A notice for an earlier subscription.*  Notices carry no subscription.  With three
  arrivals and departures of a peer, an online notice of the first subscription answers
  the second, whose peer has left: a Conn opens to a peer that is offline.
- *A stranded early message.*  The read loop finds no container (`client.go:590`),
  `OpenConn` pops the empty early buffer and opens the connection, then the message is put
  into the buffer, where it stays until it expires.  The protocol above repeats it.
- *A served stream of a peer shown as disconnected.*  S2 reads `syncStart` and waits for
  the lock; S1 ends and sets `LastSeen` to a later time and `Connected` to false; S2's
  `MarkPeerConnected` is skipped as stale, and S2 is served.
- *A served stream of a deleted peer.*  The peer is deleted between `GetPeerByID` and
  `CreateChannel` of `OnPeerConnected`: `DisconnectPeers` finds no channel to close.
- *A status written back.*  `expireAndUpdatePeers` reads a peer's status, the stream ends
  and marks it disconnected, and the old status is saved: `Connected` stays true with
  no stream.  `ConnectedHasOwner` and `OnlyOwnerDisconnects` exclude what follows this
  save by the history variable `overwritten`.
- *Churn.*  The late end of an old stream closes the newer stream's channel and cancels
  its refresh, by peer id.  The newer stream then ends as well (`ReplacedStreamNotices`)
  and the agent connects once more.

*Update delivery: the four leaks that `LagHasCause` and `EventuallyCurrent` name*

- *A stranded mark.*  `bufferSendUpdateAccountPeers` finds the lock held after the holder has
  looked at the mark (`controller.go:246`) and before it unlocks: the mark waits for the next change.
- *A full channel.*  `SendUpdate` drops the map (`updatechannel.go:54`).
- *A channel that came too late.*  `SyncPeer` reads the account, a change is sent to nobody,
  `CreateChannel` follows (`server.go:317-332`).
- *An older map last.*  Two senders put their maps on the channel in the other order; the
  debouncer keeps the older one (`update_debouncer.go:44`).  Sent as they are, the older one
  would be ignored by its serial.

*Login expiration*

- A peer that was let in by `SyncPeer` before its owner was blocked, or marked connected before
  its login was marked expired, gets its channel after `CloseChannels` and keeps the
  stream (`peer.go:129` also clears `LoginExpired`).
- `expireAndUpdatePeers` returns at the first row that is gone (`user.go:1148`): peers saved
  before keep their streams.  It also writes whole rows read earlier, so a login in between
  may be marked expired.
- A peer that connects while the job has decided to end is not scheduled for
  (`account.go:672`), and a cancelled job that ends deletes its successor's entry
  (`scheduler.go:139`), so two jobs may run for one account, against the comment of `Schedule`.
- Changing the login duration while expiration is disabled starts the job, which never asks
  whether expiration is enabled (`account.go:548`); enabling inactivity expiration without
  changing its duration starts none (`account.go:599`).

*Account configuration*

- *Zones and IPv6 in groups.*  `areGroupChangesAffectPeers` looks neither at zones nor at the
  groups of `IPv6EnabledGroups`; saving a zone does not increment the serial.  `NoMissedUpdate`
  is weaker for zones.
- *Serial of deleted users.*  `deleteRegularUser` sends maps under the old serial, which peers
  that compare serials ignore, and looks at no network router (`user.go:1259`).
- *Auto groups of users.*  Groups are validated before the transaction (`user.go:596`): a
  user may keep a deleted group.  `NoDanglingReference` leaves them out.
- *Databases with several connections.*  With Postgres or MySQL two transactions overlap:
  `DeleteGroup` and `SaveRoute` may both pass, and `filterGroupPeers`
  (`account_components.go:488`) dereferences the missing group.  The model has one
  transaction at a time.
- *Posture checks of policies that name a peer and a resource* are saved without telling the
  peers (`posture_checks.go:140` looks at groups only): `NoMissedUpdate` excepts them by
  `ChecksNamedPeer`.
- *Posture of a source named by id.*  The cut records the failures of members of groups
  (`account_components.go:308`), the whole account those of any peer (`account.go:1158`): a
  route's firewall rule admits a named source that fails.  `PruningIsExact` excepts it.
- *Unapproved peers that a policy names.*  `getPeerFromResource` does not look at
  `validatedPeersMap` (`networkmap_components.go:393`), so such a peer is in others' maps
  and routes, although it gets no map itself.  The tests say that only approved peers are in a map
  (`networkmap_components_test.go:129`, `networkmap_components_correctness_test.go:392`), and
  have peers of groups only.  `PruningIsExact`, `MutualVisibility` and
  `RoutersAdmitClients` speak of approved peers.
- *Peers of routes.*  `checkRoutePrefixOrDomainsExistForPeers` remembers single peers under
  the route's id (`route.go:58`), so two routes of one network through one peer pass, against
  the comment at `route.go:84`.  Deleting a peer leaves the routes that name it.
- *A failed AddPeer.*  After ten collisions of a unique index `AddPeer` goes on as if the
  peer had been stored (`peer.go:849`).
- *A route that comes to peers.*  `SaveRoute` asks whether the new route concerns peers
  (`route.go:229`) before it gives it its account id (`:233`), which the HTTP handler leaves
  empty (`routes_handler.go:234`); under the empty id no group is found.  A route without a
  single peer that moves from empty groups to others is saved and nobody is told, against the
  comment at `route.go:380`.  The model judges the new route as the code does, and
  `NoMissedUpdate` excepts the case by `RouteReachesGroups`.
- *Ids that are not looked up.*  Any ids may be the peers and resources of a group
  (`group.go:72`, `:127`, `:490`, `:522`), the peer or resource that a rule names
  (`policy.go:207`; `policies_handler.go:183` has it as a TODO) and the groups of a network
  router, and a policy may keep the id of a deleted resource.  The model takes such ids too,
  among them the peer that was removed, and the network map ignores what it does not find.
  `NoDanglingReference` speaks of the references that are looked up when an object is saved.
  Ids of new groups and resources are generated, so nothing refers to them
  (`IsNewGroup`, `IsNewResource`).

*Reverse proxies*

- *Disabled services are announced.*  A mapping has no flag for it: saving a service that stays
  disabled, or `ReloadAllServicesForAccount`, sends it as created or modified
  (`service/manager/manager.go:735`, `:940`), while a snapshot leaves it out (`proxy.go:431`).
- *A late cleanup unlists the proxy.*  The older stream has left `connectedProxies`, the newer one
  registers, and `UnregisterProxyFromCluster` of the older one removes the proxy id from
  the cluster (`proxy.go:325`): the newer stream gets no more updates until it reconnects.
- *Another address.*  A proxy that reconnects with another address stays listed in its former
  cluster, of whose services it is then told; `ProxyIsCurrent` excepts it by `KeptAddress`, and
  still demands that the services of its own cluster are right.
- *Two first connections at once* of one proxy id: the one that is stored first is replaced
  and not cancelled (`proxy.go:247`), and keeps a stream that nothing is sent to.
- *Notices of two handlers* for one service may be sent in the other order (`raced`).
- *Targets.*  `DeletePeer` and `DeleteResource` look for services before their transaction
  (`peer.go:457`); deleting a user or a network does not look.  `DeleteAllServices` and
  `deletePeerService` rely on the database to remove the targets.
- Saving an exposed service through the API makes it an administrator's: its source is not kept
  (`service/manager/manager.go:722`), and it is no longer renewed or reaped.

## Not modelled

- Jobs, ephemeral peers, the relay manager: in the plan.
- Of update delivery, `UpdateAccountPeer` (one peer) and the validated peers of the
  integrations, whose answers are taken as part of the account.
- Several processes of the management server on one database, and a crash of it.
  Peer locks and channels live in one process; after a crash the row keeps
  `Connected`, which a later module on ephemeral peers must consider.
- Rounding of `LastSeen` by the database: readings are compared as they were taken.
- Bytes: message layouts, authentication, encryption, the WebSocket and QUIC
  transports (only that datagrams may be lost), gRPC itself.
- Of accounts: the SQL of the store (a transaction is one step), the group All, roles and
  permissions, invitations, access tokens, domains and the identity providers, which are
  lookups and translations around the operations that are modelled.
- Of network maps: SSH users, IPv6 rules, protocols and ports, the zone of peer names.
- Most of the repository's lines are generated (`*.pb.go`, API types), store and HTTP
  plumbing, mocks and external services: they hold no protocol state of their own, and the
  map of definitions to lines names the logic the modules translate, not these.
- Of reverse proxies: access tokens, the authentication of visitors, ports, custom domains,
  proxies of a single account, access logs and the status that proxies report.
- The clients of signal and management, the combined server, installer and dashboard; see the notes in `PROJECT.json`.
