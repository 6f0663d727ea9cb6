----------------------------- MODULE ProxyControl -----------------------------
(***************************************************************************)
(* The control streams of a reverse proxy (GetMappingUpdate), on top of    *)
(* AccountServices, whose notices are sent here.  One proxy connects, each *)
(* time with a stream of its own and an address that names its cluster;    *)
(* its streams may overlap when it reconnects.                             *)
(*                                                                         *)
(* stream            stream |-> [pc, address, live, chan, held]: where its *)
(*                   handler is, its context connCtx, sendChan, and        *)
(*                   "held", the mappings that have reached the proxy;     *)
(* connectedProxies  the stream registered under the proxy's id, or None;  *)
(* clusterProxies    the clusters whose set has the proxy's id;            *)
(* row               the proxy's row in the database: [session, connected].*)
(*                                                                         *)
(* Access tokens, heartbeats, capabilities, proxies of a single account    *)
(* and the age of rows are left out; a revoked token ends a stream as a    *)
(* lost connection does.                                                   *)
(***************************************************************************)
EXTENDS AccountServices

CONSTANT SendCapacity       \* 100 in the code
ASSUME SendCapacityAssumption == SendCapacity \in Nat \ {0}

\* A stream has an identity, an address is not empty.
ASSUME StreamsAssumption == \A s \in Scopes : None \notin s.streams \cup s.clusters

VARIABLES stream, connectedProxies, clusterProxies, row
proxyVars == <<stream, connectedProxies, clusterProxies, row>>
allVars == <<memberVars, serviceVars, proxyVars>>

PInit ==
  /\ SInit
  /\ stream = [t \in scope.streams |-> [pc |-> "new", address |-> None, live |-> FALSE,
                                        chan |-> <<>>, held |-> <<>>]]
  /\ connectedProxies = None
  /\ clusterProxies = {}
  /\ row = [session |-> None, connected |-> FALSE]

-----------------------------------------------------------------------------
(* GetMappingUpdate. *)

\* The stream that is registered now is cancelled, the row becomes this one's.
Connect(t, c) ==
  /\ stream[t].pc = "new"
  /\ stream' = [x \in DOMAIN stream |->
                  IF x = t THEN [stream[t] EXCEPT !.pc = "connected", !.address = c, !.live = TRUE]
                  ELSE IF x = connectedProxies THEN [stream[x] EXCEPT !.live = FALSE] ELSE stream[x]]
  /\ row' = [session |-> t, connected |-> TRUE]
  /\ UNCHANGED <<connectedProxies, clusterProxies>>

RegisterProxyToCluster(t) ==
  /\ stream[t].pc = "connected"
  /\ stream' = [stream EXCEPT ![t].pc = "stored"]
  /\ connectedProxies' = t
  /\ clusterProxies' = clusterProxies \cup {stream[t].address}
  /\ UNCHANGED row

SnapshotServiceMappings(c) ==
  [s \in {x \in Services : acct.services[x].enabled /\ acct.services[x].cluster = c}
     |-> ToProtoMapping(acct.services[s])]

SendSnapshot(t) ==
  /\ stream[t].pc = "stored"
  /\ stream' = [stream EXCEPT ![t].pc = "serving", ![t].held = SnapshotServiceMappings(stream[t].address)]
  /\ UNCHANGED <<connectedProxies, clusterProxies, row>>

\* Mutant of DisconnectProxy: the session is not compared.
DisconnectAnySession(t) == [row EXCEPT !.connected = FALSE]

DisconnectProxy(t) == IF row.session = t THEN [row EXCEPT !.connected = FALSE] ELSE row

\* The handler ends, after a snapshot that could not be sent or because its
\* context is done: a stream that was replaced leaves the rest to the newer one,
\* but the row after a failed snapshot.
GiveUp(t) ==
  /\ stream[t].pc \in {"stored", "serving"} /\ ~stream[t].live
  /\ stream' = [stream EXCEPT ![t] =
                  [@ EXCEPT !.pc = IF connectedProxies = t THEN "unregister" ELSE "gone",
                            !.chan = <<>>, !.held = <<>>]]
  /\ connectedProxies' = IF connectedProxies = t THEN None ELSE connectedProxies
  /\ row' = IF connectedProxies # t /\ stream[t].pc = "stored" THEN DisconnectProxy(t) ELSE row
  /\ UNCHANGED clusterProxies

UnregisterProxyFromCluster(t) ==
  /\ stream[t].pc = "unregister"
  /\ stream' = [stream EXCEPT ![t].pc = "gone"]
  /\ clusterProxies' = clusterProxies \ {stream[t].address}
  /\ row' = DisconnectProxy(t)
  /\ UNCHANGED connectedProxies

\* The connection is lost, or the heartbeat finds the access token revoked.
Lose(t) ==
  /\ stream[t].live
  /\ stream' = [stream EXCEPT ![t].live = FALSE]
  /\ UNCHANGED <<connectedProxies, clusterProxies, row>>

\* What the proxy makes of a mapping it is sent.
Applied(held, n) ==
  IF n.type = "removed" THEN Drop(held, {n.service}) ELSE Put(held, n.service, n.mapping)

Sender(t) ==
  /\ stream[t].pc = "serving" /\ stream[t].chan # <<>>
  /\ stream' = [stream EXCEPT ![t].chan = Tail(@), ![t].held = Applied(@, Head(stream[t].chan))]
  /\ UNCHANGED <<connectedProxies, clusterProxies, row>>

\* A proxy whose channel is full is disconnected, so that it takes a snapshot.
SendServiceUpdateToCluster(h) ==
  LET n == Head(notices[h])
      t == connectedProxies
  IN /\ notices[h] # <<>>
     /\ notices' = [notices EXCEPT ![h] = Tail(@)]
     /\ UNCHANGED <<memberVars, raced, reaping, unused, connectedProxies, clusterProxies, row>>
     /\ stream' = IF n.cluster \notin clusterProxies \/ t = None THEN stream
                  ELSE IF Len(stream[t].chan) < SendCapacity
                       THEN [stream EXCEPT ![t].chan = Append(@, n)]
                       ELSE [stream EXCEPT ![t].live = FALSE]

-----------------------------------------------------------------------------
\* Service ids are generated: a new one is not one the proxy has heard of.
NewServices == DOMAIN acct'.services \ Services
AreUnheardOf(ss) ==
  \A s \in ss : /\ ~IsPending(s) /\ s \notin raced /\ \A p \in acct.peers : <<s, p>> \notin reaping
                /\ \A t \in DOMAIN stream : s \notin DOMAIN stream[t].held
                     /\ \A i \in DOMAIN stream[t].chan : stream[t].chan[i].service # s

GetMappingUpdate(t) ==
  \/ \E c \in scope.clusters : Connect(t, c)
  \/ RegisterProxyToCluster(t)
  \/ SendSnapshot(t)
  \/ GiveUp(t)
  \/ UnregisterProxyFromCluster(t)
  \/ Lose(t)
  \/ Sender(t)

PNext ==
  \/ SNext /\ AreUnheardOf(NewServices) /\ UNCHANGED proxyVars
  \/ \E t \in scope.streams : GetMappingUpdate(t) /\ UNCHANGED <<memberVars, serviceVars>>
  \/ \E h \in scope.handlers : SendServiceUpdateToCluster(h)

PSpec == PInit /\ [][PNext]_allVars

-----------------------------------------------------------------------------
(* Properties. *)

IsServed(t) == connectedProxies = t /\ stream[t].pc = "serving" /\ stream[t].live

\* None of the proxy's streams has come with another address than t.
KeptAddress(t) == \A x \in DOMAIN stream : stream[x].address \in {None, stream[t].address}

\* Once all has been sent, a proxy that is listed in its cluster serves exactly
\* the enabled services of the cluster, each as it is now, whatever came between
\* the snapshot, the updates and a reconnection.  Named exceptions: a service
\* changed again before the notice of the change before was sent (the two may
\* arrive in either order); services that are disabled, which are announced
\* although a snapshot leaves them out; and a proxy that came back with another
\* address, which may still be listed in its former cluster and be sent
\* services of that one too.
ProxyIsCurrent ==
  \A t \in DOMAIN stream :
    IsServed(t) /\ stream[t].chan = <<>> /\ stream[t].address \in clusterProxies
      /\ (\A h \in DOMAIN notices : notices[h] = <<>>)
    => /\ \A s \in DOMAIN SnapshotServiceMappings(stream[t].address) \ raced :
            s \in DOMAIN stream[t].held /\ stream[t].held[s] = ToProtoMapping(acct.services[s])
       /\ KeptAddress(t) =>
            \A s \in DOMAIN stream[t].held \ raced :
              s \in Services /\ acct.services[s].cluster = stream[t].address

\* The late end of an older stream does not mark the proxy disconnected in the
\* database while a newer stream of it is served (DisconnectProxy).
SessionRowKept ==
  \A t \in DOMAIN stream : IsServed(t) /\ row.session = t => row.connected
=============================================================================
