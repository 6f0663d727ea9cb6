---------------------------- MODULE AccountServices ----------------------------
(***************************************************************************)
(* The services that reverse proxies publish for an account, on top of     *)
(* AccountMembers.  An administrator creates, changes and deletes services *)
(* that forward to peers and resources; a peer may expose one of its own,  *)
(* which lives as long as the peer renews it (90 s).                       *)
(*                                                                         *)
(* Every operation commits a transaction and only then sends what it has   *)
(* to tell the proxies, cluster by cluster; another operation may come     *)
(* between.  ProxyControl sends these notices.                             *)
(*                                                                         *)
(* acct.services  service |-> [domain, cluster, body, enabled, targets,    *)
(*                source, fresh]: "body" stands for all else that a        *)
(*                mapping holds, "source" is the peer that exposes it or   *)
(*                None, "fresh" whether it was renewed within 90 s;        *)
(* notices        handler |-> what it has still to send:                   *)
(*                [type, service, cluster, mapping];                       *)
(* raced          history: the services that were changed while a notice   *)
(*                of an earlier change was still to be sent;               *)
(* reaping        what the reaper has found expired: <<service, peer>>;    *)
(* unused         peers that a call of DeletePeer has found no service to  *)
(*                forward to.                                              *)
(* A domain decides on its cluster (scope.clusterOf).  Ports, secrets and  *)
(* the status that proxies report are left out.                            *)
(***************************************************************************)
EXTENDS AccountMembers

VARIABLES notices, raced, reaping, unused
serviceVars == <<notices, raced, reaping, unused>>

SInit ==
  /\ MInit
  /\ notices = [h \in scope.handlers |-> <<>>]
  /\ raced = {}
  /\ reaping = {}
  /\ unused = {}

Services == DOMAIN acct.services

-----------------------------------------------------------------------------
(* What the proxies are told. *)

ToProtoMapping(svc) == [domain |-> svc.domain, body |-> svc.body]

Notice(type, s, svc, cluster) ==
  [type |-> type, service |-> s, cluster |-> cluster, mapping |-> ToProtoMapping(svc)]

IsPending(s) == \E h \in DOMAIN notices : \E i \in DOMAIN notices[h] : notices[h][i].service = s

\* Handler h has committed the account a, a change of the services ss.
Changed(h, a, ss, told) ==
  /\ notices[h] = <<>>
  /\ Commit(a, TRUE, FALSE)
  /\ notices' = [notices EXCEPT ![h] = told]
  /\ raced' = raced \cup {s \in ss : IsPending(s)}
  /\ UNCHANGED reads

UpdateType(old, new) ==
  CASE ~new.enabled /\ old.enabled -> "removed"
    [] new.enabled /\ ~old.enabled -> "created"
    [] OTHER -> "modified"

\* Mutant of UpdateNotices: the removal goes to the new cluster.
UpdateNoticesAtNew(s, old, new) ==
  IF new.domain # old.domain \/ new.cluster # old.cluster
  THEN << Notice("removed", s, new, new.cluster), Notice("created", s, new, new.cluster) >>
  ELSE << Notice(UpdateType(old, new), s, new, new.cluster) >>

\* A service that is and stays disabled is announced all the same, and so is one
\* that moves.
UpdateNotices(s, old, new) ==
  IF new.domain # old.domain \/ new.cluster # old.cluster
  THEN << Notice("removed", s, new, old.cluster), Notice("created", s, new, new.cluster) >>
  ELSE << Notice(UpdateType(old, new), s, new, new.cluster) >>

-----------------------------------------------------------------------------
(* Services of the administrators. *)

IsDomainAvailable(d, s) == \A x \in Services \ {s} : acct.services[x].domain # d
AreTargets(ts) == ts \subseteq acct.peers \cup DOMAIN acct.resources

Record(offer, cluster, p) ==
  [domain |-> offer.domain, cluster |-> cluster, body |-> offer.body, enabled |-> offer.enabled,
   targets |-> offer.targets, source |-> p, fresh |-> TRUE]

WithService(s, svc) == [acct EXCEPT !.services = Put(@, s, svc)]
WithoutServices(ss) == [acct EXCEPT !.services = Drop(@, ss)]

PersistNewService(h, s, svc) ==
  /\ s \notin Services
  /\ IsDomainAvailable(svc.domain, s) /\ AreTargets(svc.targets)
  /\ Changed(h, WithService(s, svc), {s}, << Notice("created", s, svc, svc.cluster) >>)

CreateService(h, s, offer) ==
  /\ PersistNewService(h, s, Record(offer, scope.clusterOf[offer.domain], None))
  /\ UNCHANGED <<reaping, unused>>

\* The request carries no source: a service that a peer exposes becomes an
\* administrator's when it is saved.
UpdateService(h, s, offer) ==
  LET old == acct.services[s]
      new == Record(offer, IF offer.domain = old.domain THEN old.cluster
                           ELSE scope.clusterOf[offer.domain], None)
  IN /\ s \in Services
     /\ IsDomainAvailable(offer.domain, s) /\ AreTargets(offer.targets)
     /\ Changed(h, WithService(s, new), {s}, UpdateNotices(s, old, new))
     /\ UNCHANGED <<reaping, unused>>

Removal(s) == Notice("removed", s, acct.services[s], acct.services[s].cluster)

DeleteService(h, s) ==
  /\ s \in Services
  /\ Changed(h, WithoutServices({s}), {s}, << Removal(s) >>)
  /\ UNCHANGED <<reaping, unused>>

DeleteAllServices(h) ==
  LET all == SetToSeq(Services)
  IN /\ Services # {}
     /\ Changed(h, WithoutServices(Services), Services, [i \in DOMAIN all |-> Removal(all[i])])
     /\ UNCHANGED <<reaping, unused>>

\* The services are read and sent as they are, enabled or not.  They are not
\* changed by this, so nothing is raced.
ReloadAllServicesForAccount(h) ==
  LET all == SetToSeq(Services)
  IN /\ notices[h] = <<>> /\ Services # {}
     /\ notices' = [notices EXCEPT ![h] =
          [i \in DOMAIN all |-> Notice("modified", all[i], acct.services[all[i]], acct.services[all[i]].cluster)]]
     /\ UNCHANGED <<memberVars, raced, reaping, unused>>

-----------------------------------------------------------------------------
(* Services of the peers. *)

ExposedBy(p) == {s \in Services : acct.services[s].source = p}

CreateServiceFromPeer(h, s, p, offer) ==
  /\ p \in acct.peers
  /\ Cardinality(ExposedBy(p)) < scope.maxExposes
  /\ PersistNewService(h, s, [Record(offer, scope.clusterOf[offer.domain], p) EXCEPT
                                !.targets = {p}, !.enabled = TRUE])
  /\ UNCHANGED <<reaping, unused>>

RenewServiceFromPeer(s) ==
  /\ s \in Services /\ acct.services[s].source # None
  /\ Commit([acct EXCEPT !.services[s].fresh = TRUE], FALSE, FALSE)
  /\ UNCHANGED <<reads, serviceVars>>

StopServiceFromPeer(h, s, p) ==
  /\ s \in ExposedBy(p)
  /\ Changed(h, WithoutServices({s}), {s}, << Removal(s) >>)
  /\ UNCHANGED <<reaping, unused>>

\* 90 s have passed since a service was last renewed.
Expire(s) ==
  /\ s \in Services /\ acct.services[s].fresh /\ acct.services[s].source # None
  /\ Commit([acct EXCEPT !.services[s].fresh = FALSE], FALSE, FALSE)
  /\ UNCHANGED <<reads, serviceVars>>

ReapExpiredExposes ==
  /\ reaping = {}
  /\ reaping' = {<<s, acct.services[s].source>> : s \in
                   {x \in Services : ~acct.services[x].fresh /\ acct.services[x].source # None}}
  /\ reaping' # {}
  /\ UNCHANGED <<memberVars, notices, raced, unused>>

\* Looked at again in the transaction: it may be renewed, gone, or no longer
\* of that peer by now.
DeleteExpiredPeerService(h, s, p) ==
  /\ <<s, p>> \in reaping
  /\ reaping' = reaping \ {<<s, p>>}
  /\ UNCHANGED unused
  /\ IF s \in ExposedBy(p) /\ ~acct.services[s].fresh
     THEN Changed(h, WithoutServices({s}), {s}, << Removal(s) >>)
     ELSE UNCHANGED <<memberVars, notices, raced>>

-----------------------------------------------------------------------------
(* DeletePeer is refused while a service forwards to the peer; the look is
   taken before its transaction. *)

GetServiceIDByTargetID(p) ==
  /\ p \in acct.peers \ unused
  /\ \A s \in Services : p \notin acct.services[s].targets
  /\ unused' = unused \cup {p}
  /\ UNCHANGED <<memberVars, notices, raced, reaping>>

DeleteUnusedPeer(p) ==
  /\ p \in unused
  /\ DeletePeer(p)
  /\ unused' = unused \ {p}
  /\ UNCHANGED <<reads, notices, raced, reaping>>

-----------------------------------------------------------------------------
SNext ==
  \/ MNext /\ UNCHANGED serviceVars
  \/ \E h \in scope.handlers :
       \/ DeleteAllServices(h)
       \/ ReloadAllServicesForAccount(h)
       \/ \E s \in scope.services :
            \/ DeleteService(h, s)
            \/ \E offer \in scope.offers : CreateService(h, s, offer) \/ UpdateService(h, s, offer)
            \/ \E p \in scope.exposers :
                 \/ StopServiceFromPeer(h, s, p)
                 \/ DeleteExpiredPeerService(h, s, p)
                 \/ \E offer \in scope.offers : CreateServiceFromPeer(h, s, p, offer)
  \/ \E s \in scope.services : RenewServiceFromPeer(s) \/ Expire(s)
  \/ ReapExpiredExposes
  \/ \E p \in scope.exposers : GetServiceIDByTargetID(p) \/ DeleteUnusedPeer(p)
=============================================================================
