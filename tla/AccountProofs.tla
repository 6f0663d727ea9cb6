---------------------------- MODULE AccountProofs ----------------------------
(***************************************************************************)
(* Proofs about an account of the management server with its members, its  *)
(* services and the proxy that serves them (ProxyControl).  First the      *)
(* account itself: no operation leaves a dangling reference, and a setup   *)
(* key is not overused.  Then the network maps computed from it: tunnels   *)
(* have two ends, routers admit the clients of their routes, and the       *)
(* components that a peer is sent lose nothing of its map.  Last the       *)
(* proxy: its row stays connected while it is served, and it serves what   *)
(* the account has.                                                        *)
(***************************************************************************)
EXTENDS ProxyControl, FiniteSetTheorems, WellFoundedInduction, TLAPS

(* The account as a record, and what its parts refer to. *)

Fields == {"peers", "valid", "expired", "groupPeers", "groupRes", "checks", "policies", "routes",
           "nsGroups", "noDns", "networks", "routers", "resources", "zones", "keys", "users",
           "owner", "jwt", "propagates", "services", "embedded"}

RuleFields == {"enabled", "both", "sources", "srcPeer", "destinations", "dstPeer", "dstRes", "checks"}

IdsOf(a) == DOMAIN a.groupPeers

RoutesHold(a) == \A x \in DOMAIN a.routes : RouteGroups(a.routes[x]) \subseteq IdsOf(a)

RuleHolds(a, r) ==
  /\ RuleGroups(r) \subseteq IdsOf(a)
  /\ \A j \in DOMAIN r.checks : r.checks[j] \in DOMAIN a.checks
  /\ DOMAIN r.checks \subseteq Nat
  /\ r.srcPeer # None => r.sources = {}
PoliciesHold(a) == \A i \in DOMAIN a.policies : RuleHolds(a, a.policies[i])

NameServersHold(a) == \A s \in DOMAIN a.nsGroups : a.nsGroups[s].groups \subseteq IdsOf(a)
NoDnsHolds(a) == a.noDns \subseteq IdsOf(a)

KeyHolds(key, ids) ==
  /\ DOMAIN key = {"groups", "limit", "used", "revoked"}
  /\ key.groups \subseteq ids
  /\ key.limit \in Int /\ key.used \in Int
  /\ key.limit > 0 => key.used <= key.limit
KeysHold(a) == None \notin DOMAIN a.keys /\ \A k \in DOMAIN a.keys : KeyHolds(a.keys[k], IdsOf(a))

RoutersHold(a) ==
  \A r \in DOMAIN a.routers : a.routers[r].network \in a.networks
ResourcesHold(a) == \A n \in DOMAIN a.resources : a.resources[n].network \in a.networks

GroupsHold(a) == DOMAIN a.groupRes = IdsOf(a)

\* The inductive invariant of the account: it has its fields and each part
\* refers to what exists, where the server looks.  A key has an id and counts within its limit, and a
\* policy names its sources in one way.
Consistent(a) ==
  /\ DOMAIN a = Fields
  /\ a.valid \subseteq a.peers
  /\ RoutesHold(a)
  /\ PoliciesHold(a)
  /\ NameServersHold(a)
  /\ NoDnsHolds(a)
  /\ KeysHold(a)
  /\ RoutersHold(a)
  /\ ResourcesHold(a)
  /\ GroupsHold(a)

-----------------------------------------------------------------------------
(* Functions that gain and lose an entry. *)

LEMMA DropProperties ==
  ASSUME NEW f, NEW ks
  PROVE  /\ DOMAIN Drop(f, ks) = DOMAIN f \ ks
         /\ \A x \in DOMAIN f \ ks : Drop(f, ks)[x] = f[x]
  BY DEF Drop

-----------------------------------------------------------------------------
(* An operation that removes nothing others refer to has to answer only for the
   parts it changes. *)

LEMMA Grown ==
  ASSUME NEW a, NEW b, Consistent(a), DOMAIN b = Fields,
         IdsOf(a) \subseteq IdsOf(b),
         a.peers \subseteq b.peers,
         b.valid = a.valid \/ b.valid \subseteq b.peers,
         DOMAIN a.checks \subseteq DOMAIN b.checks,
         a.networks \subseteq b.networks,
         b.routes = a.routes \/ RoutesHold(b),
         b.policies = a.policies \/ PoliciesHold(b),
         b.nsGroups = a.nsGroups \/ NameServersHold(b),
         b.noDns = a.noDns \/ NoDnsHolds(b),
         b.keys = a.keys \/ KeysHold(b),
         b.routers = a.routers \/ RoutersHold(b),
         b.resources = a.resources \/ ResourcesHold(b),
         \/ b.groupPeers = a.groupPeers /\ b.groupRes = a.groupRes
         \/ GroupsHold(b)
  PROVE  Consistent(b)
<1>1. RoutesHold(b)
  BY DEF Consistent, RoutesHold
<1>2. PoliciesHold(b)
  BY DEF Consistent, PoliciesHold, RuleHolds
<1>3. NameServersHold(b)
  BY DEF Consistent, NameServersHold
<1>4. NoDnsHolds(b)
  BY DEF Consistent, NoDnsHolds
<1>5. KeysHold(b)
  BY DEF Consistent, KeysHold, KeyHolds
<1>6. RoutersHold(b)
  BY DEF Consistent, RoutersHold
<1>7. ResourcesHold(b)
  BY DEF Consistent, ResourcesHold
<1>8. GroupsHold(b)
  BY DEF Consistent, GroupsHold, IdsOf
<1>9. b.valid \subseteq b.peers
  BY DEF Consistent
<1> QED  BY <1>1, <1>2, <1>3, <1>4, <1>5, <1>6, <1>7, <1>8, <1>9 DEF Consistent

\* What only services, users, zones and the like change leaves the rest alone.
LEMMA Untouched ==
  ASSUME NEW a, NEW b, Consistent(a), DOMAIN b = Fields,
         \A f \in {"peers", "valid", "groupPeers", "groupRes", "checks", "policies", "routes", "nsGroups",
                   "noDns", "networks", "routers", "resources", "keys"} : b[f] = a[f]
  PROVE  Consistent(b)
  BY DEF Consistent, RoutesHold, PoliciesHold, RuleHolds, NameServersHold, NoDnsHolds, KeysHold, KeyHolds,
         RoutersHold, ResourcesHold, GroupsHold, IdsOf

-----------------------------------------------------------------------------
(* Groups. *)

LEMMA WithGroupKeeps ==
  ASSUME Consistent(acct), NEW g, NEW ps, NEW rs
  PROVE  Consistent(WithGroup(g, ps, rs))
<1> DEFINE b == WithGroup(g, ps, rs)
<1>1. /\ DOMAIN b = Fields
      /\ b.groupPeers = Put(acct.groupPeers, g, ps) /\ b.groupRes = Put(acct.groupRes, g, rs)
      /\ b.peers = acct.peers /\ b.valid = acct.valid /\ b.checks = acct.checks /\ b.networks = acct.networks
      /\ b.routes = acct.routes /\ b.policies = acct.policies /\ b.nsGroups = acct.nsGroups
      /\ b.noDns = acct.noDns /\ b.keys = acct.keys /\ b.routers = acct.routers
      /\ b.resources = acct.resources
  BY DEF WithGroup, Consistent, Fields
<1> HIDE DEF b
<1>2. /\ IdsOf(b) = IdsOf(acct) \cup {g} /\ DOMAIN b.groupRes = DOMAIN acct.groupRes \cup {g}
      /\ b.groupPeers[g] = ps /\ b.groupRes[g] = rs
      /\ \A x \in IdsOf(acct) \ {g} : b.groupPeers[x] = acct.groupPeers[x]
      /\ \A x \in DOMAIN acct.groupRes \ {g} : b.groupRes[x] = acct.groupRes[x]
  BY <1>1 DEF IdsOf, Put
<1>3. GroupsHold(b)
  BY <1>1, <1>2 DEF Consistent, GroupsHold
<1> QED  BY <1>1, <1>2, <1>3, Grown DEF b

LEMMA DeleteGroupsKeeps ==
  ASSUME Consistent(acct), NEW gone, \A g \in gone : ValidateDeleteGroup(g), NEW b,
         b = [acct EXCEPT !.groupPeers = Drop(@, gone), !.groupRes = Drop(@, gone), !.jwt = @ \ gone]
  PROVE  Consistent(b)
<1>1. /\ DOMAIN b = Fields
      /\ b.groupPeers = Drop(acct.groupPeers, gone) /\ b.groupRes = Drop(acct.groupRes, gone)
      /\ b.peers = acct.peers /\ b.valid = acct.valid /\ b.checks = acct.checks /\ b.networks = acct.networks
      /\ b.routes = acct.routes /\ b.policies = acct.policies /\ b.nsGroups = acct.nsGroups
      /\ b.noDns = acct.noDns /\ b.keys = acct.keys /\ b.routers = acct.routers
      /\ b.resources = acct.resources
  BY DEF Consistent, Fields
<1>2. /\ IdsOf(b) = IdsOf(acct) \ gone /\ DOMAIN b.groupRes = DOMAIN acct.groupRes \ gone
      /\ \A x \in IdsOf(acct) \ gone : b.groupPeers[x] = acct.groupPeers[x]
      /\ \A x \in DOMAIN acct.groupRes \ gone : b.groupRes[x] = acct.groupRes[x]
  BY <1>1 DEF IdsOf, Drop
<1>3. RoutesHold(b)
  BY <1>1, <1>2 DEF Consistent, RoutesHold, ValidateDeleteGroup, IsGroupLinkedToRoute
<1>4. PoliciesHold(b)
  BY <1>1, <1>2 DEF Consistent, PoliciesHold, RuleHolds, ValidateDeleteGroup, IsGroupLinkedToPolicy
<1>5. NameServersHold(b) /\ NoDnsHolds(b)
  BY <1>1, <1>2 DEF Consistent, NameServersHold, NoDnsHolds, ValidateDeleteGroup, IsGroupLinkedToDns
<1>6. KeysHold(b)
  BY <1>1, <1>2 DEF Consistent, KeysHold, KeyHolds, ValidateDeleteGroup, IsGroupLinkedToSetupKey
<1>7. RoutersHold(b) /\ ResourcesHold(b)
  BY <1>1, <1>2 DEF Consistent, RoutersHold, ResourcesHold, ValidateDeleteGroup, IsGroupLinkedToNetworkRouter
<1>8. GroupsHold(b)
  BY <1>1, <1>2 DEF Consistent, GroupsHold
<1> QED  BY <1>1, <1>3, <1>4, <1>5, <1>6, <1>7, <1>8 DEF Consistent

LEMMA GroupOperationKeeps ==
  ASSUME Consistent(acct), GroupOperation
  PROVE  Consistent(acct')
<1> PICK g \in scope.groups :
      \/ \E rs \in {{}, scope.resources} :
           UpdateGroups(g, rs) \/ \E ps \in scope.members : CreateGroup(g, ps, rs) \/ UpdateGroup(g, ps, rs)
      \/ \E p \in Peers : GroupAddPeer(g, p) \/ GroupDeletePeer(g, p)
      \/ \E n \in scope.resources : GroupAddResource(g, n) \/ GroupDeleteResource(g, n)
      \/ DeleteGroups({g}) \/ DeleteGroups(Groups)
  BY DEF GroupOperation
<1>1. ASSUME NEW ps, NEW rs, acct' = WithGroup(g, ps, rs)
      PROVE  Consistent(acct')
  BY <1>1, WithGroupKeeps
<1>2. ASSUME NEW ps, NEW rs, UpdateGroups(g, rs) \/ CreateGroup(g, ps, rs) \/ UpdateGroup(g, ps, rs)
      PROVE  Consistent(acct')
  BY <1>1, <1>2 DEF UpdateGroups, CreateGroup, UpdateGroup, Commit
<1>3. ASSUME NEW p, GroupAddPeer(g, p) \/ GroupDeletePeer(g, p)
      PROVE  Consistent(acct')
  BY <1>1, <1>3 DEF GroupAddPeer, GroupDeletePeer, Commit
<1>4. ASSUME NEW n, GroupAddResource(g, n) \/ GroupDeleteResource(g, n)
      PROVE  Consistent(acct')
  BY <1>1, <1>4 DEF GroupAddResource, GroupDeleteResource, Commit
<1>5. ASSUME NEW gs, DeleteGroups(gs)
      PROVE  Consistent(acct')
  BY <1>5, DeleteGroupsKeeps DEF DeleteGroups, Commit
<1> QED  BY <1>2, <1>3, <1>4, <1>5

-----------------------------------------------------------------------------
(* Policies and posture checks. *)

LEMMA ValidatedRuleHolds ==
  ASSUME NEW s \in Scopes, NEW r \in s.rules
  PROVE  RuleHolds(acct, ValidatePolicy(r))
<1>1. DOMAIN r = RuleFields
  BY RulesAssumption DEF RuleFields
<1> DEFINE new == ValidatePolicy(r)
<1>2. /\ new.sources = r.sources \cap Groups /\ new.destinations = r.destinations \cap Groups
      /\ new.srcPeer = r.srcPeer
      /\ new.checks = RestrictValues(r.checks, LAMBDA k : k \in DOMAIN acct.checks)
  BY <1>1 DEF ValidatePolicy, RuleFields
<1>3. /\ DOMAIN new.checks \subseteq DOMAIN r.checks
      /\ \A j \in DOMAIN new.checks : new.checks[j] \in DOMAIN acct.checks
  BY <1>2 DEF RestrictValues, Restrict
<1>4. r.checks \in Seq(s.checks) /\ (r.srcPeer # None => r.sources = {})
  BY RulesAssumption
<1>5. DOMAIN new.checks \subseteq Nat
  BY <1>3, <1>4
<1> QED  BY <1>2, <1>3, <1>4, <1>5 DEF RuleHolds, RuleGroups, IdsOf, Groups

LEMMA PolicyOperationKeeps ==
  ASSUME Consistent(acct), scope \in Scopes, PolicyOperation
  PROVE  Consistent(acct')
<1>1. ASSUME NEW i \in scope.policies, DeletePolicy(i)
      PROVE  Consistent(acct')
  <2>1. /\ DOMAIN acct' = Fields
        /\ \A f \in Fields \ {"policies"} : acct'[f] = acct[f]
        /\ acct'.policies = Drop(acct.policies, {i})
    BY <1>1 DEF DeletePolicy, Commit, Consistent, Fields
  <2>2. PoliciesHold(acct')
    BY <2>1 DEF Consistent, PoliciesHold, RuleHolds, Drop, IdsOf, Fields
  <2> QED  BY <2>1, <2>2, Grown DEF IdsOf, Fields
<1>2. ASSUME NEW i \in scope.policies, NEW r \in scope.rules, SavePolicy(i, r)
      PROVE  Consistent(acct')
  <2> DEFINE new == ValidatePolicy(r)
  <2>1. RuleHolds(acct, new)
    BY ValidatedRuleHolds
  <2>2. acct' = [acct EXCEPT !.policies = Put(@, i, new)]
    BY <1>2 DEF SavePolicy, Commit
  <2> HIDE DEF new
  <2>3. /\ DOMAIN acct' = Fields
        /\ \A f \in Fields \ {"policies"} : acct'[f] = acct[f]
        /\ acct'.policies = Put(acct.policies, i, new)
    BY <2>2 DEF Consistent, Fields
  <2>4. PoliciesHold(acct')
    BY <2>1, <2>3 DEF Consistent, PoliciesHold, RuleHolds, Put, IdsOf, Fields
  <2> QED  BY <2>3, <2>4, Grown DEF IdsOf, Fields
<1>3. ASSUME NEW k \in scope.checks, DeletePostureChecks(k)
      PROVE  Consistent(acct')
  <2>1. /\ DOMAIN acct' = Fields
        /\ \A f \in Fields \ {"checks"} : acct'[f] = acct[f]
        /\ acct'.checks = Drop(acct.checks, {k})
    BY <1>3 DEF DeletePostureChecks, Commit, Consistent, Fields
  <2>2. PoliciesHold(acct')
    BY <1>3, <2>1 DEF DeletePostureChecks, PoliciesWithCheck, Consistent, PoliciesHold, RuleHolds, Drop, IdsOf, Fields
  <2> QED  BY <2>1, <2>2 DEF Consistent, RoutesHold, NameServersHold, NoDnsHolds, KeysHold, KeyHolds,
                             RoutersHold, ResourcesHold, GroupsHold, IdsOf, Fields
<1>4. ASSUME NEW k \in scope.checks, NEW ps \in scope.failing, SavePostureChecks(k, ps)
      PROVE  Consistent(acct')
  <2>1. /\ DOMAIN acct' = Fields
        /\ \A f \in Fields \ {"checks"} : acct'[f] = acct[f]
        /\ acct'.checks = Put(acct.checks, k, ps)
    BY <1>4 DEF SavePostureChecks, Commit, Consistent, Fields
  <2>2. DOMAIN acct.checks \subseteq DOMAIN acct'.checks
    BY <2>1 DEF Put
  <2> QED  BY <2>1, <2>2, Grown DEF IdsOf, Fields
<1> QED  BY <1>1, <1>2, <1>3, <1>4 DEF PolicyOperation

-----------------------------------------------------------------------------
(* Routes, name servers, DNS settings and zones. *)

LEMMA RouteOperationKeeps ==
  ASSUME Consistent(acct), RouteOperation
  PROVE  Consistent(acct')
<1>1. ASSUME NEW x \in scope.routes, DeleteRoute(x)
      PROVE  Consistent(acct')
  <2>1. /\ DOMAIN acct' = Fields
        /\ \A f \in Fields \ {"routes"} : acct'[f] = acct[f]
        /\ acct'.routes = Drop(acct.routes, {x})
    BY <1>1 DEF DeleteRoute, Commit, Consistent, Fields
  <2>2. RoutesHold(acct')
    BY <2>1 DEF Consistent, RoutesHold, Drop, IdsOf, Fields
  <2> QED  BY <2>1, <2>2, Grown DEF IdsOf, Fields
<1>2. ASSUME NEW x \in scope.routes, NEW r \in scope.paths, CreateRoute(x, r) \/ SaveRoute(x, r)
      PROVE  Consistent(acct')
  <2>1. /\ RouteGroups(r) \subseteq Groups
        /\ acct' = [acct EXCEPT !.routes = Put(@, x, r)]
    BY <1>2 DEF CreateRoute, SaveRoute, ValidateRoute, Commit
  <2>2. /\ DOMAIN acct' = Fields
        /\ \A f \in Fields \ {"routes"} : acct'[f] = acct[f]
        /\ acct'.routes = Put(acct.routes, x, r)
    BY <2>1 DEF Consistent, Fields
  <2>3. RoutesHold(acct')
    BY <2>1, <2>2 DEF Consistent, RoutesHold, Put, IdsOf, Groups, Fields
  <2> QED  BY <2>2, <2>3, Grown DEF IdsOf, Fields
<1> QED  BY <1>1, <1>2 DEF RouteOperation

LEMMA DnsOperationKeeps ==
  ASSUME Consistent(acct), DnsOperation
  PROVE  Consistent(acct')
<1>1. ASSUME NEW s \in scope.nsGroups, DeleteNameServerGroup(s)
      PROVE  Consistent(acct')
  <2>1. /\ DOMAIN acct' = Fields
        /\ \A f \in Fields \ {"nsGroups"} : acct'[f] = acct[f]
        /\ acct'.nsGroups = Drop(acct.nsGroups, {s})
    BY <1>1 DEF DeleteNameServerGroup, Commit, Consistent, Fields
  <2>2. NameServersHold(acct')
    BY <2>1 DEF Consistent, NameServersHold, Drop, IdsOf, Fields
  <2> QED  BY <2>1, <2>2, Grown DEF IdsOf, Fields
<1>2. ASSUME NEW s \in scope.nsGroups, NEW new \in scope.servers,
             CreateNameServerGroup(s, new) \/ SaveNameServerGroup(s, new)
      PROVE  Consistent(acct')
  <2>1. /\ new.groups \subseteq Groups
        /\ acct' = [acct EXCEPT !.nsGroups = Put(@, s, new)]
    BY <1>2 DEF CreateNameServerGroup, SaveNameServerGroup, ValidateGroups, Commit
  <2>2. /\ DOMAIN acct' = Fields
        /\ \A f \in Fields \ {"nsGroups"} : acct'[f] = acct[f]
        /\ acct'.nsGroups = Put(acct.nsGroups, s, new)
    BY <2>1 DEF Consistent, Fields
  <2>3. NameServersHold(acct')
    BY <2>1, <2>2 DEF Consistent, NameServersHold, Put, IdsOf, Groups, Fields
  <2> QED  BY <2>2, <2>3, Grown DEF IdsOf, Fields
<1>3. ASSUME NEW gs \in scope.noDns, SaveDNSSettings(gs)
      PROVE  Consistent(acct')
  <2>1. /\ DOMAIN acct' = Fields
        /\ \A f \in Fields \ {"noDns"} : acct'[f] = acct[f]
        /\ acct'.noDns = gs /\ gs \subseteq Groups
    BY <1>3 DEF SaveDNSSettings, ValidateGroups, Commit, Consistent, Fields
  <2>2. NoDnsHolds(acct')
    BY <2>1 DEF NoDnsHolds, IdsOf, Groups, Fields
  <2> QED  BY <2>1, <2>2, Grown DEF IdsOf, Fields
<1>4. ASSUME NEW z \in scope.zones, NEW gs, NEW on,
             \/ DeleteZone(z) \/ CreateRecord(z) \/ DeleteRecord(z)
             \/ CreateZone(z, gs, on) \/ UpdateZone(z, gs, on)
      PROVE  Consistent(acct')
  <2>1. DOMAIN acct' = Fields /\ \A f \in Fields \ {"zones"} : acct'[f] = acct[f]
    BY <1>4 DEF DeleteZone, CreateRecord, DeleteRecord, CreateZone, UpdateZone, Commit, Consistent, Fields
  <2> QED  BY <2>1, Untouched DEF Fields
<1> QED  BY <1>1, <1>2, <1>3, <1>4 DEF DnsOperation

-----------------------------------------------------------------------------
(* Networks, routers and resources. *)

LEMMA RouterOperationKeeps ==
  ASSUME Consistent(acct), NEW r, NEW new,
         DeleteRouter(r) \/ CreateRouter(r, new) \/ UpdateRouter(r, new)
  PROVE  Consistent(acct')
<1>1. CASE DeleteRouter(r)
  <2>1. /\ DOMAIN acct' = Fields
        /\ \A f \in Fields \ {"routers"} : acct'[f] = acct[f]
        /\ acct'.routers = Drop(acct.routers, {r})
    BY <1>1 DEF DeleteRouter, Commit, Consistent, Fields
  <2>2. RoutersHold(acct')
    BY <2>1 DEF Consistent, RoutersHold, Drop, IdsOf, Fields
  <2> QED  BY <2>1, <2>2, Grown DEF IdsOf, Fields
<1>2. CASE CreateRouter(r, new) \/ UpdateRouter(r, new)
  <2>1. /\ new.network \in acct.networks
        /\ acct' = [acct EXCEPT !.routers = Put(@, r, new)]
    BY <1>2 DEF CreateRouter, UpdateRouter, Commit
  <2>2. /\ DOMAIN acct' = Fields
        /\ \A f \in Fields \ {"routers"} : acct'[f] = acct[f]
        /\ acct'.routers = Put(acct.routers, r, new)
    BY <2>1 DEF Consistent, Fields
  <2>3. RoutersHold(acct')
    BY <2>1, <2>2 DEF Consistent, RoutersHold, Put, Fields
  <2> QED  BY <2>2, <2>3, Grown DEF IdsOf, Fields
<1> QED  BY <1>1, <1>2

LEMMA WithResourceKeeps ==
  ASSUME Consistent(acct), NEW n, NEW new, NEW gs, new.network \in acct.networks, NEW b,
         b = WithResource(n, new, gs)
  PROVE  Consistent(b)
<1>1. /\ DOMAIN b = Fields
      /\ \A f \in Fields \ {"resources", "groupRes"} : b[f] = acct[f]
      /\ b.resources = Put(acct.resources, n, new)
      /\ b.groupRes = [g \in Groups |-> IF g \in gs THEN acct.groupRes[g] \cup {n} ELSE acct.groupRes[g] \ {n}]
  BY DEF WithResource, Consistent, Fields
<1>2. DOMAIN b.resources = DOMAIN acct.resources \cup {n}
  BY <1>1 DEF Put
<1>3. ResourcesHold(b)
  BY <1>1 DEF Consistent, ResourcesHold, Put, Fields
<1>4. GroupsHold(b)
  BY <1>1, <1>2 DEF Consistent, GroupsHold, IdsOf, Groups, Fields
<1> QED  BY <1>1, <1>2, <1>3, <1>4, Grown DEF IdsOf, Fields

LEMMA WithoutResourcesKeeps ==
  ASSUME Consistent(acct), NEW ns, NEW b, b = WithoutResources(ns)
  PROVE  /\ Consistent(b)
         /\ DOMAIN b = Fields
         /\ \A f \in Fields \ {"resources", "groupRes"} : b[f] = acct[f]
         /\ b.resources = Drop(acct.resources, ns)
<1>1. /\ DOMAIN b = Fields
      /\ \A f \in Fields \ {"resources", "groupRes"} : b[f] = acct[f]
      /\ b.resources = Drop(acct.resources, ns)
      /\ b.groupRes = [g \in Groups |-> acct.groupRes[g] \ ns]
  BY DEF WithoutResources, Consistent, Fields
<1>2. ResourcesHold(b)
  BY <1>1 DEF Consistent, ResourcesHold, Drop, Fields
<1>3. GroupsHold(b)
  BY <1>1 DEF Consistent, GroupsHold, IdsOf, Groups, Drop, Fields
<1> QED  BY <1>1, <1>2, <1>3, Grown DEF IdsOf, Fields

LEMMA DeleteNetworkKeeps ==
  ASSUME Consistent(acct), NEW net, DeleteNetwork(net)
  PROVE  Consistent(acct')
<1> DEFINE lost == {k \in DOMAIN acct.resources : acct.resources[k].network = net}
           idle == {k \in DOMAIN acct.routers : acct.routers[k].network = net}
<1> PICK a : a = WithoutResources(lost)
  OBVIOUS
<1>1. acct' = [a EXCEPT !.routers = Drop(@, idle), !.networks = @ \ {net}]
  BY DEF DeleteNetwork, Commit
<1>2. /\ Consistent(a) /\ DOMAIN a = Fields
      /\ \A f \in Fields \ {"resources", "groupRes"} : a[f] = acct[f]
      /\ a.resources = Drop(acct.resources, lost)
  BY WithoutResourcesKeeps
<1>3. /\ DOMAIN acct' = Fields
      /\ \A f \in Fields \ {"routers", "networks"} : acct'[f] = a[f]
      /\ acct'.routers = Drop(acct.routers, idle)
      /\ acct'.networks = acct.networks \ {net}
  BY <1>1, <1>2 DEF Fields
<1>4. RoutersHold(acct')
  BY <1>2, <1>3 DEF Consistent, RoutersHold, Drop, IdsOf, Fields
<1>5. ResourcesHold(acct')
  <2>1. DOMAIN acct'.resources = DOMAIN acct.resources \ lost
    BY <1>2, <1>3 DEF Drop, Fields
  <2>2. ASSUME NEW n \in DOMAIN acct'.resources
        PROVE  acct'.resources[n].network \in acct'.networks
    <3>1. acct'.resources[n] = acct.resources[n]
      BY <1>2, <1>3, <2>2 DEF Drop, Fields
    <3>2. acct.resources[n].network \in acct.networks
      BY <2>1, <2>2 DEF Consistent, ResourcesHold
    <3>3. acct.resources[n].network # net
      BY <2>1, <2>2
    <3> QED  BY <1>3, <3>1, <3>2, <3>3
  <2> QED  BY <2>2 DEF ResourcesHold
<1> HIDE DEF lost, idle
<1>6. /\ acct'.routes = a.routes /\ acct'.policies = a.policies /\ acct'.nsGroups = a.nsGroups
      /\ acct'.noDns = a.noDns /\ acct'.keys = a.keys /\ acct'.groupPeers = a.groupPeers
      /\ acct'.groupRes = a.groupRes /\ acct'.peers = a.peers /\ acct'.valid = a.valid
      /\ acct'.checks = a.checks
      /\ acct'.resources = a.resources
  BY <1>3 DEF Fields
<1>7. RoutesHold(acct') /\ PoliciesHold(acct') /\ NameServersHold(acct') /\ NoDnsHolds(acct')
  BY <1>2, <1>6 DEF Consistent, RoutesHold, PoliciesHold, RuleHolds, NameServersHold, NoDnsHolds, IdsOf
<1>8. KeysHold(acct') /\ GroupsHold(acct')
  BY <1>2, <1>6 DEF Consistent, KeysHold, KeyHolds, GroupsHold, IdsOf
<1>9. acct'.valid \subseteq acct'.peers
  BY <1>2, <1>6 DEF Consistent
<1> QED  BY <1>3, <1>4, <1>5, <1>7, <1>8, <1>9 DEF Consistent

LEMMA NetworkOperationKeeps ==
  ASSUME Consistent(acct), NetworkOperation
  PROVE  Consistent(acct')
<1>1. ASSUME NEW net, CreateNetwork(net)
      PROVE  Consistent(acct')
  <2>1. /\ DOMAIN acct' = Fields
        /\ \A f \in Fields \ {"networks"} : acct'[f] = acct[f]
        /\ acct'.networks = acct.networks \cup {net}
    BY <1>1 DEF CreateNetwork, Commit, Consistent, Fields
  <2> QED  BY <2>1, Grown DEF IdsOf, Fields
<1>2. ASSUME NEW n, NEW new, NEW g, CreateResource(n, new, {g}) \/ UpdateResource(n, new, {g})
      PROVE  Consistent(acct')
  BY <1>2, WithResourceKeeps DEF CreateResource, UpdateResource, Commit
<1>3. ASSUME NEW n, DeleteResource(n)
      PROVE  Consistent(acct')
  BY <1>3, WithoutResourcesKeeps DEF DeleteResource, Commit
<1>4. ASSUME NEW r, DeleteRouter(r)
      PROVE  Consistent(acct')
  <2> PICK new : new = [peerGroups |-> {}]
    OBVIOUS
  <2> QED  BY <1>4, RouterOperationKeeps
<1> QED  BY <1>1, <1>2, <1>3, <1>4, DeleteNetworkKeeps, RouterOperationKeeps DEF NetworkOperation

-----------------------------------------------------------------------------
(* The removal of peers. *)

LEMMA WithoutPeersKeeps ==
  ASSUME Consistent(acct), NEW ps, NEW b, b = WithoutPeers(ps)
  PROVE  Consistent(b)
<1> DEFINE naming == {i \in DOMAIN acct.policies :
                        ps \cap {acct.policies[i].srcPeer, acct.policies[i].dstPeer} # {}}
<1>1. /\ DOMAIN b = Fields
      /\ \A f \in Fields \ {"peers", "valid", "owner", "policies", "groupPeers"} : b[f] = acct[f]
      /\ b.peers = acct.peers \ ps /\ b.valid = acct.valid \ ps
      /\ b.policies = Drop(acct.policies, naming)
      /\ b.groupPeers = [g \in Groups |-> acct.groupPeers[g] \ ps]
  BY DEF WithoutPeers, Consistent, Fields
<1>4. IdsOf(b) = IdsOf(acct) /\ b.checks = acct.checks
  BY <1>1 DEF IdsOf, Groups, Fields
<1>2. PoliciesHold(b)
  <2>1. ASSUME NEW i \in DOMAIN b.policies
        PROVE  RuleHolds(b, b.policies[i])
    <3>1. i \in DOMAIN acct.policies \ naming /\ b.policies[i] = acct.policies[i]
      BY <1>1, <2>1 DEF Drop
    <3>2. RuleHolds(acct, acct.policies[i])
      BY <3>1 DEF Consistent, PoliciesHold
    <3> HIDE DEF naming
    <3> QED  BY <1>4, <3>1, <3>2 DEF RuleHolds
  <2> QED  BY <2>1 DEF PoliciesHold
<1>3. GroupsHold(b)
  BY <1>1 DEF Consistent, GroupsHold, IdsOf, Groups, Fields
<1> HIDE DEF naming
<1> QED  BY <1>1, <1>2, <1>3, <1>4 DEF Consistent, RoutesHold, NameServersHold, NoDnsHolds, KeysHold, KeyHolds,
                                       RoutersHold, ResourcesHold, Fields

LEMMA NextKeeps ==
  ASSUME Consistent(acct), scope \in Scopes, Next
  PROVE  Consistent(acct')
<1>1. ASSUME NEW p, DeletePeer(p)
      PROVE  Consistent(acct')
  BY <1>1, WithoutPeersKeeps DEF DeletePeer, Commit
<1> QED  BY <1>1, GroupOperationKeeps, PolicyOperationKeeps, RouteOperationKeeps, DnsOperationKeeps,
            NetworkOperationKeeps DEF Next

-----------------------------------------------------------------------------
(* Members: setup keys, joining peers and users. *)

LEMMA KeyOperationKeeps ==
  ASSUME Consistent(acct), scope \in Scopes, KeyOperation
  PROVE  Consistent(acct')
<1>1. ASSUME NEW k, DeleteSetupKey(k)
      PROVE  Consistent(acct')
  <2>1. /\ DOMAIN acct' = Fields
        /\ \A f \in Fields \ {"keys"} : acct'[f] = acct[f]
        /\ acct'.keys = Drop(acct.keys, {k})
    BY <1>1 DEF DeleteSetupKey, Commit, Consistent, Fields
  <2>2. KeysHold(acct')
    BY <2>1 DEF Consistent, KeysHold, KeyHolds, Drop, IdsOf, Fields
  <2> QED  BY <2>1, <2>2, Grown DEF IdsOf, Fields
<1>2. ASSUME NEW k \in scope.keys, NEW gs, NEW limit \in scope.limits, CreateSetupKey(k, gs, limit)
      PROVE  Consistent(acct')
  <2> PICK key : key = [groups |-> gs, limit |-> limit, used |-> 0, revoked |-> FALSE]
    OBVIOUS
  <2>1. KeyHolds(key, Groups) /\ k # None
    BY <1>2, KeysAssumption DEF CreateSetupKey, KeyHolds
  <2>2. acct' = [acct EXCEPT !.keys = Put(@, k, key)]
    BY <1>2 DEF CreateSetupKey, Commit
  <2>3. /\ DOMAIN acct' = Fields
        /\ \A f \in Fields \ {"keys"} : acct'[f] = acct[f]
        /\ acct'.keys = Put(acct.keys, k, key)
    BY <2>2 DEF Consistent, Fields
  <2>4. KeysHold(acct')
    BY <2>1, <2>3 DEF Consistent, KeysHold, Put, IdsOf, Groups, Fields
  <2> QED  BY <2>3, <2>4, Grown DEF IdsOf, Fields
<1>3. ASSUME NEW k, NEW gs, NEW revoked, SaveSetupKey(k, gs, revoked)
      PROVE  Consistent(acct')
  <2> PICK key : key = [acct.keys[k] EXCEPT !.groups = gs, !.revoked = revoked]
    OBVIOUS
  <2>1. KeyHolds(key, Groups)
    BY <1>3 DEF SaveSetupKey, Consistent, KeysHold, KeyHolds
  <2>2. acct' = [acct EXCEPT !.keys[k].groups = gs, !.keys[k].revoked = revoked]
    BY <1>3 DEF SaveSetupKey, Commit
  <2>3. /\ DOMAIN acct' = Fields
        /\ \A f \in Fields \ {"keys"} : acct'[f] = acct[f]
        /\ acct'.keys = [acct.keys EXCEPT ![k] = key]
    BY <2>2 DEF Consistent, Fields
  <2>4. KeysHold(acct')
    BY <2>1, <2>3 DEF Consistent, KeysHold, IdsOf, Groups, Fields
  <2> QED  BY <2>3, <2>4, Grown DEF IdsOf, Fields
<1> QED  BY <1>1, <1>2, <1>3 DEF KeyOperation

LEMMA AddPeerKeeps ==
  ASSUME Consistent(acct), NEW c, AddPeer(c)
  PROVE  Consistent(acct')
<1> DEFINE j == joining[c]
<1>1. CASE acct' = acct
  BY <1>1
<1>2. CASE (j.key = None \/ IsValid(j.key)) /\ acct' = Enrolled(j)
  <2> DEFINE members == [g \in Groups |-> IF g \in j.groups THEN acct.groupPeers[g] \cup {j.peer}
                                         ELSE acct.groupPeers[g]]
             keys    == [k \in DOMAIN acct.keys |-> IF k = j.key
                           THEN IncrementSetupKeyUsage(acct.keys[k]) ELSE acct.keys[k]]
             owner   == Put(acct.owner, j.peer, j.user)
  <2>0. acct' = [acct EXCEPT !.peers = @ \cup {j.peer}, !.valid = @ \cup {j.peer}, !.owner = owner,
                             !.groupPeers = members, !.keys = keys]
    BY <1>2 DEF Enrolled
  <2>1. /\ DOMAIN acct' = Fields
        /\ \A f \in Fields \ {"peers", "valid", "owner", "groupPeers", "keys"} : acct'[f] = acct[f]
        /\ acct'.peers = acct.peers \cup {j.peer} /\ acct'.valid = acct.valid \cup {j.peer}
        /\ acct'.groupPeers = members
        /\ acct'.keys = keys
    <3> HIDE DEF j, members, keys, owner
    <3> QED  BY <2>0 DEF Consistent, Fields
  <2>2. GroupsHold(acct')
    BY <2>1 DEF Consistent, GroupsHold, IdsOf, Groups, Fields
  <2>3. IdsOf(acct') = IdsOf(acct)
    BY <2>1 DEF IdsOf, Groups
  <2>4. ASSUME NEW k \in DOMAIN acct.keys
        PROVE  KeyHolds(acct'.keys[k], IdsOf(acct))
    <3>1. KeyHolds(acct.keys[k], IdsOf(acct)) /\ k # None
      BY DEF Consistent, KeysHold
    <3>2. CASE k = j.key
      <4>1. acct.keys[k].limit > 0 => ~(acct.keys[k].used >= acct.keys[k].limit)
        BY <1>2, <3>1, <3>2 DEF IsValid, IsOverUsed
      <4>2. acct'.keys[k] = [acct.keys[k] EXCEPT !.used = acct.keys[k].used + 1]
        BY <2>1, <3>2 DEF IncrementSetupKeyUsage
      <4> QED  BY <3>1, <4>1, <4>2 DEF KeyHolds
    <3>3. CASE k # j.key
      BY <2>1, <3>1, <3>3
    <3> QED  BY <3>2, <3>3
  <2>5. KeysHold(acct')
    BY <2>1, <2>3, <2>4 DEF Consistent, KeysHold
  <2>6. acct'.valid \subseteq acct'.peers
    BY <2>1 DEF Consistent
  <2> QED  BY <2>1, <2>2, <2>3, <2>5, <2>6, Grown DEF Fields
<1> QED  BY <1>1, <1>2 DEF AddPeer, Commit, vars

\* Users only change who is in the groups that exist, or add a group.
LEMMA MembersKeep ==
  ASSUME Consistent(acct), NEW b, DOMAIN b = Fields,
         \A f \in Fields \ {"groupPeers", "groupRes", "users", "jwt", "propagates"} : b[f] = acct[f],
         Groups \subseteq IdsOf(b), DOMAIN b.groupRes = IdsOf(b)
  PROVE  Consistent(b)
<1>1. GroupsHold(b)
  BY DEF GroupsHold, Fields
<1> QED  BY <1>1, Grown DEF Groups, IdsOf, Fields

LEMMA MembershipsKeep ==
  ASSUME NEW u, NEW gained, NEW lost, NEW groupPeers
  PROVE  DOMAIN Memberships(u, gained, lost, groupPeers) = DOMAIN groupPeers
  BY DEF Memberships

LEMMA UserOperationKeeps ==
  ASSUME Consistent(acct), NEW u, NEW gs,
         SaveUser(u, gs) \/ AddUser(u, gs) \/ SyncUserJWTGroups(u, gs) \/ DeleteUser(u)
  PROVE  Consistent(acct')
<1>1. CASE SaveUser(u, gs)
  <2> PICK gained, lost : /\ gained = gs \ acct.users[u] /\ lost = acct.users[u] \ gs
    OBVIOUS
  <2>1. acct' = [acct EXCEPT !.users[u] = gs,
                   !.groupPeers = IF saving[1].propagates THEN Memberships(u, gained, lost, @) ELSE @]
    BY <1>1 DEF SaveUser, Commit
  <2>2. /\ DOMAIN acct' = Fields
        /\ \A f \in Fields \ {"groupPeers", "users"} : acct'[f] = acct[f]
        /\ acct'.groupPeers = IF saving[1].propagates THEN Memberships(u, gained, lost, acct.groupPeers)
                              ELSE acct.groupPeers
    BY <2>1 DEF Consistent, Fields
  <2>3. DOMAIN acct'.groupPeers = Groups
    BY <2>2, MembershipsKeep DEF Groups
  <2> QED  BY <2>2, <2>3, MembersKeep DEF Consistent, GroupsHold, IdsOf, Groups, Fields
<1>2. CASE AddUser(u, gs)
  <2>1. DOMAIN acct' = Fields /\ \A f \in Fields \ {"users"} : acct'[f] = acct[f]
    BY <1>2 DEF AddUser, Commit, Consistent, Fields
  <2> QED  BY <2>1, Untouched DEF Fields
<1>3. CASE SyncUserJWTGroups(u, gs)
  <2> DEFINE old    == acct.users[u]
             issued == acct.jwt \cup (gs \ Groups)
             gained == (gs \cap issued) \ old
             lost   == (old \cap acct.jwt) \ gs
             base   == WithEmpty(acct.groupPeers, gs \ Groups)
             res    == WithEmpty(acct.groupRes, gs \ Groups)
             users  == ((acct.users[u] \cap Groups) \ lost) \cup gained
  <2>1. acct' = [acct EXCEPT !.jwt = issued, !.groupRes = res, !.users[u] = users,
                   !.groupPeers = IF saving[1].propagates THEN Memberships(u, gained, lost, base) ELSE base]
    BY <1>3 DEF SyncUserJWTGroups, Commit
  <2>2. DOMAIN base = Groups \cup gs
    BY DEF Groups, WithEmpty
  <2>3. DOMAIN res = Groups \cup gs
    BY DEF Consistent, GroupsHold, IdsOf, Groups, WithEmpty
  <2> HIDE DEF issued, gained, lost, base, res, users
  <2>4. /\ DOMAIN acct' = Fields
        /\ \A f \in Fields \ {"groupPeers", "groupRes", "users", "jwt"} : acct'[f] = acct[f]
        /\ acct'.groupRes = res
        /\ acct'.groupPeers = IF saving[1].propagates THEN Memberships(u, gained, lost, base) ELSE base
    BY <2>1 DEF Consistent, Fields
  <2>5. DOMAIN acct'.groupPeers = Groups \cup gs
    BY <2>2, <2>4, MembershipsKeep
  <2> QED  BY <2>3, <2>4, <2>5, MembersKeep DEF IdsOf, Fields
<1>4. CASE DeleteUser(u)
  <2> PICK a : a = WithoutPeers(Of(u))
    OBVIOUS
  <2>1. Consistent(a)
    BY WithoutPeersKeeps
  <2>2. acct' = [a EXCEPT !.users = Drop(@, {u})]
    BY <1>4 DEF DeleteUser, Commit
  <2>3. DOMAIN acct' = Fields /\ \A f \in Fields \ {"users"} : acct'[f] = a[f]
    BY <2>1, <2>2 DEF Consistent, Fields
  <2> QED  BY <2>1, <2>3, Untouched DEF Fields
<1> QED  BY <1>1, <1>2, <1>3, <1>4

LEMMA SetGroupsPropagationKeeps ==
  ASSUME Consistent(acct), NEW on, SetGroupsPropagation(on)
  PROVE  Consistent(acct')
<1> DEFINE late(g) == {p \in acct.peers : acct.owner[p] \in DOMAIN acct.users
                                     /\ g \in acct.users[acct.owner[p]]} \ acct.groupPeers[g]
           grown   == {g \in Groups : on /\ late(g) # {}}
<1>1. /\ DOMAIN acct' = Fields
      /\ \A f \in Fields \ {"propagates", "groupPeers"} : acct'[f] = acct[f]
      /\ acct'.groupPeers = [g \in Groups |-> IF g \in grown THEN acct.groupPeers[g] \cup late(g)
                                              ELSE acct.groupPeers[g]]
  BY DEF SetGroupsPropagation, Commit, Consistent, Fields
<1> HIDE DEF late, grown
<1> QED  BY <1>1, MembersKeep DEF Consistent, GroupsHold, IdsOf, Groups, Fields

LEMMA MNextKeeps ==
  ASSUME Consistent(acct), scope \in Scopes, MNext
  PROVE  Consistent(acct')
<1>1. ASSUME NEW c, NEW p, NEW k, HandleSetupKeyAddedPeer(c, p, k) \/ HandleUserAddedPeer(c, p, k)
      PROVE  Consistent(acct')
  BY <1>1 DEF HandleSetupKeyAddedPeer, HandleUserAddedPeer, ReadBefore, vars
<1>2. CASE ReadAccountGroups
  BY <1>2 DEF ReadAccountGroups, vars
<1> QED  BY <1>1, <1>2, NextKeeps, KeyOperationKeeps, AddPeerKeeps, UserOperationKeeps,
            SetGroupsPropagationKeeps DEF MNext

-----------------------------------------------------------------------------
(* Services change nothing that the account refers to. *)

LEMMA OnlyServices ==
  ASSUME Consistent(acct), NEW services, acct' = [acct EXCEPT !.services = services]
  PROVE  Consistent(acct')
<1>1. DOMAIN acct' = Fields /\ \A f \in Fields \ {"services"} : acct'[f] = acct[f]
  BY DEF Consistent, Fields
<1> QED  BY <1>1, Untouched DEF Fields

LEMMA ServiceOperationKeeps ==
  ASSUME Consistent(acct), NEW h, NEW s, NEW p, NEW offer,
         \/ CreateService(h, s, offer) \/ UpdateService(h, s, offer) \/ CreateServiceFromPeer(h, s, p, offer)
         \/ DeleteService(h, s) \/ DeleteAllServices(h) \/ ReloadAllServicesForAccount(h)
         \/ StopServiceFromPeer(h, s, p) \/ DeleteExpiredPeerService(h, s, p)
  PROVE  Consistent(acct')
<1>1. ASSUME NEW svc, acct' = WithService(s, svc)
      PROVE  Consistent(acct')
  BY <1>1, OnlyServices DEF WithService
<1>2. ASSUME NEW ss, acct' = WithoutServices(ss)
      PROVE  Consistent(acct')
  BY <1>2, OnlyServices DEF WithoutServices
<1>3. CASE CreateService(h, s, offer) \/ UpdateService(h, s, offer) \/ CreateServiceFromPeer(h, s, p, offer)
  BY <1>1, <1>3 DEF CreateService, UpdateService, CreateServiceFromPeer, PersistNewService, Changed, Commit
<1>4. CASE DeleteService(h, s) \/ DeleteAllServices(h) \/ StopServiceFromPeer(h, s, p)
  BY <1>2, <1>4 DEF DeleteService, DeleteAllServices, StopServiceFromPeer, Changed, Commit
<1>5. CASE ReloadAllServicesForAccount(h)
  BY <1>5 DEF ReloadAllServicesForAccount, memberVars, vars
<1>6. CASE DeleteExpiredPeerService(h, s, p)
  <2>1. acct' = acct \/ acct' = WithoutServices({s})
    BY <1>6 DEF DeleteExpiredPeerService, Changed, Commit, memberVars, vars
  <2> QED  BY <1>2, <2>1
<1> QED  BY <1>3, <1>4, <1>5, <1>6

LEMMA SNextKeeps ==
  ASSUME Consistent(acct), scope \in Scopes, SNext
  PROVE  Consistent(acct')
<1>1. ASSUME NEW s, RenewServiceFromPeer(s) \/ Expire(s)
      PROVE  Consistent(acct')
  <2>1. DOMAIN acct' = Fields /\ \A f \in Fields \ {"services"} : acct'[f] = acct[f]
    BY <1>1 DEF RenewServiceFromPeer, Expire, Commit, Consistent, Fields
  <2> QED  BY <2>1, Untouched DEF Fields
<1>2. ASSUME NEW p, DeleteUnusedPeer(p)
      PROVE  Consistent(acct')
  BY <1>2, WithoutPeersKeeps DEF DeleteUnusedPeer, DeletePeer, Commit
<1>3. ASSUME NEW p, ReapExpiredExposes \/ GetServiceIDByTargetID(p)
      PROVE  Consistent(acct')
  BY <1>3 DEF ReapExpiredExposes, GetServiceIDByTargetID, memberVars, vars
<1> QED  BY <1>1, <1>2, <1>3, MNextKeeps, ServiceOperationKeeps DEF SNext

-----------------------------------------------------------------------------
(* The invariant of the account along every behaviour. *)

AccountInv == scope \in Scopes /\ Consistent(acct)

LEMMA CommitKeepsScope ==
  ASSUME NEW a, NEW tells, NEW counts, Commit(a, tells, counts)
  PROVE  scope' = scope
  BY DEF Commit

LEMMA ScopeStays ==
  ASSUME [PNext]_allVars
  PROVE  scope' = scope
<1>1. CASE GroupOperation
  BY <1>1, CommitKeepsScope DEF GroupOperation, CreateGroup, UpdateGroup, UpdateGroups, GroupAddPeer, GroupDeletePeer,
     GroupAddResource, GroupDeleteResource, DeleteGroups
<1>2. CASE PolicyOperation
  BY <1>2, CommitKeepsScope DEF PolicyOperation, DeletePolicy, SavePolicy, DeletePostureChecks, SavePostureChecks
<1>3. CASE RouteOperation
  BY <1>3, CommitKeepsScope DEF RouteOperation, DeleteRoute, CreateRoute, SaveRoute
<1>4. CASE DnsOperation
  BY <1>4, CommitKeepsScope DEF DnsOperation, DeleteNameServerGroup, CreateNameServerGroup, SaveNameServerGroup,
     SaveDNSSettings, DeleteZone, CreateRecord, DeleteRecord, CreateZone, UpdateZone
<1>5. CASE NetworkOperation
  BY <1>5, CommitKeepsScope DEF NetworkOperation, CreateNetwork, DeleteNetwork, DeleteRouter, CreateRouter,
     UpdateRouter, DeleteResource, CreateResource, UpdateResource
<1>6. ASSUME NEW p, DeletePeer(p)
      PROVE  scope' = scope
  BY <1>6, CommitKeepsScope DEF DeletePeer
<1>7. CASE KeyOperation
  BY <1>7, CommitKeepsScope DEF KeyOperation, DeleteSetupKey, CreateSetupKey, SaveSetupKey
<1>8. ASSUME NEW c, AddPeer(c)
      PROVE  scope' = scope
  BY <1>8, CommitKeepsScope DEF AddPeer, vars
<1>9. ASSUME NEW u, NEW gs, NEW on,
             SaveUser(u, gs) \/ AddUser(u, gs) \/ SyncUserJWTGroups(u, gs) \/ DeleteUser(u) \/ SetGroupsPropagation(on)
      PROVE  scope' = scope
  BY <1>9, CommitKeepsScope DEF SaveUser, AddUser, SyncUserJWTGroups, DeleteUser, SetGroupsPropagation
<1>10. ASSUME NEW c, NEW p, NEW k,
              HandleSetupKeyAddedPeer(c, p, k) \/ HandleUserAddedPeer(c, p, k) \/ ReadAccountGroups
       PROVE  scope' = scope
  BY <1>10 DEF HandleSetupKeyAddedPeer, HandleUserAddedPeer, ReadBefore, ReadAccountGroups, vars
<1>11. CASE MNext
  BY <1>1, <1>2, <1>3, <1>4, <1>5, <1>6, <1>7, <1>8, <1>9, <1>10, <1>11 DEF MNext, Next
<1>12. ASSUME NEW h, NEW s, NEW p, NEW offer,
              \/ CreateService(h, s, offer) \/ UpdateService(h, s, offer) \/ CreateServiceFromPeer(h, s, p, offer)
              \/ DeleteService(h, s) \/ DeleteAllServices(h) \/ StopServiceFromPeer(h, s, p)
              \/ DeleteExpiredPeerService(h, s, p) \/ ReloadAllServicesForAccount(h)
       PROVE  scope' = scope
  BY <1>12, CommitKeepsScope DEF CreateService, UpdateService, CreateServiceFromPeer, PersistNewService, DeleteService,
     DeleteAllServices, StopServiceFromPeer, DeleteExpiredPeerService, Changed, ReloadAllServicesForAccount,
     memberVars, vars
<1>13. ASSUME NEW s, NEW p, \/ RenewServiceFromPeer(s) \/ Expire(s) \/ ReapExpiredExposes
                            \/ GetServiceIDByTargetID(p) \/ DeleteUnusedPeer(p)
       PROVE  scope' = scope
  BY <1>6, <1>13, CommitKeepsScope DEF RenewServiceFromPeer, Expire, ReapExpiredExposes, GetServiceIDByTargetID,
     DeleteUnusedPeer, memberVars, vars
<1>14. CASE SNext
  BY <1>11, <1>12, <1>13, <1>14 DEF SNext
<1>15. CASE UNCHANGED memberVars
  BY <1>15 DEF memberVars, vars
<1> QED  BY <1>14, <1>15 DEF PNext, SendServiceUpdateToCluster, allVars

LEMMA InitConsistent == Init => AccountInv
<1> SUFFICES ASSUME Init PROVE AccountInv
  OBVIOUS
<1>1. /\ acct.groupPeers = <<>> /\ acct.groupRes = <<>> /\ acct.checks = <<>> /\ acct.policies = <<>>
      /\ acct.routes = <<>> /\ acct.nsGroups = <<>> /\ acct.noDns = {} /\ acct.routers = <<>>
      /\ acct.resources = <<>> /\ acct.keys = <<>>
  BY DEF Init
<1>2. DOMAIN acct = Fields
  BY DEF Init, Fields
<1>3. DOMAIN <<>> = {}
  OBVIOUS
<1> QED  BY <1>1, <1>2, <1>3 DEF Init, AccountInv, Consistent, RoutesHold, PoliciesHold, NameServersHold, NoDnsHolds,
            KeysHold, RoutersHold, ResourcesHold, GroupsHold, IdsOf

LEMMA AccountStep == AccountInv /\ [PNext]_allVars => AccountInv'
<1> SUFFICES ASSUME AccountInv, [PNext]_allVars PROVE AccountInv'
  OBVIOUS
<1>1. scope' \in Scopes
  BY ScopeStays DEF AccountInv
<1>2. CASE SNext
  BY <1>1, <1>2, SNextKeeps DEF AccountInv
<1>3. CASE UNCHANGED memberVars
  BY <1>1, <1>3 DEF AccountInv, memberVars, vars
<1> QED  BY <1>2, <1>3 DEF PNext, SendServiceUpdateToCluster, allVars

LEMMA AccountInvariant == PSpec => []AccountInv
<1>1. PInit => AccountInv
  BY InitConsistent DEF PInit, SInit, MInit
<1> QED  BY <1>1, AccountStep, PTL DEF PSpec

\* No operation on groups, policies, posture checks, routes, name servers, DNS
\* settings, networks, setup keys, users, peers or services, in any order, leaves
\* an object that refers to one that is gone (validateDeleteGroup,
\* validatePolicy, validateRoute, deletePeers and the others together).
THEOREM ReferencesHold == PSpec => []NoDanglingReference
<1>1. AccountInv => NoDanglingReference
  BY DEF AccountInv, Consistent, RoutesHold, PoliciesHold, RuleHolds, NameServersHold, NoDnsHolds, KeysHold, KeyHolds,
         RoutersHold, ResourcesHold, GroupsHold, IdsOf, NoDanglingReference, Groups
<1> QED  BY <1>1, AccountInvariant, PTL

\* However many machines present a setup key, and whatever happens between the
\* look at the key and the transaction of AddPeer, its usage stays within its limit.
THEOREM SetupKeysAreLimited == PSpec => []KeyLimitHolds
<1>1. AccountInv => KeyLimitHolds
  BY DEF AccountInv, Consistent, KeysHold, KeyHolds, KeyLimitHolds
<1> QED  BY <1>1, AccountInvariant, PTL

-----------------------------------------------------------------------------
(* The row of a proxy. *)

StreamFields == {"pc", "address", "live", "chan", "held"}

\* The row says connected as long as the stream it names has neither ended nor
\* still to begin.
RowFollowsSession ==
  /\ \A t \in DOMAIN stream : DOMAIN stream[t] = StreamFields
  /\ DOMAIN row = {"session", "connected"}
  /\ \A t \in DOMAIN stream : row.session = t /\ stream[t].pc \notin {"new", "gone"} => row.connected

LEMMA RowStep == RowFollowsSession /\ [PNext]_allVars => RowFollowsSession'
<1> SUFFICES ASSUME RowFollowsSession, [PNext]_allVars PROVE RowFollowsSession'
  OBVIOUS
<1>1. ASSUME NEW t, NEW c, Connect(t, c)
      PROVE  RowFollowsSession'
  BY <1>1 DEF Connect, RowFollowsSession, StreamFields
<1>2. ASSUME NEW t, RegisterProxyToCluster(t)
      PROVE  RowFollowsSession'
  BY <1>2 DEF RegisterProxyToCluster, RowFollowsSession, StreamFields
<1>3. ASSUME NEW t, SendSnapshot(t)
      PROVE  RowFollowsSession'
  BY <1>3 DEF SendSnapshot, RowFollowsSession, StreamFields
<1>4. ASSUME NEW t, GiveUp(t)
      PROVE  RowFollowsSession'
  BY <1>4 DEF GiveUp, DisconnectProxy, RowFollowsSession, StreamFields
<1>5. ASSUME NEW t, UnregisterProxyFromCluster(t)
      PROVE  RowFollowsSession'
  BY <1>5 DEF UnregisterProxyFromCluster, DisconnectProxy, RowFollowsSession, StreamFields
<1>6. ASSUME NEW t, Lose(t)
      PROVE  RowFollowsSession'
  BY <1>6 DEF Lose, RowFollowsSession, StreamFields
<1>7. ASSUME NEW t, Sender(t)
      PROVE  RowFollowsSession'
  BY <1>7 DEF Sender, RowFollowsSession, StreamFields
<1>8. ASSUME NEW h, SendServiceUpdateToCluster(h)
      PROVE  RowFollowsSession'
  BY <1>8 DEF SendServiceUpdateToCluster, RowFollowsSession, StreamFields
<1>9. CASE UNCHANGED proxyVars
  BY <1>9 DEF proxyVars, RowFollowsSession
<1> QED  BY <1>1, <1>2, <1>3, <1>4, <1>5, <1>6, <1>7, <1>8, <1>9 DEF PNext, GetMappingUpdate, allVars

\* The end of a stream that a newer one has replaced does not mark the proxy
\* disconnected in the database, in whatever order the two handlers run.
THEOREM ServedProxyStaysConnected == PSpec => []SessionRowKept
<1>1. PInit => RowFollowsSession
  BY DEF PInit, RowFollowsSession, StreamFields
<1>2. RowFollowsSession => SessionRowKept
  BY DEF RowFollowsSession, SessionRowKept, IsServed
<1> QED  BY <1>1, <1>2, RowStep, PTL DEF PSpec

-----------------------------------------------------------------------------
(* A set of numbers has a least one; the first failed check of a list is found. *)

LEMMA LeastNumber ==
  ASSUME NEW T, T \subseteq Nat, T # {}
  PROVE  \E x \in T : \A y \in T : x <= y
<1> DEFINE R == {ss \in Nat \X Nat : ss[1] < ss[2]}
<1>1. IsWellFoundedOn(R, Nat)
  BY NatLessThanWellFounded DEF OpToRel
<1>2. \E x \in T : \A y \in T : ~ (<<y, x>> \in R)
  <2> HIDE DEF R
  <2> QED BY <1>1, WFMin
<1>3. PICK x \in T : \A y \in T : ~ (<<y, x>> \in R)
  BY <1>2
<1>4. ASSUME NEW y \in T PROVE x <= y
  <2>1. <<y, x>> \notin R
    BY <1>3
  <2>2. x \in Nat /\ y \in Nat
    OBVIOUS
  <2>3. ~(y < x)
    BY <2>1, <2>2
  <2> QED  BY <2>2, <2>3
<1> QED  BY <1>4

\* A peer fails a list of checks when it fails one of those that exist.
Passes(a, cs, q) == \A i \in DOMAIN cs : ~(cs[i] \in DOMAIN a.checks /\ q \in a.checks[cs[i]])

LEMMA FirstFailedIsReal ==
  ASSUME NEW a, NEW cs, NEW q, NEW k, NEW x, <<k, x>> \in FirstFailed(a, cs, q)
  PROVE  x = q /\ k \in DOMAIN a.checks /\ q \in a.checks[k] /\ \E i \in DOMAIN cs : cs[i] = k
  BY DEF FirstFailed

LEMMA FirstFailedFinds ==
  ASSUME NEW a, NEW cs, NEW q, DOMAIN cs \subseteq Nat
  PROVE  FirstFailed(a, cs, q) = {} <=> Passes(a, cs, q)
<1> DEFINE failed == {i \in DOMAIN cs : cs[i] \in DOMAIN a.checks /\ q \in a.checks[cs[i]]}
<1>1. CASE failed = {}
  BY <1>1 DEF FirstFailed, Passes
<1>2. CASE failed # {}
  <2>1. PICK i \in failed : \A k \in failed : i <= k
    BY <1>2, LeastNumber
  <2>2. <<cs[i], q>> \in FirstFailed(a, cs, q)
    BY <2>1 DEF FirstFailed
  <2> QED  BY <1>2, <2>2 DEF Passes
<1> QED  BY <1>1, <1>2

LEMMA MembersOf ==
  ASSUME NEW gs, NEW groups, NEW q
  PROVE  q \in Members(gs, groups) <=> \E g \in gs \cap DOMAIN groups : q \in groups[g]
  BY DEF Members


-----------------------------------------------------------------------------
(* What the components of p keep of the account. *)

Src(a, i) == RuleSources(a, a.policies[i])
Dst(a, i) == RuleDestinations(a, a.policies[i])
ResSrc(a, i) == GetResourcePolicyPeers(a.policies[i], a.groupPeers)
Fine(a, i, q) == Passes(a, a.policies[i].checks, q)
Ids(a, n) == GetPoliciesForNetworkResource(a, n)
Hops(a, n) == RoutersOf(a, a.resources[n].network)

\* q may use resource n: a policy for it has q among its sources, which passes its checks.
Client(a, q, n) == \E i \in Ids(a, n) : q \in ResSrc(a, i) /\ Fine(a, i, q)

\* The sources of policy i whose posture the components of p have to know.
Checked(a, p, i, q) ==
  \/ q \in Members(a.policies[i].sources, a.groupPeers)
  \/ \E n \in Enabled(a.resources) : i \in Ids(a, n) /\ q \in ResSrc(a, i) /\ (q = p \/ p \in Hops(a, n))

WellFormed(a) ==
  /\ a.valid \subseteq a.peers
  /\ \A i \in DOMAIN a.policies :
       /\ DOMAIN a.policies[i].checks \subseteq Nat
       /\ a.policies[i].srcPeer # None => a.policies[i].sources = {}

KeepsAccount(a, c) ==
  c.rules = a.policies /\ c.routes = a.routes /\ c.expired = a.expired /\ c.noDns = a.noDns

KeepsGroups(a, p, c) ==
  /\ p \in c.peers /\ c.peers \subseteq a.peers
  /\ DOMAIN c.groups \subseteq DOMAIN a.groupPeers
  /\ \A g \in DOMAIN c.groups : c.groups[g] \subseteq a.groupPeers[g]
                                /\ a.groupPeers[g] \cap c.peers \subseteq c.groups[g]
  /\ GetPeerGroups(a.groupPeers, p) \subseteq DOMAIN c.groups

KeepsPolicies(a, p, c) ==
  /\ c.policies \subseteq DOMAIN a.policies
  /\ \A i \in Enabled(a.policies) :
       /\ p \in Src(a, i) => /\ i \in c.policies /\ Dst(a, i) \cap a.valid \subseteq c.peers
                             /\ a.policies[i].destinations \cap DOMAIN a.groupPeers \subseteq DOMAIN c.groups
       /\ p \in Dst(a, i) => /\ i \in c.policies /\ Src(a, i) \cap a.valid \subseteq c.peers
                             /\ a.policies[i].sources \cap DOMAIN a.groupPeers \subseteq DOMAIN c.groups

KeepsFailures(a, p, c) ==
  \A i \in Enabled(a.policies) : \A q \in c.peers :
    /\ Fine(a, i, q) => ValidatePostureChecksOnPeer(c, a.policies[i].checks, q)
    /\ q \in a.valid /\ Checked(a, p, i, q) /\ ValidatePostureChecksOnPeer(c, a.policies[i].checks, q)
         => Fine(a, i, q)

KeepsResources(a, p, c) ==
  /\ c.resources \subseteq Enabled(a.resources)
  /\ \A n \in c.resources : c.resPolicies[n] \subseteq Ids(a, n)
  /\ \A n \in Enabled(a.resources) :
       /\ c.routers[n] = Hops(a, n) /\ Hops(a, n) \cap a.valid \subseteq c.peers
       /\ p \in Hops(a, n) \/ Client(a, p, n) => n \in c.resources /\ c.resPolicies[n] = Ids(a, n)
       /\ p \in Hops(a, n) =>
            \A i \in Ids(a, n) :
              /\ a.policies[i].sources \cap DOMAIN a.groupPeers \subseteq DOMAIN c.groups
              /\ \A q \in ResSrc(a, i) \cap a.valid : Fine(a, i, q) => q \in c.peers

KeepsRoutes(a, c) ==
  /\ \A x \in DOMAIN a.routes :
       (a.routes[x].groups \cup a.routes[x].peerGroups) \cap DOMAIN a.groupPeers \subseteq DOMAIN c.groups
  /\ \A x \in Enabled(a.routes) : \A i \in Enabled(a.policies) :
       Meets(a.policies[i].destinations, a.routes[x].acGroups) =>
         i \in c.policies /\ a.policies[i].sources \cap DOMAIN a.groupPeers \subseteq DOMAIN c.groups

Enough(a, p, c) ==
  /\ KeepsAccount(a, c)
  /\ KeepsGroups(a, p, c)
  /\ KeepsPolicies(a, p, c)
  /\ KeepsFailures(a, p, c)
  /\ KeepsResources(a, p, c)
  /\ KeepsRoutes(a, c)

-----------------------------------------------------------------------------
(* The cut is enough. *)

Cut(a, p) == GetPeerNetworkMapComponents(a, p)
Base(a, p) == GetPeersGroupsPoliciesRoutes(a, p)
Res(a, p, n) == ResourceComponents(a, p, n)
Used(a) == Enabled(a.resources)

LEMMA CutFields ==
  ASSUME NEW a, NEW p
  PROVE  /\ Cut(a, p).rules = a.policies /\ Cut(a, p).policies = Base(a, p).policies
         /\ Cut(a, p).routes = a.routes /\ Cut(a, p).expired = a.expired /\ Cut(a, p).noDns = a.noDns
         /\ Cut(a, p).peers = (Base(a, p).peers \cup (UNION {Res(a, p, n).peers : n \in Used(a)})
                                \cup ((UNION {Hops(a, n) : n \in Used(a)}) \cap a.valid)) \cap a.peers
         /\ Cut(a, p).routerPeers = (UNION {Hops(a, n) : n \in Used(a)}) \cap a.peers
         /\ DOMAIN Cut(a, p).groups =
              (Base(a, p).groups \cup UNION {Res(a, p, n).groups : n \in Used(a)}) \cap DOMAIN a.groupPeers
         /\ \A g \in DOMAIN Cut(a, p).groups : Cut(a, p).groups[g] = a.groupPeers[g] \cap Cut(a, p).peers
         /\ Cut(a, p).failed = Base(a, p).failed \cup UNION {Res(a, p, n).failed : n \in Used(a)}
         /\ Cut(a, p).resources = {n \in Used(a) : Res(a, p, n).kept}
         /\ \A n \in Used(a) : Cut(a, p).resPolicies[n] = Res(a, p, n).policies
         /\ \A n \in Used(a) : Cut(a, p).routers[n] = Hops(a, n)
<1> DEFINE c == Cut(a, p)
           base == GetPeersGroupsPoliciesRoutes(a, p)
           on == Enabled(a.resources)
           res == [n \in on |-> ResourceComponents(a, p, n)]
           nets == {a.resources[n].network : n \in on}
           hops == [net \in nets |-> RoutersOf(a, net)]
           peers == (base.peers \cup (UNION {res[n].peers : n \in on})
                      \cup ((UNION {hops[net] : net \in nets}) \cap a.valid)) \cap a.peers
           gs == (base.groups \cup UNION {res[n].groups : n \in on}) \cap DOMAIN a.groupPeers
<1>2a. c.rules = a.policies /\ c.policies = base.policies
  BY DEF GetPeerNetworkMapComponents, Cut
<1>2b. c.routes = a.routes /\ c.expired = a.expired /\ c.noDns = a.noDns
  BY DEF GetPeerNetworkMapComponents, Cut
<1>2c. c.peers = peers
  BY DEF GetPeerNetworkMapComponents, Cut
<1>2d. c.routerPeers = (UNION {hops[net] : net \in nets}) \cap a.peers
  BY DEF GetPeerNetworkMapComponents, Cut
<1>2e. c.groups = [g \in gs |-> a.groupPeers[g] \cap peers]
  BY DEF GetPeerNetworkMapComponents, Cut
<1>2f. c.failed = base.failed \cup UNION {res[n].failed : n \in on}
  BY DEF GetPeerNetworkMapComponents, Cut
<1>2g. c.resources = {n \in on : res[n].kept}
  BY DEF GetPeerNetworkMapComponents, Cut
<1>2h. c.resPolicies = [n \in on |-> res[n].policies]
  BY DEF GetPeerNetworkMapComponents, Cut
<1>2i. c.routers = [n \in on |-> hops[a.resources[n].network]]
  BY DEF GetPeerNetworkMapComponents, Cut
<1>3. UNION {hops[net] : net \in nets} = UNION {Hops(a, n) : n \in on}
  BY DEF Hops
<1>4. \A n \in on : hops[a.resources[n].network] = Hops(a, n)
  BY DEF Hops
<1>5. \A n \in on : res[n] = Res(a, p, n)
  BY DEF Res
<1>6. on = Used(a) /\ base = Base(a, p) /\ c = Cut(a, p)
  BY DEF Used, Base
<1> HIDE DEF on, base, c, res, nets, hops
<1>7. /\ UNION {res[n].peers : n \in on} = UNION {Res(a, p, n).peers : n \in Used(a)}
      /\ UNION {res[n].groups : n \in on} = UNION {Res(a, p, n).groups : n \in Used(a)}
      /\ UNION {res[n].failed : n \in on} = UNION {Res(a, p, n).failed : n \in Used(a)}
      /\ {n \in on : res[n].kept} = {n \in Used(a) : Res(a, p, n).kept}
  BY <1>5, <1>6
<1>8. DOMAIN c.groups = gs /\ \A g \in gs : c.groups[g] = a.groupPeers[g] \cap peers
  BY <1>2e
<1>a. c.peers = (Base(a, p).peers \cup (UNION {Res(a, p, n).peers : n \in Used(a)})
                                \cup ((UNION {Hops(a, n) : n \in Used(a)}) \cap a.valid)) \cap a.peers
  BY <1>2c, <1>3, <1>6, <1>7 DEF peers
<1>b. DOMAIN c.groups =
              (Base(a, p).groups \cup UNION {Res(a, p, n).groups : n \in Used(a)}) \cap DOMAIN a.groupPeers
  BY <1>8, <1>6, <1>7 DEF gs
<1>c. \A g \in DOMAIN c.groups : c.groups[g] = a.groupPeers[g] \cap c.peers
  BY <1>8, <1>2c
<1>d. c.routerPeers = (UNION {Hops(a, n) : n \in Used(a)}) \cap a.peers
  BY <1>2d, <1>3, <1>6
<1>e. c.failed = Base(a, p).failed \cup UNION {Res(a, p, n).failed : n \in Used(a)}
  BY <1>2f, <1>6, <1>7
<1>f. c.resources = {n \in Used(a) : Res(a, p, n).kept}
  BY <1>2g, <1>7
<1>g. \A n \in Used(a) : c.resPolicies[n] = Res(a, p, n).policies
  BY <1>2h, <1>5, <1>6
<1>h. \A n \in Used(a) : c.routers[n] = Hops(a, n)
  BY <1>2i, <1>4, <1>6
<1>i. c.rules = a.policies /\ c.policies = Base(a, p).policies
  BY <1>2a, <1>6
<1> QED  BY <1>i, <1>2b, <1>a, <1>b, <1>c, <1>d, <1>e, <1>f, <1>g, <1>h, <1>6

LEMMA BaseFields ==
  ASSUME NEW a, NEW p
  PROVE  /\ p \in Base(a, p).peers
         /\ GetPeerGroups(a.groupPeers, p) \subseteq Base(a, p).groups
         /\ \A x \in DOMAIN a.routes : a.routes[x].groups \cup a.routes[x].peerGroups \subseteq Base(a, p).groups
         /\ Base(a, p).policies \subseteq Enabled(a.policies)
         /\ \A i \in Enabled(a.policies) :
              /\ p \in Src(a, i) => /\ i \in Base(a, p).policies /\ Dst(a, i) \subseteq Base(a, p).peers
                                    /\ a.policies[i].destinations \subseteq Base(a, p).groups
              /\ p \in Dst(a, i) => /\ i \in Base(a, p).policies /\ Src(a, i) \subseteq Base(a, p).peers
                                    /\ a.policies[i].sources \subseteq Base(a, p).groups
              /\ \A x \in Enabled(a.routes) : Meets(a.policies[i].destinations, a.routes[x].acGroups) =>
                   i \in Base(a, p).policies /\ a.policies[i].sources \subseteq Base(a, p).groups
         /\ Base(a, p).failed = UNION {Failures(a, a.policies[i], Members(a.policies[i].sources, a.groupPeers))
                                         : i \in Enabled(a.policies)}
<1> DEFINE base == Base(a, p)
           on   == Enabled(a.policies)
           src  == [i \in on |-> RuleSources(a, a.policies[i])]
           dst  == [i \in on |-> RuleDestinations(a, a.policies[i])]
           ac   == UNION {a.routes[x].acGroups : x \in Enabled(a.routes)}
           asAc == {i \in on : Meets(a.policies[i].destinations, ac)}
           from == {i \in on : p \in src[i]}
           to   == {i \in on : p \in dst[i]}
<1>1. base.peers = {p} \cup (UNION {dst[i] : i \in from}) \cup (UNION {src[i] : i \in to})
  BY DEF Base, GetPeersGroupsPoliciesRoutes
<1>2. base.groups = GetPeerGroups(a.groupPeers, p) \cup ac
                   \cup (UNION {a.routes[x].groups \cup a.routes[x].peerGroups : x \in DOMAIN a.routes})
                   \cup (UNION {RuleGroups(a.policies[i]) : i \in asAc})
                   \cup (UNION {a.policies[i].destinations : i \in from})
                   \cup (UNION {a.policies[i].sources : i \in to})
  BY DEF Base, GetPeersGroupsPoliciesRoutes
<1>3. base.policies = asAc \cup from \cup to
  BY DEF Base, GetPeersGroupsPoliciesRoutes
<1>4. base.failed = UNION {Failures(a, a.policies[i], Members(a.policies[i].sources, a.groupPeers)) : i \in on}
  BY DEF Base, GetPeersGroupsPoliciesRoutes
<1>5. \A i \in on : src[i] = Src(a, i) /\ dst[i] = Dst(a, i)
  BY DEF Src, Dst
<1> HIDE DEF base, src, dst, ac
<1>6. p \in base.peers
  BY <1>1
<1>7. GetPeerGroups(a.groupPeers, p) \subseteq base.groups
  BY <1>2
<1>8. \A x \in DOMAIN a.routes : a.routes[x].groups \cup a.routes[x].peerGroups \subseteq base.groups
  <2> HIDE DEF from, to, asAc
  <2> QED BY <1>2
<1>9. base.policies \subseteq on
  BY <1>3
<1>10. ASSUME NEW i \in on, p \in Src(a, i)
       PROVE  i \in base.policies /\ Dst(a, i) \subseteq base.peers /\ a.policies[i].destinations \subseteq base.groups
  <2>1. i \in from
    BY <1>5, <1>10
  <2> HIDE DEF from, to, asAc
  <2> QED  BY <2>1, <1>1, <1>2, <1>3, <1>5
<1>11. ASSUME NEW i \in on, p \in Dst(a, i)
       PROVE  i \in base.policies /\ Src(a, i) \subseteq base.peers /\ a.policies[i].sources \subseteq base.groups
  <2>1. i \in to
    BY <1>5, <1>11
  <2> HIDE DEF from, to, asAc
  <2> QED  BY <2>1, <1>1, <1>2, <1>3, <1>5
<1>12. ASSUME NEW i \in on, NEW x \in Enabled(a.routes), Meets(a.policies[i].destinations, a.routes[x].acGroups)
       PROVE  i \in base.policies /\ a.policies[i].sources \subseteq base.groups
  <2>1. i \in asAc
    BY <1>12 DEF Meets, ac
  <2> HIDE DEF from, to, asAc
  <2>2. RuleGroups(a.policies[i]) \subseteq base.groups
    BY <2>1, <1>2
  <2> QED  BY <2>1, <2>2, <1>3 DEF RuleGroups
<1> HIDE DEF from, to, asAc
<1> QED  BY <1>4, <1>6, <1>7, <1>8, <1>9, <1>10, <1>11, <1>12 DEF base

\* What the components say of a resource.
LEMMA ResFields ==
  ASSUME NEW a, NEW p, NEW n, WellFormed(a), p \in a.valid
  PROVE  /\ Res(a, p, n).policies \subseteq Ids(a, n)
         /\ p \in Hops(a, n) => Res(a, p, n).kept /\ Res(a, p, n).policies = Ids(a, n)
         /\ Client(a, p, n) => Res(a, p, n).kept /\ Res(a, p, n).policies = Ids(a, n)
         /\ p \in Hops(a, n) => \A i \in Ids(a, n) :
              /\ a.policies[i].sources \subseteq Res(a, p, n).groups
              /\ \A q \in ResSrc(a, i) \cap a.valid : Fine(a, i, q) => q \in Res(a, p, n).peers
         /\ \A f \in Res(a, p, n).failed : \E i, q : f \in FirstFailed(a, a.policies[i].checks, q)
         /\ \A i \in Ids(a, n) : \A q \in ResSrc(a, i) \cap a.valid :
              q = p \/ p \in Hops(a, n) => FirstFailed(a, a.policies[i].checks, q) \subseteq Res(a, p, n).failed
<1> DEFINE ids     == GetPoliciesForNetworkResource(a, n)
           router  == p \in RoutersOf(a, a.resources[n].network)
           isIn(i) == p \in GetResourcePolicyPeers(a.policies[i], a.groupPeers)
           passes(i) == isIn(i) /\ FirstFailed(a, a.policies[i].checks, p) = {}
           collects(i) == router \/ \E j \in ids : j < i /\ passes(j)
           used    == {i \in ids : collects(i) \/ passes(i)}
           sources(i) == GetResourcePolicyPeers(a.policies[i], a.groupPeers) \cap a.valid
           checked(i) == IF collects(i) THEN sources(i) ELSE sources(i) \cap {p}
           r == Res(a, p, n)
<1>1. r.peers = UNION {{q \in sources(i) : FirstFailed(a, a.policies[i].checks, q) = {}}
                            : i \in {j \in ids : collects(j)}}
  BY DEF Res, ResourceComponents
<1>2. r.failed = UNION {Failures(a, a.policies[i], checked(i)) : i \in ids}
  BY DEF Res, ResourceComponents
<1>3. r.groups = UNION {RuleGroups(a.policies[i]) : i \in used}
  BY DEF Res, ResourceComponents
<1>4. r.policies = (IF used = {} THEN {} ELSE ids) /\ r.kept = (router \/ used # {})
  BY DEF Res, ResourceComponents
<1>5. ids = Ids(a, n) /\ router = (p \in Hops(a, n))
  BY DEF Ids, Hops
<1>6. ids \subseteq DOMAIN a.policies
  BY DEF GetPoliciesForNetworkResource, Enabled
<1>7. \A i \in ids : \A q : FirstFailed(a, a.policies[i].checks, q) = {} <=> Fine(a, i, q)
  BY <1>6, FirstFailedFinds DEF WellFormed, Fine
<1>8. \A i \in ids : sources(i) = ResSrc(a, i) \cap a.valid
  BY DEF ResSrc
<1>9. router => \A i \in ids : collects(i) /\ i \in used
  OBVIOUS
<1>10. Client(a, p, n) => used # {}
  BY <1>5, <1>7 DEF Client, ResSrc
<1>11. \A i \in ids : p \in ResSrc(a, i) => p \in checked(i)
  BY DEF ResSrc
<1>12. \A i \in ids : router => checked(i) = sources(i)
  OBVIOUS
<1>13. \A i \in ids : checked(i) \subseteq a.valid
  OBVIOUS
<1> HIDE DEF r, ids, router, collects, used, sources, checked
<1>a. r.policies \subseteq ids
  BY <1>4
<1>b. router => r.kept /\ r.policies = ids
  BY <1>4, <1>9
<1>c. Client(a, p, n) => r.kept /\ r.policies = ids
  BY <1>4, <1>10
<1>d. ASSUME router, NEW i \in ids
      PROVE  /\ a.policies[i].sources \subseteq r.groups
             /\ \A q \in ResSrc(a, i) \cap a.valid : Fine(a, i, q) => q \in r.peers
  <2>1. RuleGroups(a.policies[i]) \subseteq r.groups
    BY <1>3, <1>9, <1>d
  <2>2. ASSUME NEW q \in ResSrc(a, i) \cap a.valid, Fine(a, i, q)
        PROVE  q \in r.peers
    BY <1>1, <1>7, <1>8, <1>9, <1>d, <2>2
  <2> QED  BY <2>1, <2>2 DEF RuleGroups
<1>e. ASSUME NEW f \in r.failed
      PROVE  \E i, q : f \in FirstFailed(a, a.policies[i].checks, q)
  <2>1. PICK i \in ids : f \in Failures(a, a.policies[i], checked(i))
    BY <1>2, <1>e
  <2> QED  BY <2>1 DEF Failures
<1>f. ASSUME NEW i \in ids, NEW q \in ResSrc(a, i) \cap a.valid, q = p \/ router
      PROVE  FirstFailed(a, a.policies[i].checks, q) \subseteq r.failed
  <2>1. q \in checked(i) \cap a.valid
    BY <1>f, <1>8, <1>11, <1>12, <1>13
  <2>2. FirstFailed(a, a.policies[i].checks, q) \subseteq Failures(a, a.policies[i], checked(i))
    BY <2>1 DEF Failures
  <2> QED  BY <2>2, <1>2
<1> QED  BY <1>5, <1>a, <1>b, <1>c, <1>d, <1>e, <1>f DEF r

\* A failure recorded is one of a check that exists; a peer that fails none of a list passes.
LEMMA RealFailures ==
  ASSUME NEW a, NEW c, NEW i, NEW q \in c.peers,
         \A f \in c.failed : \E j, x : f \in FirstFailed(a, a.policies[j].checks, x),
         Fine(a, i, q)
  PROVE  ValidatePostureChecksOnPeer(c, a.policies[i].checks, q)
<1> DEFINE cs == a.policies[i].checks
<1>1. ASSUME NEW k \in DOMAIN cs, <<cs[k], q>> \in c.failed
      PROVE  FALSE
  <2>1. PICK j, x : <<cs[k], q>> \in FirstFailed(a, a.policies[j].checks, x)
    BY <1>1
  <2>2. cs[k] \in DOMAIN a.checks /\ q \in a.checks[cs[k]]
    BY <2>1, FirstFailedIsReal
  <2> QED  BY <2>2 DEF Fine, Passes
<1> QED  BY <1>1 DEF ValidatePostureChecksOnPeer

LEMMA KnownFailures ==
  ASSUME NEW a, NEW c, WellFormed(a), NEW i \in DOMAIN a.policies, NEW q,
         FirstFailed(a, a.policies[i].checks, q) \subseteq c.failed,
         ValidatePostureChecksOnPeer(c, a.policies[i].checks, q)
  PROVE  Fine(a, i, q)
<1> DEFINE cs == a.policies[i].checks
<1>1. SUFFICES FirstFailed(a, cs, q) = {}
  BY FirstFailedFinds DEF WellFormed, Fine
<1>2. ASSUME NEW f \in FirstFailed(a, cs, q)
      PROVE  FALSE
  <2>1. PICK j \in DOMAIN cs : f = <<cs[j], q>>
    BY DEF FirstFailed
  <2> QED  BY <2>1 DEF ValidatePostureChecksOnPeer
<1> QED  BY <1>2

LEMMA CutEnough ==
  ASSUME NEW a, NEW p \in a.valid, WellFormed(a)
  PROVE  Enough(a, p, Cut(a, p))
<1> DEFINE c == Cut(a, p)
           base == Base(a, p)
<1>0. p \in a.peers /\ a.valid \subseteq a.peers
  BY DEF WellFormed
<1>1. KeepsAccount(a, c)
  BY CutFields DEF KeepsAccount
<1>2. base.peers \cap a.peers \subseteq c.peers /\ base.groups \cap DOMAIN a.groupPeers \subseteq DOMAIN c.groups
  BY CutFields
<1>3. \A n \in Used(a) : /\ Res(a, p, n).peers \cap a.peers \subseteq c.peers
                         /\ Res(a, p, n).groups \cap DOMAIN a.groupPeers \subseteq DOMAIN c.groups
                         /\ Res(a, p, n).failed \subseteq c.failed
                         /\ Hops(a, n) \cap a.valid \subseteq c.peers
  BY CutFields, <1>0
<1>4. c.policies = base.policies /\ base.failed \subseteq c.failed
  BY CutFields
<1>5. KeepsGroups(a, p, c)
  <2>1. p \in c.peers /\ c.peers \subseteq a.peers
    <3>1. p \in base.peers
      BY BaseFields
    <3>2. c.peers \subseteq a.peers
      BY CutFields
    <3> QED  BY <1>0, <1>2, <3>1, <3>2
  <2>2. DOMAIN c.groups \subseteq DOMAIN a.groupPeers
    BY CutFields
  <2>3. \A g \in DOMAIN c.groups : c.groups[g] = a.groupPeers[g] \cap c.peers
    BY CutFields
  <2>4. GetPeerGroups(a.groupPeers, p) \subseteq DOMAIN c.groups
    <3>1. GetPeerGroups(a.groupPeers, p) \subseteq base.groups \cap DOMAIN a.groupPeers
      BY BaseFields DEF GetPeerGroups
    <3> QED  BY <3>1, <1>2
  <2> HIDE DEF c
  <2> QED  BY <2>1, <2>2, <2>3, <2>4 DEF KeepsGroups
<1>6. KeepsPolicies(a, p, c)
  <2>1. c.policies \subseteq DOMAIN a.policies
    BY <1>4, BaseFields DEF Enabled
  <2>2. ASSUME NEW i \in Enabled(a.policies), p \in Src(a, i)
        PROVE  /\ i \in c.policies /\ Dst(a, i) \cap a.valid \subseteq c.peers
               /\ a.policies[i].destinations \cap DOMAIN a.groupPeers \subseteq DOMAIN c.groups
    <3>1. i \in base.policies /\ Dst(a, i) \subseteq base.peers /\ a.policies[i].destinations \subseteq base.groups
      BY <2>2, BaseFields
    <3> HIDE DEF c, base
    <3> QED  BY <3>1, <1>0, <1>2, <1>4
  <2>3. ASSUME NEW i \in Enabled(a.policies), p \in Dst(a, i)
        PROVE  /\ i \in c.policies /\ Src(a, i) \cap a.valid \subseteq c.peers
               /\ a.policies[i].sources \cap DOMAIN a.groupPeers \subseteq DOMAIN c.groups
    <3>1. i \in base.policies /\ Src(a, i) \subseteq base.peers /\ a.policies[i].sources \subseteq base.groups
      BY <2>3, BaseFields
    <3> HIDE DEF c, base
    <3> QED  BY <3>1, <1>0, <1>2, <1>4
  <2> HIDE DEF c
  <2> QED  BY <2>1, <2>2, <2>3 DEF KeepsPolicies
<1>7. KeepsFailures(a, p, c)
  <2>1. ASSUME NEW f \in c.failed
        PROVE  \E i, q : f \in FirstFailed(a, a.policies[i].checks, q)
    <3>1. CASE f \in base.failed
      BY <3>1, BaseFields DEF Failures
    <3>2. CASE \E n \in Used(a) : f \in Res(a, p, n).failed
      BY <3>2, ResFields
    <3> QED  BY <3>1, <3>2, CutFields
  <2>2. ASSUME NEW i \in Enabled(a.policies), NEW q \in a.valid, Checked(a, p, i, q)
        PROVE  FirstFailed(a, a.policies[i].checks, q) \subseteq c.failed
    <3>1. CASE q \in Members(a.policies[i].sources, a.groupPeers)
      <4>1. FirstFailed(a, a.policies[i].checks, q)
              \subseteq Failures(a, a.policies[i], Members(a.policies[i].sources, a.groupPeers))
        BY <3>1 DEF Failures
      <4>2. FirstFailed(a, a.policies[i].checks, q) \subseteq base.failed
        BY <4>1, BaseFields
      <4> QED  BY <4>2, <1>4
    <3>2. CASE \E n \in Used(a) : i \in Ids(a, n) /\ q \in ResSrc(a, i) /\ (q = p \/ p \in Hops(a, n))
      <4>1. PICK n \in Used(a) : i \in Ids(a, n) /\ q \in ResSrc(a, i) /\ (q = p \/ p \in Hops(a, n))
        BY <3>2
      <4>2. FirstFailed(a, a.policies[i].checks, q) \subseteq Res(a, p, n).failed
        BY <4>1, ResFields
      <4> QED  BY <4>2, <1>3
    <3> QED  BY <2>2, <3>1, <3>2 DEF Checked, Used
  <2> HIDE DEF c
  <2>3. \A i \in Enabled(a.policies) : \A q \in c.peers :
          Fine(a, i, q) => ValidatePostureChecksOnPeer(c, a.policies[i].checks, q)
    BY <2>1, RealFailures
  <2>4. ASSUME NEW i \in Enabled(a.policies), NEW q \in a.valid, Checked(a, p, i, q),
               ValidatePostureChecksOnPeer(c, a.policies[i].checks, q)
        PROVE  Fine(a, i, q)
    BY <2>2, <2>4, KnownFailures DEF Enabled
  <2> QED  BY <2>3, <2>4 DEF KeepsFailures
<1>8. KeepsResources(a, p, c)
  <2>1. c.resources \subseteq Used(a) /\ \A n \in Used(a) : Res(a, p, n).kept => n \in c.resources
    BY CutFields
  <2>2. \A n \in Used(a) : c.resPolicies[n] = Res(a, p, n).policies /\ c.routers[n] = Hops(a, n)
    BY CutFields
  <2>3. ASSUME NEW n \in Used(a), p \in Hops(a, n), NEW i \in Ids(a, n)
        PROVE  /\ a.policies[i].sources \cap DOMAIN a.groupPeers \subseteq DOMAIN c.groups
               /\ \A q \in ResSrc(a, i) \cap a.valid : Fine(a, i, q) => q \in c.peers
    <3>1. /\ a.policies[i].sources \subseteq Res(a, p, n).groups
          /\ \A q \in ResSrc(a, i) \cap a.valid : Fine(a, i, q) => q \in Res(a, p, n).peers
      BY <2>3, ResFields
    <3> HIDE DEF c
    <3> QED  BY <3>1, <1>3, <1>0
  <2>4. \A n \in Used(a) : Res(a, p, n).policies \subseteq Ids(a, n)
    BY ResFields
  <2>5. \A n \in Used(a) : p \in Hops(a, n) \/ Client(a, p, n) =>
                             Res(a, p, n).kept /\ Res(a, p, n).policies = Ids(a, n)
    BY ResFields
  <2> HIDE DEF c
  <2> QED  BY <1>3, <2>1, <2>2, <2>3, <2>4, <2>5 DEF KeepsResources, Used
<1>9. KeepsRoutes(a, c)
  <2>1. ASSUME NEW x \in DOMAIN a.routes
        PROVE  (a.routes[x].groups \cup a.routes[x].peerGroups) \cap DOMAIN a.groupPeers \subseteq DOMAIN c.groups
    <3>1. a.routes[x].groups \cup a.routes[x].peerGroups \subseteq base.groups
      BY BaseFields
    <3> HIDE DEF c, base
    <3> QED  BY <3>1, <1>2
  <2>2. ASSUME NEW x \in Enabled(a.routes), NEW i \in Enabled(a.policies),
               Meets(a.policies[i].destinations, a.routes[x].acGroups)
        PROVE  i \in c.policies /\ a.policies[i].sources \cap DOMAIN a.groupPeers \subseteq DOMAIN c.groups
    <3>1. i \in base.policies /\ a.policies[i].sources \subseteq base.groups
      BY <2>2, BaseFields
    <3> HIDE DEF c, base
    <3> QED  BY <3>1, <1>2, <1>4
  <2> HIDE DEF c
  <2> QED  BY <2>1, <2>2 DEF KeepsRoutes
<1> QED  BY <1>1, <1>5, <1>6, <1>7, <1>8, <1>9 DEF Enough

-----------------------------------------------------------------------------
(* What the second phase makes of components that are enough. *)

LEMMA MembersKept ==
  ASSUME NEW a, NEW p, NEW c, KeepsGroups(a, p, c), NEW gs, NEW q
  PROVE  /\ q \in Members(gs, c.groups) => q \in Members(gs, a.groupPeers)
         /\ q \in c.peers /\ q \in Members(gs, a.groupPeers)
              /\ (q = p \/ gs \cap DOMAIN a.groupPeers \subseteq DOMAIN c.groups)
              => q \in Members(gs, c.groups)
<1>1. ASSUME q \in Members(gs, c.groups) PROVE q \in Members(gs, a.groupPeers)
  BY <1>1, MembersOf DEF KeepsGroups
<1>2. ASSUME q \in c.peers, q \in Members(gs, a.groupPeers),
             q = p \/ gs \cap DOMAIN a.groupPeers \subseteq DOMAIN c.groups
      PROVE  q \in Members(gs, c.groups)
  <2>1. PICK g \in gs \cap DOMAIN a.groupPeers : q \in a.groupPeers[g]
    BY <1>2, MembersOf
  <2>2. g \in DOMAIN c.groups
    BY <1>2, <2>1 DEF KeepsGroups, GetPeerGroups
  <2>3. q \in c.groups[g]
    BY <1>2, <2>1, <2>2 DEF KeepsGroups
  <2> QED  BY <2>1, <2>2, <2>3, MembersOf
<1> QED  BY <1>1, <1>2

LEMMA SourcesKept ==
  ASSUME NEW a, NEW p \in a.valid, NEW c, WellFormed(a), Enough(a, p, c),
         NEW i \in Enabled(a.policies), NEW q \in a.valid
  PROVE  /\ q \in FromSources(c, a.policies[i]) => q \in Src(a, i) /\ q \in c.peers
         /\ q \in Src(a, i) /\ q \in c.peers
              /\ (q = p \/ a.policies[i].sources \cap DOMAIN a.groupPeers \subseteq DOMAIN c.groups)
              => q \in FromSources(c, a.policies[i])
<1> DEFINE r == a.policies[i]
<1>0. FirstFailed(a, r.checks, q) = {} <=> Fine(a, i, q)
  BY FirstFailedFinds DEF WellFormed, Fine, Enabled
<1>1. CASE r.srcPeer # None
  BY <1>1 DEF FromSources, Src, RuleSources
<1>2. CASE r.srcPeer = None
  <2>1. q \in FromSources(c, r) <=>
          q \in Members(r.sources, c.groups) /\ ValidatePostureChecksOnPeer(c, r.checks, q)
    BY <1>2 DEF FromSources, GetAllPeersFromGroups
  <2>2. q \in Src(a, i) <=> q \in Members(r.sources, a.groupPeers) /\ Fine(a, i, q)
    BY <1>0, <1>2 DEF Src, RuleSources, GetPeersFromGroups
  <2>3. q \in Members(r.sources, c.groups) => q \in Members(r.sources, a.groupPeers)
    BY MembersKept DEF Enough
  <2>4. ValidatePostureChecksOnPeer(c, r.checks, q) => q \in c.peers
    BY DEF ValidatePostureChecksOnPeer
  <2>5. q \in c.peers /\ q \in Members(r.sources, a.groupPeers) =>
          (ValidatePostureChecksOnPeer(c, r.checks, q) <=> Fine(a, i, q))
    BY DEF Enough, KeepsFailures, Checked
  <2>6. q \in c.peers /\ q \in Members(r.sources, a.groupPeers)
              /\ (q = p \/ r.sources \cap DOMAIN a.groupPeers \subseteq DOMAIN c.groups)
              => q \in Members(r.sources, c.groups)
    BY MembersKept DEF Enough
  <2> QED  BY <2>1, <2>2, <2>3, <2>4, <2>5, <2>6
<1> QED  BY <1>1, <1>2

LEMMA DestinationsKept ==
  ASSUME NEW a, NEW p \in a.valid, NEW c, WellFormed(a), Enough(a, p, c),
         NEW i \in Enabled(a.policies), NEW q \in a.valid
  PROVE  /\ q \in FromDestinations(c, a.policies[i]) => q \in Dst(a, i) /\ q \in c.peers
         /\ q \in Dst(a, i) /\ q \in c.peers
              /\ (q = p \/ a.policies[i].destinations \cap DOMAIN a.groupPeers \subseteq DOMAIN c.groups)
              => q \in FromDestinations(c, a.policies[i])
<1> DEFINE r == a.policies[i]
<1>1. CASE r.dstPeer # None
  BY <1>1 DEF FromDestinations, Dst, RuleDestinations
<1>2. CASE r.dstPeer = None
  <2>1. q \in FromDestinations(c, r) <=> q \in Members(r.destinations, c.groups) /\ q \in c.peers
    BY <1>2 DEF FromDestinations, GetAllPeersFromGroups, ValidatePostureChecksOnPeer
  <2>2. q \in Dst(a, i) <=> q \in Members(r.destinations, a.groupPeers)
    BY <1>2 DEF Dst, RuleDestinations, GetPeersFromGroups, FirstFailed
  <2>3. q \in Members(r.destinations, c.groups) => q \in Members(r.destinations, a.groupPeers)
    BY MembersKept DEF Enough
  <2>6. q \in c.peers /\ q \in Members(r.destinations, a.groupPeers)
              /\ (q = p \/ r.destinations \cap DOMAIN a.groupPeers \subseteq DOMAIN c.groups)
              => q \in Members(r.destinations, c.groups)
    BY MembersKept DEF Enough
  <2> QED  BY <2>1, <2>2, <2>3, <2>6
<1> QED  BY <1>1, <1>2

\* Policy i lets p reach q.
Reaches(a, i, p, q) == p \in Src(a, i) /\ q \in Dst(a, i)

LEMMA RulesKept ==
  ASSUME NEW a, NEW p \in a.valid, NEW c, WellFormed(a), Enough(a, p, c),
         NEW i, NEW q \in a.valid \ {p}, NEW w
  PROVE  <<i, q, w>> \in GetPeerConnectionResources(c, p) <=>
           /\ i \in Enabled(a.policies)
           /\ \/ w = "out" /\ (Reaches(a, i, p, q) \/ (a.policies[i].both /\ Reaches(a, i, q, p)))
              \/ w = "in"  /\ (Reaches(a, i, q, p) \/ (a.policies[i].both /\ Reaches(a, i, p, q)))
<1> DEFINE src(j) == FromSources(c, a.policies[j])
           dst(j) == FromDestinations(c, a.policies[j])
           out(j) == (IF p \in src(j) THEN dst(j) ELSE {}) \cup (IF a.policies[j].both /\ p \in dst(j) THEN src(j) ELSE {})
           in(j)  == (IF p \in dst(j) THEN src(j) ELSE {}) \cup (IF a.policies[j].both /\ p \in src(j) THEN dst(j) ELSE {})
           on == {j \in c.policies : a.policies[j].enabled}
<1>1. c.rules = a.policies /\ on \subseteq Enabled(a.policies) /\ p \in c.peers
  BY DEF Enough, KeepsAccount, KeepsPolicies, KeepsGroups, Enabled
<1>2. GetPeerConnectionResources(c, p) =
        UNION {{<<j, x, "out">> : x \in out(j) \ {p}} \cup {<<j, x, "in">> : x \in in(j) \ {p}} : j \in on}
  BY <1>1 DEF GetPeerConnectionResources
<1>3. \A j \in Enabled(a.policies) :
        /\ j \in on /\ p \in src(j) /\ q \in dst(j) <=> Reaches(a, j, p, q)
        /\ j \in on /\ p \in dst(j) /\ q \in src(j) <=> Reaches(a, j, q, p)
  <2> SUFFICES ASSUME NEW j \in Enabled(a.policies)
               PROVE  /\ j \in on /\ p \in src(j) /\ q \in dst(j) <=> Reaches(a, j, p, q)
                      /\ j \in on /\ p \in dst(j) /\ q \in src(j) <=> Reaches(a, j, q, p)
    OBVIOUS
  <2>1. p \in src(j) <=> p \in Src(a, j)
    BY <1>1, SourcesKept
  <2>2. p \in dst(j) <=> p \in Dst(a, j)
    BY <1>1, DestinationsKept
  <2>3. p \in Src(a, j) => j \in on /\ (q \in dst(j) <=> q \in Dst(a, j))
    <3>1. p \in Src(a, j) => /\ j \in c.policies /\ Dst(a, j) \cap a.valid \subseteq c.peers
                             /\ a.policies[j].destinations \cap DOMAIN a.groupPeers \subseteq DOMAIN c.groups
      BY DEF Enough, KeepsPolicies
    <3> QED  BY <3>1, DestinationsKept DEF Enabled
  <2>4. p \in Dst(a, j) => j \in on /\ (q \in src(j) <=> q \in Src(a, j))
    <3>1. p \in Dst(a, j) => /\ j \in c.policies /\ Src(a, j) \cap a.valid \subseteq c.peers
                             /\ a.policies[j].sources \cap DOMAIN a.groupPeers \subseteq DOMAIN c.groups
      BY DEF Enough, KeepsPolicies
    <3> QED  BY <3>1, SourcesKept DEF Enabled
  <2> HIDE DEF src, dst, on
  <2> QED  BY <2>1, <2>2, <2>3, <2>4 DEF Reaches
<1> HIDE DEF src, dst, on
<1>4. <<i, q, w>> \in GetPeerConnectionResources(c, p) <=>
        i \in on /\ ((w = "out" /\ q \in out(i)) \/ (w = "in" /\ q \in in(i)))
  <2> HIDE DEF out, in
  <2> QED  BY <1>2
<1>5. q \in out(i) <=> (p \in src(i) /\ q \in dst(i)) \/ (a.policies[i].both /\ p \in dst(i) /\ q \in src(i))
  OBVIOUS
<1>6. q \in in(i) <=> (p \in dst(i) /\ q \in src(i)) \/ (a.policies[i].both /\ p \in src(i) /\ q \in dst(i))
  OBVIOUS
<1> HIDE DEF out, in
<1> QED  BY <1>1, <1>3, <1>4, <1>5, <1>6

\* The rules of p are about others.
LEMMA RulesShape ==
  ASSUME NEW c, NEW p, NEW f \in GetPeerConnectionResources(c, p)
  PROVE  \E i, q, w : f = <<i, q, w>> /\ q # p
<1> DEFINE out(j) == (IF p \in FromSources(c, c.rules[j]) THEN FromDestinations(c, c.rules[j]) ELSE {})
                       \cup (IF c.rules[j].both /\ p \in FromDestinations(c, c.rules[j]) THEN FromSources(c, c.rules[j]) ELSE {})
           in(j)  == (IF p \in FromDestinations(c, c.rules[j]) THEN FromSources(c, c.rules[j]) ELSE {})
                       \cup (IF c.rules[j].both /\ p \in FromSources(c, c.rules[j]) THEN FromDestinations(c, c.rules[j]) ELSE {})
           on == {j \in c.policies : c.rules[j].enabled}
<1>1. GetPeerConnectionResources(c, p) =
        UNION {{<<j, x, "out">> : x \in out(j) \ {p}} \cup {<<j, x, "in">> : x \in in(j) \ {p}} : j \in on}
  BY DEF GetPeerConnectionResources
<1> HIDE DEF out, in, on
<1> QED  BY <1>1

\* Some policy lets one of p and q reach the other.
Linked(a, p, q) == \E i \in Enabled(a.policies) : Reaches(a, i, p, q) \/ Reaches(a, i, q, p)

LEMMA LinksKept ==
  ASSUME NEW a, NEW p \in a.valid, NEW c, WellFormed(a), Enough(a, p, c), NEW q \in a.valid
  PROVE  q \in {rule[2] : rule \in GetPeerConnectionResources(c, p)} <=> q # p /\ Linked(a, p, q)
<1>1. ASSUME NEW f \in GetPeerConnectionResources(c, p), q = f[2]
      PROVE  q # p /\ Linked(a, p, q)
  <2>1. PICK i, x, w : f = <<i, x, w>> /\ x # p
    BY RulesShape
  <2>2. x = q /\ <<i, q, w>> \in GetPeerConnectionResources(c, p)
    BY <1>1, <2>1
  <2>3. i \in Enabled(a.policies) /\ (Reaches(a, i, p, q) \/ Reaches(a, i, q, p))
    BY <2>1, <2>2, RulesKept
  <2> QED  BY <2>1, <2>2, <2>3 DEF Linked
<1>2. ASSUME q # p, Linked(a, p, q)
      PROVE  \E f \in GetPeerConnectionResources(c, p) : f[2] = q
  <2>1. PICK i \in Enabled(a.policies) : Reaches(a, i, p, q) \/ Reaches(a, i, q, p)
    BY <1>2 DEF Linked
  <2>2. <<i, q, "out">> \in GetPeerConnectionResources(c, p) \/ <<i, q, "in">> \in GetPeerConnectionResources(c, p)
    BY <1>2, <2>1, RulesKept
  <2> QED  BY <2>2
<1> QED  BY <1>1, <1>2

LEMMA ResourceSourcesKept ==
  ASSUME NEW a, NEW p, NEW c, KeepsGroups(a, p, c), NEW i, NEW q
  PROVE  /\ q \in GetResourcePolicyPeers(a.policies[i], c.groups) => q \in ResSrc(a, i)
         /\ q \in c.peers /\ q \in ResSrc(a, i)
              /\ (q = p \/ a.policies[i].sources \cap DOMAIN a.groupPeers \subseteq DOMAIN c.groups)
              => q \in GetResourcePolicyPeers(a.policies[i], c.groups)
  BY MembersKept DEF GetResourcePolicyPeers, ResSrc

LEMMA ResourceRoutesKept ==
  ASSUME NEW a, NEW p \in a.valid, NEW c, WellFormed(a), Enough(a, p, c), NEW n, NEW q \in a.valid
  PROVE  <<n, q>> \in GetNetworkResourcesRoutesToSync(c, p) <=>
           /\ n \in Enabled(a.resources) /\ Ids(a, n) # {} /\ q \in Hops(a, n)
           /\ IF p \in Hops(a, n) THEN q = p ELSE Client(a, p, n)
<1> DEFINE isClient(m) == \E i \in c.resPolicies[m] :
                            /\ p \in GetResourcePolicyPeers(a.policies[i], c.groups)
                            /\ ValidatePostureChecksOnPeer(c, a.policies[i].checks, p)
           to(m) == (IF p \in c.routers[m] THEN {p} ELSE IF isClient(m) THEN c.routers[m] ELSE {}) \cap c.peers
           ms == {m \in c.resources : c.resPolicies[m] # {}}
<1>1. c.rules = a.policies /\ KeepsGroups(a, p, c) /\ KeepsFailures(a, p, c) /\ KeepsResources(a, p, c)
      /\ p \in c.peers
  BY DEF Enough, KeepsAccount, KeepsGroups
<1>2. GetNetworkResourcesRoutesToSync(c, p) = UNION {{<<m, x>> : x \in to(m)} : m \in ms}
  BY <1>1 DEF GetNetworkResourcesRoutesToSync, IsRouter
<1>3. <<n, q>> \in GetNetworkResourcesRoutesToSync(c, p) <=> n \in ms /\ q \in to(n)
  <2> HIDE DEF to, ms
  <2> QED  BY <1>2
<1>4. n \in ms => n \in Enabled(a.resources) /\ c.resPolicies[n] \subseteq Ids(a, n) /\ Ids(a, n) # {}
  BY <1>1 DEF KeepsResources
<1>5. CASE n \notin Enabled(a.resources)
  BY <1>3, <1>4, <1>5
<1>6. CASE n \in Enabled(a.resources)
  <2>1. c.routers[n] = Hops(a, n) /\ Hops(a, n) \cap a.valid \subseteq c.peers
    BY <1>1, <1>6 DEF KeepsResources
  <2>2. p \in Hops(a, n) \/ Client(a, p, n) => n \in c.resources /\ c.resPolicies[n] = Ids(a, n)
    BY <1>1, <1>6 DEF KeepsResources
  <2>3. \A i \in Ids(a, n) : i \in Enabled(a.policies)
    BY DEF Ids, GetPoliciesForNetworkResource
  <2>4. \A i \in Ids(a, n) : p \in ResSrc(a, i) =>
          (ValidatePostureChecksOnPeer(c, a.policies[i].checks, p) <=> Fine(a, i, p))
    BY <1>1, <1>6, <2>3 DEF KeepsFailures, Checked
  <2>5. \A i \in Ids(a, n) : p \in GetResourcePolicyPeers(a.policies[i], c.groups) <=> p \in ResSrc(a, i)
    BY <1>1, ResourceSourcesKept
  <2>6. n \in ms => (isClient(n) <=> \E i \in c.resPolicies[n] : p \in ResSrc(a, i) /\ Fine(a, i, p))
    BY <1>4, <2>4, <2>5
  <2>7. Client(a, p, n) => Ids(a, n) # {}
    BY DEF Client
  <2>8. CASE p \in Hops(a, n)
    <3>1. q \in to(n) <=> q = p
      BY <1>1, <2>1, <2>8
    <3>2. n \in ms <=> Ids(a, n) # {}
      BY <2>2, <2>8
    <3> QED  BY <1>3, <1>6, <2>8, <3>1, <3>2
  <2>9. CASE p \notin Hops(a, n)
    <3>1. q \in to(n) <=> isClient(n) /\ q \in Hops(a, n)
      BY <2>1, <2>9
    <3>2. n \in ms /\ isClient(n) => Client(a, p, n)
      BY <1>4, <2>6 DEF Client
    <3>3. Client(a, p, n) => n \in ms /\ isClient(n)
      BY <2>2, <2>6, <2>7 DEF Client
    <3> QED  BY <1>3, <1>6, <2>7, <2>9, <3>1, <3>2, <3>3
  <2> QED  BY <2>8, <2>9
<1> QED  BY <1>5, <1>6

LEMMA ClientsKept ==
  ASSUME NEW a, NEW p \in a.valid, NEW c, WellFormed(a), Enough(a, p, c), NEW q \in a.valid
  PROVE  q \in ResourceSourcePeers(c, p) <=>
           \E n \in Enabled(a.resources) : p \in Hops(a, n) /\ Client(a, q, n)
<1> DEFINE from(i) == {x \in GetResourcePolicyPeers(a.policies[i], c.groups) :
                         ValidatePostureChecksOnPeer(c, a.policies[i].checks, x)}
           ns == {m \in c.resources : p \in c.routers[m]}
           is == UNION {c.resPolicies[n] : n \in ns}
<1>1. c.rules = a.policies /\ KeepsGroups(a, p, c) /\ KeepsFailures(a, p, c) /\ KeepsResources(a, p, c)
  BY DEF Enough, KeepsAccount
<1>2. ResourceSourcePeers(c, p) = UNION {from(i) : i \in is}
  BY <1>1 DEF ResourceSourcePeers, IsRouter
<1>3. q \in ResourceSourcePeers(c, p) <=> \E n \in ns : \E i \in c.resPolicies[n] : q \in from(i)
  <2> HIDE DEF from, ns
  <2> QED  BY <1>2
<1>4. \A n : n \in ns <=> n \in Enabled(a.resources) /\ p \in Hops(a, n)
  BY <1>1 DEF KeepsResources
<1>5. \A n \in ns : c.resPolicies[n] = Ids(a, n)
  BY <1>1, <1>4 DEF KeepsResources
<1>6. ASSUME NEW n \in ns, NEW i \in Ids(a, n)
      PROVE  q \in from(i) <=> q \in ResSrc(a, i) /\ Fine(a, i, q)
  <2>1. i \in Enabled(a.policies)
    BY DEF Ids, GetPoliciesForNetworkResource
  <2>2. q \in c.peers /\ q \in ResSrc(a, i) =>
          (ValidatePostureChecksOnPeer(c, a.policies[i].checks, q) <=> Fine(a, i, q))
    BY <1>1, <1>4, <2>1 DEF KeepsFailures, Checked
  <2>3. q \in ResSrc(a, i) /\ Fine(a, i, q) => q \in c.peers
    BY <1>1, <1>4 DEF KeepsResources
  <2>4. a.policies[i].sources \cap DOMAIN a.groupPeers \subseteq DOMAIN c.groups
    BY <1>1, <1>4 DEF KeepsResources
  <2>5. q \in GetResourcePolicyPeers(a.policies[i], c.groups) => q \in ResSrc(a, i)
    BY <1>1, ResourceSourcesKept
  <2>6. q \in c.peers /\ q \in ResSrc(a, i) => q \in GetResourcePolicyPeers(a.policies[i], c.groups)
    BY <1>1, <2>4, ResourceSourcesKept
  <2>7. ValidatePostureChecksOnPeer(c, a.policies[i].checks, q) => q \in c.peers
    BY DEF ValidatePostureChecksOnPeer
  <2> QED  BY <2>2, <2>3, <2>5, <2>6, <2>7
<1> HIDE DEF from, ns
<1> QED  BY <1>3, <1>4, <1>5, <1>6 DEF Client

\* p routes to q, or q uses a resource that p routes.
Serves(a, p, q) ==
  \E n \in Enabled(a.resources) :
    \/ q \in Hops(a, n) /\ p \notin Hops(a, n) /\ Client(a, p, n)
    \/ p \in Hops(a, n) /\ Client(a, q, n)

LEMMA RoutesShape ==
  ASSUME NEW c, NEW p, NEW f \in GetNetworkResourcesRoutesToSync(c, p)
  PROVE  \E n, q : f = <<n, q>> /\ q \in c.peers
<1> DEFINE isClient(m) == \E i \in c.resPolicies[m] :
                            /\ p \in GetResourcePolicyPeers(c.rules[i], c.groups)
                            /\ ValidatePostureChecksOnPeer(c, c.rules[i].checks, p)
           to(m) == (IF IsRouter(c, p, m) THEN {p} ELSE IF isClient(m) THEN c.routers[m] ELSE {}) \cap c.peers
           ms == {m \in c.resources : c.resPolicies[m] # {}}
<1>1. GetNetworkResourcesRoutesToSync(c, p) = UNION {{<<m, x>> : x \in to(m)} : m \in ms}
  BY DEF GetNetworkResourcesRoutesToSync
<1>2. \A m : to(m) \subseteq c.peers
  OBVIOUS
<1> HIDE DEF to, ms
<1> QED  BY <1>1, <1>2

\* Of approved peers, p knows those a policy links it to, and those on the other
\* side of a network resource.
LEMMA KnownPeers ==
  ASSUME NEW a, NEW p \in a.valid, NEW c, WellFormed(a), Enough(a, p, c), NEW q \in a.valid
  PROVE  q \in Known(Calculate(c, p)) <=> q # p /\ (Linked(a, p, q) \/ Serves(a, p, q))
<1> DEFINE rules  == GetPeerConnectionResources(c, p)
           acl    == {rule[2] : rule \in rules}
           routes == GetNetworkResourcesRoutesToSync(c, p)
           hops   == {route[2] : route \in routes}
           more   == AddNetworksRoutingPeers(c, p, routes, acl)
<1>1. Calculate(c, p).peers = (acl \ (acl \cap c.expired)) \cup more /\ Calculate(c, p).offline = acl \cap c.expired
  BY DEF Calculate
<1>2. Known(Calculate(c, p)) = acl \cup more
  <2> HIDE DEF acl, more
  <2> QED  BY <1>1 DEF Known
<1>3. more = ((ResourceSourcePeers(c, p) \cup hops) \ ({p} \cup acl)) \cap (c.peers \cup c.routerPeers)
  BY DEF AddNetworksRoutingPeers
<1>4. q \in acl <=> q # p /\ Linked(a, p, q)
  BY LinksKept
<1>5. q \in hops <=> \E n : <<n, q>> \in routes
  <2>1. \A f \in routes : \E n, x : f = <<n, x>>
    BY RoutesShape
  <2>2. ASSUME q \in hops PROVE \E n : <<n, q>> \in routes
    <3>1. PICK f \in routes : q = f[2]
      BY <2>2
    <3>2. PICK n, x : f = <<n, x>>
      BY <2>1, <3>1
    <3> QED  BY <3>1, <3>2
  <2>3. ASSUME NEW n, <<n, q>> \in routes PROVE q \in hops
    <3>1. <<n, q>>[2] = q
      OBVIOUS
    <3> HIDE DEF routes
    <3> QED  BY <2>3, <3>1
  <2> QED  BY <2>2, <2>3
<1>6. q # p => (q \in hops <=> \E n \in Enabled(a.resources) :
                                 q \in Hops(a, n) /\ p \notin Hops(a, n) /\ Client(a, p, n))
  <2>1. \A n : <<n, q>> \in routes <=>
           /\ n \in Enabled(a.resources) /\ Ids(a, n) # {} /\ q \in Hops(a, n)
           /\ IF p \in Hops(a, n) THEN q = p ELSE Client(a, p, n)
    BY ResourceRoutesKept
  <2>2. \A n : Client(a, p, n) => Ids(a, n) # {}
    BY DEF Client
  <2> HIDE DEF routes, hops
  <2> QED  BY <1>5, <2>1, <2>2
<1>7. q \in ResourceSourcePeers(c, p) <=> \E n \in Enabled(a.resources) : p \in Hops(a, n) /\ Client(a, q, n)
  BY ClientsKept
<1>8. (\E n \in Enabled(a.resources) : q \in Hops(a, n)) => q \in c.peers
  BY DEF Enough, KeepsResources
<1>9. (\E n \in Enabled(a.resources) : p \in Hops(a, n) /\ Client(a, q, n)) => q \in c.peers
  BY DEF Enough, KeepsResources, Client
<1> HIDE DEF acl, more, hops, routes, rules
<1> QED  BY <1>2, <1>3, <1>4, <1>6, <1>7, <1>8, <1>9 DEF Serves

\* Who passes the firewall of p to a network resource.
LEMMA ResourceRulesKept ==
  ASSUME NEW a, NEW p \in a.valid, NEW c, WellFormed(a), Enough(a, p, c), NEW n, NEW i, NEW q \in a.valid
  PROVE  <<n, i, q>> \in GetPeerNetworkResourceFirewallRules(c, p, GetNetworkResourcesRoutesToSync(c, p)) <=>
           /\ n \in Enabled(a.resources) /\ p \in Hops(a, n) /\ i \in Ids(a, n)
           /\ q \in ResSrc(a, i) /\ Fine(a, i, q)
           /\ q # p \/ (q = a.policies[i].srcPeer /\ q # None)
<1> DEFINE routes == GetNetworkResourcesRoutesToSync(c, p)
           may(j) == GetRulePeers(c, a.policies[j], p, c.peers)
           ns == {m \in c.resources : <<m, p>> \in routes}
<1>1. c.rules = a.policies /\ KeepsGroups(a, p, c) /\ KeepsFailures(a, p, c) /\ KeepsResources(a, p, c)
  BY DEF Enough, KeepsAccount
<1>2. GetPeerNetworkResourceFirewallRules(c, p, routes) =
        UNION {UNION {{<<m, j, x>> : x \in may(j)} : j \in c.resPolicies[m]} : m \in ns}
  BY <1>1 DEF GetPeerNetworkResourceFirewallRules
<1>3. <<n, i, q>> \in GetPeerNetworkResourceFirewallRules(c, p, routes) <=>
        n \in ns /\ i \in c.resPolicies[n] /\ q \in may(i)
  <2> HIDE DEF may, ns, routes
  <2> QED  BY <1>2
<1>4. n \in ns <=> n \in Enabled(a.resources) /\ Ids(a, n) # {} /\ p \in Hops(a, n)
  <2>1. <<n, p>> \in routes <=>
           /\ n \in Enabled(a.resources) /\ Ids(a, n) # {} /\ p \in Hops(a, n)
           /\ IF p \in Hops(a, n) THEN p = p ELSE Client(a, p, n)
    BY ResourceRoutesKept
  <2>2. n \in Enabled(a.resources) /\ p \in Hops(a, n) => n \in c.resources
    BY <1>1 DEF KeepsResources
  <2> HIDE DEF routes
  <2> QED  BY <2>1, <2>2
<1>5. n \in ns => c.resPolicies[n] = Ids(a, n)
  BY <1>1, <1>4 DEF KeepsResources
<1>6. ASSUME n \in ns, i \in Ids(a, n)
      PROVE  q \in may(i) <=> q \in ResSrc(a, i) /\ Fine(a, i, q) /\ (q # p \/ (q = a.policies[i].srcPeer /\ q # None))
  <2> DEFINE r == a.policies[i]
  <2>1. i \in Enabled(a.policies) /\ i \in DOMAIN a.policies
    BY <1>6 DEF Ids, GetPoliciesForNetworkResource, Enabled
  <2>2. q \in c.peers /\ q \in ResSrc(a, i) => (ValidatePostureChecksOnPeer(c, r.checks, q) <=> Fine(a, i, q))
    BY <1>1, <1>4, <1>6, <2>1 DEF KeepsFailures, Checked
  <2>3. q \in ResSrc(a, i) /\ Fine(a, i, q) => q \in c.peers
    BY <1>1, <1>4, <1>6 DEF KeepsResources
  <2>4. r.sources \cap DOMAIN a.groupPeers \subseteq DOMAIN c.groups
    BY <1>1, <1>4, <1>6 DEF KeepsResources
  <2>5. q \in Members(r.sources, c.groups) => q \in Members(r.sources, a.groupPeers)
    BY <1>1, MembersKept
  <2>6. q \in c.peers /\ q \in Members(r.sources, a.groupPeers) => q \in Members(r.sources, c.groups)
    BY <1>1, <2>4, MembersKept
  <2>7. r.srcPeer # None => r.sources = {}
    BY <2>1 DEF WellFormed
  <2>8. r.sources = {} => q \notin Members(r.sources, c.groups)
    BY MembersOf
  <2>9. q \in ResSrc(a, i) <=> IF r.srcPeer # None THEN q = r.srcPeer ELSE q \in Members(r.sources, a.groupPeers)
    BY DEF ResSrc, GetResourcePolicyPeers
  <2>10. q \in may(i) <=> /\ (q \in Members(r.sources, c.groups) /\ q # p) \/ (q = r.srcPeer /\ q # None)
                          /\ q \in c.peers /\ ValidatePostureChecksOnPeer(c, r.checks, q)
    BY DEF GetRulePeers
  <2> HIDE DEF may
  <2>11. CASE r.srcPeer # None
    BY <2>2, <2>3, <2>7, <2>8, <2>9, <2>10, <2>11
  <2>12. CASE r.srcPeer = None
    BY <2>2, <2>3, <2>5, <2>6, <2>9, <2>10, <2>12
  <2> QED  BY <2>11, <2>12
<1> HIDE DEF may, ns, routes
<1> QED  BY <1>3, <1>4, <1>5, <1>6 DEF routes

-----------------------------------------------------------------------------
(* The account with the policies of its services. *)

LEMMA Injected ==
  ASSUME NEW a, DOMAIN a = Fields
  PROVE  LET b == InjectProxyPolicies(a)
         IN /\ \A f \in Fields \ {"policies"} : b[f] = a[f]
            /\ DOMAIN a.policies \subseteq DOMAIN b.policies
            /\ \A i \in DOMAIN a.policies : b.policies[i] = a.policies[i]
            /\ \A i \in DOMAIN b.policies \ DOMAIN a.policies :
                 /\ b.policies[i].checks = <<>>
                 /\ b.policies[i].sources = {} /\ b.policies[i].destinations = {}
<1> DEFINE uses == SetToSeq(UNION {{<<s, q, t>> : q \in {e \in DOMAIN a.embedded \cap a.peers :
                                                     a.embedded[e] = a.services[s].cluster},
                                             t \in a.services[s].targets} : s \in Enabled(a.services)})
           at(i) == uses[i + 1 - FirstProxyPolicy]
           ids == FirstProxyPolicy .. (FirstProxyPolicy + Len(uses) - 1)
           also(i) == ProxyPolicy(a, at(i)[2], at(i)[3])
           b == InjectProxyPolicies(a)
<1>1. b = [a EXCEPT !.policies = [i \in DOMAIN @ \cup ids |-> IF i \in DOMAIN @ THEN @[i] ELSE also(i)]]
  BY DEF InjectProxyPolicies
<1>2. \A i : also(i).checks = <<>> /\ also(i).sources = {} /\ also(i).destinations = {}
  <2> HIDE DEF uses, at, ids
  <2> QED  BY DEF ProxyPolicy
<1> HIDE DEF b, also, ids
<1>3. /\ \A f \in Fields \ {"policies"} : b[f] = a[f]
      /\ b.policies = [i \in DOMAIN a.policies \cup ids |-> IF i \in DOMAIN a.policies THEN a.policies[i] ELSE also(i)]
  BY <1>1 DEF Fields
<1> QED  BY <1>2, <1>3 DEF b

\* The account the controller computes maps from.
Full == InjectProxyPolicies(acct)

LEMMA FullIsWellFormed ==
  ASSUME Consistent(acct)
  PROVE  /\ WellFormed(Full)
         /\ \A f \in Fields \ {"policies"} : Full[f] = acct[f]
<1>1. DOMAIN acct = Fields
  BY DEF Consistent
<1>2. /\ \A f \in Fields \ {"policies"} : Full[f] = acct[f]
      /\ \A i \in DOMAIN acct.policies : Full.policies[i] = acct.policies[i]
      /\ \A i \in DOMAIN Full.policies \ DOMAIN acct.policies :
           Full.policies[i].checks = <<>> /\ Full.policies[i].sources = {}
  BY <1>1, Injected DEF Full
<1>3. Full.valid = acct.valid /\ Full.peers = acct.peers
  BY <1>2 DEF Fields
<1>4. ASSUME NEW i \in DOMAIN Full.policies
      PROVE  /\ DOMAIN Full.policies[i].checks \subseteq Nat
             /\ Full.policies[i].srcPeer # None => Full.policies[i].sources = {}
  <2>1. CASE i \in DOMAIN acct.policies
    BY <1>2, <2>1 DEF Consistent, PoliciesHold, RuleHolds
  <2>2. CASE i \notin DOMAIN acct.policies
    BY <1>2, <2>2
  <2> QED  BY <2>1, <2>2
<1> QED  BY <1>2, <1>3, <1>4 DEF WellFormed, Consistent

LEMMA MapIsCalculated ==
  ASSUME Consistent(acct), NEW p \in acct.valid
  PROVE  /\ Map(p) = Calculate(Cut(Full, p), p)
         /\ WellFormed(Full) /\ p \in Full.valid /\ Full.valid = acct.valid
         /\ Enough(Full, p, Cut(Full, p))
<1>1. WellFormed(Full) /\ Full.valid = acct.valid /\ Full.peers = acct.peers
  BY FullIsWellFormed DEF Fields
<1>2. p \in Full.peers \cap Full.valid
  BY <1>1 DEF Consistent
<1>3. Map(p) = Calculate(Cut(Full, p), p)
  BY <1>2 DEF Map, GetPeerNetworkMap, Cut, Full
<1> QED  BY <1>1, <1>2, <1>3, CutEnough

LEMMA MapKnows ==
  ASSUME Consistent(acct), NEW p \in acct.valid, NEW q \in acct.valid
  PROVE  q \in Known(Map(p)) <=> q # p /\ (Linked(Full, p, q) \/ Serves(Full, p, q))
  BY MapIsCalculated, KnownPeers

LEMMA Visible == Consistent(acct) => MutualVisibility
<1> SUFFICES ASSUME Consistent(acct), NEW p \in acct.valid, NEW q \in acct.valid,
                    ~ \E n \in Enabled(acct.resources) : {p, q} \subseteq RoutersOf(acct, acct.resources[n].network)
             PROVE  q \in Known(Map(p)) <=> p \in Known(Map(q))
  BY DEF MutualVisibility
<1>1. /\ Full.resources = acct.resources /\ Full.routers = acct.routers /\ Full.groupPeers = acct.groupPeers
  BY FullIsWellFormed DEF Fields
<1>2. \A n \in Enabled(acct.resources) : Hops(Full, n) = RoutersOf(acct, acct.resources[n].network)
  BY <1>1 DEF Hops, RoutersOf
<1>3. \A n \in Enabled(Full.resources) : ~ (p \in Hops(Full, n) /\ q \in Hops(Full, n))
  BY <1>1, <1>2
<1>4. Linked(Full, p, q) <=> Linked(Full, q, p)
  BY DEF Linked
<1>5. Serves(Full, p, q) <=> Serves(Full, q, p)
  BY <1>3 DEF Serves
<1> QED  BY <1>4, <1>5, MapKnows

\* Whether two approved peers know of each other does not depend on which of the
\* two maps one looks at, for every account the operations can make.
THEOREM TunnelsHaveTwoEnds == PSpec => []MutualVisibility
<1>1. AccountInv => MutualVisibility
  BY Visible DEF AccountInv
<1> QED  BY <1>1, AccountInvariant, PTL

LEMMA ResourceFields ==
  ASSUME NEW c, NEW p
  PROVE  /\ Calculate(c, p).netRoutes = GetNetworkResourcesRoutesToSync(c, p)
         /\ Calculate(c, p).netRules =
              GetPeerNetworkResourceFirewallRules(c, p, GetNetworkResourcesRoutesToSync(c, p))
  BY DEF Calculate

LEMMA Admitted == Consistent(acct) => RoutersAdmitClients
<1> SUFFICES ASSUME Consistent(acct), NEW p \in acct.valid,
                    NEW route \in Map(p).netRoutes, route[2] \in acct.valid \ {p}
             PROVE  /\ p \in Known(Map(route[2]))
                    /\ \E rule \in Map(route[2]).netRules : rule[1] = route[1] /\ rule[3] = p
  BY DEF RoutersAdmitClients
<1> DEFINE c == Cut(Full, p)
<1>1. Map(p).netRoutes = GetNetworkResourcesRoutesToSync(c, p)
  BY MapIsCalculated, ResourceFields
<1>2. PICK n, q : route = <<n, q>>
  BY <1>1, RoutesShape
<1>3. q = route[2] /\ n = route[1] /\ q \in acct.valid /\ q # p
  BY <1>2
<1>4. n \in Enabled(Full.resources) /\ q \in Hops(Full, n) /\ Client(Full, p, n)
  BY <1>1, <1>2, <1>3, MapIsCalculated, ResourceRoutesKept
<1>5. p \in Known(Map(q))
  BY <1>3, <1>4, MapKnows DEF Serves
<1>6. PICK i \in Ids(Full, n) : p \in ResSrc(Full, i) /\ Fine(Full, i, p)
  BY <1>4 DEF Client
<1>7. Map(q).netRules = GetPeerNetworkResourceFirewallRules(Cut(Full, q), q, GetNetworkResourcesRoutesToSync(Cut(Full, q), q))
  BY <1>3, MapIsCalculated, ResourceFields
<1>8. <<n, i, p>> \in Map(q).netRules
  BY <1>3, <1>4, <1>6, <1>7, MapIsCalculated, ResourceRulesKept
<1> QED  BY <1>3, <1>5, <1>8

\* A client is routed to a resource only through a peer that knows it and whose
\* firewall lets it through.
THEOREM ClientsAreAdmitted == PSpec => []RoutersAdmitClients
<1>1. AccountInv => RoutersAdmitClients
  BY Admitted DEF AccountInv
<1> QED  BY <1>1, AccountInvariant, PTL

-----------------------------------------------------------------------------
(* The whole account is enough as well. *)

Whole(a, p) == WholeAccount(a, p)

LEMMA CutRecord ==
  ASSUME NEW a, NEW p
  PROVE  /\ DOMAIN Cut(a, p) = {"peers", "routerPeers", "groups", "policies", "rules", "failed", "routes", "nsGroups",
                                "resources", "resPolicies", "routers", "zones", "expired", "noDns"}
         /\ \A s \in DOMAIN Cut(a, p).nsGroups : s \in DOMAIN a.nsGroups /\ Cut(a, p).nsGroups[s] = a.nsGroups[s]
         /\ \A s \in Enabled(a.nsGroups) : Meets(a.nsGroups[s].groups, Base(a, p).groups) => s \in DOMAIN Cut(a, p).nsGroups
<1>1. DOMAIN Cut(a, p) = {"peers", "routerPeers", "groups", "policies", "rules", "failed", "routes", "nsGroups",
                          "resources", "resPolicies", "routers", "zones", "expired", "noDns"}
  BY DEF Cut, GetPeerNetworkMapComponents
<1>2. Cut(a, p).nsGroups = [s \in {t \in Enabled(a.nsGroups) : Meets(a.nsGroups[t].groups, Base(a, p).groups)}
                              |-> a.nsGroups[s]]
  BY DEF Cut, GetPeerNetworkMapComponents, Base
<1> QED  BY <1>1, <1>2 DEF Enabled

LEMMA WholeFields ==
  ASSUME NEW a, NEW p
  PROVE  /\ Whole(a, p).peers = a.valid /\ Whole(a, p).groups = a.groupPeers
         /\ Whole(a, p).policies = DOMAIN a.policies
         /\ Whole(a, p).failed = UNION {{<<k, q>> : q \in a.checks[k]} : k \in DOMAIN a.checks}
         /\ Whole(a, p).nsGroups = a.nsGroups /\ Whole(a, p).resources = Enabled(a.resources)
         /\ \A n \in Enabled(a.resources) : Whole(a, p).resPolicies[n] = Ids(a, n)
         /\ Whole(a, p).rules = Cut(a, p).rules /\ Whole(a, p).routes = Cut(a, p).routes
         /\ Whole(a, p).expired = Cut(a, p).expired /\ Whole(a, p).noDns = Cut(a, p).noDns
         /\ Whole(a, p).routers = Cut(a, p).routers /\ Whole(a, p).zones = Cut(a, p).zones
<1> DEFINE failed == UNION {{<<k, q>> : q \in a.checks[k]} : k \in DOMAIN a.checks}
           on == Enabled(a.resources)
           ids == [n \in on |-> GetPoliciesForNetworkResource(a, n)]
<1>1. Whole(a, p) = [Cut(a, p) EXCEPT !.peers = a.valid, !.groups = a.groupPeers, !.policies = DOMAIN a.policies,
                                      !.failed = failed, !.nsGroups = a.nsGroups, !.resources = on,
                                      !.resPolicies = ids]
  BY DEF Whole, WholeAccount, Cut
<1>2. \A n \in on : ids[n] = Ids(a, n)
  BY DEF Ids
<1> HIDE DEF ids, failed
<1> QED  BY <1>1, <1>2, CutRecord DEF failed

LEMMA WholeEnough ==
  ASSUME NEW a, NEW p \in a.valid, WellFormed(a)
  PROVE  Enough(a, p, Whole(a, p))
<1> DEFINE c == Whole(a, p)
<1>0. a.valid \subseteq a.peers
  BY DEF WellFormed
<1>1. KeepsAccount(a, c)
  BY WholeFields, CutFields DEF KeepsAccount
<1>2. KeepsGroups(a, p, c)
  BY <1>0, WholeFields DEF KeepsGroups, GetPeerGroups
<1>3. KeepsPolicies(a, p, c)
  BY WholeFields DEF KeepsPolicies, Enabled
<1>4. KeepsFailures(a, p, c)
  <2> SUFFICES ASSUME NEW i \in Enabled(a.policies), NEW q \in c.peers
               PROVE  Fine(a, i, q) <=> ValidatePostureChecksOnPeer(c, a.policies[i].checks, q)
    BY DEF KeepsFailures
  <2> DEFINE cs == a.policies[i].checks
  <2>1. \A k : <<k, q>> \in c.failed <=> k \in DOMAIN a.checks /\ q \in a.checks[k]
    BY WholeFields
  <2> QED  BY <2>1 DEF ValidatePostureChecksOnPeer, Fine, Passes
<1>5. KeepsResources(a, p, c)
  <2>1. \A n \in Enabled(a.resources) : c.routers[n] = Hops(a, n)
    BY WholeFields, CutFields DEF Used
  <2>2. c.resources = Enabled(a.resources) /\ c.peers = a.valid /\ c.groups = a.groupPeers
        /\ \A n \in Enabled(a.resources) : c.resPolicies[n] = Ids(a, n)
    BY WholeFields
  <2> HIDE DEF c
  <2> QED  BY <2>1, <2>2 DEF KeepsResources
<1>6. KeepsRoutes(a, c)
  BY WholeFields DEF KeepsRoutes, Enabled
<1> QED  BY <1>1, <1>2, <1>3, <1>4, <1>5, <1>6 DEF Enough

-----------------------------------------------------------------------------
(* The remaining parts of a map: routes, their firewall rules and name servers. *)

\* q is a routing peer of route x.
ServesRoute(a, x, q) ==
  x \in DOMAIN a.routes /\ (a.routes[x].peer = q \/ q \in Members(a.routes[x].peerGroups, a.groupPeers))

LEMMA ServingKept ==
  ASSUME NEW a, NEW p \in a.valid, NEW c, Enough(a, p, c), NEW q \in c.peers, NEW x
  PROVE  x \in GetRoutingPeerRoutes(c, q) <=> ServesRoute(a, x, q)
<1>1. c.routes = a.routes
  BY DEF Enough, KeepsAccount
<1>2. x \in DOMAIN a.routes =>
        (q \in Members(a.routes[x].peerGroups, c.groups) <=> q \in Members(a.routes[x].peerGroups, a.groupPeers))
  BY MembersKept DEF Enough, KeepsRoutes
<1> QED  BY <1>1, <1>2 DEF GetRoutingPeerRoutes, ServesRoute

LEMMA OwnGroupsKept ==
  ASSUME NEW a, NEW p, NEW c, Enough(a, p, c)
  PROVE  GetPeerGroups(c.groups, p) = GetPeerGroups(a.groupPeers, p)
<1>1. ASSUME NEW g \in GetPeerGroups(a.groupPeers, p) PROVE g \in GetPeerGroups(c.groups, p)
  BY <1>1 DEF Enough, KeepsGroups, GetPeerGroups
<1>2. ASSUME NEW g \in GetPeerGroups(c.groups, p) PROVE g \in GetPeerGroups(a.groupPeers, p)
  BY <1>2 DEF Enough, KeepsGroups, GetPeerGroups
<1> QED  BY <1>1, <1>2

\* The approved peers that p knows are among its components.
LEMMA KnownKept ==
  ASSUME NEW a, NEW p \in a.valid, NEW c, Enough(a, p, c), NEW q \in a.valid,
         Linked(a, p, q) \/ Serves(a, p, q)
  PROVE  q \in c.peers
<1>1. CASE Linked(a, p, q)
  BY <1>1 DEF Linked, Reaches, Enough, KeepsPolicies
<1>2. CASE Serves(a, p, q)
  BY <1>2 DEF Serves, Client, Enough, KeepsResources
<1> QED  BY <1>1, <1>2

OwnRoutes(a, p) == {x \in DOMAIN a.routes : ServesRoute(a, x, p)}

LEMMA RoutesKept ==
  ASSUME NEW a, NEW p \in a.valid, NEW c, Enough(a, p, c), NEW connected,
         connected \cap a.valid \subseteq c.peers, p \notin connected,
         NEW x, NEW q \in a.valid
  PROVE  <<x, q>> \in GetRoutesToSync(c, p, connected) <=>
           /\ x \in Enabled(a.routes) /\ ServesRoute(a, x, q)
           /\ \/ q = p
              \/ /\ q \in connected
                 /\ Meets(a.routes[x].groups, GetPeerGroups(a.groupPeers, p))
                 /\ a.routes[x].net \notin {a.routes[y].net : y \in OwnRoutes(a, p)}
<1> DEFINE own  == GetRoutingPeerRoutes(c, p)
           nets == {a.routes[y].net : y \in own}
           far  == {y \in Enabled(a.routes) : /\ Meets(a.routes[y].groups, GetPeerGroups(c.groups, p))
                                              /\ a.routes[y].net \notin nets}
           by(y) == {peer \in connected : y \in GetRoutingPeerRoutes(c, peer)}
<1>1. c.routes = a.routes /\ p \in c.peers
  BY DEF Enough, KeepsAccount, KeepsGroups
<1>2. GetRoutesToSync(c, p, connected) = {<<y, p>> : y \in own \cap Enabled(a.routes)}
                                           \cup UNION {{<<y, peer>> : peer \in by(y)} : y \in far}
  BY <1>1 DEF GetRoutesToSync
<1>3. own = OwnRoutes(a, p)
  <2>1. \A y : y \in own <=> ServesRoute(a, y, p)
    BY <1>1, ServingKept
  <2> HIDE DEF own
  <2> QED  BY <2>1 DEF OwnRoutes, ServesRoute
<1>4. GetPeerGroups(c.groups, p) = GetPeerGroups(a.groupPeers, p)
  BY OwnGroupsKept
<1>5. q \in by(x) <=> q \in connected /\ ServesRoute(a, x, q)
  BY ServingKept
<1>6. x \in far <=> /\ x \in Enabled(a.routes) /\ Meets(a.routes[x].groups, GetPeerGroups(a.groupPeers, p))
                    /\ a.routes[x].net \notin {a.routes[y].net : y \in OwnRoutes(a, p)}
  BY <1>3, <1>4
<1> HIDE DEF own, far, by
<1>7. <<x, q>> \in GetRoutesToSync(c, p, connected) <=>
        (q = p /\ x \in own \cap Enabled(a.routes)) \/ (x \in far /\ q \in by(x))
  BY <1>2
<1>8. x \in own <=> ServesRoute(a, x, p)
  BY <1>3 DEF OwnRoutes, ServesRoute
<1> QED  BY <1>5, <1>6, <1>7, <1>8

LEMMA SyncShape ==
  ASSUME NEW c, NEW p, NEW connected, NEW f \in GetRoutesToSync(c, p, connected)
  PROVE  \E x, q : f = <<x, q>>
<1> DEFINE own  == GetRoutingPeerRoutes(c, p)
           nets == {c.routes[x].net : x \in own}
           far  == {y \in Enabled(c.routes) : /\ Meets(c.routes[y].groups, GetPeerGroups(c.groups, p))
                                              /\ c.routes[y].net \notin nets}
           by(y) == {peer \in connected : y \in GetRoutingPeerRoutes(c, peer)}
<1>1. GetRoutesToSync(c, p, connected) = {<<y, p>> : y \in own \cap Enabled(c.routes)}
                                           \cup UNION {{<<y, peer>> : peer \in by(y)} : y \in far}
  BY DEF GetRoutesToSync
<1> HIDE DEF own, far, by
<1> QED  BY <1>1

\* The peers that policy i lets through to the routes it opens, as the code collects them.
Admits(a, i, p, q) ==
  (q \in Members(a.policies[i].sources, a.groupPeers) /\ q # p) \/ (q = a.policies[i].srcPeer /\ q # None)

LEMMA RouteRulesKept ==
  ASSUME NEW a, NEW p \in a.valid, NEW c, WellFormed(a), Enough(a, p, c), NEW x, NEW i, NEW q
  PROVE  /\ a.routes[x].acGroups = {} =>
              (<<x, i, q>> \in GetPeerRoutesFirewallRules(c, p) <=>
                 x \in Enabled(a.routes) /\ ServesRoute(a, x, p) /\ i = None /\ q = None)
         /\ /\ a.routes[x].acGroups # {}
            /\ q \in c.peers \cap a.valid
            /\ q = a.policies[i].srcPeer => a.policies[i].checks = <<>>
            => (<<x, i, q>> \in GetPeerRoutesFirewallRules(c, p) <=>
                  /\ x \in Enabled(a.routes) /\ ServesRoute(a, x, p)
                  /\ i \in Enabled(a.policies) /\ Meets(a.policies[i].destinations, a.routes[x].acGroups)
                  /\ Admits(a, i, p, q) /\ Fine(a, i, q)
                  /\ q \in Members(a.routes[x].groups, a.groupPeers))
<1> DEFINE open(y) == {j \in c.policies : /\ a.policies[j].enabled
                                          /\ Meets(a.policies[j].destinations, a.routes[y].acGroups)}
           pass(y, j) == GetRulePeers(c, a.policies[j], p, Members(a.routes[y].groups, c.groups))
           of(y) == IF a.routes[y].acGroups = {} THEN {<<y, None, None>>}
                    ELSE UNION {{<<y, j, z>> : z \in pass(y, j)} : j \in open(y)}
           mine == GetRoutingPeerRoutes(c, p) \cap Enabled(a.routes)
<1>1. c.rules = a.policies /\ c.routes = a.routes /\ p \in c.peers /\ c.policies \subseteq DOMAIN a.policies
  BY DEF Enough, KeepsAccount, KeepsGroups, KeepsPolicies
<1>2. GetPeerRoutesFirewallRules(c, p) = UNION {of(y) : y \in mine}
  BY <1>1 DEF GetPeerRoutesFirewallRules
<1>3. \A y : y \in mine <=> y \in Enabled(a.routes) /\ ServesRoute(a, y, p)
  BY <1>1, ServingKept
<1>4. \A y : \A f \in of(y) : f[1] = y
  <2> HIDE DEF open, pass
  <2> QED  OBVIOUS
<1>5. <<x, i, q>> \in GetPeerRoutesFirewallRules(c, p) <=> x \in mine /\ <<x, i, q>> \in of(x)
  <2>1. ASSUME NEW y \in mine, <<x, i, q>> \in of(y) PROVE y = x
    BY <1>4, <2>1
  <2> HIDE DEF of, mine
  <2> QED  BY <1>2, <2>1
<1>6. a.routes[x].acGroups = {} => (<<x, i, q>> \in of(x) <=> i = None /\ q = None)
  <2> HIDE DEF open, pass
  <2> QED  OBVIOUS
<1>7. a.routes[x].acGroups # {} => (<<x, i, q>> \in of(x) <=> i \in open(x) /\ q \in pass(x, i))
  <2> HIDE DEF open, pass
  <2> QED  OBVIOUS
<1>8. ASSUME x \in Enabled(a.routes), q \in c.peers \cap a.valid,
             q = a.policies[i].srcPeer => a.policies[i].checks = <<>>
      PROVE  i \in open(x) /\ q \in pass(x, i) <=>
               /\ i \in Enabled(a.policies) /\ Meets(a.policies[i].destinations, a.routes[x].acGroups)
               /\ Admits(a, i, p, q) /\ Fine(a, i, q)
               /\ q \in Members(a.routes[x].groups, a.groupPeers)
  <2> DEFINE r == a.policies[i]
             opens == i \in Enabled(a.policies) /\ Meets(r.destinations, a.routes[x].acGroups)
  <2>1. opens => i \in c.policies /\ r.sources \cap DOMAIN a.groupPeers \subseteq DOMAIN c.groups
    BY <1>8 DEF Enough, KeepsRoutes
  <2>2. i \in open(x) <=> opens
    BY <1>1, <2>1 DEF Enabled
  <2>3. opens => (q \in Members(r.sources, c.groups) <=> q \in Members(r.sources, a.groupPeers))
    BY <1>8, <2>1, MembersKept DEF Enough
  <2>4. q \in Members(a.routes[x].groups, c.groups) <=> q \in Members(a.routes[x].groups, a.groupPeers)
    <3>1. a.routes[x].groups \cap DOMAIN a.groupPeers \subseteq DOMAIN c.groups
      BY <1>8 DEF Enough, KeepsRoutes, Enabled
    <3> QED  BY <1>8, <3>1, MembersKept DEF Enough
  <2>5. opens /\ Admits(a, i, p, q) => (ValidatePostureChecksOnPeer(c, r.checks, q) <=> Fine(a, i, q))
    <3>1. CASE q \in Members(r.sources, a.groupPeers)
      BY <1>8, <3>1 DEF Enough, KeepsFailures, Checked
    <3>2. CASE r.checks = <<>>
      BY <1>8, <3>2 DEF ValidatePostureChecksOnPeer, Fine, Passes
    <3> QED  BY <1>8, <3>1, <3>2 DEF Admits
  <2>6. q \in pass(x, i) <=> /\ (q \in Members(r.sources, c.groups) /\ q # p) \/ (q = r.srcPeer /\ q # None)
                             /\ q \in Members(a.routes[x].groups, c.groups)
                             /\ ValidatePostureChecksOnPeer(c, r.checks, q)
    BY DEF GetRulePeers
  <2> HIDE DEF open, pass
  <2> QED  BY <2>2, <2>3, <2>4, <2>5, <2>6 DEF Admits
<1> HIDE DEF of, mine, open, pass
<1> QED  BY <1>3, <1>5, <1>6, <1>7, <1>8

LEMMA NameServersKept ==
  ASSUME NEW a, NEW p \in a.valid, WellFormed(a)
  PROVE  GetPeerNSGroupsFromGroups(Cut(a, p), p) = GetPeerNSGroupsFromGroups(Whole(a, p), p)
<1> DEFINE of(c) == {s \in DOMAIN c.nsGroups : /\ c.nsGroups[s].enabled
                                               /\ Meets(c.nsGroups[s].groups, GetPeerGroups(a.groupPeers, p))
                                               /\ p \notin c.nsGroups[s].servers}
           c == Cut(a, p)
<1>1. GetPeerNSGroupsFromGroups(Cut(a, p), p) = of(Cut(a, p))
  BY CutEnough, OwnGroupsKept DEF GetPeerNSGroupsFromGroups, Enabled
<1>2. GetPeerNSGroupsFromGroups(Whole(a, p), p) = of(Whole(a, p))
  BY WholeEnough, OwnGroupsKept DEF GetPeerNSGroupsFromGroups, Enabled
<1>3. Whole(a, p).nsGroups = a.nsGroups
  BY WholeFields
<1>4. \A s \in DOMAIN c.nsGroups : s \in DOMAIN a.nsGroups /\ c.nsGroups[s] = a.nsGroups[s]
  BY CutRecord
<1>5. \A s \in DOMAIN a.nsGroups :
        a.nsGroups[s].enabled /\ Meets(a.nsGroups[s].groups, GetPeerGroups(a.groupPeers, p)) => s \in DOMAIN c.nsGroups
  BY CutRecord, BaseFields DEF Enabled, Meets
<1>6. of(c) = of(Whole(a, p))
  <2> HIDE DEF c
  <2> QED  BY <1>3, <1>4, <1>5
<1> QED  BY <1>1, <1>2, <1>6

-----------------------------------------------------------------------------
(* Two sets of components that are enough give the same map. *)

Acl(c, p) == {rule[2] : rule \in GetPeerConnectionResources(c, p)}
Online(c, p) == Acl(c, p) \ (Acl(c, p) \cap c.expired)

LEMMA MapFields ==
  ASSUME NEW c, NEW p
  PROVE  /\ DOMAIN Calculate(c, p) = {"peers", "offline", "firewall", "routes", "netRoutes", "routeRules", "netRules",
                                      "nsGroups", "zones", "dns"}
         /\ Calculate(c, p).peers =
              Online(c, p) \cup AddNetworksRoutingPeers(c, p, GetNetworkResourcesRoutesToSync(c, p), Acl(c, p))
         /\ Calculate(c, p).offline = Acl(c, p) \cap c.expired
         /\ Calculate(c, p).firewall = GetPeerConnectionResources(c, p)
         /\ Calculate(c, p).routes = GetRoutesToSync(c, p, Online(c, p))
         /\ Calculate(c, p).routeRules = GetPeerRoutesFirewallRules(c, p)
         /\ Calculate(c, p).dns = ~Meets(c.noDns, GetPeerGroups(c.groups, p))
         /\ Calculate(c, p).nsGroups = IF Calculate(c, p).dns THEN GetPeerNSGroupsFromGroups(c, p) ELSE {}
         /\ Calculate(c, p).zones = IF Calculate(c, p).dns THEN c.zones ELSE {}
  BY DEF Calculate, Online, Acl

LEMMA PeersKept ==
  ASSUME NEW a, NEW p \in a.valid, NEW c, WellFormed(a), Enough(a, p, c), NEW q \in a.valid
  PROVE  /\ q \in Calculate(c, p).offline <=> q # p /\ Linked(a, p, q) /\ q \in a.expired
         /\ q \in Online(c, p) <=> q # p /\ Linked(a, p, q) /\ q \notin a.expired
         /\ q \in Calculate(c, p).peers <=>
              q # p /\ IF Linked(a, p, q) THEN q \notin a.expired ELSE Serves(a, p, q)
<1> DEFINE more == AddNetworksRoutingPeers(c, p, GetNetworkResourcesRoutesToSync(c, p), Acl(c, p))
<1>1. q \in Acl(c, p) <=> q # p /\ Linked(a, p, q)
  BY LinksKept DEF Acl
<1>2. c.expired = a.expired
  BY DEF Enough, KeepsAccount
<1>3. more \cap Acl(c, p) = {}
  BY DEF AddNetworksRoutingPeers
<1>4. Calculate(c, p).peers = Online(c, p) \cup more /\ Calculate(c, p).offline = Acl(c, p) \cap c.expired
  BY MapFields
<1> HIDE DEF more
<1>5. q \in Known(Calculate(c, p)) <=> q \in Acl(c, p) \/ q \in more
  BY <1>4 DEF Known, Online
<1>6. q \in Known(Calculate(c, p)) <=> q # p /\ (Linked(a, p, q) \/ Serves(a, p, q))
  BY KnownPeers
<1> QED  BY <1>1, <1>2, <1>3, <1>4, <1>5, <1>6 DEF Online

LEMMA RouteRulesShape ==
  ASSUME NEW c, NEW p, NEW f \in GetPeerRoutesFirewallRules(c, p)
  PROVE  \E x, i, q : f = <<x, i, q>> /\ (c.routes[x].acGroups # {} => q \in c.peers)
<1> DEFINE open(y) == {j \in c.policies : /\ c.rules[j].enabled
                                          /\ Meets(c.rules[j].destinations, c.routes[y].acGroups)}
           pass(y, j) == GetRulePeers(c, c.rules[j], p, Members(c.routes[y].groups, c.groups))
           of(y) == IF c.routes[y].acGroups = {} THEN {<<y, None, None>>}
                    ELSE UNION {{<<y, j, z>> : z \in pass(y, j)} : j \in open(y)}
           mine == GetRoutingPeerRoutes(c, p) \cap Enabled(c.routes)
<1>1. GetPeerRoutesFirewallRules(c, p) = UNION {of(y) : y \in mine}
  BY DEF GetPeerRoutesFirewallRules
<1>2. \A y, j : pass(y, j) \subseteq c.peers
  BY DEF GetRulePeers, ValidatePostureChecksOnPeer
<1> HIDE DEF mine, open, pass
<1>3. PICK y \in mine : f \in of(y)
  <2> HIDE DEF of
  <2> QED  BY <1>1
<1>4. CASE c.routes[y].acGroups = {}
  BY <1>3, <1>4
<1>5. CASE c.routes[y].acGroups # {}
  BY <1>2, <1>3, <1>5
<1> QED  BY <1>4, <1>5

LEMMA NetRulesShape ==
  ASSUME NEW c, NEW p, NEW routes, NEW f \in GetPeerNetworkResourceFirewallRules(c, p, routes)
  PROVE  \E n, i, q : f = <<n, i, q>>
<1> DEFINE may(j) == GetRulePeers(c, c.rules[j], p, c.peers)
           ns == {m \in c.resources : <<m, p>> \in routes}
<1>1. GetPeerNetworkResourceFirewallRules(c, p, routes) =
        UNION {UNION {{<<m, j, x>> : x \in may(j)} : j \in c.resPolicies[m]} : m \in ns}
  BY DEF GetPeerNetworkResourceFirewallRules
<1> HIDE DEF may, ns
<1> QED  BY <1>1

\* What the map of p from components c has to show of approved peers.
SameMap(a, p, c, d) ==
  LET m == Calculate(c, p)
      o == Calculate(d, p)
      approved(pairs) == {x \in pairs : x[2] \in a.valid}
      sure(rule) ==
        \/ a.routes[rule[1]].acGroups = {}
        \/ /\ rule[3] \in Known(m) \cap a.valid
           /\ rule[3] = a.policies[rule[2]].srcPeer => a.policies[rule[2]].checks = <<>>
  IN /\ m.peers \cap a.valid = o.peers \cap a.valid
     /\ m.offline \cap a.valid = o.offline \cap a.valid
     /\ approved(m.firewall) = approved(o.firewall)
     /\ approved(m.routes) = approved(o.routes)
     /\ approved(m.netRoutes) = approved(o.netRoutes)
     /\ {r \in m.netRules : r[3] \in a.valid} = {r \in o.netRules : r[3] \in a.valid}
     /\ {r \in m.routeRules : sure(r)} = {r \in o.routeRules : sure(r)}
     /\ m.dns = o.dns

\* One direction is enough, for the relation is symmetric in what it is proved from.
LEMMA RulesWithin ==
  ASSUME NEW a, NEW p \in a.valid, NEW c, NEW d, WellFormed(a), Enough(a, p, c), Enough(a, p, d),
         NEW f \in GetPeerConnectionResources(c, p), f[2] \in a.valid
  PROVE  f \in GetPeerConnectionResources(d, p)
<1>1. PICK i, q, w : f = <<i, q, w>> /\ q # p
  BY RulesShape
<1>2. q \in a.valid \ {p}
  BY <1>1
<1>3. /\ i \in Enabled(a.policies)
      /\ \/ w = "out" /\ (Reaches(a, i, p, q) \/ (a.policies[i].both /\ Reaches(a, i, q, p)))
         \/ w = "in"  /\ (Reaches(a, i, q, p) \/ (a.policies[i].both /\ Reaches(a, i, p, q)))
  BY <1>1, <1>2, RulesKept
<1>4. <<i, q, w>> \in GetPeerConnectionResources(d, p)
  BY <1>2, <1>3, RulesKept
<1> QED  BY <1>1, <1>4

LEMMA RoutesWithin ==
  ASSUME NEW a, NEW p \in a.valid, NEW c, NEW d, WellFormed(a), Enough(a, p, c), Enough(a, p, d),
         NEW f \in GetRoutesToSync(c, p, Online(c, p)), f[2] \in a.valid
  PROVE  f \in GetRoutesToSync(d, p, Online(d, p))
<1>1. PICK x, q : f = <<x, q>>
  BY SyncShape
<1>2. q \in a.valid /\ q = f[2]
  BY <1>1
<1>3. ASSUME NEW e, Enough(a, p, e)
      PROVE  Online(e, p) \cap a.valid \subseteq e.peers /\ p \notin Online(e, p)
  BY <1>3, PeersKept, KnownKept
<1>4. q \in Online(c, p) <=> q \in Online(d, p)
  BY <1>2, PeersKept
<1>5. <<x, q>> \in GetRoutesToSync(c, p, Online(c, p)) <=>
           /\ x \in Enabled(a.routes) /\ ServesRoute(a, x, q)
           /\ \/ q = p
              \/ /\ q \in Online(c, p)
                 /\ Meets(a.routes[x].groups, GetPeerGroups(a.groupPeers, p))
                 /\ a.routes[x].net \notin {a.routes[y].net : y \in OwnRoutes(a, p)}
  BY <1>2, <1>3, RoutesKept
<1>6. <<x, q>> \in GetRoutesToSync(d, p, Online(d, p)) <=>
           /\ x \in Enabled(a.routes) /\ ServesRoute(a, x, q)
           /\ \/ q = p
              \/ /\ q \in Online(d, p)
                 /\ Meets(a.routes[x].groups, GetPeerGroups(a.groupPeers, p))
                 /\ a.routes[x].net \notin {a.routes[y].net : y \in OwnRoutes(a, p)}
  BY <1>2, <1>3, RoutesKept
<1> QED  BY <1>1, <1>4, <1>5, <1>6

LEMMA ResourceRoutesWithin ==
  ASSUME NEW a, NEW p \in a.valid, NEW c, NEW d, WellFormed(a), Enough(a, p, c), Enough(a, p, d),
         NEW f \in GetNetworkResourcesRoutesToSync(c, p), f[2] \in a.valid
  PROVE  f \in GetNetworkResourcesRoutesToSync(d, p)
<1>1. PICK n, q : f = <<n, q>>
  BY RoutesShape
<1>2. q \in a.valid
  BY <1>1
<1>3. <<n, q>> \in GetNetworkResourcesRoutesToSync(c, p) <=> <<n, q>> \in GetNetworkResourcesRoutesToSync(d, p)
  BY <1>2, ResourceRoutesKept
<1> QED  BY <1>1, <1>3

LEMMA ResourceRulesWithin ==
  ASSUME NEW a, NEW p \in a.valid, NEW c, NEW d, WellFormed(a), Enough(a, p, c), Enough(a, p, d),
         NEW f \in GetPeerNetworkResourceFirewallRules(c, p, GetNetworkResourcesRoutesToSync(c, p)), f[3] \in a.valid
  PROVE  f \in GetPeerNetworkResourceFirewallRules(d, p, GetNetworkResourcesRoutesToSync(d, p))
<1>1. PICK n, i, q : f = <<n, i, q>>
  BY NetRulesShape
<1>2. q \in a.valid
  BY <1>1
<1>3. <<n, i, q>> \in GetPeerNetworkResourceFirewallRules(c, p, GetNetworkResourcesRoutesToSync(c, p)) <=>
      <<n, i, q>> \in GetPeerNetworkResourceFirewallRules(d, p, GetNetworkResourcesRoutesToSync(d, p))
  BY <1>2, ResourceRulesKept
<1> QED  BY <1>1, <1>3

LEMMA RouteRulesWithin ==
  ASSUME NEW a, NEW p \in a.valid, NEW c, NEW d, WellFormed(a), Enough(a, p, c), Enough(a, p, d),
         NEW f \in GetPeerRoutesFirewallRules(c, p),
         \/ a.routes[f[1]].acGroups = {}
         \/ /\ f[3] \in a.valid /\ (Linked(a, p, f[3]) \/ Serves(a, p, f[3]))
            /\ f[3] = a.policies[f[2]].srcPeer => a.policies[f[2]].checks = <<>>
  PROVE  f \in GetPeerRoutesFirewallRules(d, p)
<1>1. PICK x, i, q : f = <<x, i, q>>
  BY RouteRulesShape
<1>2. f[1] = x /\ f[2] = i /\ f[3] = q
  BY <1>1
<1>3. CASE a.routes[x].acGroups = {}
  BY <1>1, <1>3, RouteRulesKept
<1>4. CASE a.routes[x].acGroups # {}
  <2>1. q \in a.valid /\ (Linked(a, p, q) \/ Serves(a, p, q))
    BY <1>2, <1>4
  <2>2. q = a.policies[i].srcPeer => a.policies[i].checks = <<>>
    BY <1>2, <1>4
  <2>3. q \in c.peers \cap a.valid /\ q \in d.peers \cap a.valid
    BY <2>1, KnownKept
  <2>4. <<x, i, q>> \in GetPeerRoutesFirewallRules(c, p) <=> <<x, i, q>> \in GetPeerRoutesFirewallRules(d, p)
    BY <1>4, <2>2, <2>3, RouteRulesKept
  <2> QED  BY <1>1, <2>4
<1> QED  BY <1>3, <1>4

LEMMA EnoughIsSame ==
  ASSUME NEW a, NEW p \in a.valid, NEW c, NEW d, WellFormed(a), Enough(a, p, c), Enough(a, p, d)
  PROVE  SameMap(a, p, c, d)
<1> DEFINE m == Calculate(c, p)
           o == Calculate(d, p)
           approved(pairs) == {x \in pairs : x[2] \in a.valid}
           sure(rule) ==
             \/ a.routes[rule[1]].acGroups = {}
             \/ /\ rule[3] \in Known(m) \cap a.valid
                /\ rule[3] = a.policies[rule[2]].srcPeer => a.policies[rule[2]].checks = <<>>
<1>1. m.peers \cap a.valid = o.peers \cap a.valid /\ m.offline \cap a.valid = o.offline \cap a.valid
  <2>1. \A q \in a.valid : (q \in m.peers <=> q \in o.peers) /\ (q \in m.offline <=> q \in o.offline)
    BY PeersKept
  <2> HIDE DEF m, o
  <2> QED  BY <2>1
<1>2. approved(m.firewall) = approved(o.firewall)
  <2>1. m.firewall = GetPeerConnectionResources(c, p) /\ o.firewall = GetPeerConnectionResources(d, p)
    BY MapFields
  <2> HIDE DEF m, o
  <2> QED  BY <2>1, RulesWithin
<1>3. approved(m.routes) = approved(o.routes)
  <2>1. m.routes = GetRoutesToSync(c, p, Online(c, p)) /\ o.routes = GetRoutesToSync(d, p, Online(d, p))
    BY MapFields
  <2> HIDE DEF m, o
  <2> QED  BY <2>1, RoutesWithin
<1>4. approved(m.netRoutes) = approved(o.netRoutes)
  <2>1. m.netRoutes = GetNetworkResourcesRoutesToSync(c, p) /\ o.netRoutes = GetNetworkResourcesRoutesToSync(d, p)
    BY ResourceFields
  <2> HIDE DEF m, o
  <2> QED  BY <2>1, ResourceRoutesWithin
<1>5. {r \in m.netRules : r[3] \in a.valid} = {r \in o.netRules : r[3] \in a.valid}
  <2>1. /\ m.netRules = GetPeerNetworkResourceFirewallRules(c, p, GetNetworkResourcesRoutesToSync(c, p))
        /\ o.netRules = GetPeerNetworkResourceFirewallRules(d, p, GetNetworkResourcesRoutesToSync(d, p))
    BY ResourceFields
  <2> HIDE DEF m, o
  <2> QED  BY <2>1, ResourceRulesWithin
<1>6. {r \in m.routeRules : sure(r)} = {r \in o.routeRules : sure(r)}
  <2>1. m.routeRules = GetPeerRoutesFirewallRules(c, p) /\ o.routeRules = GetPeerRoutesFirewallRules(d, p)
    BY MapFields
  <2>2. \A q \in Known(m) \cap a.valid : Linked(a, p, q) \/ Serves(a, p, q)
    BY KnownPeers
  <2>3. \A r : sure(r) =>
          \/ a.routes[r[1]].acGroups = {}
          \/ /\ r[3] \in a.valid /\ (Linked(a, p, r[3]) \/ Serves(a, p, r[3]))
             /\ r[3] = a.policies[r[2]].srcPeer => a.policies[r[2]].checks = <<>>
    <3> HIDE DEF m
    <3> QED  BY <2>2
  <2> HIDE DEF m, o, sure
  <2>4. \A r : r \in m.routeRules /\ sure(r) => r \in o.routeRules
    BY <2>1, <2>3, RouteRulesWithin
  <2>5. \A r : r \in o.routeRules /\ sure(r) => r \in m.routeRules
    BY <2>1, <2>3, RouteRulesWithin
  <2> QED  BY <2>4, <2>5
<1>7. m.dns = o.dns
  BY MapFields, OwnGroupsKept DEF Enough, KeepsAccount
<1> QED  BY <1>1, <1>2, <1>3, <1>4, <1>5, <1>6, <1>7 DEF SameMap

LEMMA Exact == Consistent(acct) => PruningIsExact
<1> SUFFICES ASSUME Consistent(acct), NEW p \in acct.valid
             PROVE  LET a     == InjectProxyPolicies(acct)
                        map   == Map(p)
                        whole == Calculate(WholeAccount(a, p), p)
                        approved(pairs) == {x \in pairs : x[2] \in acct.valid}
                        sure(rule) ==
                          \/ a.routes[rule[1]].acGroups = {}
                          \/ /\ rule[3] \in Known(map) \cap acct.valid
                             /\ rule[3] = a.policies[rule[2]].srcPeer => a.policies[rule[2]].checks = <<>>
                        seen(m) == [m EXCEPT
                                      !.peers = @ \cap acct.valid, !.offline = @ \cap acct.valid,
                                      !.firewall = approved(@), !.routes = approved(@), !.netRoutes = approved(@),
                                      !.netRules = {rule \in @ : rule[3] \in acct.valid},
                                      !.routeRules = {rule \in @ : sure(rule)}]
                    IN seen(map) = seen(whole)
  BY DEF PruningIsExact
<1> DEFINE a     == InjectProxyPolicies(acct)
           map   == Map(p)
           whole == Calculate(WholeAccount(a, p), p)
           approved(pairs) == {x \in pairs : x[2] \in acct.valid}
           sure(rule) ==
             \/ a.routes[rule[1]].acGroups = {}
             \/ /\ rule[3] \in Known(map) \cap acct.valid
                /\ rule[3] = a.policies[rule[2]].srcPeer => a.policies[rule[2]].checks = <<>>
           seen(m) == [m EXCEPT
                         !.peers = @ \cap acct.valid, !.offline = @ \cap acct.valid,
                         !.firewall = approved(@), !.routes = approved(@), !.netRoutes = approved(@),
                         !.netRules = {rule \in @ : rule[3] \in acct.valid},
                         !.routeRules = {rule \in @ : sure(rule)}]
<1>1. a = Full /\ a.valid = acct.valid /\ WellFormed(a) /\ p \in a.valid
  BY MapIsCalculated DEF Full
<1>2. map = Calculate(Cut(a, p), p) /\ whole = Calculate(Whole(a, p), p)
  BY <1>1, MapIsCalculated DEF Whole
<1>3. SameMap(a, p, Cut(a, p), Whole(a, p))
  BY <1>1, CutEnough, WholeEnough, EnoughIsSame
<1>4. map.nsGroups = whole.nsGroups /\ map.zones = whole.zones
  <2>1. Cut(a, p).zones = Whole(a, p).zones
    BY WholeFields
  <2>2. GetPeerNSGroupsFromGroups(Cut(a, p), p) = GetPeerNSGroupsFromGroups(Whole(a, p), p)
    BY <1>1, NameServersKept
  <2>3. map.dns = whole.dns
    BY <1>2, <1>3 DEF SameMap
  <2> HIDE DEF a, map, whole
  <2> QED  BY <1>2, <2>1, <2>2, <2>3, MapFields
<1>5. /\ DOMAIN map = {"peers", "offline", "firewall", "routes", "netRoutes", "routeRules", "netRules",
                       "nsGroups", "zones", "dns"}
      /\ DOMAIN whole = DOMAIN map /\ map = [k \in DOMAIN map |-> map[k]] /\ whole = [k \in DOMAIN whole |-> whole[k]]
  <2>1. Calculate(Cut(a, p), p) = [k \in DOMAIN Calculate(Cut(a, p), p) |-> Calculate(Cut(a, p), p)[k]]
    BY DEF Calculate
  <2>2. Calculate(Whole(a, p), p) = [k \in DOMAIN Calculate(Whole(a, p), p) |-> Calculate(Whole(a, p), p)[k]]
    BY DEF Calculate
  <2> HIDE DEF a, map, whole
  <2> QED  BY <1>2, <2>1, <2>2, MapFields
<1>6. /\ map.peers \cap acct.valid = whole.peers \cap acct.valid
      /\ map.offline \cap acct.valid = whole.offline \cap acct.valid
      /\ approved(map.firewall) = approved(whole.firewall)
      /\ approved(map.routes) = approved(whole.routes)
      /\ approved(map.netRoutes) = approved(whole.netRoutes)
      /\ {rule \in map.netRules : rule[3] \in acct.valid} = {rule \in whole.netRules : rule[3] \in acct.valid}
      /\ {rule \in map.routeRules : sure(rule)} = {rule \in whole.routeRules : sure(rule)}
      /\ map.dns = whole.dns
  <2> HIDE DEF a, map, whole
  <2> QED  BY <1>1, <1>2, <1>3 DEF SameMap
<1> HIDE DEF a, map, whole, approved, sure
<1>7. seen(map) = seen(whole)
  BY <1>4, <1>5, <1>6
<1> QED  BY <1>7 DEF a, map, whole, approved, sure

\* What the components leave out of the account, the map of no approved peer
\* depends on, whatever operations have made the account.
THEOREM PruningLosesNothing == PSpec => []PruningIsExact
<1>1. AccountInv => PruningIsExact
  BY Exact DEF AccountInv
<1> QED  BY <1>1, AccountInvariant, PTL
-----------------------------------------------------------------------------
(* What a proxy is told.  Of a service s, as the services v have it, the proxies
   of a cluster c need to hear, last, how it is now if it is enabled in c, and
   that it was removed if it is not in c. *)

IsSeq(q) == \E S : q \in Seq(S)

InCluster(v, s, c) == s \in DOMAIN v /\ v[s].cluster = c
IsWanted(v, s, c) == InCluster(v, s, c) /\ v[s].enabled

\* The notices that bear on s in c.
Heeds(v, n, s, c) == n.service = s /\ (IsWanted(v, s, c) \/ n.cluster = c)
Says(v, n, s, c) ==
  IF IsWanted(v, s, c) THEN n.type # "removed" /\ n.cluster = c /\ n.mapping = ToProtoMapping(v[s])
  ELSE n.type = "removed"
Shows(v, held, s, c) ==
  IF IsWanted(v, s, c) THEN s \in DOMAIN held /\ held[s] = ToProtoMapping(v[s])
  ELSE s \notin DOMAIN held

IsSilent(v, q, s, c) == \A i \in DOMAIN q : ~Heeds(v, q[i], s, c)
LastWord(v, q, s, c) ==
  \A i \in DOMAIN q : Heeds(v, q[i], s, c) =>
    \E j \in DOMAIN q : j >= i /\ Heeds(v, q[j], s, c) /\ Says(v, q[j], s, c)

SameService(v, w, s) ==
  /\ s \in DOMAIN v <=> s \in DOMAIN w
  /\ s \in DOMAIN v => \A f \in {"domain", "cluster", "body", "enabled"} : w[s][f] = v[s][f]

\* Services whose changes were told in order, and that c either has enabled or has not.
IsSettled(v, s, c) == s \notin raced /\ (InCluster(v, s, c) => IsWanted(v, s, c))

LEMMA SameMeaning ==
  ASSUME NEW v, NEW w, NEW s, SameService(v, w, s), NEW c
  PROVE  /\ InCluster(w, s, c) <=> InCluster(v, s, c)
         /\ IsWanted(w, s, c) <=> IsWanted(v, s, c)
         /\ \A n : Heeds(w, n, s, c) <=> Heeds(v, n, s, c)
         /\ \A n : Says(w, n, s, c) <=> Says(v, n, s, c)
         /\ \A held : Shows(w, held, s, c) <=> Shows(v, held, s, c)
         /\ \A q : IsSilent(w, q, s, c) <=> IsSilent(v, q, s, c)
         /\ \A q : LastWord(w, q, s, c) <=> LastWord(v, q, s, c)
<1>1. (InCluster(w, s, c) <=> InCluster(v, s, c)) /\ (IsWanted(w, s, c) <=> IsWanted(v, s, c))
  BY DEF SameService, InCluster, IsWanted
<1>2. IsWanted(v, s, c) => ToProtoMapping(w[s]) = ToProtoMapping(v[s])
  BY DEF SameService, IsWanted, InCluster, ToProtoMapping
<1>3. \A n : (Heeds(w, n, s, c) <=> Heeds(v, n, s, c)) /\ (Says(w, n, s, c) <=> Says(v, n, s, c))
  BY <1>1, <1>2 DEF Heeds, Says
<1>4. \A held : Shows(w, held, s, c) <=> Shows(v, held, s, c)
  BY <1>1, <1>2 DEF Shows
<1> QED  BY <1>1, <1>3, <1>4 DEF IsSilent, LastWord

\* What is silent on s before and after has the same to say of it.
LEMMA AbsentMeaning ==
  ASSUME NEW v, NEW w, NEW s, NEW c, ~IsWanted(v, s, c), ~IsWanted(w, s, c)
  PROVE  /\ \A n : (Heeds(w, n, s, c) <=> Heeds(v, n, s, c)) /\ (Says(w, n, s, c) <=> Says(v, n, s, c))
         /\ \A held : Shows(w, held, s, c) <=> Shows(v, held, s, c)
         /\ \A q : (IsSilent(w, q, s, c) <=> IsSilent(v, q, s, c)) /\ (LastWord(w, q, s, c) <=> LastWord(v, q, s, c))
<1>1. \A n : (Heeds(w, n, s, c) <=> Heeds(v, n, s, c)) /\ (Says(w, n, s, c) <=> Says(v, n, s, c))
  BY DEF Heeds, Says
<1> QED  BY <1>1 DEF IsSilent, LastWord, Shows

LEMMA Sent ==
  ASSUME NEW v, NEW s, NEW c, NEW q, IsSeq(q), NEW n
  PROVE  /\ IsSeq(Append(q, n))
         /\ DOMAIN Append(q, n) = 1..(Len(q) + 1)
         /\ \A i \in DOMAIN q : Append(q, n)[i] = q[i]
         /\ Append(q, n)[Len(q) + 1] = n
         /\ Heeds(v, n, s, c) /\ Says(v, n, s, c) =>
              LastWord(v, Append(q, n), s, c) /\ ~IsSilent(v, Append(q, n), s, c)
         /\ ~Heeds(v, n, s, c) /\ LastWord(v, q, s, c) => LastWord(v, Append(q, n), s, c)
         /\ IsSilent(v, Append(q, n), s, c) => IsSilent(v, q, s, c)
<1>1. PICK S : q \in Seq(S)
  BY DEF IsSeq
<1>2. q \in Seq(S \cup {n}) /\ n \in S \cup {n}
  BY <1>1
<1>3. Append(q, n) \in Seq(S \cup {n})
  BY <1>2
<1>4. /\ DOMAIN Append(q, n) = 1..(Len(q) + 1) /\ DOMAIN q = 1..Len(q) /\ Len(q) \in Nat
      /\ \A i \in DOMAIN q : Append(q, n)[i] = q[i]
      /\ Append(q, n)[Len(q) + 1] = n
  BY <1>2
<1> DEFINE r == Append(q, n)
<1> HIDE DEF r
<1>5. /\ DOMAIN r = 1..(Len(q) + 1) /\ DOMAIN q = 1..Len(q) /\ Len(q) \in Nat
      /\ \A i \in DOMAIN q : r[i] = q[i]
      /\ r[Len(q) + 1] = n
  BY <1>4 DEF r
<1>6. Heeds(v, n, s, c) /\ Says(v, n, s, c) => LastWord(v, r, s, c) /\ ~IsSilent(v, r, s, c)
  BY <1>5 DEF LastWord, IsSilent
<1>7. ~Heeds(v, n, s, c) /\ LastWord(v, q, s, c) => LastWord(v, r, s, c)
  <2> SUFFICES ASSUME ~Heeds(v, n, s, c), LastWord(v, q, s, c), NEW i \in DOMAIN r, Heeds(v, r[i], s, c)
               PROVE  \E j \in DOMAIN r : j >= i /\ Heeds(v, r[j], s, c) /\ Says(v, r[j], s, c)
    BY DEF LastWord
  <2>1. i \in DOMAIN q
    BY <1>5
  <2>2. PICK j \in DOMAIN q : j >= i /\ Heeds(v, q[j], s, c) /\ Says(v, q[j], s, c)
    BY <1>5, <2>1 DEF LastWord
  <2> QED  BY <1>5, <2>2
<1>8. IsSilent(v, r, s, c) => IsSilent(v, q, s, c)
  BY <1>5 DEF IsSilent
<1> QED  BY <1>3, <1>4, <1>6, <1>7, <1>8 DEF IsSeq, r

LEMMA Taken ==
  ASSUME NEW v, NEW s, NEW c, NEW q, IsSeq(q), q # <<>>
  PROVE  /\ IsSeq(Tail(q))
         /\ \A i \in DOMAIN Tail(q) : i + 1 \in DOMAIN q /\ Tail(q)[i] = q[i + 1]
         /\ LastWord(v, q, s, c) => LastWord(v, Tail(q), s, c)
         /\ LastWord(v, q, s, c) /\ IsSilent(v, Tail(q), s, c) /\ Heeds(v, Head(q), s, c) => Says(v, Head(q), s, c)
         /\ IsSilent(v, Tail(q), s, c) /\ ~Heeds(v, Head(q), s, c) => IsSilent(v, q, s, c)
<1>1. PICK S : q \in Seq(S)
  BY DEF IsSeq
<1>2. Tail(q) \in Seq(S)
  BY <1>1
<1> DEFINE r == Tail(q)
<1>3. /\ Len(q) \in Nat \ {0} /\ DOMAIN q = 1..Len(q) /\ DOMAIN r = 1..(Len(q) - 1)
      /\ \A i \in DOMAIN r : i + 1 \in DOMAIN q /\ r[i] = q[i + 1]
      /\ Head(q) = q[1]
  BY <1>1
<1> HIDE DEF r
<1>4. ASSUME LastWord(v, q, s, c)
      PROVE  LastWord(v, r, s, c)
  <2> SUFFICES ASSUME NEW i \in DOMAIN r, Heeds(v, r[i], s, c)
               PROVE  \E j \in DOMAIN r : j >= i /\ Heeds(v, r[j], s, c) /\ Says(v, r[j], s, c)
    BY DEF LastWord
  <2>1. PICK j \in DOMAIN q : j >= i + 1 /\ Heeds(v, q[j], s, c) /\ Says(v, q[j], s, c)
    BY <1>3, <1>4 DEF LastWord
  <2>2. j - 1 \in DOMAIN r /\ r[j - 1] = q[j] /\ j - 1 >= i
    BY <1>3, <2>1
  <2> QED  BY <2>1, <2>2
<1>5. ASSUME IsSilent(v, r, s, c), NEW j \in DOMAIN q, Heeds(v, q[j], s, c)
      PROVE  j = 1
  <2>1. j # 1 => j - 1 \in DOMAIN r /\ r[j - 1] = q[j]
    BY <1>3
  <2> QED  BY <1>5, <2>1 DEF IsSilent
<1>6. LastWord(v, q, s, c) /\ IsSilent(v, r, s, c) /\ Heeds(v, Head(q), s, c) => Says(v, Head(q), s, c)
  BY <1>3, <1>5 DEF LastWord
<1>7. IsSilent(v, r, s, c) /\ ~Heeds(v, Head(q), s, c) => IsSilent(v, q, s, c)
  BY <1>3, <1>5 DEF IsSilent
<1> QED  BY <1>2, <1>3, <1>4, <1>6, <1>7 DEF IsSeq, r

LEMMA NothingSaid ==
  ASSUME NEW v, NEW s, NEW c
  PROVE  IsSeq(<<>>) /\ LastWord(v, <<>>, s, c) /\ IsSilent(v, <<>>, s, c)
<1>1. <<>> \in Seq({}) /\ DOMAIN <<>> = {}
  OBVIOUS
<1> QED  BY <1>1 DEF IsSeq, LastWord, IsSilent

\* A finite set is listed as a whole.
LEMMA ListsAll ==
  ASSUME NEW S, IsFiniteSet(S)
  PROVE  /\ SetToSeq(S) \in Seq(S)
         /\ \A x \in S : \E i \in DOMAIN SetToSeq(S) : SetToSeq(S)[i] = x
<1> DEFINE n == Cardinality(S)
<1>1. n \in Nat /\ ExistsBijection(1..n, S)
  BY FS_CardinalityType
<1>2. \E f \in [1..n -> S] : IsInjective(f)
  BY <1>1 DEF ExistsBijection, Bijection, Injection
<1>3. SetToSeq(S) \in [1..n -> S] /\ IsInjective(SetToSeq(S))
  BY <1>2 DEF SetToSeq
<1>4. SetToSeq(S) \in Injection(1..n, S)
  BY <1>3 DEF Injection
<1>5. Cardinality(1..n) = n
  BY <1>1, FS_Interval
<1>6. SetToSeq(S) \in Surjection(1..n, S)
  BY <1>4, <1>5, FS_Injection
<1> QED  BY <1>1, <1>3, <1>6 DEF Surjection

-----------------------------------------------------------------------------
(* What an operation does to the services and tells of them. *)

ServiceFields == {"domain", "cluster", "body", "enabled", "targets", "source", "fresh"}
ServicesHold(v) == IsFiniteSet(DOMAIN v) /\ \A s \in DOMAIN v : DOMAIN v[s] = ServiceFields

\* The change of the services ss from v to w is told in full.
Announces(v, w, ss, told) ==
  /\ IsSeq(told)
  /\ \A i \in DOMAIN told : told[i].service \in ss
  /\ \A s : s \notin ss => SameService(v, w, s)
  /\ \A s \in ss : \A c :
       /\ IsWanted(w, s, c) => LastWord(w, told, s, c) /\ ~IsSilent(w, told, s, c)
       /\ ~InCluster(w, s, c) => /\ LastWord(w, told, s, c)
                                 /\ IsSilent(w, told, s, c) => ~InCluster(v, s, c)

\* Handler h changes services and has this to tell.
Announced(h) ==
  \E ss, told :
    /\ notices[h] = <<>>
    /\ notices' = [notices EXCEPT ![h] = told]
    /\ raced' = raced \cup {s \in ss : IsPending(s)}
    /\ Announces(acct.services, acct'.services, ss, told)

\* Handler h changes nothing and has this to tell.
Repeated(h) ==
  /\ notices[h] = <<>>
  /\ \E told : /\ notices' = [notices EXCEPT ![h] = told] /\ IsSeq(told)
              /\ \A s, c : IsWanted(acct.services, s, c) \/ ~InCluster(acct.services, s, c)
                             => LastWord(acct.services, told, s, c)
  /\ UNCHANGED raced
  /\ acct' = acct

Untold ==
  /\ UNCHANGED <<notices, raced>>
  /\ \A s : SameService(acct.services, acct'.services, s)

LEMMA SameHold ==
  ASSUME NEW v, NEW w, DOMAIN w = DOMAIN v, \A s \in DOMAIN v : DOMAIN w[s] = DOMAIN v[s], ServicesHold(v)
  PROVE  ServicesHold(w)
  BY DEF ServicesHold

LEMMA ProtoFields ==
  ASSUME NEW type, NEW s, NEW svc, NEW c
  PROVE  LET n == Notice(type, s, svc, c)
         IN n.type = type /\ n.service = s /\ n.cluster = c /\ n.mapping = ToProtoMapping(svc)
  BY DEF Notice

\* What is told of a service that is created or saved.
LEMMA SavingAnnounces ==
  ASSUME NEW s, NEW svc, NEW told, Consistent(acct), acct' = WithService(s, svc),
         \/ s \notin Services /\ told = << Notice("created", s, svc, svc.cluster) >>
         \/ s \in Services /\ told = UpdateNotices(s, acct.services[s], svc)
  PROVE  Announces(acct.services, acct'.services, {s}, told)
<1> DEFINE v == acct.services
           w == acct'.services
<1>1. w = Put(v, s, svc)
  BY DEF WithService, Consistent, Fields
<1>2. DOMAIN w = DOMAIN v \cup {s} /\ w[s] = svc /\ \A x \in DOMAIN v \ {s} : w[x] = v[x]
  BY <1>1 DEF Put
<1> SUFFICES Announces(v, w, {s}, told)
  OBVIOUS
<1> HIDE DEF w
<1>3. \A x : x \notin {s} => SameService(v, w, x)
  BY <1>2 DEF SameService
<1>4. ASSUME NEW n, told = <<n>>, n.service = s,
             n.cluster = svc.cluster, n.mapping = ToProtoMapping(svc),
             n.type # "removed" \/ ~svc.enabled,
             s \in DOMAIN v => v[s].cluster = svc.cluster
      PROVE  Announces(v, w, {s}, told)
  <2>1. told \in Seq({n}) /\ DOMAIN told = {1} /\ told[1] = n
    BY <1>4
  <2>2. ASSUME NEW c, IsWanted(w, s, c)
        PROVE  LastWord(w, told, s, c) /\ ~IsSilent(w, told, s, c)
    BY <1>2, <1>4, <2>1, <2>2 DEF IsWanted, InCluster, LastWord, IsSilent, Heeds, Says
  <2>3. ASSUME NEW c, ~InCluster(w, s, c)
        PROVE  LastWord(w, told, s, c) /\ ~InCluster(v, s, c)
    BY <1>2, <1>4, <2>1, <2>3 DEF IsWanted, InCluster, LastWord, IsSilent, Heeds, Says
  <2> QED  BY <1>3, <1>4, <2>1, <2>2, <2>3 DEF Announces, IsSeq
<1>5. CASE s \notin Services
  BY <1>4, <1>5, ProtoFields DEF Services
<1>6. CASE s \in Services
  <2> DEFINE old == v[s]
  <2>0. told = UpdateNotices(s, old, svc)
    BY <1>6
  <2> HIDE DEF old
  <2>1. CASE svc.domain # old.domain \/ svc.cluster # old.cluster
    <3> DEFINE n == Notice("removed", s, svc, old.cluster)
               m == Notice("created", s, svc, svc.cluster)
    <3>1. told = <<n, m>>
      BY <2>0, <2>1 DEF UpdateNotices
    <3>2. /\ n.type = "removed" /\ n.service = s /\ n.cluster = old.cluster
          /\ m.type = "created" /\ m.service = s /\ m.cluster = svc.cluster /\ m.mapping = ToProtoMapping(svc)
      BY ProtoFields
    <3> HIDE DEF n, m
    <3>3. told \in Seq({n, m}) /\ DOMAIN told = {1, 2} /\ told[1] = n /\ told[2] = m
      BY <3>1
    <3>4. ASSUME NEW c, IsWanted(w, s, c)
          PROVE  LastWord(w, told, s, c) /\ ~IsSilent(w, told, s, c)
      <4>1. Heeds(w, told[2], s, c) /\ Says(w, told[2], s, c)
        BY <1>2, <3>2, <3>3, <3>4 DEF IsWanted, InCluster, Heeds, Says
      <4> QED  BY <3>3, <4>1 DEF LastWord, IsSilent
    <3>5. ASSUME NEW c, ~InCluster(w, s, c)
          PROVE  LastWord(w, told, s, c) /\ (IsSilent(w, told, s, c) => ~InCluster(v, s, c))
      <4>1. ~IsWanted(w, s, c) /\ c # svc.cluster
        BY <1>2, <3>5 DEF IsWanted, InCluster
      <4>2. ~Heeds(w, told[2], s, c) /\ Says(w, told[1], s, c)
        BY <3>2, <3>3, <4>1 DEF Heeds, Says
      <4>3. InCluster(v, s, c) => Heeds(w, told[1], s, c)
        BY <3>2, <3>3 DEF InCluster, Heeds, old
      <4> QED  BY <3>3, <4>2, <4>3 DEF LastWord, IsSilent
    <3> QED  BY <1>3, <3>2, <3>3, <3>4, <3>5 DEF Announces, IsSeq
  <2>2. CASE svc.domain = old.domain /\ svc.cluster = old.cluster
    <3>1. PICK type \in {"removed", "created", "modified"} :
            told = << Notice(type, s, svc, svc.cluster) >> /\ (type = "removed" => ~svc.enabled)
      BY <2>0, <2>2 DEF UpdateNotices, UpdateType
    <3> DEFINE n == Notice(type, s, svc, svc.cluster)
    <3>2. n.type = type /\ n.service = s /\ n.cluster = svc.cluster /\ n.mapping = ToProtoMapping(svc)
      BY ProtoFields
    <3>3. told = <<n>>
      BY <3>1
    <3> HIDE DEF n
    <3>4. s \in DOMAIN v => v[s].cluster = svc.cluster
      BY <2>2 DEF old
    <3> QED  BY <1>4, <3>1, <3>2, <3>3, <3>4
  <2> QED  BY <2>1, <2>2
<1> QED  BY <1>5, <1>6

\* What is told of services that are deleted.
LEMMA RemovalAnnounces ==
  ASSUME NEW ss, NEW told, Consistent(acct), ss \subseteq Services, acct' = WithoutServices(ss),
         IsSeq(told), \A i \in DOMAIN told : \E s \in ss : told[i] = Removal(s),
         \A s \in ss : \E i \in DOMAIN told : told[i] = Removal(s)
  PROVE  Announces(acct.services, acct'.services, ss, told)
<1> DEFINE v == acct.services
           w == acct'.services
<1>1. w = Drop(v, ss)
  BY DEF WithoutServices, Consistent, Fields
<1>2. DOMAIN w = DOMAIN v \ ss /\ \A x \in DOMAIN v \ ss : w[x] = v[x]
  BY <1>1 DEF Drop
<1> SUFFICES Announces(v, w, ss, told)
  OBVIOUS
<1> HIDE DEF w
<1>3. \A x : x \notin ss => SameService(v, w, x)
  BY <1>2 DEF SameService
<1>4. \A s : Removal(s).service = s /\ Removal(s).type = "removed" /\ Removal(s).cluster = v[s].cluster
  BY ProtoFields DEF Removal
<1>5. ASSUME NEW s \in ss, NEW c
      PROVE  /\ ~IsWanted(w, s, c)
             /\ LastWord(w, told, s, c)
             /\ IsSilent(w, told, s, c) => ~InCluster(v, s, c)
  <2>1. ~IsWanted(w, s, c)
    BY <1>2 DEF IsWanted, InCluster
  <2>2. \A i \in DOMAIN told : Says(w, told[i], s, c) /\ i >= i
    <3>1. \A i \in DOMAIN told : i \in Nat
      BY DEF IsSeq
    <3> QED  BY <1>4, <2>1, <3>1 DEF Says
  <2>3. LastWord(w, told, s, c)
    BY <2>2 DEF LastWord
  <2>4. ASSUME InCluster(v, s, c)
        PROVE  ~IsSilent(w, told, s, c)
    BY <1>4, <2>4 DEF InCluster, IsSilent, Heeds
  <2> QED  BY <2>1, <2>3, <2>4
<1> QED  BY <1>3, <1>4, <1>5 DEF Announces

\* The other operations leave the services alone.
LEMMA ConfigLeavesServices ==
  ASSUME Consistent(acct), Next
  PROVE  acct'.services = acct.services
<1> USE DEF Consistent, Fields, Commit
<1>1. CASE GroupOperation
  BY <1>1 DEF GroupOperation, CreateGroup, UpdateGroup, UpdateGroups, GroupAddPeer, GroupDeletePeer,
     GroupAddResource, GroupDeleteResource, DeleteGroups, WithGroup
<1>2. CASE PolicyOperation
  BY <1>2 DEF PolicyOperation, DeletePolicy, SavePolicy, DeletePostureChecks, SavePostureChecks
<1>3. CASE RouteOperation
  BY <1>3 DEF RouteOperation, DeleteRoute, CreateRoute, SaveRoute
<1>4. CASE DnsOperation
  BY <1>4 DEF DnsOperation, DeleteNameServerGroup, CreateNameServerGroup, SaveNameServerGroup,
     SaveDNSSettings, DeleteZone, CreateRecord, DeleteRecord, CreateZone, UpdateZone
<1>5. CASE NetworkOperation
  BY <1>5 DEF NetworkOperation, CreateNetwork, DeleteNetwork, DeleteRouter, CreateRouter,
     UpdateRouter, DeleteResource, CreateResource, UpdateResource, WithResource, WithoutResources
<1>6. ASSUME NEW p, DeletePeer(p)
      PROVE  acct'.services = acct.services
  BY <1>6 DEF DeletePeer, WithoutPeers
<1> QED  BY <1>1, <1>2, <1>3, <1>4, <1>5, <1>6 DEF Next

LEMMA MembersLeaveServices ==
  ASSUME Consistent(acct), MNext
  PROVE  acct'.services = acct.services
<1> USE DEF Consistent, Fields, Commit
<1>1. CASE Next
  BY <1>1, ConfigLeavesServices
<1>2. CASE KeyOperation
  BY <1>2 DEF KeyOperation, DeleteSetupKey, CreateSetupKey, SaveSetupKey
<1>3. ASSUME NEW c, AddPeer(c)
      PROVE  acct'.services = acct.services
  BY <1>3 DEF AddPeer, Enrolled, vars
<1>4. ASSUME NEW u, NEW gs, NEW on,
             SaveUser(u, gs) \/ AddUser(u, gs) \/ SyncUserJWTGroups(u, gs) \/ SetGroupsPropagation(on)
      PROVE  acct'.services = acct.services
  BY <1>4 DEF SaveUser, AddUser, SyncUserJWTGroups, SetGroupsPropagation
<1>5. ASSUME NEW u, DeleteUser(u)
      PROVE  acct'.services = acct.services
  BY <1>5 DEF DeleteUser, WithoutPeers
<1>6. ASSUME NEW c, NEW p, NEW k,
             HandleSetupKeyAddedPeer(c, p, k) \/ HandleUserAddedPeer(c, p, k) \/ ReadAccountGroups
      PROVE  acct'.services = acct.services
  BY <1>6 DEF HandleSetupKeyAddedPeer, HandleUserAddedPeer, ReadBefore, ReadAccountGroups, vars
<1> QED  BY <1>1, <1>2, <1>3, <1>4, <1>5, <1>6 DEF MNext

-----------------------------------------------------------------------------
(* Every operation leaves the services as they are, or tells what it does. *)

LEMMA Same ==
  ASSUME NEW v, NEW s
  PROVE  SameService(v, v, s)
  BY DEF SameService

\* One service is created or saved.
LEMMA Saved ==
  ASSUME Consistent(acct), ServicesHold(acct.services), NEW h, NEW s, NEW svc, NEW told,
         DOMAIN svc = ServiceFields, Changed(h, WithService(s, svc), {s}, told),
         \/ s \notin Services /\ told = << Notice("created", s, svc, svc.cluster) >>
         \/ s \in Services /\ told = UpdateNotices(s, acct.services[s], svc)
  PROVE  Announced(h) /\ ServicesHold(acct'.services)
<1>1. acct' = WithService(s, svc)
  BY DEF Changed, Commit
<1>2. Announces(acct.services, acct'.services, {s}, told)
  BY <1>1, SavingAnnounces
<1>3. Announced(h)
  BY <1>2 DEF Changed, Announced
<1>4. acct'.services = Put(acct.services, s, svc)
  BY <1>1 DEF WithService, Consistent, Fields
<1>5. ServicesHold(Put(acct.services, s, svc))
  <2>1. IsFiniteSet(DOMAIN acct.services \cup {s})
    BY FS_AddElement DEF ServicesHold
  <2> DEFINE w == Put(acct.services, s, svc)
  <2>2. DOMAIN w = DOMAIN acct.services \cup {s} /\ w[s] = svc /\ \A x \in DOMAIN acct.services \ {s} : w[x] = acct.services[x]
    BY DEF Put
  <2> HIDE DEF w
  <2>3. IsFiniteSet(DOMAIN w)
    BY <2>1, <2>2
  <2>4. \A x \in DOMAIN w : DOMAIN w[x] = ServiceFields
    BY <2>2 DEF ServicesHold
  <2> QED  BY <2>3, <2>4 DEF ServicesHold, w
<1> QED  BY <1>3, <1>4, <1>5

\* Services are deleted.
LEMMA Deleted ==
  ASSUME Consistent(acct), ServicesHold(acct.services), NEW h, NEW ss, ss \subseteq Services, NEW told,
         Changed(h, WithoutServices(ss), ss, told),
         IsSeq(told), \A i \in DOMAIN told : \E s \in ss : told[i] = Removal(s),
         \A s \in ss : \E i \in DOMAIN told : told[i] = Removal(s)
  PROVE  Announced(h) /\ ServicesHold(acct'.services)
<1>1. acct' = WithoutServices(ss)
  BY DEF Changed, Commit
<1>2. Announces(acct.services, acct'.services, ss, told)
  BY <1>1, RemovalAnnounces
<1>3. Announced(h)
  BY <1>2 DEF Changed, Announced
<1>4. acct'.services = Drop(acct.services, ss)
  BY <1>1 DEF WithoutServices, Consistent, Fields
<1>5. ServicesHold(Drop(acct.services, ss))
  <2>1. IsFiniteSet(DOMAIN acct.services \ ss)
    BY FS_Subset DEF ServicesHold
  <2> DEFINE w == Drop(acct.services, ss)
  <2>2. DOMAIN w = DOMAIN acct.services \ ss /\ \A x \in DOMAIN acct.services \ ss : w[x] = acct.services[x]
    BY DropProperties
  <2> HIDE DEF w
  <2>3. IsFiniteSet(DOMAIN w)
    BY <2>1, <2>2
  <2>4. \A x \in DOMAIN w : DOMAIN w[x] = ServiceFields
    BY <2>2 DEF ServicesHold
  <2> QED  BY <2>3, <2>4 DEF ServicesHold, w
<1> QED  BY <1>3, <1>4, <1>5

LEMMA OneDeleted ==
  ASSUME Consistent(acct), ServicesHold(acct.services), NEW h, NEW s \in Services,
         Changed(h, WithoutServices({s}), {s}, << Removal(s) >>)
  PROVE  Announced(h) /\ ServicesHold(acct'.services)
<1>1. << Removal(s) >> \in Seq({Removal(s)}) /\ DOMAIN << Removal(s) >> = {1} /\ << Removal(s) >>[1] = Removal(s)
  OBVIOUS
<1> QED  BY <1>1, Deleted DEF IsSeq

LEMMA AllDeleted ==
  ASSUME Consistent(acct), ServicesHold(acct.services), NEW h, DeleteAllServices(h)
  PROVE  Announced(h) /\ ServicesHold(acct'.services)
<1> DEFINE all == SetToSeq(Services)
           told == [i \in DOMAIN all |-> Removal(all[i])]
<1>1. all \in Seq(Services) /\ \A s \in Services : \E i \in DOMAIN all : all[i] = s
  BY ListsAll DEF Services, ServicesHold
<1>2. told \in Seq({Removal(s) : s \in Services})
  <2> HIDE DEF all
  <2>1. DOMAIN all = 1..Len(all) /\ Len(all) \in Nat /\ \A i \in DOMAIN all : all[i] \in Services
    BY <1>1
  <2> QED  BY <2>1
<1>3. Changed(h, WithoutServices(Services), Services, told)
  BY DEF DeleteAllServices
<1> HIDE DEF all
<1>4. \A i \in DOMAIN told : told[i] = Removal(all[i]) /\ all[i] \in Services
  BY <1>1
<1>5. \A s \in Services : \E i \in DOMAIN told : told[i] = Removal(s)
  BY <1>1
<1>6. IsSeq(told)
  BY <1>2 DEF IsSeq
<1> HIDE DEF told
<1> QED  BY <1>3, <1>4, <1>5, <1>6, Deleted

LEMMA Reloaded ==
  ASSUME Consistent(acct), ServicesHold(acct.services), NEW h, ReloadAllServicesForAccount(h)
  PROVE  Repeated(h)
<1> DEFINE all == SetToSeq(Services)
           now(s) == Notice("modified", s, acct.services[s], acct.services[s].cluster)
           told == [i \in DOMAIN all |-> now(all[i])]
<1>1. all \in Seq(Services)
  BY ListsAll DEF Services, ServicesHold
<1>2. notices[h] = <<>> /\ notices' = [notices EXCEPT ![h] = told] /\ UNCHANGED raced /\ acct' = acct
  BY DEF ReloadAllServicesForAccount, memberVars, vars
<1> HIDE DEF all
<1>3. DOMAIN all = 1..Len(all) /\ Len(all) \in Nat /\ \A i \in DOMAIN all : all[i] \in Services
  BY <1>1
<1>4. told \in Seq({now(s) : s \in Services})
  BY <1>3
<1>5. /\ DOMAIN told = DOMAIN all
      /\ \A i \in DOMAIN all : /\ told[i].type = "modified" /\ told[i].service = all[i]
                               /\ told[i].cluster = acct.services[all[i]].cluster
                               /\ told[i].mapping = ToProtoMapping(acct.services[all[i]])
  BY ProtoFields
<1>6. IsSeq(told)
  BY <1>4 DEF IsSeq
<1> HIDE DEF told
<1>7. ASSUME NEW s, NEW c, IsWanted(acct.services, s, c) \/ ~InCluster(acct.services, s, c)
      PROVE  LastWord(acct.services, told, s, c)
  <2> SUFFICES ASSUME NEW i \in DOMAIN told, Heeds(acct.services, told[i], s, c)
               PROVE  i >= i /\ Says(acct.services, told[i], s, c)
    BY DEF LastWord
  <2>1. s = all[i] /\ s \in DOMAIN acct.services
    BY <1>3, <1>5 DEF Heeds, Services
  <2>2. IsWanted(acct.services, s, c)
    BY <1>5, <1>7, <2>1 DEF Heeds, InCluster
  <2>3. i >= i
    BY <1>3, <1>5
  <2> QED  BY <1>5, <2>1, <2>2, <2>3 DEF Says, IsWanted, InCluster
<1> QED  BY <1>2, <1>6, <1>7 DEF Repeated

LEMMA ServiceStep ==
  ASSUME Consistent(acct), ServicesHold(acct.services), SNext
  PROVE  /\ ServicesHold(acct'.services)
         /\ Untold \/ \E h \in scope.handlers : Announced(h) \/ Repeated(h)
<1> DEFINE Goal == /\ ServicesHold(acct'.services)
                   /\ Untold \/ \E h \in scope.handlers : Announced(h) \/ Repeated(h)
<1>1. ASSUME acct'.services = acct.services, UNCHANGED <<notices, raced>>
      PROVE  Goal
  BY <1>1, Same DEF Untold
<1>2. ASSUME MNext, UNCHANGED serviceVars
      PROVE  Goal
  BY <1>1, <1>2, MembersLeaveServices DEF serviceVars
<1>3. ASSUME NEW offer, NEW cluster, NEW p
      PROVE  /\ DOMAIN Record(offer, cluster, p) = ServiceFields
             /\ DOMAIN [Record(offer, cluster, p) EXCEPT !.targets = {p}, !.enabled = TRUE] = ServiceFields
  BY DEF Record, ServiceFields
<1>4. ASSUME NEW h \in scope.handlers, NEW s, NEW svc, PersistNewService(h, s, svc), DOMAIN svc = ServiceFields
      PROVE  Goal
  BY <1>4, Saved DEF PersistNewService
<1>5. ASSUME NEW h \in scope.handlers, NEW s, NEW offer, CreateService(h, s, offer)
      PROVE  Goal
  BY <1>3, <1>4, <1>5 DEF CreateService
<1>6. ASSUME NEW h \in scope.handlers, NEW s, NEW p, NEW offer, CreateServiceFromPeer(h, s, p, offer)
      PROVE  Goal
  BY <1>3, <1>4, <1>6 DEF CreateServiceFromPeer
<1>7. ASSUME NEW h \in scope.handlers, NEW s, NEW offer, UpdateService(h, s, offer)
      PROVE  Goal
  BY <1>3, <1>7, Saved DEF UpdateService
<1>8. ASSUME NEW h \in scope.handlers, NEW s, DeleteService(h, s)
      PROVE  Goal
  BY <1>8, OneDeleted DEF DeleteService
<1>9. ASSUME NEW h \in scope.handlers, NEW s, NEW p, StopServiceFromPeer(h, s, p)
      PROVE  Goal
  BY <1>9, OneDeleted DEF StopServiceFromPeer, ExposedBy
<1>10. ASSUME NEW h \in scope.handlers, NEW s, NEW p, DeleteExpiredPeerService(h, s, p)
       PROVE  Goal
  <2>1. CASE s \in ExposedBy(p) /\ ~acct.services[s].fresh
    BY <1>10, <2>1, OneDeleted DEF DeleteExpiredPeerService, ExposedBy
  <2>2. CASE ~(s \in ExposedBy(p) /\ ~acct.services[s].fresh)
    BY <1>1, <1>10, <2>2 DEF DeleteExpiredPeerService, memberVars, vars
  <2> QED  BY <2>1, <2>2
<1>11. ASSUME NEW h \in scope.handlers, DeleteAllServices(h)
       PROVE  Goal
  BY <1>11, AllDeleted
<1>12. ASSUME NEW h \in scope.handlers, ReloadAllServicesForAccount(h)
       PROVE  Goal
  BY <1>12, Reloaded DEF Repeated
<1>13. ASSUME NEW s \in Services, NEW b, acct' = [acct EXCEPT !.services[s].fresh = b], UNCHANGED serviceVars
       PROVE  Goal
  <2> DEFINE v == acct.services
             w == [v EXCEPT ![s].fresh = b]
  <2>1. acct'.services = w
    BY <1>13 DEF Consistent, Fields
  <2>2. /\ DOMAIN w = DOMAIN v /\ \A x \in DOMAIN v : DOMAIN w[x] = DOMAIN v[x]
        /\ \A x \in DOMAIN v : \A f \in DOMAIN v[x] \ {"fresh"} : w[x][f] = v[x][f]
    BY DEF Services
  <2> HIDE DEF w
  <2>3. ServicesHold(w)
    BY <2>2, SameHold
  <2>4. \A x : SameService(v, w, x)
    BY <2>2 DEF SameService, ServicesHold, ServiceFields
  <2> QED  BY <1>13, <2>1, <2>3, <2>4 DEF Untold, serviceVars
<1>14. ASSUME NEW s, RenewServiceFromPeer(s) \/ Expire(s)
       PROVE  Goal
  BY <1>13, <1>14 DEF RenewServiceFromPeer, Expire, Commit
<1>15. ASSUME NEW p, DeleteUnusedPeer(p)
       PROVE  Goal
  BY <1>1, <1>15 DEF DeleteUnusedPeer, DeletePeer, Commit, WithoutPeers, Consistent, Fields
<1>16. ASSUME NEW p, ReapExpiredExposes \/ GetServiceIDByTargetID(p)
       PROVE  Goal
  BY <1>1, <1>16 DEF ReapExpiredExposes, GetServiceIDByTargetID, memberVars, vars
<1> HIDE DEF Goal
<1>17. Goal
  BY <1>2, <1>5, <1>6, <1>7, <1>8, <1>9, <1>10, <1>11, <1>12, <1>14, <1>15, <1>16 DEF SNext
<1> QED  BY <1>17 DEF Goal

-----------------------------------------------------------------------------
(* What is under way, in the handlers and in the channel of the stream, ends with
   the last word on each service. *)

Addresses == {stream[t].address : t \in DOMAIN stream} \ {None}

NoticesHold == DOMAIN notices = scope.handlers /\ \A h \in scope.handlers : IsSeq(notices[h])

StreamHolds(t) ==
  /\ DOMAIN stream[t] = StreamFields
  /\ IsSeq(stream[t].chan)
  /\ \A i \in DOMAIN stream[t].chan : stream[t].chan[i].cluster \in Addresses
  /\ stream[t].pc = "new" <=> stream[t].address = None
  /\ stream[t].pc \in {"new", "connected"} => stream[t].chan = <<>>
  /\ connectedProxies = t => stream[t].pc \in {"stored", "serving"}

StreamsHold ==
  /\ DOMAIN stream = scope.streams
  /\ clusterProxies \subseteq Addresses
  /\ \A t \in scope.streams : StreamHolds(t)

NoticesSettle ==
  \A h \in scope.handlers : \A s, c :
    IsSettled(acct.services, s, c) => LastWord(acct.services, notices[h], s, c)

\* The stream that updates are sent to, as long as it is listed.
IsListed(t) == connectedProxies = t /\ stream[t].live /\ stream[t].address \in clusterProxies

\* Once no handler has to tell of s, the stream t has the last word on it.
Follows(t, s) ==
  LET v == acct.services
      c == stream[t].address
  IN /\ IsListed(t) /\ IsSettled(v, s, c) /\ (IsWanted(v, s, c) \/ KeptAddress(t))
     /\ \A h \in scope.handlers : IsSilent(v, notices[h], s, c)
     => /\ LastWord(v, stream[t].chan, s, c)
        /\ stream[t].pc = "serving" /\ IsSilent(v, stream[t].chan, s, c) => Shows(v, stream[t].held, s, c)

StreamsSettle == \A t \in scope.streams : \A s : Follows(t, s)

ProxyInv ==
  /\ AccountInv
  /\ ServicesHold(acct.services)
  /\ NoticesHold
  /\ StreamsHold
  /\ NoticesSettle
  /\ StreamsSettle

LEMMA UntoldSettles ==
  ASSUME ProxyInv, scope' = scope, Untold, UNCHANGED proxyVars
  PROVE  NoticesHold' /\ NoticesSettle' /\ StreamsSettle'
<1> DEFINE v == acct.services
           w == acct'.services
<1>1. /\ notices' = notices /\ raced' = raced /\ stream' = stream
      /\ connectedProxies' = connectedProxies /\ clusterProxies' = clusterProxies
  BY DEF Untold, proxyVars
<1>2. \A s : SameService(v, w, s)
  BY DEF Untold
<1>3. NoticesHold'
  BY <1>1 DEF ProxyInv, NoticesHold
<1>4. ASSUME NEW s, NEW c
      PROVE  /\ IsSettled(v, s, c)' <=> IsSettled(v, s, c)
             /\ IsWanted(w, s, c) <=> IsWanted(v, s, c)
             /\ \A held : Shows(w, held, s, c) <=> Shows(v, held, s, c)
             /\ \A q : IsSilent(w, q, s, c) <=> IsSilent(v, q, s, c)
             /\ \A q : LastWord(w, q, s, c) <=> LastWord(v, q, s, c)
  BY <1>1, <1>2, SameMeaning DEF IsSettled
<1>5. NoticesSettle'
  BY <1>1, <1>4 DEF ProxyInv, NoticesSettle
<1>6. ASSUME NEW t \in scope.streams, NEW s
      PROVE  Follows(t, s)'
  <2>1. Follows(t, s)
    BY DEF ProxyInv, StreamsSettle
  <2>2. (IsListed(t)' <=> IsListed(t)) /\ (KeptAddress(t)' <=> KeptAddress(t))
    BY <1>1 DEF IsListed, KeptAddress
  <2> QED  BY <1>1, <1>4, <2>1, <2>2 DEF Follows
<1> QED  BY <1>3, <1>5, <1>6 DEF StreamsSettle

LEMMA RepeatedSettles ==
  ASSUME ProxyInv, scope' = scope, NEW h \in scope.handlers, Repeated(h), UNCHANGED proxyVars
  PROVE  NoticesHold' /\ NoticesSettle' /\ StreamsSettle'
<1> DEFINE v == acct.services
<1>1. /\ acct' = acct /\ raced' = raced /\ stream' = stream
      /\ connectedProxies' = connectedProxies /\ clusterProxies' = clusterProxies
  BY DEF Repeated, proxyVars
<1>2. PICK told : /\ notices' = [notices EXCEPT ![h] = told] /\ IsSeq(told)
                  /\ \A s, c : IsWanted(v, s, c) \/ ~InCluster(v, s, c) => LastWord(v, told, s, c)
  BY DEF Repeated
<1>3. notices[h] = <<>> /\ DOMAIN notices = scope.handlers
  BY DEF Repeated, ProxyInv, NoticesHold
<1>4. NoticesHold'
  BY <1>2, <1>3 DEF ProxyInv, NoticesHold
<1>5. NoticesSettle'
  BY <1>1, <1>2, <1>3 DEF ProxyInv, NoticesSettle, IsSettled
<1>6. ASSUME NEW t \in scope.streams, NEW s
      PROVE  Follows(t, s)'
  <2>1. Follows(t, s)
    BY DEF ProxyInv, StreamsSettle
  <2>2. (IsListed(t)' <=> IsListed(t)) /\ (KeptAddress(t)' <=> KeptAddress(t))
    BY <1>1 DEF IsListed, KeptAddress
  <2>3. ASSUME NEW c, \A x \in scope.handlers : IsSilent(v, notices'[x], s, c)
        PROVE  \A x \in scope.handlers : IsSilent(v, notices[x], s, c)
    BY <1>2, <1>3, <2>3, NothingSaid
  <2> QED  BY <1>1, <2>1, <2>2, <2>3 DEF Follows, IsSettled
<1> QED  BY <1>4, <1>5, <1>6 DEF StreamsSettle

LEMMA AnnouncedSettles ==
  ASSUME ProxyInv, scope' = scope, NEW h \in scope.handlers, Announced(h), UNCHANGED proxyVars
  PROVE  NoticesHold' /\ NoticesSettle' /\ StreamsSettle'
<1> DEFINE v == acct.services
           w == acct'.services
<1>1. /\ stream' = stream
      /\ connectedProxies' = connectedProxies /\ clusterProxies' = clusterProxies
  BY DEF proxyVars
<1>2. PICK ss, told : /\ notices[h] = <<>>
                      /\ notices' = [notices EXCEPT ![h] = told]
                      /\ raced' = raced \cup {s \in ss : IsPending(s)}
                      /\ Announces(v, w, ss, told)
  BY DEF Announced
<1>3. DOMAIN notices = scope.handlers /\ DOMAIN notices' = scope.handlers
      /\ notices'[h] = told /\ \A x \in scope.handlers \ {h} : notices'[x] = notices[x]
  BY <1>2 DEF ProxyInv, NoticesHold
<1>4. NoticesHold'
  BY <1>2, <1>3 DEF ProxyInv, NoticesHold, Announces
<1>5. ASSUME NEW s, s \notin ss, NEW c
      PROVE  /\ IsWanted(w, s, c) <=> IsWanted(v, s, c)
             /\ InCluster(w, s, c) <=> InCluster(v, s, c)
             /\ \A held : Shows(w, held, s, c) <=> Shows(v, held, s, c)
             /\ \A q : IsSilent(w, q, s, c) <=> IsSilent(v, q, s, c)
             /\ \A q : LastWord(w, q, s, c) <=> LastWord(v, q, s, c)
             /\ IsSilent(v, told, s, c) /\ LastWord(v, told, s, c)
  <2>1. SameService(v, w, s)
    BY <1>2, <1>5 DEF Announces
  <2>2. IsSilent(v, told, s, c) /\ LastWord(v, told, s, c)
    BY <1>2, <1>5 DEF Announces, IsSilent, LastWord, Heeds
  <2> QED  BY <2>1, <2>2, SameMeaning
<1>6. ASSUME NEW s \in ss, s \notin raced', NEW x \in scope.handlers, NEW c, NEW u
      PROVE  IsSilent(u, notices[x], s, c) /\ LastWord(u, notices[x], s, c)
  <2>1. ~IsPending(s)
    BY <1>2, <1>6
  <2> QED  BY <1>3, <2>1 DEF IsPending, IsSilent, LastWord, Heeds
<1>7. ASSUME NEW s, NEW c, s \notin raced', InCluster(w, s, c) => IsWanted(w, s, c), NEW x \in scope.handlers
      PROVE  LastWord(w, notices'[x], s, c)
  <2>1. CASE s \in ss
    <3>1. IsWanted(w, s, c) \/ ~InCluster(w, s, c)
      BY <1>7
    <3>2. LastWord(w, told, s, c)
      BY <1>2, <2>1, <3>1 DEF Announces
    <3> QED  BY <1>3, <1>6, <1>7, <2>1, <3>2
  <2>2. CASE s \notin ss
    <3>1. IsSettled(v, s, c)
      BY <1>2, <1>5, <1>7, <2>2 DEF IsSettled
    <3> QED  BY <1>3, <1>5, <2>2, <3>1 DEF ProxyInv, NoticesSettle
  <2> QED  BY <2>1, <2>2
<1>8. NoticesSettle'
  BY <1>7 DEF NoticesSettle, IsSettled
<1>9. ASSUME NEW t \in scope.streams, NEW s
      PROVE  Follows(t, s)'
  <2> DEFINE c == stream[t].address
  <2>1. Follows(t, s)
    BY DEF ProxyInv, StreamsSettle
  <2>2. (IsListed(t)' <=> IsListed(t)) /\ (KeptAddress(t)' <=> KeptAddress(t))
    BY <1>1 DEF IsListed, KeptAddress
  <2>3. SUFFICES ASSUME IsListed(t), s \notin raced', InCluster(w, s, c) => IsWanted(w, s, c),
                        IsWanted(w, s, c) \/ KeptAddress(t),
                        \A x \in scope.handlers : IsSilent(w, notices'[x], s, c)
                 PROVE  /\ LastWord(w, stream[t].chan, s, c)
                        /\ stream[t].pc = "serving" /\ IsSilent(w, stream[t].chan, s, c) => Shows(w, stream[t].held, s, c)
    BY <1>1, <2>2 DEF Follows, IsSettled
  <2>4. s \notin raced
    BY <1>2, <2>3
  <2>5. CASE s \in ss
    <3>1. IsSilent(w, told, s, c)
      BY <1>3, <2>3
    <3>2. ~IsWanted(w, s, c)
      BY <1>2, <2>5, <3>1 DEF Announces
    <3>3. ~InCluster(w, s, c)
      BY <2>3, <3>2
    <3>4. ~InCluster(v, s, c) /\ ~IsWanted(v, s, c)
      BY <1>2, <2>5, <3>1, <3>3 DEF Announces, IsWanted
    <3>5. \A x \in scope.handlers : IsSilent(v, notices[x], s, c)
      BY <1>6, <2>3, <2>5
    <3>6. /\ LastWord(v, stream[t].chan, s, c)
          /\ stream[t].pc = "serving" /\ IsSilent(v, stream[t].chan, s, c) => Shows(v, stream[t].held, s, c)
      BY <2>1, <2>3, <2>4, <3>2, <3>4, <3>5 DEF Follows, IsSettled
    <3> QED  BY <3>2, <3>4, <3>6, AbsentMeaning
  <2>6. CASE s \notin ss
    <3>1. \A x \in scope.handlers : IsSilent(v, notices[x], s, c)
      BY <1>2, <1>3, <1>5, <2>3, <2>6, NothingSaid
    <3>2. /\ LastWord(v, stream[t].chan, s, c)
          /\ stream[t].pc = "serving" /\ IsSilent(v, stream[t].chan, s, c) => Shows(v, stream[t].held, s, c)
      BY <1>5, <2>1, <2>3, <2>4, <2>6, <3>1 DEF Follows, IsSettled
    <3> QED  BY <1>5, <2>6, <3>2
  <2> QED  BY <2>5, <2>6
<1> QED  BY <1>4, <1>8, <1>9 DEF StreamsSettle

LEMMA SendingSettles ==
  ASSUME ProxyInv, NEW h \in scope.handlers, SendServiceUpdateToCluster(h)
  PROVE  NoticesHold' /\ StreamsHold' /\ NoticesSettle' /\ StreamsSettle'
<1> DEFINE v == acct.services
           n == Head(notices[h])
           q == notices[h]
           p == connectedProxies
<1>1. /\ acct' = acct /\ scope' = scope /\ raced' = raced
      /\ connectedProxies' = connectedProxies /\ clusterProxies' = clusterProxies
      /\ q # <<>> /\ notices' = [notices EXCEPT ![h] = Tail(q)]
  BY DEF SendServiceUpdateToCluster, memberVars, vars
<1>2. /\ DOMAIN notices = scope.handlers /\ \A x \in scope.handlers : IsSeq(notices[x])
      /\ DOMAIN stream = scope.streams /\ None \notin scope.streams
      /\ clusterProxies \subseteq Addresses /\ \A t \in scope.streams : StreamHolds(t)
  BY StreamsAssumption DEF ProxyInv, NoticesHold, StreamsHold, AccountInv
<1>3. notices'[h] = Tail(q) /\ \A x \in scope.handlers \ {h} : notices'[x] = notices[x]
  BY <1>1, <1>2
<1>4. NoticesHold'
  BY <1>1, <1>2, <1>3, Taken DEF NoticesHold
<1>5. NoticesSettle'
  BY <1>1, <1>2, <1>3, Taken DEF ProxyInv, NoticesSettle, IsSettled
<1>6. CASE n.cluster \notin clusterProxies \/ p = None
  <2>1. stream' = stream
    BY <1>6 DEF SendServiceUpdateToCluster
  <2>2. StreamsHold'
    BY <1>1, <2>1 DEF ProxyInv, StreamsHold, StreamHolds, Addresses
  <2>3. ASSUME NEW t \in scope.streams, NEW s
        PROVE  Follows(t, s)'
    <3> DEFINE c == stream[t].address
    <3>1. (IsListed(t)' <=> IsListed(t)) /\ (KeptAddress(t)' <=> KeptAddress(t))
      BY <1>1, <2>1 DEF IsListed, KeptAddress
    <3>2. SUFFICES ASSUME IsListed(t), IsSettled(v, s, c), IsWanted(v, s, c) \/ KeptAddress(t),
                          \A x \in scope.handlers : IsSilent(v, notices'[x], s, c)
                   PROVE  /\ LastWord(v, stream[t].chan, s, c)
                          /\ stream[t].pc = "serving" /\ IsSilent(v, stream[t].chan, s, c) => Shows(v, stream[t].held, s, c)
      BY <1>1, <2>1, <3>1 DEF Follows, IsSettled
    <3>3. c \in clusterProxies /\ n.cluster \notin clusterProxies
      BY <1>2, <1>6, <3>2 DEF IsListed
    <3>4. ~Heeds(v, n, s, c)
      <4>1. LastWord(v, q, s, c) /\ IsSilent(v, Tail(q), s, c)
        BY <1>3, <3>2 DEF ProxyInv, NoticesSettle
      <4>2. Heeds(v, n, s, c) => Says(v, n, s, c)
        BY <1>1, <1>2, <4>1, Taken
      <4> QED  BY <3>3, <4>2 DEF Heeds, Says
    <3>5. IsSilent(v, q, s, c)
      BY <1>1, <1>2, <1>3, <3>2, <3>4, Taken
    <3>6. \A x \in scope.handlers : IsSilent(v, notices[x], s, c)
      BY <1>3, <3>2, <3>5
    <3> QED  BY <3>2, <3>6 DEF ProxyInv, StreamsSettle, Follows
  <2> QED  BY <1>1, <1>4, <1>5, <2>2, <2>3 DEF StreamsSettle
<1>7. CASE n.cluster \in clusterProxies /\ p # None /\ Len(stream[p].chan) < SendCapacity
  <2>1. stream' = [stream EXCEPT ![p].chan = Append(@, n)]
    BY <1>7 DEF SendServiceUpdateToCluster
  <2>2. ASSUME NEW t \in scope.streams
        PROVE  /\ DOMAIN stream'[t] = StreamFields
               /\ stream'[t].pc = stream[t].pc /\ stream'[t].address = stream[t].address
               /\ stream'[t].live = stream[t].live /\ stream'[t].held = stream[t].held
               /\ t # p => stream'[t] = stream[t]
               /\ t = p => stream'[t].chan = Append(stream[t].chan, n)
    BY <1>2, <2>1 DEF StreamHolds, StreamFields
  <2>3. DOMAIN stream' = scope.streams
    BY <1>2, <2>1
  <2>4. Addresses' = Addresses
    BY <1>2, <2>2, <2>3 DEF Addresses
  <2>5. ASSUME NEW t \in scope.streams
        PROVE  StreamHolds(t)'
    <3>1. CASE t # p
      BY <1>1, <1>2, <2>2, <2>4, <3>1 DEF StreamHolds
    <3>2. CASE t = p
      <4> DEFINE r == stream[t].chan
      <4>1. IsSeq(r) /\ \A i \in DOMAIN r : r[i].cluster \in Addresses
        BY <1>2 DEF StreamHolds
      <4>2. stream'[t].chan = Append(r, n)
        BY <2>2, <3>2
      <4> HIDE DEF r, n
      <4>3. /\ IsSeq(Append(r, n)) /\ DOMAIN Append(r, n) = 1..(Len(r) + 1)
            /\ \A i \in DOMAIN r : Append(r, n)[i] = r[i]
            /\ Append(r, n)[Len(r) + 1] = n
        BY <4>1, Sent
      <4>4. \A i \in 1..(Len(r) + 1) : i \in DOMAIN r \/ i = Len(r) + 1
        BY <4>1 DEF IsSeq
      <4>5. \A i \in DOMAIN Append(r, n) : Append(r, n)[i].cluster \in Addresses
        BY <1>2, <1>7, <4>1, <4>3, <4>4
      <4>6. stream[t].pc \notin {"new", "connected"}
        BY <1>2, <3>2 DEF StreamHolds
      <4>7. IsSeq(stream'[t].chan) /\ \A i \in DOMAIN stream'[t].chan : stream'[t].chan[i].cluster \in Addresses
        BY <4>2, <4>3, <4>5
      <4> QED  BY <1>1, <1>2, <2>2, <2>4, <4>6, <4>7 DEF StreamHolds
    <3> QED  BY <3>1, <3>2
  <2>6. StreamsHold'
    BY <1>1, <1>2, <2>3, <2>4, <2>5 DEF StreamsHold
  <2>7. ASSUME NEW t \in scope.streams, NEW s
        PROVE  Follows(t, s)'
    <3> DEFINE c == stream[t].address
    <3>1. (IsListed(t)' <=> IsListed(t)) /\ (KeptAddress(t)' <=> KeptAddress(t))
      BY <1>1, <1>2, <2>2, <2>3 DEF IsListed, KeptAddress
    <3>2. SUFFICES ASSUME IsListed(t), IsSettled(v, s, c), IsWanted(v, s, c) \/ KeptAddress(t),
                          \A x \in scope.handlers : IsSilent(v, notices'[x], s, c)
                   PROVE  /\ LastWord(v, stream'[t].chan, s, c)
                          /\ stream[t].pc = "serving" /\ IsSilent(v, stream'[t].chan, s, c)
                               => Shows(v, stream[t].held, s, c)
      BY <1>1, <2>2, <3>1 DEF Follows, IsSettled
    <3>3. stream'[t].chan = Append(stream[t].chan, n) /\ IsSeq(stream[t].chan)
      BY <1>2, <2>2, <3>2 DEF IsListed, StreamHolds
    <3>4. LastWord(v, q, s, c) /\ IsSilent(v, Tail(q), s, c)
      BY <1>3, <3>2 DEF ProxyInv, NoticesSettle
    <3>5. CASE Heeds(v, n, s, c)
      <4>1. Says(v, n, s, c)
        BY <1>1, <1>2, <3>4, <3>5, Taken
      <4> DEFINE r == stream[t].chan
      <4>2. LastWord(v, Append(r, n), s, c) /\ ~IsSilent(v, Append(r, n), s, c)
        <5> HIDE DEF v, n, c, r
        <5> QED  BY <3>3, <3>5, <4>1, Sent DEF r
      <4> QED  BY <3>3, <4>2
    <3>6. CASE ~Heeds(v, n, s, c)
      <4>1. IsSilent(v, q, s, c)
        BY <1>1, <1>2, <3>4, <3>6, Taken
      <4>2. \A x \in scope.handlers : IsSilent(v, notices[x], s, c)
        BY <1>3, <3>2, <4>1
      <4>3. /\ LastWord(v, stream[t].chan, s, c)
            /\ stream[t].pc = "serving" /\ IsSilent(v, stream[t].chan, s, c) => Shows(v, stream[t].held, s, c)
        BY <3>2, <4>2 DEF ProxyInv, StreamsSettle, Follows
      <4> QED  BY <3>3, <3>6, <4>3, Sent
    <3> QED  BY <3>5, <3>6
  <2> QED  BY <1>1, <1>4, <1>5, <2>6, <2>7 DEF StreamsSettle
<1>8. CASE n.cluster \in clusterProxies /\ p # None /\ ~(Len(stream[p].chan) < SendCapacity)
  <2>1. stream' = [stream EXCEPT ![p].live = FALSE]
    BY <1>8 DEF SendServiceUpdateToCluster
  <2>2. ASSUME NEW t \in scope.streams
        PROVE  /\ DOMAIN stream'[t] = StreamFields
               /\ stream'[t].pc = stream[t].pc /\ stream'[t].address = stream[t].address
               /\ stream'[t].chan = stream[t].chan
               /\ t = p => ~stream'[t].live
    BY <1>2, <2>1 DEF StreamHolds, StreamFields
  <2>3. DOMAIN stream' = scope.streams
    BY <1>2, <2>1
  <2>4. Addresses' = Addresses
    BY <1>2, <2>2, <2>3 DEF Addresses
  <2>5. StreamsHold'
    BY <1>1, <1>2, <2>2, <2>3, <2>4 DEF StreamsHold, StreamHolds
  <2>6. ASSUME NEW t \in scope.streams, NEW s
        PROVE  Follows(t, s)'
    BY <1>1, <2>2 DEF Follows, IsListed
  <2> QED  BY <1>1, <1>4, <1>5, <2>5, <2>6 DEF StreamsSettle
<1> QED  BY <1>6, <1>7, <1>8

LEMMA StreamsStand ==
  ASSUME ProxyInv
  PROVE  /\ DOMAIN stream = scope.streams /\ None \notin scope.streams \cup scope.clusters
         /\ clusterProxies \subseteq Addresses /\ None \notin clusterProxies
         /\ \A x \in scope.streams : StreamHolds(x) /\ DOMAIN stream[x] = StreamFields
  BY StreamsAssumption DEF ProxyInv, StreamsHold, StreamHolds, AccountInv, Addresses

\* A step that leaves what the listed stream has and what the others' addresses are.
LEMMA StillFollows ==
  ASSUME ProxyInv, UNCHANGED <<memberVars, serviceVars>>, DOMAIN stream' = DOMAIN stream,
         NEW t \in scope.streams,
         IsListed(t)' => /\ IsListed(t)
                         /\ \A x \in scope.streams : stream'[x].address = stream[x].address
                         /\ stream'[t].pc = stream[t].pc
                         /\ stream'[t].chan = stream[t].chan /\ stream'[t].held = stream[t].held
  PROVE  \A s : Follows(t, s)'
<1> SUFFICES ASSUME NEW s, IsListed(t)' PROVE Follows(t, s)'
  BY DEF Follows
<1>1. acct' = acct /\ scope' = scope /\ notices' = notices /\ raced' = raced
  BY DEF memberVars, vars, serviceVars
<1>2. KeptAddress(t)' <=> KeptAddress(t)
  BY StreamsStand DEF KeptAddress
<1> QED  BY <1>1, <1>2 DEF ProxyInv, StreamsSettle, Follows, IsSettled

LEMMA ConnectSettles ==
  ASSUME ProxyInv, UNCHANGED <<memberVars, serviceVars>>, NEW t \in scope.streams, NEW c \in scope.clusters, Connect(t, c)
  PROVE  StreamsHold' /\ StreamsSettle'
<1>1. /\ DOMAIN stream' = DOMAIN stream /\ scope' = scope /\ stream[t].pc = "new"
      /\ connectedProxies' = connectedProxies /\ clusterProxies' = clusterProxies
  BY DEF Connect, memberVars, vars
<1>2. /\ DOMAIN stream'[t] = StreamFields /\ stream'[t].pc = "connected" /\ stream'[t].address = c
      /\ stream'[t].chan = stream[t].chan
      /\ \A x \in scope.streams \ {t} :
           /\ DOMAIN stream'[x] = StreamFields /\ stream'[x].pc = stream[x].pc
           /\ stream'[x].address = stream[x].address
           /\ stream'[x].chan = stream[x].chan
           /\ x = connectedProxies => ~stream'[x].live
  BY StreamsStand DEF Connect, StreamFields
<1>3. Addresses \subseteq Addresses'
  <2>1. stream[t].address = None
    BY <1>1, StreamsStand DEF StreamHolds
  <2> QED  BY <1>1, <1>2, <2>1, StreamsStand DEF Addresses
<1>4. \A x \in scope.streams : StreamHolds(x)'
  BY <1>1, <1>2, <1>3, StreamsStand DEF StreamHolds
<1>5. \A x \in scope.streams : ~IsListed(x)'
  BY <1>1, <1>2, StreamsStand DEF IsListed, StreamHolds
<1>6. StreamsHold'
  BY <1>1, <1>3, <1>4, StreamsStand DEF StreamsHold
<1> QED  BY <1>1, <1>5, <1>6 DEF StreamsSettle, Follows

LEMMA RegisterSettles ==
  ASSUME ProxyInv, UNCHANGED <<memberVars, serviceVars>>, NEW t \in scope.streams, RegisterProxyToCluster(t)
  PROVE  StreamsHold' /\ StreamsSettle'
<1>1. /\ DOMAIN stream' = DOMAIN stream /\ scope' = scope /\ stream[t].pc = "connected"
      /\ connectedProxies' = t /\ clusterProxies' = clusterProxies \cup {stream[t].address}
      /\ stream' = [stream EXCEPT ![t].pc = "stored"]
  BY DEF RegisterProxyToCluster, memberVars, vars
<1>2. /\ DOMAIN stream'[t] = StreamFields /\ stream'[t].pc = "stored" /\ stream'[t].address = stream[t].address
      /\ stream'[t].chan = stream[t].chan
      /\ \A x \in scope.streams \ {t} : stream'[x] = stream[x]
  BY <1>1, StreamsStand DEF StreamFields
<1>3. Addresses' = Addresses
  BY <1>1, <1>2, StreamsStand DEF Addresses
<1>4. \A x \in scope.streams : StreamHolds(x)'
  BY <1>1, <1>2, <1>3, StreamsStand DEF StreamHolds
<1>5. stream[t].address # None
  BY <1>1, StreamsStand DEF StreamHolds
<1>6. StreamsHold'
  BY <1>1, <1>3, <1>4, <1>5, StreamsStand DEF StreamsHold, Addresses
<1>7. ASSUME NEW x \in scope.streams, NEW s
      PROVE  Follows(x, s)'
  <2>1. CASE x = t
    <3>1. stream'[t].chan = <<>> /\ stream'[t].pc # "serving"
      BY <1>1, <1>2, StreamsStand DEF StreamHolds
    <3>2. \A v, c : LastWord(v, <<>>, s, c)
      BY NothingSaid
    <3> QED  BY <2>1, <3>1, <3>2 DEF Follows
  <2>2. CASE x # t
    BY <1>1, <2>2 DEF Follows, IsListed
  <2> QED  BY <2>1, <2>2
<1> QED  BY <1>1, <1>6, <1>7 DEF StreamsSettle

LEMMA SnapshotSettles ==
  ASSUME ProxyInv, UNCHANGED <<memberVars, serviceVars>>, NEW t \in scope.streams, SendSnapshot(t)
  PROVE  StreamsHold' /\ StreamsSettle'
<1> DEFINE snapshot == SnapshotServiceMappings(stream[t].address)
           v == acct.services
<1>1. /\ DOMAIN stream' = DOMAIN stream /\ scope' = scope /\ stream[t].pc = "stored"
      /\ connectedProxies' = connectedProxies /\ clusterProxies' = clusterProxies
      /\ stream' = [stream EXCEPT ![t].pc = "serving", ![t].held = snapshot]
      /\ acct' = acct /\ notices' = notices /\ raced' = raced
  BY DEF SendSnapshot, memberVars, vars, serviceVars
<1>2. /\ DOMAIN stream'[t] = StreamFields /\ stream'[t].pc = "serving" /\ stream'[t].address = stream[t].address
      /\ stream'[t].chan = stream[t].chan /\ stream'[t].live = stream[t].live /\ stream'[t].held = snapshot
      /\ \A x \in scope.streams \ {t} : stream'[x] = stream[x]
  BY <1>1, StreamsStand DEF StreamFields
<1>3. Addresses' = Addresses
  BY <1>1, <1>2, StreamsStand DEF Addresses
<1>4. \A x \in scope.streams : StreamHolds(x)'
  BY <1>1, <1>2, <1>3, StreamsStand DEF StreamHolds
<1>5. StreamsHold'
  BY <1>1, <1>3, <1>4, StreamsStand DEF StreamsHold
<1>6. ASSUME NEW s
      PROVE  Follows(t, s)'
  <2> DEFINE c == stream[t].address
  <2>1. (IsListed(t)' <=> IsListed(t)) /\ (KeptAddress(t)' <=> KeptAddress(t))
    BY <1>1, <1>2, StreamsStand DEF IsListed, KeptAddress
  <2>2. IsSettled(v, s, c) => Shows(v, snapshot, s, c)
    BY DEF IsSettled, Shows, IsWanted, InCluster, SnapshotServiceMappings, Services
  <2>3. Follows(t, s)
    BY DEF ProxyInv, StreamsSettle
  <2> HIDE DEF snapshot
  <2> QED  BY <1>1, <1>2, <2>1, <2>2, <2>3 DEF Follows, IsSettled
<1>7. ASSUME NEW x \in scope.streams, x # t
      PROVE  \A s : Follows(x, s)'
  <2>1. IsListed(x)' => IsListed(x)
    BY <1>1, <1>2, <1>7 DEF IsListed
  <2> QED  BY <1>1, <1>2, <1>7, <2>1, StillFollows
<1> QED  BY <1>1, <1>5, <1>6, <1>7 DEF StreamsSettle

LEMMA EndingSettles ==
  ASSUME ProxyInv, UNCHANGED <<memberVars, serviceVars>>, NEW t \in scope.streams,
         GiveUp(t) \/ UnregisterProxyFromCluster(t) \/ Lose(t)
  PROVE  StreamsHold' /\ StreamsSettle'
<1>1. /\ DOMAIN stream' = DOMAIN stream /\ scope' = scope
      /\ clusterProxies' \subseteq clusterProxies
      /\ connectedProxies' = connectedProxies \/ connectedProxies' = None
      /\ \A x \in scope.streams \ {t} : stream'[x] = stream[x]
  BY StreamsStand DEF GiveUp, UnregisterProxyFromCluster, Lose, memberVars, vars
<1>2. /\ DOMAIN stream'[t] = StreamFields /\ stream'[t].address = stream[t].address
      /\ stream'[t].chan \in {stream[t].chan, <<>>}
      /\ stream'[t].pc # stream[t].pc => stream[t].pc # "new" /\ stream'[t].pc \in {"unregister", "gone"}
      /\ connectedProxies' = t => stream'[t].pc = stream[t].pc /\ ~stream'[t].live
  <2>1. CASE GiveUp(t)
    BY <2>1, StreamsStand DEF GiveUp, StreamFields
  <2>2. CASE UnregisterProxyFromCluster(t)
    BY <2>2, StreamsStand DEF UnregisterProxyFromCluster, StreamHolds, StreamFields
  <2>3. CASE Lose(t)
    BY <2>3, StreamsStand DEF Lose, StreamFields
  <2> QED  BY <2>1, <2>2, <2>3
<1>3. Addresses' = Addresses
  BY <1>1, <1>2, StreamsStand DEF Addresses
<1>4. ASSUME NEW x \in scope.streams
      PROVE  StreamHolds(x)'
  <2>1. CASE x # t
    BY <1>1, <1>3, <2>1, StreamsStand DEF StreamHolds
  <2>2. IsSeq(<<>>) /\ DOMAIN <<>> = {}
    BY NothingSaid
  <2>3. CASE x = t
    BY <1>1, <1>2, <1>3, <2>2, <2>3, StreamsStand DEF StreamHolds
  <2> QED  BY <2>1, <2>3
<1>5. StreamsHold'
  BY <1>1, <1>3, <1>4, StreamsStand DEF StreamsHold
<1>6. ASSUME NEW x \in scope.streams
      PROVE  \A s : Follows(x, s)'
  <2>1. IsListed(x)' => x # t /\ IsListed(x)
    BY <1>1, <1>2, StreamsStand DEF IsListed
  <2> QED  BY <1>1, <1>2, <2>1, StillFollows
<1> QED  BY <1>1, <1>5, <1>6 DEF StreamsSettle

LEMMA AppliedShows ==
  ASSUME NEW v, NEW held, NEW n, NEW s, NEW c
  PROVE  /\ n.service = s /\ Says(v, n, s, c) => Shows(v, Applied(held, n), s, c)
         /\ n.service # s /\ Shows(v, held, s, c) => Shows(v, Applied(held, n), s, c)
<1>1. CASE n.type = "removed"
  BY <1>1 DEF Applied, Says, Shows, Drop
<1>2. CASE n.type # "removed"
  BY <1>2 DEF Applied, Says, Shows, Put
<1> QED  BY <1>1, <1>2

LEMMA SenderSettles ==
  ASSUME ProxyInv, UNCHANGED <<memberVars, serviceVars>>, NEW t \in scope.streams, Sender(t)
  PROVE  StreamsHold' /\ StreamsSettle'
<1> DEFINE q == stream[t].chan
           n == Head(q)
           held == stream[t].held
           v == acct.services
<1>1. /\ DOMAIN stream' = DOMAIN stream /\ scope' = scope /\ stream[t].pc = "serving" /\ q # <<>>
      /\ connectedProxies' = connectedProxies /\ clusterProxies' = clusterProxies
      /\ acct' = acct /\ notices' = notices /\ raced' = raced
      /\ stream' = [stream EXCEPT ![t].chan = Tail(@), ![t].held = Applied(@, n)]
  BY DEF Sender, memberVars, vars, serviceVars
<1>2. /\ DOMAIN stream'[t] = StreamFields /\ stream'[t].pc = "serving" /\ stream'[t].address = stream[t].address
      /\ stream'[t].chan = Tail(q) /\ stream'[t].live = stream[t].live /\ stream'[t].held = Applied(held, n)
      /\ \A x \in scope.streams \ {t} : stream'[x] = stream[x]
  BY <1>1, StreamsStand DEF StreamFields
<1>3. Addresses' = Addresses
  BY <1>1, <1>2, StreamsStand DEF Addresses
<1>4. IsSeq(q) /\ \A i \in DOMAIN q : q[i].cluster \in Addresses
  BY StreamsStand DEF StreamHolds
<1>5. IsSeq(Tail(q)) /\ \A i \in DOMAIN Tail(q) : Tail(q)[i].cluster \in Addresses
  <2> HIDE DEF q
  <2> QED  BY <1>1, <1>4, Taken
<1>6. n.cluster \in Addresses
  <2> HIDE DEF q
  <2>1. 1 \in DOMAIN q /\ n = q[1]
    BY <1>1, <1>4 DEF IsSeq
  <2> QED  BY <1>4, <2>1
<1>7. StreamHolds(t)'
  BY <1>1, <1>2, <1>3, <1>5, StreamsStand DEF StreamHolds
<1>8. StreamsHold'
  <2>1. \A x \in scope.streams \ {t} : StreamHolds(x)'
    BY <1>1, <1>2, <1>3, StreamsStand DEF StreamHolds
  <2> QED  BY <1>1, <1>3, <1>7, <2>1, StreamsStand DEF StreamsHold
<1>9. ASSUME NEW s
      PROVE  Follows(t, s)'
  <2> DEFINE c == stream[t].address
  <2>1. (IsListed(t)' <=> IsListed(t)) /\ (KeptAddress(t)' <=> KeptAddress(t))
    <3>1. IsListed(t)' <=> IsListed(t)
      BY <1>1, <1>2 DEF IsListed
    <3>2. \A x \in scope.streams : stream'[x].address = stream[x].address
      BY <1>2
    <3>3. DOMAIN stream' = scope.streams /\ DOMAIN stream = scope.streams
      BY <1>1, StreamsStand
    <3> QED  BY <3>1, <3>2, <3>3 DEF KeptAddress
  <2>2. SUFFICES ASSUME IsListed(t), IsSettled(v, s, c), IsWanted(v, s, c) \/ KeptAddress(t),
                        \A x \in scope.handlers : IsSilent(v, notices[x], s, c)
                 PROVE  /\ LastWord(v, Tail(q), s, c)
                        /\ IsSilent(v, Tail(q), s, c) => Shows(v, Applied(held, n), s, c)
    BY <1>1, <1>2, <2>1 DEF Follows, IsSettled
  <2>3. LastWord(v, q, s, c) /\ (IsSilent(v, q, s, c) => Shows(v, held, s, c))
    BY <1>1, <2>2 DEF ProxyInv, StreamsSettle, Follows
  <2>4. LastWord(v, Tail(q), s, c)
    <3> HIDE DEF q, v, c
    <3> QED  BY <1>1, <1>4, <2>3, Taken
  <2>5. ASSUME IsSilent(v, Tail(q), s, c)
        PROVE  Shows(v, Applied(held, n), s, c)
    <3>1. CASE Heeds(v, n, s, c)
      <4>1. Says(v, n, s, c)
        <5> HIDE DEF q, v, c
        <5> QED  BY <1>1, <1>4, <2>3, <2>5, <3>1, Taken
      <4> QED  BY <3>1, <4>1, AppliedShows DEF Heeds
    <3>2. CASE ~Heeds(v, n, s, c)
      <4>1. IsSilent(v, q, s, c)
        <5> HIDE DEF q, v, c
        <5> QED  BY <1>1, <1>4, <2>5, <3>2, Taken
      <4>2. KeptAddress(t) => n.cluster = c
        BY <1>6, StreamsStand DEF KeptAddress, Addresses
      <4>3. n.service # s
        BY <2>2, <3>2, <4>2 DEF Heeds
      <4> QED  BY <2>3, <4>1, <4>3, AppliedShows
    <3> QED  BY <3>1, <3>2
  <2> QED  BY <2>4, <2>5
<1>10. ASSUME NEW x \in scope.streams, x # t
       PROVE  \A s : Follows(x, s)'
  <2>1. IsListed(x)' => IsListed(x)
    BY <1>1, <1>2, <1>10 DEF IsListed
  <2> QED  BY <1>1, <1>2, <1>10, <2>1, StillFollows
<1> QED  BY <1>1, <1>8, <1>9, <1>10 DEF StreamsSettle

LEMMA ProxyStep == ProxyInv /\ [PNext]_allVars => ProxyInv'
<1> SUFFICES ASSUME ProxyInv, [PNext]_allVars PROVE ProxyInv'
  OBVIOUS
<1>1. AccountInv' /\ scope' = scope
  BY AccountStep, ScopeStays DEF ProxyInv
<1>2. CASE SNext /\ UNCHANGED proxyVars
  <2>1. StreamsHold'
    BY <1>1, <1>2 DEF ProxyInv, StreamsHold, StreamHolds, Addresses, proxyVars
  <2>2. ServicesHold(acct'.services) /\ (Untold \/ \E h \in scope.handlers : Announced(h) \/ Repeated(h))
    BY <1>2, ServiceStep DEF ProxyInv, AccountInv
  <2>3. NoticesHold' /\ NoticesSettle' /\ StreamsSettle'
    BY <1>1, <1>2, <2>2, UntoldSettles, RepeatedSettles, AnnouncedSettles
  <2> QED  BY <1>1, <2>1, <2>2, <2>3 DEF ProxyInv
<1>3. ASSUME NEW t \in scope.streams, GetMappingUpdate(t), UNCHANGED <<memberVars, serviceVars>>
      PROVE  ProxyInv'
  <2>1. StreamsHold' /\ StreamsSettle'
    BY <1>3, ConnectSettles, RegisterSettles, SnapshotSettles, EndingSettles, SenderSettles DEF GetMappingUpdate
  <2>2. ServicesHold(acct.services)' /\ NoticesHold' /\ NoticesSettle'
    BY <1>3 DEF ProxyInv, ServicesHold, NoticesHold, NoticesSettle, IsSettled, memberVars, vars, serviceVars
  <2> QED  BY <1>1, <2>1, <2>2 DEF ProxyInv
<1>4. ASSUME NEW h \in scope.handlers, SendServiceUpdateToCluster(h)
      PROVE  ProxyInv'
  <2>1. acct' = acct
    BY <1>4 DEF SendServiceUpdateToCluster, memberVars, vars
  <2> QED  BY <1>1, <1>4, <2>1, SendingSettles DEF ProxyInv
<1>5. CASE UNCHANGED allVars
  BY <1>1, <1>5 DEF ProxyInv, ServicesHold, NoticesHold, StreamsHold, StreamHolds, Addresses, NoticesSettle,
     StreamsSettle, Follows, IsListed, KeptAddress, IsSettled, allVars, memberVars, vars, serviceVars, proxyVars
<1> QED  BY <1>2, <1>3, <1>4, <1>5 DEF PNext

LEMMA ProxyStart == PInit => ProxyInv
<1> SUFFICES ASSUME PInit PROVE ProxyInv
  OBVIOUS
<1>1. AccountInv /\ acct.services = <<>>
  BY InitConsistent DEF PInit, SInit, MInit, Init
<1>2. DOMAIN <<>> = {} /\ IsFiniteSet({})
  BY FS_EmptySet
<1>3. ServicesHold(acct.services)
  BY <1>1, <1>2 DEF ServicesHold
<1>4. NoticesHold /\ NoticesSettle
  BY NothingSaid DEF PInit, SInit, NoticesHold, NoticesSettle
<1>5. StreamsHold
  BY <1>1, <1>2, NothingSaid, StreamsAssumption DEF PInit, StreamsHold, StreamHolds, Addresses, StreamFields, AccountInv
<1>6. StreamsSettle
  BY DEF PInit, StreamsSettle, Follows, IsListed
<1> QED  BY <1>1, <1>3, <1>4, <1>5, <1>6 DEF ProxyInv

\* Whatever order the operations on services, the handlers that tell of them and
\* the streams of the proxy run in: once all has been sent, a proxy that is listed
\* serves the enabled services of its cluster, each as it is now, and, as long as
\* it kept its address, no service of another (sendSnapshot, sender,
\* SendServiceUpdateToCluster).
THEOREM ProxiesAreCurrent == PSpec => []ProxyIsCurrent
<1>1. ProxyInv => ProxyIsCurrent
  <2> SUFFICES ASSUME ProxyInv, NEW t \in DOMAIN stream, IsServed(t), stream[t].chan = <<>>,
                      stream[t].address \in clusterProxies, \A h \in DOMAIN notices : notices[h] = <<>>
               PROVE  /\ \A s \in DOMAIN SnapshotServiceMappings(stream[t].address) \ raced :
                           s \in DOMAIN stream[t].held /\ stream[t].held[s] = ToProtoMapping(acct.services[s])
                      /\ KeptAddress(t) => \A s \in DOMAIN stream[t].held \ raced :
                           s \in Services /\ acct.services[s].cluster = stream[t].address
    BY DEF ProxyIsCurrent
  <2> DEFINE v == acct.services
             c == stream[t].address
  <2>1. t \in scope.streams /\ IsListed(t) /\ stream[t].pc = "serving" /\ DOMAIN notices = scope.handlers
    BY DEF ProxyInv, StreamsHold, NoticesHold, IsServed, IsListed
  <2>2. ASSUME NEW s, IsSettled(v, s, c), IsWanted(v, s, c) \/ KeptAddress(t)
        PROVE  Shows(v, stream[t].held, s, c)
    BY <2>1, <2>2, NothingSaid DEF ProxyInv, StreamsSettle, Follows
  <2>3. ASSUME NEW s \in DOMAIN SnapshotServiceMappings(c) \ raced
        PROVE  s \in DOMAIN stream[t].held /\ stream[t].held[s] = ToProtoMapping(v[s])
    <3>1. IsWanted(v, s, c) /\ IsSettled(v, s, c)
      BY <2>3 DEF SnapshotServiceMappings, IsWanted, IsSettled, InCluster, Services
    <3> QED  BY <2>2, <3>1 DEF Shows
  <2>4. ASSUME KeptAddress(t), NEW s \in DOMAIN stream[t].held \ raced, ~InCluster(v, s, c)
        PROVE  FALSE
    <3>1. ~IsWanted(v, s, c) /\ IsSettled(v, s, c)
      BY <2>4 DEF IsWanted, IsSettled
    <3> QED  BY <2>2, <2>4, <3>1 DEF Shows
  <2> QED  BY <2>3, <2>4 DEF InCluster, Services
<1> QED  BY <1>1, ProxyStart, ProxyStep, PTL DEF PSpec

-----------------------------------------------------------------------------
(* The map in every detail, of peers that are not approved too: what it says in
   terms of the account, the peers of the components and the failures recorded. *)

\* Memberships are restricted to the peers of the components.
Trimmed(c) == \A g \in DOMAIN c.groups : c.groups[g] \subseteq c.peers

LEMMA CutIsTrimmed ==
  ASSUME NEW a, NEW p
  PROVE  Trimmed(Cut(a, p))
  BY CutFields DEF Trimmed

\* The sources and destinations of policy i among the peers of c.
SrcIn(a, c, i) ==
  {q \in c.peers : /\ q \in ResSrc(a, i)
                   /\ a.policies[i].srcPeer = None => ValidatePostureChecksOnPeer(c, a.policies[i].checks, q)}
DstOf(a, i) ==
  IF a.policies[i].dstPeer # None THEN {a.policies[i].dstPeer}
  ELSE Members(a.policies[i].destinations, a.groupPeers)
DstIn(a, c, i) == DstOf(a, i) \cap c.peers

LEMMA SourcesExact ==
  ASSUME NEW a, NEW p \in a.valid, NEW c, Enough(a, p, c), Trimmed(c), NEW i, NEW q
  PROVE  /\ q \in FromSources(c, a.policies[i]) => q \in SrcIn(a, c, i)
         /\ q \in SrcIn(a, c, i) /\ (q = p \/ a.policies[i].sources \cap DOMAIN a.groupPeers \subseteq DOMAIN c.groups)
              => q \in FromSources(c, a.policies[i])
<1> DEFINE r == a.policies[i]
<1>1. q \in FromSources(c, r) <=>
        IF r.srcPeer # None THEN q = r.srcPeer /\ q \in c.peers
        ELSE q \in Members(r.sources, c.groups) /\ ValidatePostureChecksOnPeer(c, r.checks, q)
  BY DEF FromSources, GetAllPeersFromGroups
<1>2. q \in SrcIn(a, c, i) <=>
        /\ q \in c.peers
        /\ IF r.srcPeer # None THEN q = r.srcPeer
           ELSE q \in Members(r.sources, a.groupPeers) /\ ValidatePostureChecksOnPeer(c, r.checks, q)
  BY DEF SrcIn, ResSrc, GetResourcePolicyPeers
<1>3. ValidatePostureChecksOnPeer(c, r.checks, q) => q \in c.peers
  BY DEF ValidatePostureChecksOnPeer
<1> HIDE DEF r
<1> QED  BY <1>1, <1>2, <1>3, MembersKept DEF Enough, r

LEMMA DestinationsExact ==
  ASSUME NEW a, NEW p \in a.valid, NEW c, Enough(a, p, c), Trimmed(c), NEW i, NEW q
  PROVE  /\ q \in FromDestinations(c, a.policies[i]) => q \in DstIn(a, c, i)
         /\ q \in DstIn(a, c, i)
              /\ (q = p \/ a.policies[i].destinations \cap DOMAIN a.groupPeers \subseteq DOMAIN c.groups)
              => q \in FromDestinations(c, a.policies[i])
<1> DEFINE r == a.policies[i]
<1>1. q \in FromDestinations(c, r) <=>
        IF r.dstPeer # None THEN q = r.dstPeer /\ q \in c.peers
        ELSE q \in Members(r.destinations, c.groups) /\ q \in c.peers
  BY DEF FromDestinations, GetAllPeersFromGroups, ValidatePostureChecksOnPeer
<1>2. q \in DstIn(a, c, i) <=>
        q \in c.peers /\ IF r.dstPeer # None THEN q = r.dstPeer ELSE q \in Members(r.destinations, a.groupPeers)
  BY DEF DstIn, DstOf
<1> HIDE DEF r
<1> QED  BY <1>1, <1>2, MembersKept DEF Enough, r

\* If p is a source or a destination of a policy, the components have the other side.
LEMMA OwnSides ==
  ASSUME NEW a, NEW p \in a.valid, NEW c, WellFormed(a), Enough(a, p, c), NEW i \in Enabled(a.policies)
  PROVE  /\ p \in SrcIn(a, c, i) => /\ i \in c.policies
                                    /\ a.policies[i].destinations \cap DOMAIN a.groupPeers \subseteq DOMAIN c.groups
         /\ p \in DstIn(a, c, i) => /\ i \in c.policies
                                    /\ a.policies[i].sources \cap DOMAIN a.groupPeers \subseteq DOMAIN c.groups
<1> DEFINE r == a.policies[i]
<1>1. ASSUME p \in SrcIn(a, c, i) PROVE p \in Src(a, i)
  <2>1. CASE r.srcPeer # None
    BY <1>1, <2>1 DEF SrcIn, ResSrc, GetResourcePolicyPeers, Src, RuleSources
  <2>2. CASE r.srcPeer = None
    <3>1. p \in Members(r.sources, a.groupPeers) /\ ValidatePostureChecksOnPeer(c, r.checks, p) /\ p \in c.peers
      BY <1>1, <2>2 DEF SrcIn, ResSrc, GetResourcePolicyPeers
    <3>2. Fine(a, i, p)
      BY <3>1 DEF Enough, KeepsFailures, Checked
    <3>3. FirstFailed(a, r.checks, p) = {}
      BY <3>2, FirstFailedFinds DEF WellFormed, Fine, Enabled
    <3> QED  BY <2>2, <3>1, <3>3 DEF Src, RuleSources, GetPeersFromGroups
  <2> QED  BY <2>1, <2>2
<1>2. ASSUME p \in DstIn(a, c, i) PROVE p \in Dst(a, i)
  <2>1. FirstFailed(a, <<>>, p) = {}
    BY DEF FirstFailed
  <2> QED  BY <1>2, <2>1 DEF DstIn, DstOf, Dst, RuleDestinations, GetPeersFromGroups
<1> QED  BY <1>1, <1>2 DEF Enough, KeepsPolicies

LEMMA FirewallExact ==
  ASSUME NEW a, NEW p \in a.valid, NEW c, WellFormed(a), Enough(a, p, c), Trimmed(c), NEW i, NEW q, NEW w
  PROVE  <<i, q, w>> \in GetPeerConnectionResources(c, p) <=>
           /\ i \in Enabled(a.policies) /\ q # p
           /\ \/ /\ p \in SrcIn(a, c, i) /\ q \in DstIn(a, c, i)
                 /\ w = "out" \/ (w = "in" /\ a.policies[i].both)
              \/ /\ p \in DstIn(a, c, i) /\ q \in SrcIn(a, c, i)
                 /\ w = "in" \/ (w = "out" /\ a.policies[i].both)
<1> DEFINE src(j) == FromSources(c, a.policies[j])
           dst(j) == FromDestinations(c, a.policies[j])
           out(j) == (IF p \in src(j) THEN dst(j) ELSE {}) \cup (IF a.policies[j].both /\ p \in dst(j) THEN src(j) ELSE {})
           in(j)  == (IF p \in dst(j) THEN src(j) ELSE {}) \cup (IF a.policies[j].both /\ p \in src(j) THEN dst(j) ELSE {})
           on == {j \in c.policies : a.policies[j].enabled}
<1>1. c.rules = a.policies /\ on \subseteq Enabled(a.policies) /\ p \in c.peers
  BY DEF Enough, KeepsAccount, KeepsPolicies, KeepsGroups, Enabled
<1>2. GetPeerConnectionResources(c, p) =
        UNION {{<<j, x, "out">> : x \in out(j) \ {p}} \cup {<<j, x, "in">> : x \in in(j) \ {p}} : j \in on}
  BY <1>1 DEF GetPeerConnectionResources
<1>3. ASSUME i \in Enabled(a.policies)
      PROVE  /\ i \in on /\ p \in src(i) /\ q \in dst(i) <=> p \in SrcIn(a, c, i) /\ q \in DstIn(a, c, i)
             /\ i \in on /\ p \in dst(i) /\ q \in src(i) <=> p \in DstIn(a, c, i) /\ q \in SrcIn(a, c, i)
  <2>1. /\ p \in src(i) <=> p \in SrcIn(a, c, i)
        /\ q \in src(i) => q \in SrcIn(a, c, i)
    BY SourcesExact
  <2>2. /\ p \in dst(i) <=> p \in DstIn(a, c, i)
        /\ q \in dst(i) => q \in DstIn(a, c, i)
    BY DestinationsExact
  <2>3. p \in SrcIn(a, c, i) => i \in on /\ (q \in DstIn(a, c, i) => q \in dst(i))
    BY <1>3, OwnSides, DestinationsExact DEF Enabled
  <2>4. p \in DstIn(a, c, i) => i \in on /\ (q \in SrcIn(a, c, i) => q \in src(i))
    BY <1>3, OwnSides, SourcesExact DEF Enabled
  <2> HIDE DEF src, dst, on
  <2> QED  BY <2>1, <2>2, <2>3, <2>4
<1> HIDE DEF src, dst, on
<1>4. <<i, q, w>> \in GetPeerConnectionResources(c, p) <=>
        i \in on /\ q # p /\ ((w = "out" /\ q \in out(i)) \/ (w = "in" /\ q \in in(i)))
  <2> HIDE DEF out, in
  <2> QED  BY <1>2
<1>5. q \in out(i) <=> (p \in src(i) /\ q \in dst(i)) \/ (a.policies[i].both /\ p \in dst(i) /\ q \in src(i))
  OBVIOUS
<1>6. q \in in(i) <=> (p \in dst(i) /\ q \in src(i)) \/ (a.policies[i].both /\ p \in src(i) /\ q \in dst(i))
  OBVIOUS
<1> HIDE DEF out, in
<1>7. i \notin Enabled(a.policies) => i \notin on
  BY <1>1
<1> QED  BY <1>3, <1>4, <1>5, <1>6, <1>7

LEMMA ResourceRoutesExact ==
  ASSUME NEW a, NEW p \in a.valid, NEW c, WellFormed(a), Enough(a, p, c), NEW n, NEW q
  PROVE  <<n, q>> \in GetNetworkResourcesRoutesToSync(c, p) <=>
           /\ n \in Enabled(a.resources) /\ Ids(a, n) # {} /\ q \in Hops(a, n) \cap c.peers
           /\ IF p \in Hops(a, n) THEN q = p ELSE Client(a, p, n)
<1> DEFINE isClient(m) == \E i \in c.resPolicies[m] :
                            /\ p \in GetResourcePolicyPeers(a.policies[i], c.groups)
                            /\ ValidatePostureChecksOnPeer(c, a.policies[i].checks, p)
           to(m) == (IF p \in c.routers[m] THEN {p} ELSE IF isClient(m) THEN c.routers[m] ELSE {}) \cap c.peers
           ms == {m \in c.resources : c.resPolicies[m] # {}}
<1>1. c.rules = a.policies /\ KeepsGroups(a, p, c) /\ KeepsFailures(a, p, c) /\ KeepsResources(a, p, c)
      /\ p \in c.peers
  BY DEF Enough, KeepsAccount, KeepsGroups
<1>2. GetNetworkResourcesRoutesToSync(c, p) = UNION {{<<m, x>> : x \in to(m)} : m \in ms}
  BY <1>1 DEF GetNetworkResourcesRoutesToSync, IsRouter
<1>3. <<n, q>> \in GetNetworkResourcesRoutesToSync(c, p) <=> n \in ms /\ q \in to(n)
  <2> HIDE DEF to, ms
  <2> QED  BY <1>2
<1>4. n \in ms => n \in Enabled(a.resources) /\ c.resPolicies[n] \subseteq Ids(a, n) /\ Ids(a, n) # {}
  BY <1>1 DEF KeepsResources
<1>5. CASE n \notin Enabled(a.resources)
  BY <1>3, <1>4, <1>5
<1>6. CASE n \in Enabled(a.resources)
  <2>1. c.routers[n] = Hops(a, n)
    BY <1>1, <1>6 DEF KeepsResources
  <2>2. p \in Hops(a, n) \/ Client(a, p, n) => n \in c.resources /\ c.resPolicies[n] = Ids(a, n)
    BY <1>1, <1>6 DEF KeepsResources
  <2>3. \A i \in Ids(a, n) : i \in Enabled(a.policies)
    BY DEF Ids, GetPoliciesForNetworkResource
  <2>4. \A i \in Ids(a, n) : p \in ResSrc(a, i) =>
          (ValidatePostureChecksOnPeer(c, a.policies[i].checks, p) <=> Fine(a, i, p))
    BY <1>1, <1>6, <2>3 DEF KeepsFailures, Checked
  <2>5. \A i \in Ids(a, n) : p \in GetResourcePolicyPeers(a.policies[i], c.groups) <=> p \in ResSrc(a, i)
    BY <1>1, ResourceSourcesKept
  <2>6. n \in ms => (isClient(n) <=> \E i \in c.resPolicies[n] : p \in ResSrc(a, i) /\ Fine(a, i, p))
    BY <1>4, <2>4, <2>5
  <2>7. Client(a, p, n) => Ids(a, n) # {}
    BY DEF Client
  <2>8. CASE p \in Hops(a, n)
    <3>1. q \in to(n) <=> q = p
      BY <1>1, <2>1, <2>8
    <3>2. n \in ms <=> Ids(a, n) # {}
      BY <2>2, <2>8
    <3> HIDE DEF to, ms
    <3> QED  BY <1>1, <1>3, <1>6, <2>8, <3>1, <3>2
  <2>9. CASE p \notin Hops(a, n)
    <3>1. q \in to(n) <=> isClient(n) /\ q \in Hops(a, n) /\ q \in c.peers
      BY <2>1, <2>9
    <3>2. n \in ms /\ isClient(n) => Client(a, p, n)
      BY <1>4, <2>6 DEF Client
    <3>3. Client(a, p, n) => n \in ms /\ isClient(n)
      BY <2>2, <2>6, <2>7 DEF Client
    <3> HIDE DEF to, ms, isClient
    <3> QED  BY <1>3, <1>6, <2>7, <2>9, <3>1, <3>2, <3>3
  <2> QED  BY <2>8, <2>9
<1> QED  BY <1>5, <1>6

\* Who may use a resource that p routes, by what the components have recorded.
MayUse(a, c, i, q) == q \in ResSrc(a, i) /\ ValidatePostureChecksOnPeer(c, a.policies[i].checks, q)

LEMMA ClientsExact ==
  ASSUME NEW a, NEW p \in a.valid, NEW c, WellFormed(a), Enough(a, p, c), NEW q
  PROVE  q \in ResourceSourcePeers(c, p) <=>
           \E n \in Enabled(a.resources) : p \in Hops(a, n) /\ \E i \in Ids(a, n) : MayUse(a, c, i, q)
<1> DEFINE from(i) == {x \in GetResourcePolicyPeers(a.policies[i], c.groups) :
                         ValidatePostureChecksOnPeer(c, a.policies[i].checks, x)}
           ns == {m \in c.resources : p \in c.routers[m]}
           is == UNION {c.resPolicies[n] : n \in ns}
<1>1. c.rules = a.policies /\ KeepsGroups(a, p, c) /\ KeepsResources(a, p, c)
  BY DEF Enough, KeepsAccount
<1>2. ResourceSourcePeers(c, p) = UNION {from(i) : i \in is}
  BY <1>1 DEF ResourceSourcePeers, IsRouter
<1>3. q \in ResourceSourcePeers(c, p) <=> \E n \in ns : \E i \in c.resPolicies[n] : q \in from(i)
  <2> HIDE DEF from, ns
  <2> QED  BY <1>2
<1>4. \A n : n \in ns <=> n \in Enabled(a.resources) /\ p \in Hops(a, n)
  BY <1>1 DEF KeepsResources
<1>5. \A n \in ns : c.resPolicies[n] = Ids(a, n)
  BY <1>1, <1>4 DEF KeepsResources
<1>6. ASSUME NEW n \in ns, NEW i \in Ids(a, n)
      PROVE  q \in from(i) <=> MayUse(a, c, i, q)
  <2>1. a.policies[i].sources \cap DOMAIN a.groupPeers \subseteq DOMAIN c.groups
    BY <1>1, <1>4 DEF KeepsResources
  <2>2. q \in GetResourcePolicyPeers(a.policies[i], c.groups) => q \in ResSrc(a, i)
    BY <1>1, ResourceSourcesKept
  <2>3. q \in c.peers /\ q \in ResSrc(a, i) => q \in GetResourcePolicyPeers(a.policies[i], c.groups)
    BY <1>1, <2>1, ResourceSourcesKept
  <2>4. ValidatePostureChecksOnPeer(c, a.policies[i].checks, q) => q \in c.peers
    BY DEF ValidatePostureChecksOnPeer
  <2> QED  BY <2>2, <2>3, <2>4 DEF MayUse
<1> HIDE DEF from, ns
<1> QED  BY <1>3, <1>4, <1>5, <1>6

LEMMA ResourceRulesExact ==
  ASSUME NEW a, NEW p \in a.valid, NEW c, WellFormed(a), Enough(a, p, c), NEW n, NEW i, NEW q
  PROVE  <<n, i, q>> \in GetPeerNetworkResourceFirewallRules(c, p, GetNetworkResourcesRoutesToSync(c, p)) <=>
           /\ n \in Enabled(a.resources) /\ p \in Hops(a, n) /\ i \in Ids(a, n)
           /\ Admits(a, i, p, q) /\ ValidatePostureChecksOnPeer(c, a.policies[i].checks, q)
<1> DEFINE routes == GetNetworkResourcesRoutesToSync(c, p)
           may(j) == GetRulePeers(c, a.policies[j], p, c.peers)
           ns == {m \in c.resources : <<m, p>> \in routes}
<1>1. c.rules = a.policies /\ KeepsGroups(a, p, c) /\ KeepsResources(a, p, c) /\ p \in c.peers
  BY DEF Enough, KeepsAccount, KeepsGroups
<1>2. GetPeerNetworkResourceFirewallRules(c, p, routes) =
        UNION {UNION {{<<m, j, x>> : x \in may(j)} : j \in c.resPolicies[m]} : m \in ns}
  BY <1>1 DEF GetPeerNetworkResourceFirewallRules
<1>3. <<n, i, q>> \in GetPeerNetworkResourceFirewallRules(c, p, routes) <=>
        n \in ns /\ i \in c.resPolicies[n] /\ q \in may(i)
  <2> HIDE DEF may, ns, routes
  <2> QED  BY <1>2
<1>4. n \in ns <=> n \in Enabled(a.resources) /\ Ids(a, n) # {} /\ p \in Hops(a, n)
  <2>1. <<n, p>> \in routes <=>
           /\ n \in Enabled(a.resources) /\ Ids(a, n) # {} /\ p \in Hops(a, n)
           /\ IF p \in Hops(a, n) THEN p = p ELSE Client(a, p, n)
    BY <1>1, ResourceRoutesExact
  <2>2. n \in Enabled(a.resources) /\ p \in Hops(a, n) => n \in c.resources
    BY <1>1 DEF KeepsResources
  <2> HIDE DEF routes
  <2> QED  BY <2>1, <2>2
<1>5. n \in ns => c.resPolicies[n] = Ids(a, n)
  BY <1>1, <1>4 DEF KeepsResources
<1>6. ASSUME n \in ns, i \in Ids(a, n)
      PROVE  q \in may(i) <=> Admits(a, i, p, q) /\ ValidatePostureChecksOnPeer(c, a.policies[i].checks, q)
  <2> DEFINE r == a.policies[i]
  <2>1. r.sources \cap DOMAIN a.groupPeers \subseteq DOMAIN c.groups
    BY <1>1, <1>4, <1>6 DEF KeepsResources
  <2>2. /\ q \in Members(r.sources, c.groups) => q \in Members(r.sources, a.groupPeers)
        /\ q \in c.peers /\ q \in Members(r.sources, a.groupPeers) => q \in Members(r.sources, c.groups)
    BY <1>1, <2>1, MembersKept
  <2>3. q \in may(i) <=> /\ (q \in Members(r.sources, c.groups) /\ q # p) \/ (q = r.srcPeer /\ q # None)
                         /\ q \in c.peers /\ ValidatePostureChecksOnPeer(c, r.checks, q)
    BY DEF GetRulePeers
  <2>4. ValidatePostureChecksOnPeer(c, r.checks, q) => q \in c.peers
    BY DEF ValidatePostureChecksOnPeer
  <2> HIDE DEF may
  <2> QED  BY <2>2, <2>3, <2>4 DEF Admits
<1> HIDE DEF may, ns, routes
<1> QED  BY <1>3, <1>4, <1>5, <1>6 DEF routes

LEMMA RoutesExact ==
  ASSUME NEW a, NEW p \in a.valid, NEW c, Enough(a, p, c), NEW connected, connected \subseteq c.peers,
         p \notin connected, NEW x, NEW q
  PROVE  <<x, q>> \in GetRoutesToSync(c, p, connected) <=>
           /\ x \in Enabled(a.routes) /\ ServesRoute(a, x, q)
           /\ \/ q = p
              \/ /\ q \in connected
                 /\ Meets(a.routes[x].groups, GetPeerGroups(a.groupPeers, p))
                 /\ a.routes[x].net \notin {a.routes[y].net : y \in OwnRoutes(a, p)}
<1> DEFINE own  == GetRoutingPeerRoutes(c, p)
           nets == {a.routes[y].net : y \in own}
           far  == {y \in Enabled(a.routes) : /\ Meets(a.routes[y].groups, GetPeerGroups(c.groups, p))
                                              /\ a.routes[y].net \notin nets}
           by(y) == {peer \in connected : y \in GetRoutingPeerRoutes(c, peer)}
<1>1. c.routes = a.routes /\ p \in c.peers
  BY DEF Enough, KeepsAccount, KeepsGroups
<1>2. GetRoutesToSync(c, p, connected) = {<<y, p>> : y \in own \cap Enabled(a.routes)}
                                           \cup UNION {{<<y, peer>> : peer \in by(y)} : y \in far}
  BY <1>1 DEF GetRoutesToSync
<1>3. own = OwnRoutes(a, p)
  <2>1. \A y : y \in own <=> ServesRoute(a, y, p)
    BY <1>1, ServingKept
  <2> HIDE DEF own
  <2> QED  BY <2>1 DEF OwnRoutes, ServesRoute
<1>4. GetPeerGroups(c.groups, p) = GetPeerGroups(a.groupPeers, p)
  BY OwnGroupsKept
<1>5. q \in by(x) <=> q \in connected /\ ServesRoute(a, x, q)
  BY ServingKept
<1>6. x \in far <=> /\ x \in Enabled(a.routes) /\ Meets(a.routes[x].groups, GetPeerGroups(a.groupPeers, p))
                    /\ a.routes[x].net \notin {a.routes[y].net : y \in OwnRoutes(a, p)}
  BY <1>3, <1>4
<1> HIDE DEF own, far, by
<1>7. <<x, q>> \in GetRoutesToSync(c, p, connected) <=>
        (q = p /\ x \in own \cap Enabled(a.routes)) \/ (x \in far /\ q \in by(x))
  BY <1>2
<1>8. x \in own <=> ServesRoute(a, x, p)
  BY <1>3 DEF OwnRoutes, ServesRoute
<1> QED  BY <1>5, <1>6, <1>7, <1>8

LEMMA RouteRulesExact ==
  ASSUME NEW a, NEW p \in a.valid, NEW c, WellFormed(a), Enough(a, p, c), Trimmed(c), NEW x, NEW i, NEW q
  PROVE  <<x, i, q>> \in GetPeerRoutesFirewallRules(c, p) <=>
           /\ x \in Enabled(a.routes) /\ ServesRoute(a, x, p)
           /\ IF a.routes[x].acGroups = {} THEN i = None /\ q = None
              ELSE /\ i \in Enabled(a.policies) /\ Meets(a.policies[i].destinations, a.routes[x].acGroups)
                   /\ Admits(a, i, p, q) /\ ValidatePostureChecksOnPeer(c, a.policies[i].checks, q)
                   /\ q \in Members(a.routes[x].groups, a.groupPeers)
<1> DEFINE open(y) == {j \in c.policies : /\ a.policies[j].enabled
                                          /\ Meets(a.policies[j].destinations, a.routes[y].acGroups)}
           pass(y, j) == GetRulePeers(c, a.policies[j], p, Members(a.routes[y].groups, c.groups))
           of(y) == IF a.routes[y].acGroups = {} THEN {<<y, None, None>>}
                    ELSE UNION {{<<y, j, z>> : z \in pass(y, j)} : j \in open(y)}
           mine == GetRoutingPeerRoutes(c, p) \cap Enabled(a.routes)
<1>1. c.rules = a.policies /\ c.routes = a.routes /\ p \in c.peers /\ c.policies \subseteq DOMAIN a.policies
  BY DEF Enough, KeepsAccount, KeepsGroups, KeepsPolicies
<1>2. GetPeerRoutesFirewallRules(c, p) = UNION {of(y) : y \in mine}
  BY <1>1 DEF GetPeerRoutesFirewallRules
<1>3. \A y : y \in mine <=> y \in Enabled(a.routes) /\ ServesRoute(a, y, p)
  BY <1>1, ServingKept
<1>4. \A y : \A f \in of(y) : f[1] = y
  <2> HIDE DEF open, pass
  <2> QED  OBVIOUS
<1>5. <<x, i, q>> \in GetPeerRoutesFirewallRules(c, p) <=> x \in mine /\ <<x, i, q>> \in of(x)
  <2>1. ASSUME NEW y \in mine, <<x, i, q>> \in of(y) PROVE y = x
    BY <1>4, <2>1
  <2> HIDE DEF of, mine
  <2> QED  BY <1>2, <2>1
<1>6. a.routes[x].acGroups = {} => (<<x, i, q>> \in of(x) <=> i = None /\ q = None)
  <2> HIDE DEF open, pass
  <2> QED  OBVIOUS
<1>7. a.routes[x].acGroups # {} => (<<x, i, q>> \in of(x) <=> i \in open(x) /\ q \in pass(x, i))
  <2> HIDE DEF open, pass
  <2> QED  OBVIOUS
<1>8. ASSUME x \in Enabled(a.routes)
      PROVE  i \in open(x) /\ q \in pass(x, i) <=>
               /\ i \in Enabled(a.policies) /\ Meets(a.policies[i].destinations, a.routes[x].acGroups)
               /\ Admits(a, i, p, q) /\ ValidatePostureChecksOnPeer(c, a.policies[i].checks, q)
               /\ q \in Members(a.routes[x].groups, a.groupPeers)
  <2> DEFINE r == a.policies[i]
             opens == i \in Enabled(a.policies) /\ Meets(r.destinations, a.routes[x].acGroups)
  <2>1. opens => i \in c.policies /\ r.sources \cap DOMAIN a.groupPeers \subseteq DOMAIN c.groups
    BY <1>8 DEF Enough, KeepsRoutes
  <2>2. i \in open(x) <=> opens
    BY <1>1, <2>1 DEF Enabled
  <2>3. opens /\ q \in c.peers => (q \in Members(r.sources, c.groups) <=> q \in Members(r.sources, a.groupPeers))
    BY <2>1, MembersKept DEF Enough
  <2>4. q \in c.peers => (q \in Members(a.routes[x].groups, c.groups) <=> q \in Members(a.routes[x].groups, a.groupPeers))
    <3>1. a.routes[x].groups \cap DOMAIN a.groupPeers \subseteq DOMAIN c.groups
      BY <1>8 DEF Enough, KeepsRoutes, Enabled
    <3> QED  BY <3>1, MembersKept DEF Enough
  <2>5. ValidatePostureChecksOnPeer(c, r.checks, q) => q \in c.peers
    BY DEF ValidatePostureChecksOnPeer
  <2>6. q \in pass(x, i) <=> /\ (q \in Members(r.sources, c.groups) /\ q # p) \/ (q = r.srcPeer /\ q # None)
                             /\ q \in Members(a.routes[x].groups, c.groups)
                             /\ ValidatePostureChecksOnPeer(c, r.checks, q)
    BY DEF GetRulePeers
  <2> HIDE DEF open, pass
  <2> QED  BY <2>2, <2>3, <2>4, <2>5, <2>6 DEF Admits
<1> HIDE DEF of, mine, open, pass
<1> QED  BY <1>3, <1>5, <1>6, <1>7, <1>8

-----------------------------------------------------------------------------
(* Two accounts whose maps are the same: they agree on the policies and routes
   that have anybody to concern, and on the groups these and the routers name. *)

IsPopulated(a, gs) == \E g \in gs \cap IdsOf(a) : a.groupPeers[g] # {} \/ a.groupRes[g] # {}

IsLive(a, i) ==
  i \in Enabled(a.policies) /\ (UsesResource(a.policies[i]) \/ IsPopulated(a, RuleGroups(a.policies[i])))

IsLiveRoute(a, x) ==
  /\ x \in DOMAIN a.routes
  /\ \/ a.routes[x].peer # None
     \/ IsPopulated(a, a.routes[x].groups) \/ IsPopulated(a, a.routes[x].peerGroups)

SameGroups(a, b, gs) ==
  /\ gs \cap IdsOf(a) = gs \cap IdsOf(b)
  /\ \A g \in gs \cap IdsOf(a) : b.groupPeers[g] = a.groupPeers[g] /\ b.groupRes[g] = a.groupRes[g]

\* The posture of q counts for policy i.
Judged(a, i, q) ==
  \/ q \in Members(a.policies[i].sources, a.groupPeers)
  \/ \E n \in Enabled(a.resources) : i \in Ids(a, n) /\ q \in ResSrc(a, i)

NameServersOf(a, p) ==
  {s \in Enabled(a.nsGroups) : /\ Meets(a.nsGroups[s].groups, GetPeerGroups(a.groupPeers, p))
                               /\ p \notin a.nsGroups[s].servers}
IsManaged(a, p) == ~Meets(a.noDns, GetPeerGroups(a.groupPeers, p))

SamePolicies(a, b) ==
  \A i : IsLive(a, i) \/ IsLive(b, i) =>
    /\ IsLive(a, i) /\ IsLive(b, i) /\ b.policies[i] = a.policies[i]
    /\ SameGroups(a, b, RuleGroups(a.policies[i]))
SameRoutes(a, b) ==
  \A x : IsLiveRoute(a, x) \/ IsLiveRoute(b, x) =>
    /\ IsLiveRoute(a, x) /\ IsLiveRoute(b, x) /\ b.routes[x] = a.routes[x]
    /\ SameGroups(a, b, a.routes[x].groups \cup a.routes[x].peerGroups)
SamePosture(a, b) ==
  \A i, q : IsLive(a, i) /\ Judged(a, i, q) =>
    FirstFailed(b, a.policies[i].checks, q) = FirstFailed(a, a.policies[i].checks, q)
SameDns(a, b) ==
  \A p \in a.valid : NameServersOf(b, p) = NameServersOf(a, p) /\ IsManaged(b, p) = IsManaged(a, p)

Alike(a, b) ==
  /\ b.peers = a.peers /\ b.valid = a.valid /\ b.expired = a.expired
  /\ b.resources = a.resources /\ b.routers = a.routers
  /\ \A r \in Enabled(a.routers) : SameGroups(a, b, a.routers[r].peerGroups)
  /\ SamePolicies(a, b)
  /\ SameRoutes(a, b)
  /\ SamePosture(a, b)
  /\ SameDns(a, b)

WellNamed(a) ==
  /\ WellFormed(a)
  /\ None \notin a.peers /\ None \notin DOMAIN a.resources
  /\ DOMAIN a.groupRes = IdsOf(a)

LEMMA SameMembers ==
  ASSUME NEW a, NEW b, NEW gs, NEW hs, SameGroups(a, b, gs), hs \subseteq gs
  PROVE  Members(hs, b.groupPeers) = Members(hs, a.groupPeers)
<1>1. \A g : g \in hs \cap DOMAIN b.groupPeers <=> g \in hs \cap DOMAIN a.groupPeers
  BY DEF SameGroups, IdsOf
<1>2. \A g \in hs \cap DOMAIN a.groupPeers : b.groupPeers[g] = a.groupPeers[g]
  BY DEF SameGroups, IdsOf
<1> QED  BY <1>1, <1>2 DEF Members

\* The groups that have the resource n, as policies see them.
Having(a, n) == {g \in DOMAIN a.groupRes : n \in a.groupRes[g]}

LEMMA IdsAre ==
  ASSUME NEW a, NEW n, NEW i
  PROVE  i \in Ids(a, n) <=> /\ i \in Enabled(a.policies)
                             /\ a.policies[i].dstRes = n \/ Meets(a.policies[i].destinations, Having(a, n))
  BY DEF Ids, GetPoliciesForNetworkResource, Having

\* A policy without anybody to concern reaches nothing.
LEMMA Inert ==
  ASSUME NEW a, WellNamed(a), NEW i \in Enabled(a.policies), ~IsLive(a, i)
  PROVE  /\ a.policies[i].srcPeer = None /\ a.policies[i].dstPeer = None
         /\ Members(a.policies[i].sources, a.groupPeers) = {}
         /\ Members(a.policies[i].destinations, a.groupPeers) = {}
         /\ ResSrc(a, i) = {} /\ Src(a, i) = {} /\ Dst(a, i) = {} /\ DstOf(a, i) = {}
         /\ \A n \in DOMAIN a.resources : i \notin Ids(a, n)
<1> DEFINE r == a.policies[i]
<1>1. r.srcPeer = None /\ r.dstPeer = None /\ r.dstRes = None
  BY DEF IsLive, UsesResource
<1>2. \A g \in RuleGroups(r) \cap IdsOf(a) : a.groupPeers[g] = {} /\ a.groupRes[g] = {}
  BY DEF IsLive, IsPopulated
<1>3. Members(r.sources, a.groupPeers) = {} /\ Members(r.destinations, a.groupPeers) = {}
  BY <1>2 DEF Members, RuleGroups, IdsOf
<1>4. ResSrc(a, i) = {} /\ DstOf(a, i) = {}
  BY <1>1, <1>3 DEF ResSrc, GetResourcePolicyPeers, DstOf
<1>5. Src(a, i) = {} /\ Dst(a, i) = {}
  BY <1>1, <1>3 DEF Src, Dst, RuleSources, RuleDestinations, GetPeersFromGroups
<1>6. ASSUME NEW n \in DOMAIN a.resources, i \in Ids(a, n) PROVE FALSE
  <2>1. r.dstRes # n
    BY <1>1 DEF WellNamed
  <2>2. PICK g \in r.destinations : g \in DOMAIN a.groupRes /\ n \in a.groupRes[g]
    BY <1>6, <2>1, IdsAre DEF Meets, Having
  <2> QED  BY <1>2, <2>2 DEF WellNamed, RuleGroups
<1> QED  BY <1>1, <1>3, <1>4, <1>5, <1>6

\* A policy that has somebody to concern is the same in both accounts.
LEMMA LiveSame ==
  ASSUME NEW a, NEW b, Alike(a, b), WellNamed(a), WellNamed(b), NEW i, IsLive(a, i)
  PROVE  /\ IsLive(b, i) /\ b.policies[i] = a.policies[i]
         /\ Members(a.policies[i].sources, b.groupPeers) = Members(a.policies[i].sources, a.groupPeers)
         /\ ResSrc(b, i) = ResSrc(a, i) /\ Src(b, i) = Src(a, i) /\ Dst(b, i) = Dst(a, i) /\ DstOf(b, i) = DstOf(a, i)
         /\ \A n : i \in Ids(b, n) <=> i \in Ids(a, n)
<1> DEFINE r == a.policies[i]
<1>1. IsLive(b, i) /\ b.policies[i] = r /\ SameGroups(a, b, RuleGroups(r)) /\ b.valid = a.valid
  BY DEF Alike, SamePolicies
<1>2. /\ Members(r.sources, b.groupPeers) = Members(r.sources, a.groupPeers)
      /\ Members(r.destinations, b.groupPeers) = Members(r.destinations, a.groupPeers)
  BY <1>1, SameMembers DEF RuleGroups
<1>3. \A q \in Members(r.sources, a.groupPeers) : FirstFailed(b, r.checks, q) = FirstFailed(a, r.checks, q)
  BY DEF Alike, SamePosture, Judged
<1>4. \A q : FirstFailed(b, <<>>, q) = FirstFailed(a, <<>>, q)
  BY DEF FirstFailed
<1>5. ResSrc(b, i) = ResSrc(a, i)
  BY <1>1, <1>2 DEF ResSrc, GetResourcePolicyPeers
<1>6. Src(b, i) = Src(a, i)
  BY <1>1, <1>2, <1>3 DEF Src, RuleSources, GetPeersFromGroups
<1>7. Dst(b, i) = Dst(a, i)
  BY <1>1, <1>2, <1>4 DEF Dst, RuleDestinations, GetPeersFromGroups
<1>8. DstOf(b, i) = DstOf(a, i)
  BY <1>1, <1>2 DEF DstOf
<1>9. ASSUME NEW n PROVE i \in Ids(b, n) <=> i \in Ids(a, n)
  <2>1. i \in Enabled(a.policies) /\ i \in Enabled(b.policies)
    BY <1>1 DEF IsLive
  <2>2. \A g \in r.destinations : g \in Having(b, n) <=> g \in Having(a, n)
    BY <1>1 DEF Having, SameGroups, RuleGroups, WellNamed
  <2>3. Meets(r.destinations, Having(b, n)) <=> Meets(r.destinations, Having(a, n))
    BY <2>2 DEF Meets
  <2> QED  BY <1>1, <2>1, <2>3, IdsAre
<1> QED  BY <1>1, <1>2, <1>5, <1>6, <1>7, <1>8, <1>9

LEMMA AlikeSymmetric ==
  ASSUME NEW a, NEW b, Alike(a, b), WellNamed(a), WellNamed(b)
  PROVE  Alike(b, a)
<1>1. \A gs : SameGroups(a, b, gs) => SameGroups(b, a, gs)
  BY DEF SameGroups
<1>2. SamePolicies(b, a)
  BY <1>1 DEF Alike, SamePolicies
<1>3. SameRoutes(b, a)
  BY <1>1 DEF Alike, SameRoutes
<1>4. SamePosture(b, a)
  <2>1. ASSUME NEW i, NEW q, IsLive(b, i), Judged(b, i, q)
        PROVE  FirstFailed(a, b.policies[i].checks, q) = FirstFailed(b, b.policies[i].checks, q)
    <3>1. IsLive(a, i)
      BY <2>1 DEF Alike, SamePolicies
    <3>2. Judged(a, i, q)
      BY <2>1, <3>1, LiveSame DEF Judged, Alike
    <3> QED  BY <3>1, <3>2, LiveSame DEF Alike, SamePosture
  <2> QED  BY <2>1 DEF SamePosture
<1>5. SameDns(b, a)
  BY DEF Alike, SameDns
<1> QED  BY <1>1, <1>2, <1>3, <1>4, <1>5 DEF Alike

\* The same policies concern a resource, and the same peers route it.
LEMMA SameIds ==
  ASSUME NEW a, NEW b, Alike(a, b), WellNamed(a), WellNamed(b), NEW n \in Enabled(a.resources)
  PROVE  /\ Ids(b, n) = Ids(a, n)
         /\ \A i \in Ids(a, n) :
              /\ b.policies[i] = a.policies[i] /\ ResSrc(b, i) = ResSrc(a, i)
              /\ \A q \in ResSrc(a, i) :
                   FirstFailed(b, a.policies[i].checks, q) = FirstFailed(a, a.policies[i].checks, q)
<1>1. n \in DOMAIN a.resources /\ n \in DOMAIN b.resources
  BY DEF Enabled, Alike
<1>2. ASSUME NEW i \in Ids(a, n) PROVE IsLive(a, i)
  BY <1>1, IdsAre, Inert
<1>3. ASSUME NEW i \in Ids(b, n) PROVE IsLive(a, i)
  <2>1. IsLive(b, i)
    BY <1>1, IdsAre, Inert
  <2> QED  BY <2>1 DEF Alike, SamePolicies
<1>4. Ids(b, n) = Ids(a, n)
  <2>1. \A i : i \in Ids(b, n) <=> i \in Ids(a, n)
    BY <1>2, <1>3, LiveSame
  <2> QED  BY <2>1
<1>5. ASSUME NEW i \in Ids(a, n)
      PROVE  /\ b.policies[i] = a.policies[i] /\ ResSrc(b, i) = ResSrc(a, i)
             /\ \A q \in ResSrc(a, i) :
                  FirstFailed(b, a.policies[i].checks, q) = FirstFailed(a, a.policies[i].checks, q)
  <2>1. \A q \in ResSrc(a, i) : Judged(a, i, q)
    BY DEF Judged
  <2> QED  BY <1>2, <2>1, LiveSame DEF Alike, SamePosture
<1> QED  BY <1>4, <1>5

LEMMA SameHops ==
  ASSUME NEW a, NEW b, Alike(a, b), NEW net
  PROVE  RoutersOf(b, net) = RoutersOf(a, net)
<1> DEFINE on == {s \in Enabled(a.routers) : a.routers[s].network = net}
           of(x, r) == IF a.routers[r].peer # None THEN {a.routers[r].peer}
                       ELSE Members(a.routers[r].peerGroups, x.groupPeers)
<1>1. \A r \in on : of(b, r) = of(a, r)
  BY SameMembers DEF Alike
<1>2. RoutersOf(a, net) = UNION {of(a, r) : r \in on}
  BY DEF RoutersOf
<1>3. RoutersOf(b, net) = UNION {of(b, r) : r \in on}
  BY DEF RoutersOf, Alike
<1> HIDE DEF on, of
<1> QED  BY <1>1, <1>2, <1>3

LEMMA BasePeers ==
  ASSUME NEW a, NEW p, NEW q
  PROVE  q \in Base(a, p).peers <=>
           q = p \/ \E i \in Enabled(a.policies) : Reaches(a, i, p, q) \/ Reaches(a, i, q, p)
<1> DEFINE base == Base(a, p)
           on   == Enabled(a.policies)
           src  == [i \in on |-> RuleSources(a, a.policies[i])]
           dst  == [i \in on |-> RuleDestinations(a, a.policies[i])]
           from == {i \in on : p \in src[i]}
           to   == {i \in on : p \in dst[i]}
<1>1. base.peers = {p} \cup (UNION {dst[i] : i \in from}) \cup (UNION {src[i] : i \in to})
  BY DEF Base, GetPeersGroupsPoliciesRoutes
<1>2. \A i \in on : src[i] = Src(a, i) /\ dst[i] = Dst(a, i)
  BY DEF Src, Dst
<1> HIDE DEF base, src, dst
<1> QED  BY <1>1, <1>2 DEF Reaches, base

LEMMA SameBasePeers ==
  ASSUME NEW a, NEW b, Alike(a, b), WellNamed(a), WellNamed(b), NEW p, NEW q, q \in Base(a, p).peers
  PROVE  q \in Base(b, p).peers
<1>1. CASE q = p
  BY <1>1, BasePeers
<1>2. CASE \E i \in Enabled(a.policies) : Reaches(a, i, p, q) \/ Reaches(a, i, q, p)
  <2>1. PICK i \in Enabled(a.policies) : Reaches(a, i, p, q) \/ Reaches(a, i, q, p)
    BY <1>2
  <2>2. IsLive(a, i)
    BY <2>1, Inert DEF Reaches
  <2>3. i \in Enabled(b.policies) /\ (Reaches(b, i, p, q) \/ Reaches(b, i, q, p))
    BY <2>1, <2>2, LiveSame DEF Reaches, IsLive
  <2> QED  BY <2>3, BasePeers
<1> QED  BY <1>1, <1>2, BasePeers

LEMMA SameBaseFailures ==
  ASSUME NEW a, NEW b, Alike(a, b), WellNamed(a), WellNamed(b), NEW p, NEW f \in Base(a, p).failed
  PROVE  f \in Base(b, p).failed
<1>1. PICK i \in Enabled(a.policies) : f \in Failures(a, a.policies[i], Members(a.policies[i].sources, a.groupPeers))
  BY BaseFields
<1>2. PICK q \in Members(a.policies[i].sources, a.groupPeers) \cap a.valid : f \in FirstFailed(a, a.policies[i].checks, q)
  BY <1>1 DEF Failures
<1>3. IsLive(a, i) /\ Judged(a, i, q)
  BY <1>2, Inert DEF Judged
<1>4. i \in Enabled(b.policies) /\ b.policies[i] = a.policies[i] /\ b.valid = a.valid
      /\ Members(a.policies[i].sources, b.groupPeers) = Members(a.policies[i].sources, a.groupPeers)
  BY <1>3, LiveSame DEF IsLive, Alike
<1>5. FirstFailed(b, a.policies[i].checks, q) = FirstFailed(a, a.policies[i].checks, q)
  BY <1>3 DEF Alike, SamePosture
<1>6. f \in Failures(b, b.policies[i], Members(b.policies[i].sources, b.groupPeers))
  BY <1>2, <1>4, <1>5 DEF Failures
<1> QED  BY <1>4, <1>6, BaseFields

\* What a resource adds, in terms of the policies for it.
Turns(a, p, n, i) ==
  p \in Hops(a, n) \/ \E j \in Ids(a, n) : j < i /\ p \in ResSrc(a, j) /\ FirstFailed(a, a.policies[j].checks, p) = {}
IsUsed(a, p, n) ==
  \E i \in Ids(a, n) : Turns(a, p, n, i) \/ (p \in ResSrc(a, i) /\ FirstFailed(a, a.policies[i].checks, p) = {})
Collected(a, p, n, i) == ResSrc(a, i) \cap a.valid \cap (IF Turns(a, p, n, i) THEN a.valid ELSE {p})

LEMMA ResExact ==
  ASSUME NEW a, NEW p, NEW n
  PROVE  /\ Res(a, p, n).policies = (IF IsUsed(a, p, n) THEN Ids(a, n) ELSE {})
         /\ Res(a, p, n).kept = (p \in Hops(a, n) \/ IsUsed(a, p, n))
         /\ \A q : q \in Res(a, p, n).peers <=>
              /\ q \in a.valid
              /\ \E i \in Ids(a, n) : Turns(a, p, n, i) /\ q \in ResSrc(a, i) /\ FirstFailed(a, a.policies[i].checks, q) = {}
         /\ \A f : f \in Res(a, p, n).failed <=>
              \E i \in Ids(a, n) : \E q \in Collected(a, p, n, i) : f \in FirstFailed(a, a.policies[i].checks, q)
<1> DEFINE ids     == GetPoliciesForNetworkResource(a, n)
           router  == p \in RoutersOf(a, a.resources[n].network)
           isIn(i) == p \in GetResourcePolicyPeers(a.policies[i], a.groupPeers)
           passes(i) == isIn(i) /\ FirstFailed(a, a.policies[i].checks, p) = {}
           collects(i) == router \/ \E j \in ids : j < i /\ passes(j)
           used    == {i \in ids : collects(i) \/ passes(i)}
           sources(i) == GetResourcePolicyPeers(a.policies[i], a.groupPeers) \cap a.valid
           checked(i) == IF collects(i) THEN sources(i) ELSE sources(i) \cap {p}
           r == Res(a, p, n)
<1>1. r.peers = UNION {{q \in sources(i) : FirstFailed(a, a.policies[i].checks, q) = {}}
                            : i \in {j \in ids : collects(j)}}
  BY DEF Res, ResourceComponents
<1>2. r.failed = UNION {Failures(a, a.policies[i], checked(i)) : i \in ids}
  BY DEF Res, ResourceComponents
<1>3. r.policies = (IF used = {} THEN {} ELSE ids) /\ r.kept = (router \/ used # {})
  BY DEF Res, ResourceComponents
<1>4. ids = Ids(a, n) /\ router = (p \in Hops(a, n))
  BY DEF Ids, Hops
<1>5. \A i : collects(i) <=> Turns(a, p, n, i)
  BY <1>4 DEF Turns, ResSrc
<1>6. \A i : passes(i) <=> p \in ResSrc(a, i) /\ FirstFailed(a, a.policies[i].checks, p) = {}
  BY DEF ResSrc
<1>7. \A i : sources(i) = ResSrc(a, i) \cap a.valid
  BY DEF ResSrc
<1> HIDE DEF r, ids, router, collects, passes, sources
<1>8. used # {} <=> IsUsed(a, p, n)
  BY <1>4, <1>5, <1>6 DEF IsUsed
<1>9. \A i : checked(i) \cap a.valid = Collected(a, p, n, i)
  BY <1>5, <1>7 DEF Collected
<1>a. ASSUME NEW q
      PROVE  q \in r.peers <=>
              /\ q \in a.valid
              /\ \E i \in Ids(a, n) : Turns(a, p, n, i) /\ q \in ResSrc(a, i) /\ FirstFailed(a, a.policies[i].checks, q) = {}
  BY <1>1, <1>4, <1>5, <1>7
<1> HIDE DEF checked, used
<1>b. ASSUME NEW f
      PROVE  f \in r.failed <=>
              \E i \in Ids(a, n) : \E q \in Collected(a, p, n, i) : f \in FirstFailed(a, a.policies[i].checks, q)
  <2>1. \A i : f \in Failures(a, a.policies[i], checked(i)) <=>
                 \E q \in Collected(a, p, n, i) : f \in FirstFailed(a, a.policies[i].checks, q)
    BY <1>9 DEF Failures
  <2> QED  BY <1>2, <1>4, <2>1
<1> QED  BY <1>3, <1>4, <1>8, <1>a, <1>b DEF r

LEMMA SameRes ==
  ASSUME NEW a, NEW b, Alike(a, b), WellNamed(a), WellNamed(b), NEW p, NEW n \in Enabled(a.resources)
  PROVE  /\ Hops(b, n) = Hops(a, n)
         /\ Res(b, p, n).policies = Res(a, p, n).policies /\ Res(b, p, n).kept = Res(a, p, n).kept
         /\ Res(b, p, n).peers = Res(a, p, n).peers /\ Res(b, p, n).failed = Res(a, p, n).failed
<1>1. Hops(b, n) = Hops(a, n) /\ b.valid = a.valid
  BY SameHops DEF Hops, Alike
<1>2. /\ Ids(b, n) = Ids(a, n)
      /\ \A i \in Ids(a, n) :
           /\ b.policies[i] = a.policies[i] /\ ResSrc(b, i) = ResSrc(a, i)
           /\ \A q \in ResSrc(a, i) :
                FirstFailed(b, a.policies[i].checks, q) = FirstFailed(a, a.policies[i].checks, q)
  BY SameIds
<1>3. \A i : Turns(b, p, n, i) <=> Turns(a, p, n, i)
  BY <1>1, <1>2 DEF Turns
<1>4. IsUsed(b, p, n) <=> IsUsed(a, p, n)
  BY <1>2, <1>3 DEF IsUsed
<1>5. \A i \in Ids(a, n) : Collected(b, p, n, i) = Collected(a, p, n, i) /\ Collected(a, p, n, i) \subseteq ResSrc(a, i)
  BY <1>1, <1>2, <1>3 DEF Collected
<1>6. Res(b, p, n).policies = Res(a, p, n).policies
  BY <1>2, <1>4, ResExact
<1>7. Res(b, p, n).kept = Res(a, p, n).kept
  <2>1. Res(a, p, n).kept = (p \in Hops(a, n) \/ IsUsed(a, p, n))
    BY ResExact
  <2>2. Res(b, p, n).kept = (p \in Hops(b, n) \/ IsUsed(b, p, n))
    BY ResExact
  <2> QED  BY <1>1, <1>4, <2>1, <2>2
<1>8. Res(b, p, n).peers = Res(a, p, n).peers
  <2>1. ASSUME NEW q PROVE q \in Res(b, p, n).peers <=> q \in Res(a, p, n).peers
    <3>1. q \in Res(a, p, n).peers <=>
            /\ q \in a.valid
            /\ \E i \in Ids(a, n) : Turns(a, p, n, i) /\ q \in ResSrc(a, i) /\ FirstFailed(a, a.policies[i].checks, q) = {}
      BY ResExact
    <3>2. q \in Res(b, p, n).peers <=>
            /\ q \in b.valid
            /\ \E i \in Ids(b, n) : Turns(b, p, n, i) /\ q \in ResSrc(b, i) /\ FirstFailed(b, b.policies[i].checks, q) = {}
      BY ResExact
    <3> QED  BY <1>1, <1>2, <1>3, <3>1, <3>2
  <2> QED  BY <2>1
<1>9. Res(b, p, n).failed = Res(a, p, n).failed
  <2>1. \A f : f \in Res(b, p, n).failed <=> f \in Res(a, p, n).failed
    BY <1>2, <1>5, ResExact
  <2> QED  BY <2>1
<1> QED  BY <1>1, <1>6, <1>7, <1>8, <1>9

\* What is cut out of the two accounts for p is the same, as far as peers and failures go.
LEMMA SameCut ==
  ASSUME NEW a, NEW b, Alike(a, b), WellNamed(a), WellNamed(b), NEW p
  PROVE  /\ Cut(b, p).peers = Cut(a, p).peers /\ Cut(b, p).routerPeers = Cut(a, p).routerPeers
         /\ Cut(b, p).failed = Cut(a, p).failed /\ Cut(b, p).expired = Cut(a, p).expired
<1>1. Alike(b, a)
  BY AlikeSymmetric
<1>2. Base(b, p).peers = Base(a, p).peers
  BY <1>1, SameBasePeers
<1>3. Base(b, p).failed = Base(a, p).failed
  BY <1>1, SameBaseFailures
<1>4. Used(b) = Used(a) /\ b.peers = a.peers /\ b.valid = a.valid /\ b.expired = a.expired
  BY DEF Alike, Used
<1>5. \A n \in Used(a) : /\ Hops(b, n) = Hops(a, n) /\ Res(b, p, n).peers = Res(a, p, n).peers
                         /\ Res(b, p, n).failed = Res(a, p, n).failed
  BY SameRes DEF Used
<1>6. /\ UNION {Res(b, p, n).peers : n \in Used(b)} = UNION {Res(a, p, n).peers : n \in Used(a)}
      /\ UNION {Res(b, p, n).failed : n \in Used(b)} = UNION {Res(a, p, n).failed : n \in Used(a)}
      /\ UNION {Hops(b, n) : n \in Used(b)} = UNION {Hops(a, n) : n \in Used(a)}
  BY <1>4, <1>5
<1>7. \A x : Cut(x, p).peers = (Base(x, p).peers \cup (UNION {Res(x, p, n).peers : n \in Used(x)})
                                \cup ((UNION {Hops(x, n) : n \in Used(x)}) \cap x.valid)) \cap x.peers
  BY CutFields
<1>8. \A x : Cut(x, p).failed = Base(x, p).failed \cup UNION {Res(x, p, n).failed : n \in Used(x)}
  BY CutFields
<1>9. \A x : Cut(x, p).routerPeers = (UNION {Hops(x, n) : n \in Used(x)}) \cap x.peers
  BY CutFields
<1>10. Cut(b, p).expired = Cut(a, p).expired
  BY <1>4, CutFields
<1>11. Cut(b, p).peers = Cut(a, p).peers
  BY <1>2, <1>4, <1>6, <1>7, Zenon
<1>12. Cut(b, p).failed = Cut(a, p).failed
  BY <1>3, <1>6, <1>8, Zenon
<1>13. Cut(b, p).routerPeers = Cut(a, p).routerPeers
  BY <1>4, <1>6, <1>9, Zenon
<1> QED  BY <1>10, <1>11, <1>12, <1>13

\* What the two accounts say of a peer p of both: the components, the same for both as
\* far as maps look at them.
Twins(a, b, p, c, d) ==
  /\ Alike(a, b) /\ WellNamed(a) /\ WellNamed(b) /\ p \in a.valid /\ p \in b.valid
  /\ c = Cut(a, p) /\ d = Cut(b, p)
  /\ Enough(a, p, c) /\ Enough(b, p, d) /\ Trimmed(c) /\ Trimmed(d)
  /\ c.peers \subseteq a.peers /\ p \in c.peers
  /\ d.peers = c.peers /\ d.routerPeers = c.routerPeers /\ d.failed = c.failed /\ d.expired = c.expired

LEMMA CutsAreTwins ==
  ASSUME NEW a, NEW b, Alike(a, b), WellNamed(a), WellNamed(b), NEW p \in a.valid
  PROVE  Twins(a, b, p, Cut(a, p), Cut(b, p)) /\ Twins(b, a, p, Cut(b, p), Cut(a, p))
<1>1. b.valid = a.valid /\ WellFormed(a) /\ WellFormed(b) /\ Alike(b, a)
  BY AlikeSymmetric DEF Alike, WellNamed
<1>2. Enough(a, p, Cut(a, p)) /\ Enough(b, p, Cut(b, p))
  BY <1>1, CutEnough
<1>3. /\ Cut(a, p).peers \subseteq a.peers /\ p \in Cut(a, p).peers
      /\ Cut(b, p).peers \subseteq b.peers /\ p \in Cut(b, p).peers
  BY <1>2 DEF Enough, KeepsGroups
<1>4. /\ Cut(b, p).peers = Cut(a, p).peers /\ Cut(b, p).routerPeers = Cut(a, p).routerPeers
      /\ Cut(b, p).failed = Cut(a, p).failed /\ Cut(b, p).expired = Cut(a, p).expired
  BY SameCut
<1> QED  BY <1>1, <1>2, <1>3, <1>4, CutIsTrimmed DEF Twins

\* A posture check of the components, the policies being the same.
LEMMA SameVerdict ==
  ASSUME NEW c, NEW d, d.peers = c.peers, d.failed = c.failed, NEW cs, NEW q
  PROVE  ValidatePostureChecksOnPeer(d, cs, q) <=> ValidatePostureChecksOnPeer(c, cs, q)
  BY DEF ValidatePostureChecksOnPeer

\* The firewall rules of the one map are rules of the other.
LEMMA SameRules ==
  ASSUME NEW a, NEW b, NEW p, NEW c, NEW d, Twins(a, b, p, c, d), NEW f \in GetPeerConnectionResources(c, p)
  PROVE  f \in GetPeerConnectionResources(d, p)
<1>1. PICK i, q, w : f = <<i, q, w>> /\ q # p
  BY RulesShape
<1>2. /\ i \in Enabled(a.policies) /\ q # p
      /\ \/ /\ p \in SrcIn(a, c, i) /\ q \in DstIn(a, c, i)
            /\ w = "out" \/ (w = "in" /\ a.policies[i].both)
         \/ /\ p \in DstIn(a, c, i) /\ q \in SrcIn(a, c, i)
            /\ w = "in" \/ (w = "out" /\ a.policies[i].both)
  BY <1>1, FirewallExact DEF Twins, WellNamed
<1>3. IsLive(a, i)
  <2>1. ResSrc(a, i) # {} \/ DstOf(a, i) # {}
    BY <1>2 DEF SrcIn, DstIn
  <2> QED  BY <1>2, <2>1, Inert DEF Twins
<1>4. i \in Enabled(b.policies) /\ b.policies[i] = a.policies[i] /\ ResSrc(b, i) = ResSrc(a, i) /\ DstOf(b, i) = DstOf(a, i)
  BY <1>3, LiveSame DEF IsLive, Twins
<1>5. SrcIn(b, d, i) = SrcIn(a, c, i) /\ DstIn(b, d, i) = DstIn(a, c, i)
  BY <1>4 DEF SrcIn, DstIn, Twins, ValidatePostureChecksOnPeer
<1>6. <<i, q, w>> \in GetPeerConnectionResources(d, p)
  BY <1>2, <1>4, <1>5, FirewallExact DEF Twins, WellNamed
<1> QED  BY <1>1, <1>6

LEMMA SameClient ==
  ASSUME NEW a, NEW b, Alike(a, b), WellNamed(a), WellNamed(b), NEW p, NEW n \in Enabled(a.resources), Client(a, p, n)
  PROVE  Client(b, p, n)
<1>1. PICK i \in Ids(a, n) : p \in ResSrc(a, i) /\ Fine(a, i, p)
  BY DEF Client
<1>2. i \in DOMAIN a.policies
  BY IdsAre DEF Enabled
<1>3. i \in Ids(b, n) /\ i \in DOMAIN b.policies /\ b.policies[i] = a.policies[i] /\ p \in ResSrc(b, i)
      /\ FirstFailed(b, a.policies[i].checks, p) = FirstFailed(a, a.policies[i].checks, p)
  BY <1>1, SameIds, IdsAre DEF Enabled
<1>4. FirstFailed(a, a.policies[i].checks, p) = {}
  BY <1>1, <1>2, FirstFailedFinds DEF WellNamed, WellFormed, Fine
<1>5. Fine(b, i, p)
  BY <1>3, <1>4, FirstFailedFinds DEF WellNamed, WellFormed, Fine
<1> QED  BY <1>3, <1>5 DEF Client

LEMMA SameResourceRoutes ==
  ASSUME NEW a, NEW b, NEW p, NEW c, NEW d, Twins(a, b, p, c, d), NEW f \in GetNetworkResourcesRoutesToSync(c, p)
  PROVE  f \in GetNetworkResourcesRoutesToSync(d, p)
<1>1. PICK n, q : f = <<n, q>>
  BY RoutesShape
<1>2. /\ n \in Enabled(a.resources) /\ Ids(a, n) # {} /\ q \in Hops(a, n) \cap c.peers
      /\ IF p \in Hops(a, n) THEN q = p ELSE Client(a, p, n)
  BY <1>1, ResourceRoutesExact DEF Twins, WellNamed
<1>3. n \in Enabled(b.resources) /\ Ids(b, n) = Ids(a, n) /\ Hops(b, n) = Hops(a, n) /\ d.peers = c.peers
  BY <1>2, SameIds, SameRes DEF Twins, Alike
<1>4. Client(a, p, n) => Client(b, p, n)
  BY <1>2, SameClient DEF Twins
<1>5. <<n, q>> \in GetNetworkResourcesRoutesToSync(d, p)
  BY <1>2, <1>3, <1>4, ResourceRoutesExact DEF Twins, WellNamed
<1> QED  BY <1>1, <1>5

LEMMA SameUse ==
  ASSUME NEW a, NEW b, NEW p, NEW c, NEW d, Twins(a, b, p, c, d), NEW n \in Enabled(a.resources), NEW i \in Ids(a, n), NEW q
  PROVE  /\ i \in Ids(b, n) /\ b.policies[i] = a.policies[i]
         /\ MayUse(a, c, i, q) => MayUse(b, d, i, q)
         /\ ValidatePostureChecksOnPeer(c, a.policies[i].checks, q) => ValidatePostureChecksOnPeer(d, b.policies[i].checks, q)
         /\ q # None /\ Admits(a, i, p, q) => Admits(b, i, p, q)
<1>1. i \in Ids(b, n) /\ b.policies[i] = a.policies[i] /\ ResSrc(b, i) = ResSrc(a, i)
  BY SameIds DEF Twins
<1>2. ValidatePostureChecksOnPeer(c, a.policies[i].checks, q) => ValidatePostureChecksOnPeer(d, b.policies[i].checks, q)
  BY <1>1, SameVerdict DEF Twins
<1>3. IsLive(a, i)
  BY Inert, IdsAre DEF Twins, Enabled
<1>4. Members(a.policies[i].sources, b.groupPeers) = Members(a.policies[i].sources, a.groupPeers)
  BY <1>3, LiveSame DEF Twins
<1> QED  BY <1>1, <1>2, <1>4 DEF MayUse, Admits

LEMMA SameClients ==
  ASSUME NEW a, NEW b, NEW p, NEW c, NEW d, Twins(a, b, p, c, d), NEW q \in ResourceSourcePeers(c, p)
  PROVE  q \in ResourceSourcePeers(d, p)
<1>1. PICK n \in Enabled(a.resources) : p \in Hops(a, n) /\ \E i \in Ids(a, n) : MayUse(a, c, i, q)
  BY ClientsExact DEF Twins, WellNamed
<1>2. n \in Enabled(b.resources) /\ p \in Hops(b, n)
  BY <1>1, SameRes DEF Twins, Alike
<1>3. \E i \in Ids(b, n) : MayUse(b, d, i, q)
  BY <1>1, SameUse
<1> QED  BY <1>2, <1>3, ClientsExact DEF Twins, WellNamed

NetRules(c, p) == GetPeerNetworkResourceFirewallRules(c, p, GetNetworkResourcesRoutesToSync(c, p))

LEMMA SameResourceRules ==
  ASSUME NEW a, NEW b, NEW p, NEW c, NEW d, Twins(a, b, p, c, d), NEW f \in NetRules(c, p)
  PROVE  f \in NetRules(d, p)
<1>1. PICK n, i, q : f = <<n, i, q>>
  BY NetRulesShape DEF NetRules
<1>2. /\ n \in Enabled(a.resources) /\ p \in Hops(a, n) /\ i \in Ids(a, n)
      /\ Admits(a, i, p, q) /\ ValidatePostureChecksOnPeer(c, a.policies[i].checks, q)
  BY <1>1, ResourceRulesExact DEF Twins, WellNamed, NetRules
<1>3. q # None
  BY <1>2 DEF ValidatePostureChecksOnPeer, Twins, WellNamed
<1>4. n \in Enabled(b.resources) /\ p \in Hops(b, n)
  BY <1>2, SameRes DEF Twins, Alike
<1>5. i \in Ids(b, n) /\ Admits(b, i, p, q) /\ ValidatePostureChecksOnPeer(d, b.policies[i].checks, q)
  BY <1>2, <1>3, SameUse
<1>6. <<n, i, q>> \in NetRules(d, p)
  BY <1>4, <1>5, ResourceRulesExact DEF Twins, WellNamed, NetRules
<1> QED  BY <1>1, <1>6

\* The routes and their peers.
LEMMA SameServing ==
  ASSUME NEW a, NEW b, NEW p, NEW c, NEW d, Twins(a, b, p, c, d), NEW x, NEW q \in c.peers, ServesRoute(a, x, q)
  PROVE  /\ x \in DOMAIN b.routes /\ b.routes[x] = a.routes[x] /\ ServesRoute(b, x, q)
         /\ SameGroups(a, b, a.routes[x].groups)
<1>1. q # None
  BY DEF Twins, WellNamed
<1>2. IsLiveRoute(a, x)
  <2>1. CASE a.routes[x].peer = q
    BY <1>1, <2>1 DEF ServesRoute, IsLiveRoute
  <2>2. CASE q \in Members(a.routes[x].peerGroups, a.groupPeers)
    <3>1. PICK g \in a.routes[x].peerGroups \cap DOMAIN a.groupPeers : q \in a.groupPeers[g]
      BY <2>2, MembersOf
    <3>2. IsPopulated(a, a.routes[x].peerGroups)
      BY <3>1 DEF IsPopulated, IdsOf
    <3> QED  BY <3>2 DEF IsLiveRoute, ServesRoute
  <2> QED  BY <2>1, <2>2 DEF ServesRoute
<1>3. IsLiveRoute(b, x) /\ b.routes[x] = a.routes[x] /\ SameGroups(a, b, a.routes[x].groups \cup a.routes[x].peerGroups)
  BY <1>2 DEF Twins, Alike, SameRoutes
<1>4. Members(a.routes[x].peerGroups, b.groupPeers) = Members(a.routes[x].peerGroups, a.groupPeers)
  <2> DEFINE both == a.routes[x].groups \cup a.routes[x].peerGroups
  <2>1. SameGroups(a, b, both)
    BY <1>3
  <2>2. a.routes[x].peerGroups \subseteq both
    OBVIOUS
  <2> HIDE DEF both
  <2> QED  BY <2>1, <2>2, SameMembers
<1> QED  BY <1>3, <1>4 DEF ServesRoute, IsLiveRoute, SameGroups

LEMMA SameMeeting ==
  ASSUME NEW a, NEW b, NEW gs, NEW p, SameGroups(a, b, gs)
  PROVE  Meets(gs, GetPeerGroups(b.groupPeers, p)) <=> Meets(gs, GetPeerGroups(a.groupPeers, p))
<1>1. \A g \in gs : g \in GetPeerGroups(b.groupPeers, p) <=> g \in GetPeerGroups(a.groupPeers, p)
  BY DEF SameGroups, IdsOf, GetPeerGroups
<1> QED  BY <1>1 DEF Meets

NetsOf(a, p) == {a.routes[y].net : y \in OwnRoutes(a, p)}

LEMMA SameNets ==
  ASSUME NEW a, NEW b, NEW p, NEW c, NEW d, Twins(a, b, p, c, d), NEW net \in NetsOf(a, p)
  PROVE  net \in NetsOf(b, p)
<1>1. PICK y \in OwnRoutes(a, p) : net = a.routes[y].net
  BY DEF NetsOf
<1>2. y \in DOMAIN b.routes /\ b.routes[y] = a.routes[y] /\ ServesRoute(b, y, p)
  BY <1>1, SameServing DEF OwnRoutes, Twins
<1>3. y \in OwnRoutes(b, p)
  BY <1>2 DEF OwnRoutes
<1> QED  BY <1>1, <1>2, <1>3 DEF NetsOf

LEMMA SameSync ==
  ASSUME NEW a, NEW b, NEW p, NEW c, NEW d, Twins(a, b, p, c, d), Twins(b, a, p, d, c),
         NEW connected, connected \subseteq c.peers, p \notin connected, NEW f \in GetRoutesToSync(c, p, connected)
  PROVE  f \in GetRoutesToSync(d, p, connected)
<1>1. PICK x, q : f = <<x, q>>
  BY SyncShape
<1>2. /\ x \in Enabled(a.routes) /\ ServesRoute(a, x, q)
      /\ \/ q = p
         \/ /\ q \in connected
            /\ Meets(a.routes[x].groups, GetPeerGroups(a.groupPeers, p))
            /\ a.routes[x].net \notin NetsOf(a, p)
  <2>1. p \in a.valid /\ Enough(a, p, c)
    BY DEF Twins
  <2>2. <<x, q>> \in GetRoutesToSync(c, p, connected)
    BY <1>1
  <2> QED  BY <2>1, <2>2, RoutesExact DEF NetsOf
<1>3. q \in c.peers
  BY <1>2 DEF Twins
<1>4. /\ x \in DOMAIN b.routes /\ b.routes[x] = a.routes[x] /\ ServesRoute(b, x, q)
      /\ SameGroups(a, b, a.routes[x].groups)
  BY <1>2, <1>3, SameServing
<1>5. Meets(a.routes[x].groups, GetPeerGroups(b.groupPeers, p)) <=> Meets(a.routes[x].groups, GetPeerGroups(a.groupPeers, p))
  BY <1>4, SameMeeting
<1>6. a.routes[x].net \in NetsOf(b, p) => a.routes[x].net \in NetsOf(a, p)
  BY SameNets
<1>7. /\ x \in Enabled(b.routes) /\ ServesRoute(b, x, q)
      /\ \/ q = p
         \/ /\ q \in connected
            /\ Meets(b.routes[x].groups, GetPeerGroups(b.groupPeers, p))
            /\ b.routes[x].net \notin NetsOf(b, p)
  BY <1>2, <1>4, <1>5, <1>6 DEF Enabled
<1>8. <<x, q>> \in GetRoutesToSync(d, p, connected)
  BY <1>7, RoutesExact DEF Twins, NetsOf
<1> QED  BY <1>1, <1>8

LEMMA SameRouteRules ==
  ASSUME NEW a, NEW b, NEW p, NEW c, NEW d, Twins(a, b, p, c, d), NEW f \in GetPeerRoutesFirewallRules(c, p)
  PROVE  f \in GetPeerRoutesFirewallRules(d, p)
<1>1. PICK x, i, q : f = <<x, i, q>>
  BY RouteRulesShape
<1>2. /\ x \in Enabled(a.routes) /\ ServesRoute(a, x, p)
      /\ IF a.routes[x].acGroups = {} THEN i = None /\ q = None
         ELSE /\ i \in Enabled(a.policies) /\ Meets(a.policies[i].destinations, a.routes[x].acGroups)
              /\ Admits(a, i, p, q) /\ ValidatePostureChecksOnPeer(c, a.policies[i].checks, q)
              /\ q \in Members(a.routes[x].groups, a.groupPeers)
  BY <1>1, RouteRulesExact DEF Twins, WellNamed
<1>3. /\ x \in DOMAIN b.routes /\ b.routes[x] = a.routes[x] /\ ServesRoute(b, x, p)
      /\ SameGroups(a, b, a.routes[x].groups)
  BY <1>2, SameServing DEF Twins
<1>4. x \in Enabled(b.routes)
  BY <1>2, <1>3 DEF Enabled
<1>5. CASE a.routes[x].acGroups = {}
  <2>1. <<x, i, q>> \in GetPeerRoutesFirewallRules(d, p)
    BY <1>2, <1>3, <1>4, <1>5, RouteRulesExact DEF Twins, WellNamed
  <2> QED  BY <1>1, <2>1
<1>6. CASE a.routes[x].acGroups # {}
  <2>1. q # None
    BY <1>2, <1>6 DEF ValidatePostureChecksOnPeer, Twins, WellNamed
  <2>2. IsLive(a, i)
    <3>1. CASE q \in Members(a.policies[i].sources, a.groupPeers)
      BY <1>2, <1>6, <3>1, Inert DEF Twins
    <3>2. CASE q = a.policies[i].srcPeer
      BY <1>2, <1>6, <2>1, <3>2 DEF IsLive, UsesResource
    <3> QED  BY <1>2, <1>6, <3>1, <3>2 DEF Admits
  <2>3. /\ IsLive(b, i) /\ b.policies[i] = a.policies[i]
        /\ Members(a.policies[i].sources, b.groupPeers) = Members(a.policies[i].sources, a.groupPeers)
    BY <2>2, LiveSame DEF Twins
  <2>4. q \in Members(a.routes[x].groups, b.groupPeers)
    BY <1>2, <1>3, <1>6, SameMembers
  <2>5. i \in Enabled(b.policies) /\ Admits(b, i, p, q)
    BY <1>2, <1>6, <2>3 DEF IsLive, Admits
  <2>6. ValidatePostureChecksOnPeer(d, b.policies[i].checks, q)
    BY <1>2, <1>6, <2>3, SameVerdict DEF Twins
  <2>7. <<x, i, q>> \in GetPeerRoutesFirewallRules(d, p)
    BY <1>2, <1>3, <1>4, <1>6, <2>3, <2>4, <2>5, <2>6, RouteRulesExact DEF Twins, WellNamed
  <2> QED  BY <1>1, <2>7
<1> QED  BY <1>5, <1>6

LEMMA OwnNameServers ==
  ASSUME NEW a, NEW p \in a.valid, WellFormed(a)
  PROVE  GetPeerNSGroupsFromGroups(Cut(a, p), p) = NameServersOf(a, p)
<1> DEFINE of(c) == {s \in DOMAIN c.nsGroups : /\ c.nsGroups[s].enabled
                                               /\ Meets(c.nsGroups[s].groups, GetPeerGroups(a.groupPeers, p))
                                               /\ p \notin c.nsGroups[s].servers}
           c == Cut(a, p)
<1>1. GetPeerNSGroupsFromGroups(Cut(a, p), p) = of(Cut(a, p))
  BY CutEnough, OwnGroupsKept DEF GetPeerNSGroupsFromGroups, Enabled
<1>2. NameServersOf(a, p) = of(a)
  BY DEF NameServersOf, Enabled
<1>4. \A s \in DOMAIN c.nsGroups : s \in DOMAIN a.nsGroups /\ c.nsGroups[s] = a.nsGroups[s]
  BY CutRecord
<1>5. \A s \in DOMAIN a.nsGroups :
        a.nsGroups[s].enabled /\ Meets(a.nsGroups[s].groups, GetPeerGroups(a.groupPeers, p)) => s \in DOMAIN c.nsGroups
  BY CutRecord, BaseFields DEF Enabled, Meets
<1>6. of(c) = of(a)
  <2> HIDE DEF c
  <2> QED  BY <1>4, <1>5
<1> QED  BY <1>1, <1>2, <1>6

LEMMA OwnDns ==
  ASSUME NEW a, NEW p, NEW c, Enough(a, p, c)
  PROVE  Calculate(c, p).dns = IsManaged(a, p)
<1>1. Calculate(c, p).dns = ~Meets(c.noDns, GetPeerGroups(c.groups, p))
  BY MapFields
<1>2. c.noDns = a.noDns
  BY DEF Enough, KeepsAccount
<1> QED  BY <1>1, <1>2, OwnGroupsKept DEF IsManaged

\* Peers come into the rules only if the components have them.
LEMMA AclWithin ==
  ASSUME NEW a, NEW p \in a.valid, NEW c, WellFormed(a), Enough(a, p, c), Trimmed(c)
  PROVE  Acl(c, p) \subseteq c.peers \ {p}
<1>1. ASSUME NEW f \in GetPeerConnectionResources(c, p) PROVE f[2] \in c.peers \ {p}
  <2>1. PICK i, q, w : f = <<i, q, w>> /\ q # p
    BY RulesShape
  <2>2. q \in c.peers
    BY <2>1, FirewallExact DEF SrcIn, DstIn
  <2> QED  BY <2>1, <2>2
<1> QED  BY <1>1 DEF Acl

\* Accounts that are alike give a peer the same map, zones apart.
LEMMA AlikeMaps ==
  ASSUME NEW a, NEW b, Alike(a, b), WellNamed(a), WellNamed(b), NEW p \in a.valid
  PROVE  LET m == Calculate(Cut(a, p), p)
             o == Calculate(Cut(b, p), p)
         IN [m EXCEPT !.zones = {}] = [o EXCEPT !.zones = {}]
<1> DEFINE c == Cut(a, p)
           d == Cut(b, p)
           m == Calculate(c, p)
           o == Calculate(d, p)
<1>1. Twins(a, b, p, c, d) /\ Twins(b, a, p, d, c)
  BY CutsAreTwins
<1>2. GetPeerConnectionResources(c, p) = GetPeerConnectionResources(d, p)
  BY <1>1, SameRules
<1>3. c.expired = d.expired /\ c.peers = d.peers /\ c.routerPeers = d.routerPeers
  BY <1>1 DEF Twins
<1>4. Acl(c, p) = Acl(d, p) /\ Online(c, p) = Online(d, p)
  BY <1>2, <1>3 DEF Acl, Online
<1>5. GetNetworkResourcesRoutesToSync(c, p) = GetNetworkResourcesRoutesToSync(d, p)
  BY <1>1, SameResourceRoutes
<1>6. ResourceSourcePeers(c, p) = ResourceSourcePeers(d, p)
  BY <1>1, SameClients
<1>7. NetRules(c, p) = NetRules(d, p)
  BY <1>1, SameResourceRules
<1>8. GetPeerRoutesFirewallRules(c, p) = GetPeerRoutesFirewallRules(d, p)
  BY <1>1, SameRouteRules
<1>9. Online(c, p) \subseteq c.peers /\ p \notin Online(c, p)
  BY <1>1, AclWithin DEF Online, Twins, WellNamed
<1>10. GetRoutesToSync(c, p, Online(c, p)) = GetRoutesToSync(d, p, Online(d, p))
  BY <1>1, <1>3, <1>4, <1>9, SameSync
<1>11. GetPeerNSGroupsFromGroups(c, p) = GetPeerNSGroupsFromGroups(d, p)
  BY <1>1, OwnNameServers DEF Twins, WellNamed, Alike, SameDns
<1>12. m.dns = o.dns
  <2>1. m.dns = IsManaged(a, p) /\ o.dns = IsManaged(b, p)
    BY <1>1, OwnDns DEF Twins
  <2> QED  BY <2>1 DEF Alike, SameDns
<1> HIDE DEF c, d
<1>13. AddNetworksRoutingPeers(c, p, GetNetworkResourcesRoutesToSync(c, p), Acl(c, p))
         = AddNetworksRoutingPeers(d, p, GetNetworkResourcesRoutesToSync(d, p), Acl(d, p))
  BY <1>3, <1>4, <1>5, <1>6 DEF AddNetworksRoutingPeers
<1>14. m.peers = o.peers /\ m.offline = o.offline /\ m.firewall = o.firewall /\ m.routes = o.routes
       /\ m.routeRules = o.routeRules
  <2>1. \A e : /\ Calculate(e, p).peers =
                   Online(e, p) \cup AddNetworksRoutingPeers(e, p, GetNetworkResourcesRoutesToSync(e, p), Acl(e, p))
               /\ Calculate(e, p).offline = Acl(e, p) \cap e.expired
               /\ Calculate(e, p).firewall = GetPeerConnectionResources(e, p)
               /\ Calculate(e, p).routes = GetRoutesToSync(e, p, Online(e, p))
               /\ Calculate(e, p).routeRules = GetPeerRoutesFirewallRules(e, p)
    BY MapFields
  <2> QED  BY <1>2, <1>3, <1>4, <1>8, <1>10, <1>13, <2>1, Zenon
<1>15. m.netRoutes = o.netRoutes /\ m.netRules = o.netRules
  BY <1>5, <1>7, ResourceFields DEF NetRules
<1>16. m.nsGroups = o.nsGroups
  BY <1>11, <1>12, MapFields
<1>17. /\ m = [k \in DOMAIN m |-> m[k]] /\ o = [k \in DOMAIN o |-> o[k]]
  BY DEF Calculate
<1>18. /\ DOMAIN m = {"peers", "offline", "firewall", "routes", "netRoutes", "routeRules", "netRules",
                       "nsGroups", "zones", "dns"}
       /\ DOMAIN o = DOMAIN m
  BY MapFields
<1> HIDE DEF m, o
<1>19. [m EXCEPT !.zones = {}] = [o EXCEPT !.zones = {}]
  BY <1>12, <1>14, <1>15, <1>16, <1>17, <1>18
<1> QED  BY <1>19 DEF m, o, c, d

\* The zones of a map, for those who have managed DNS.
ZonesOf(a, p) == {z \in Enabled(a.zones) : a.zones[z].records /\ Meets(a.zones[z].groups, GetPeerGroups(a.groupPeers, p))}

LEMMA MapZones ==
  ASSUME NEW a, NEW p \in a.valid, WellFormed(a)
  PROVE  Calculate(Cut(a, p), p).zones = IF IsManaged(a, p) THEN ZonesOf(a, p) ELSE {}
<1>1. Enough(a, p, Cut(a, p))
  BY CutEnough
<1>2. Calculate(Cut(a, p), p).dns = IsManaged(a, p)
  BY <1>1, OwnDns
<1>3. Cut(a, p).zones = ZonesOf(a, p)
  BY DEF Cut, GetPeerNetworkMapComponents, ZonesOf
<1> QED  BY <1>2, <1>3, MapFields

-----------------------------------------------------------------------------
(* Accounts that are alike stay so with the policies of their services. *)

\* What InjectProxyPolicies makes policies of.
Uses(a) == UNION {{<<s, q, t>> : q \in {e \in DOMAIN a.embedded \cap a.peers : a.embedded[e] = a.services[s].cluster},
                                 t \in a.services[s].targets} : s \in Enabled(a.services)}

NamesHold(a) ==
  /\ None \notin a.peers /\ None \notin DOMAIN a.resources
  /\ DOMAIN a.policies \subseteq 1 .. (FirstProxyPolicy - 1)
Sound(a) == Consistent(a) /\ NamesHold(a)

Added(a) == FirstProxyPolicy .. (FirstProxyPolicy + Len(SetToSeq(Uses(a))) - 1)

LEMMA InjectedFields ==
  ASSUME NEW a, DOMAIN a = Fields
  PROVE  LET b == InjectProxyPolicies(a)
         IN /\ b.peers = a.peers /\ b.valid = a.valid /\ b.expired = a.expired
            /\ b.groupPeers = a.groupPeers /\ b.groupRes = a.groupRes /\ b.checks = a.checks
            /\ b.routes = a.routes /\ b.nsGroups = a.nsGroups /\ b.noDns = a.noDns
            /\ b.routers = a.routers /\ b.resources = a.resources /\ b.zones = a.zones
  BY Injected DEF Fields

LEMMA InjectedPolicies ==
  ASSUME NEW a, Sound(a)
  PROVE  LET b == InjectProxyPolicies(a)
             at(i) == SetToSeq(Uses(a))[i + 1 - FirstProxyPolicy]
         IN /\ DOMAIN b.policies = DOMAIN a.policies \cup Added(a)
            /\ \A i \in DOMAIN a.policies : b.policies[i] = a.policies[i]
            /\ \A i \in Added(a) : b.policies[i] = ProxyPolicy(a, at(i)[2], at(i)[3])
<1> DEFINE at(i) == SetToSeq(Uses(a))[i + 1 - FirstProxyPolicy]
           also(i) == ProxyPolicy(a, at(i)[2], at(i)[3])
           b == InjectProxyPolicies(a)
<1>1. b = [a EXCEPT !.policies = [i \in DOMAIN @ \cup Added(a) |-> IF i \in DOMAIN @ THEN @[i] ELSE also(i)]]
  BY DEF InjectProxyPolicies, Uses, Added
<1>2. \A i \in Added(a) : i \notin DOMAIN a.policies
  <2>1. \A i \in 1 .. (FirstProxyPolicy - 1) : i \notin Added(a)
    BY DEF Added, FirstProxyPolicy
  <2> QED  BY <2>1 DEF Sound, NamesHold
<1>3. DOMAIN a = Fields
  BY DEF Sound, Consistent
<1> HIDE DEF b, also
<1>4. b.policies = [i \in DOMAIN a.policies \cup Added(a) |-> IF i \in DOMAIN a.policies THEN a.policies[i] ELSE also(i)]
  BY <1>1, <1>3 DEF Fields
<1>5. /\ DOMAIN b.policies = DOMAIN a.policies \cup Added(a)
      /\ \A i \in DOMAIN a.policies : b.policies[i] = a.policies[i]
      /\ \A i \in Added(a) : b.policies[i] = also(i)
  BY <1>2, <1>4
<1> QED  BY <1>5 DEF b, also

LEMMA InjectedIsWellNamed ==
  ASSUME NEW a, Sound(a)
  PROVE  WellNamed(InjectProxyPolicies(a))
<1> DEFINE b == InjectProxyPolicies(a)
<1>1. DOMAIN a = Fields
  BY DEF Sound, Consistent
<1>2. /\ b.peers = a.peers /\ b.valid = a.valid /\ b.resources = a.resources
      /\ b.groupPeers = a.groupPeers /\ b.groupRes = a.groupRes
  BY <1>1, InjectedFields
<1>3. ASSUME NEW i \in DOMAIN b.policies
      PROVE  /\ DOMAIN b.policies[i].checks \subseteq Nat
             /\ b.policies[i].srcPeer # None => b.policies[i].sources = {}
  <2>1. CASE i \in DOMAIN a.policies
    <3>1. b.policies[i] = a.policies[i]
      BY <2>1, InjectedPolicies
    <3> QED  BY <2>1, <3>1 DEF Sound, Consistent, PoliciesHold, RuleHolds
  <2>2. CASE i \notin DOMAIN a.policies
    <3>1. b.policies[i].checks = <<>> /\ b.policies[i].sources = {}
      BY <1>1, <2>2, Injected
    <3> QED  BY <3>1
  <2> QED  BY <2>1, <2>2
<1>4. a.valid \subseteq a.peers /\ None \notin a.peers /\ None \notin DOMAIN a.resources /\ DOMAIN a.groupRes = IdsOf(a)
  BY DEF Sound, NamesHold, Consistent, GroupsHold
<1> HIDE DEF b
<1>5. WellNamed(b)
  BY <1>2, <1>3, <1>4 DEF WellNamed, WellFormed, IdsOf
<1> QED  BY <1>5 DEF b

\* What a policy of the account reaches does not change by the injection.
LEMMA InjectedJudges ==
  ASSUME NEW a, Sound(a), NEW i \in DOMAIN a.policies
  PROVE  LET b == InjectProxyPolicies(a)
         IN /\ b.policies[i] = a.policies[i]
            /\ IsLive(b, i) <=> IsLive(a, i)
            /\ \A q : Judged(b, i, q) <=> Judged(a, i, q)
<1> DEFINE b == InjectProxyPolicies(a)
<1>1. DOMAIN a = Fields
  BY DEF Sound, Consistent
<1>2. b.resources = a.resources /\ b.groupPeers = a.groupPeers /\ b.groupRes = a.groupRes
  BY <1>1, InjectedFields
<1>3. b.policies[i] = a.policies[i] /\ i \in DOMAIN b.policies
  BY InjectedPolicies
<1> HIDE DEF b
<1>4. i \in Enabled(b.policies) <=> i \in Enabled(a.policies)
  BY <1>3 DEF Enabled
<1>5. IsLive(b, i) <=> IsLive(a, i)
  BY <1>2, <1>3, <1>4 DEF IsLive, IsPopulated, IdsOf
<1>6. \A n : i \in Ids(b, n) <=> i \in Ids(a, n)
  BY <1>2, <1>3, <1>4, IdsAre DEF Having
<1>7. ResSrc(b, i) = ResSrc(a, i)
  BY <1>2, <1>3 DEF ResSrc
<1>8. \A q : Judged(b, i, q) <=> Judged(a, i, q)
  BY <1>2, <1>3, <1>6, <1>7 DEF Judged
<1> QED  BY <1>3, <1>5, <1>8 DEF b

\* The policies of the services are the same if their uses are.
LEMMA SameInjected ==
  ASSUME NEW a, NEW b, Sound(a), Sound(b), Uses(b) = Uses(a), b.resources = a.resources,
         NEW i, i \notin 1 .. (FirstProxyPolicy - 1)
  PROVE  LET c == InjectProxyPolicies(a)
             d == InjectProxyPolicies(b)
         IN /\ i \in DOMAIN d.policies <=> i \in DOMAIN c.policies
            /\ i \in DOMAIN c.policies => /\ d.policies[i] = c.policies[i]
                                          /\ RuleGroups(c.policies[i]) = {} /\ c.policies[i].checks = <<>>
<1> DEFINE c == InjectProxyPolicies(a)
           d == InjectProxyPolicies(b)
<1>1. i \notin DOMAIN a.policies /\ i \notin DOMAIN b.policies
  BY DEF Sound, NamesHold
<1>2. Added(b) = Added(a)
  BY DEF Added
<1>3. i \in DOMAIN d.policies <=> i \in DOMAIN c.policies
  BY <1>1, <1>2, InjectedPolicies
<1>4. ASSUME i \in DOMAIN c.policies
      PROVE  /\ d.policies[i] = c.policies[i]
             /\ RuleGroups(c.policies[i]) = {} /\ c.policies[i].checks = <<>>
  <2>1. i \in Added(a)
    BY <1>1, <1>4, InjectedPolicies
  <2>2. PICK e : e = SetToSeq(Uses(a))[i + 1 - FirstProxyPolicy]
    OBVIOUS
  <2>3. c.policies[i] = ProxyPolicy(a, e[2], e[3])
    BY <2>1, <2>2, InjectedPolicies
  <2>4. d.policies[i] = ProxyPolicy(b, e[2], e[3])
    BY <1>2, <2>1, <2>2, InjectedPolicies
  <2>5. ProxyPolicy(b, e[2], e[3]) = ProxyPolicy(a, e[2], e[3])
    BY DEF ProxyPolicy
  <2>6. RuleGroups(ProxyPolicy(a, e[2], e[3])) = {} /\ ProxyPolicy(a, e[2], e[3]).checks = <<>>
    BY DEF ProxyPolicy, RuleGroups
  <2> QED  BY <2>3, <2>4, <2>5, <2>6
<1> QED  BY <1>3, <1>4

LEMMA InjectedAlike ==
  ASSUME NEW a, NEW b, Sound(a), Sound(b), Alike(a, b), Uses(b) = Uses(a)
  PROVE  Alike(InjectProxyPolicies(a), InjectProxyPolicies(b))
<1> DEFINE c == InjectProxyPolicies(a)
           d == InjectProxyPolicies(b)
<1>1. DOMAIN a = Fields /\ DOMAIN b = Fields
  BY DEF Sound, Consistent
<1>2. /\ c.peers = a.peers /\ c.valid = a.valid /\ c.expired = a.expired
      /\ c.groupPeers = a.groupPeers /\ c.groupRes = a.groupRes /\ c.checks = a.checks
      /\ c.routes = a.routes /\ c.nsGroups = a.nsGroups /\ c.noDns = a.noDns
      /\ c.routers = a.routers /\ c.resources = a.resources
  BY <1>1, InjectedFields
<1>3. /\ d.peers = b.peers /\ d.valid = b.valid /\ d.expired = b.expired
      /\ d.groupPeers = b.groupPeers /\ d.groupRes = b.groupRes /\ d.checks = b.checks
      /\ d.routes = b.routes /\ d.nsGroups = b.nsGroups /\ d.noDns = b.noDns
      /\ d.routers = b.routers /\ d.resources = b.resources
  BY <1>1, InjectedFields
<1>4. \A gs : SameGroups(a, b, gs) => SameGroups(c, d, gs)
  BY <1>2, <1>3 DEF SameGroups, IdsOf
<1>5. b.resources = a.resources
  BY DEF Alike
<1>6. ASSUME NEW i, i \notin 1 .. (FirstProxyPolicy - 1), IsLive(c, i) \/ IsLive(d, i)
      PROVE  IsLive(c, i) /\ IsLive(d, i) /\ d.policies[i] = c.policies[i]
             /\ RuleGroups(c.policies[i]) = {} /\ c.policies[i].checks = <<>>
  <2>1. i \in DOMAIN c.policies \/ i \in DOMAIN d.policies
    BY <1>6 DEF IsLive, Enabled
  <2>2. /\ i \in DOMAIN d.policies /\ i \in DOMAIN c.policies /\ d.policies[i] = c.policies[i]
        /\ RuleGroups(c.policies[i]) = {} /\ c.policies[i].checks = <<>>
    BY <1>5, <1>6, <2>1, SameInjected, ZenonT(30)
  <2>3. ~IsPopulated(c, {}) /\ ~IsPopulated(d, {})
    BY DEF IsPopulated
  <2> HIDE DEF c, d
  <2>4. IsLive(c, i) <=> IsLive(d, i)
    BY <2>2, <2>3 DEF IsLive, Enabled
  <2> QED  BY <1>6, <2>2, <2>4
<1>7. ASSUME NEW i \in 1 .. (FirstProxyPolicy - 1)
      PROVE  /\ i \in DOMAIN c.policies <=> i \in DOMAIN a.policies
             /\ i \in DOMAIN d.policies <=> i \in DOMAIN b.policies
  <2>1. i \notin Added(a) /\ i \notin Added(b)
    BY DEF Added, FirstProxyPolicy
  <2> QED  BY <2>1, InjectedPolicies
<1>8. ASSUME NEW i \in 1 .. (FirstProxyPolicy - 1)
      PROVE  /\ IsLive(c, i) => IsLive(a, i) /\ c.policies[i] = a.policies[i]
             /\ IsLive(d, i) => IsLive(b, i) /\ d.policies[i] = b.policies[i]
             /\ IsLive(a, i) => IsLive(c, i) /\ c.policies[i] = a.policies[i]
             /\ IsLive(b, i) => IsLive(d, i) /\ d.policies[i] = b.policies[i]
  <2>1. \A e : IsLive(e, i) => i \in DOMAIN e.policies
    BY DEF IsLive, Enabled
  <2>2. i \in DOMAIN a.policies => c.policies[i] = a.policies[i] /\ (IsLive(c, i) <=> IsLive(a, i))
    BY InjectedJudges
  <2>3. i \in DOMAIN b.policies => d.policies[i] = b.policies[i] /\ (IsLive(d, i) <=> IsLive(b, i))
    BY InjectedJudges
  <2> HIDE DEF c, d
  <2> QED  BY <1>7, <2>1, <2>2, <2>3
<1> HIDE DEF c, d
<1>9. SamePolicies(c, d)
  <2>1. ASSUME NEW i, IsLive(c, i) \/ IsLive(d, i)
        PROVE  /\ IsLive(c, i) /\ IsLive(d, i) /\ d.policies[i] = c.policies[i]
               /\ SameGroups(c, d, RuleGroups(c.policies[i]))
    <3>1. CASE i \in 1 .. (FirstProxyPolicy - 1)
      <4>1. IsLive(a, i) \/ IsLive(b, i)
        BY <1>8, <2>1, <3>1
      <4>2. /\ IsLive(a, i) /\ IsLive(b, i) /\ b.policies[i] = a.policies[i]
            /\ SameGroups(a, b, RuleGroups(a.policies[i]))
        BY <4>1 DEF Alike, SamePolicies
      <4> QED  BY <1>4, <1>8, <3>1, <4>2
    <3>2. CASE i \notin 1 .. (FirstProxyPolicy - 1)
      <4>1. SameGroups(c, d, {})
        BY DEF SameGroups
      <4> QED  BY <1>6, <2>1, <3>2, <4>1
    <3> QED  BY <3>1, <3>2
  <2> QED  BY <2>1 DEF SamePolicies
<1>10. SameRoutes(c, d)
  <2>1. \A x : (IsLiveRoute(c, x) <=> IsLiveRoute(a, x)) /\ (IsLiveRoute(d, x) <=> IsLiveRoute(b, x))
    BY <1>2, <1>3 DEF IsLiveRoute, IsPopulated, IdsOf
  <2>2. SameRoutes(a, b)
    BY DEF Alike
  <2> QED  BY <1>2, <1>3, <1>4, <2>1, <2>2 DEF SameRoutes
<1>11. SamePosture(c, d)
  <2>1. ASSUME NEW i, NEW q, IsLive(c, i), Judged(c, i, q)
        PROVE  FirstFailed(d, c.policies[i].checks, q) = FirstFailed(c, c.policies[i].checks, q)
    <3>1. CASE i \in 1 .. (FirstProxyPolicy - 1)
      <4>1. IsLive(a, i) /\ c.policies[i] = a.policies[i]
        BY <1>8, <2>1, <3>1
      <4>2. Judged(a, i, q)
        BY <2>1, <4>1, InjectedJudges DEF c, IsLive, Enabled
      <4>3. FirstFailed(b, a.policies[i].checks, q) = FirstFailed(a, a.policies[i].checks, q)
        BY <4>1, <4>2 DEF Alike, SamePosture
      <4>4. \A cs : FirstFailed(c, cs, q) = FirstFailed(a, cs, q) /\ FirstFailed(d, cs, q) = FirstFailed(b, cs, q)
        BY <1>2, <1>3 DEF FirstFailed
      <4> QED  BY <4>1, <4>3, <4>4
    <3>2. CASE i \notin 1 .. (FirstProxyPolicy - 1)
      <4>1. c.policies[i].checks = <<>>
        BY <1>6, <2>1, <3>2
      <4>2. FirstFailed(d, <<>>, q) = {} /\ FirstFailed(c, <<>>, q) = {}
        BY DEF FirstFailed
      <4> QED  BY <4>1, <4>2
    <3> QED  BY <3>1, <3>2
  <2> QED  BY <2>1 DEF SamePosture
<1>12. SameDns(c, d)
  <2>1. \A p : /\ NameServersOf(c, p) = NameServersOf(a, p) /\ NameServersOf(d, p) = NameServersOf(b, p)
               /\ IsManaged(c, p) = IsManaged(a, p) /\ IsManaged(d, p) = IsManaged(b, p)
    BY <1>2, <1>3 DEF NameServersOf, IsManaged
  <2>2. SameDns(a, b)
    BY DEF Alike
  <2> QED  BY <1>2, <2>1, <2>2 DEF SameDns
<1>13. \A r \in Enabled(c.routers) : SameGroups(c, d, c.routers[r].peerGroups)
  BY <1>2, <1>4 DEF Alike
<1>14. d.peers = c.peers /\ d.valid = c.valid /\ d.expired = c.expired /\ d.resources = c.resources /\ d.routers = c.routers
  BY <1>2, <1>3 DEF Alike
<1>15. Alike(c, d)
  BY <1>9, <1>10, <1>11, <1>12, <1>13, <1>14 DEF Alike
<1> QED  BY <1>15 DEF c, d

\* The maps that the controller computes.
FullMap(a, p) == GetPeerNetworkMap(InjectProxyPolicies(a), p)

LEMMA SameMaps ==
  ASSUME NEW a, NEW b, Sound(a), Sound(b), Alike(a, b), Uses(b) = Uses(a), NEW p
  PROVE  [FullMap(a, p) EXCEPT !.zones = {}] = [FullMap(b, p) EXCEPT !.zones = {}]
<1> DEFINE c == InjectProxyPolicies(a)
           d == InjectProxyPolicies(b)
<1>1. Alike(c, d) /\ WellNamed(c) /\ WellNamed(d)
  BY InjectedAlike, InjectedIsWellNamed
<1> HIDE DEF c, d
<1>2. d.peers = c.peers /\ d.valid = c.valid
  BY <1>1 DEF Alike
<1>3. CASE p \notin c.peers \cap c.valid
  BY <1>2, <1>3 DEF FullMap, GetPeerNetworkMap, c, d
<1>4. CASE p \in c.peers \cap c.valid
  <2>1. GetPeerNetworkMap(c, p) = Calculate(Cut(c, p), p) /\ GetPeerNetworkMap(d, p) = Calculate(Cut(d, p), p)
    BY <1>2, <1>4 DEF GetPeerNetworkMap, Cut
  <2>2. [GetPeerNetworkMap(c, p) EXCEPT !.zones = {}] = [GetPeerNetworkMap(d, p) EXCEPT !.zones = {}]
    BY <1>1, <1>4, <2>1, AlikeMaps
  <2> QED  BY <2>2 DEF FullMap, c, d
<1> QED  BY <1>3, <1>4

LEMMA ZonesAre ==
  ASSUME NEW a, Sound(a), NEW p
  PROVE  FullMap(a, p).zones = IF p \in a.peers \cap a.valid /\ IsManaged(a, p) THEN ZonesOf(a, p) ELSE {}
<1> DEFINE c == InjectProxyPolicies(a)
<1>1. DOMAIN a = Fields
  BY DEF Sound, Consistent
<1>2. c.peers = a.peers /\ c.valid = a.valid /\ c.groupPeers = a.groupPeers /\ c.noDns = a.noDns /\ c.zones = a.zones
  BY <1>1, InjectedFields
<1>3. WellFormed(c)
  BY InjectedIsWellNamed DEF WellNamed
<1> HIDE DEF c
<1>4. CASE p \in c.peers \cap c.valid
  <2>1. FullMap(a, p) = Calculate(Cut(c, p), p)
    BY <1>4 DEF FullMap, GetPeerNetworkMap, Cut, c
  <2>2. Calculate(Cut(c, p), p).zones = IF IsManaged(c, p) THEN ZonesOf(c, p) ELSE {}
    BY <1>3, <1>4, MapZones
  <2>3. IsManaged(c, p) = IsManaged(a, p) /\ ZonesOf(c, p) = ZonesOf(a, p)
    BY <1>2 DEF IsManaged, ZonesOf
  <2> QED  BY <1>2, <1>4, <2>1, <2>2, <2>3
<1>5. CASE p \notin c.peers \cap c.valid
  <2>1. FullMap(a, p).zones = {}
    BY <1>5 DEF FullMap, GetPeerNetworkMap, EmptyMap, c
  <2> QED  BY <1>2, <1>5, <2>1
<1> QED  BY <1>4, <1>5

-----------------------------------------------------------------------------
(* What an operation may change and leave the accounts alike. *)

\* The groups that AreGroupChangesAffectPeers looks for.
Counts(a, g) ==
  \/ g \in a.noDns
  \/ \E s \in DOMAIN a.nsGroups : g \in a.nsGroups[s].groups
  \/ \E i \in DOMAIN a.policies : g \in RuleGroups(a.policies[i])
  \/ \E x \in DOMAIN a.routes : g \in RouteGroups(a.routes[x])
  \/ \E r \in DOMAIN a.routers : g \in a.routers[r].peerGroups

SameRest(a, b) ==
  /\ b.peers = a.peers /\ b.valid = a.valid /\ b.expired = a.expired
  /\ b.resources = a.resources /\ b.routers = a.routers
SameMembership(a, b) == b.groupPeers = a.groupPeers /\ b.groupRes = a.groupRes

\* Groups that nothing names may change.
LEMMA AlikeGroups ==
  ASSUME NEW a, NEW b, SameRest(a, b),
         b.checks = a.checks, b.policies = a.policies, b.routes = a.routes, b.nsGroups = a.nsGroups, b.noDns = a.noDns,
         \A g : Counts(a, g) =>
           /\ g \in IdsOf(b) <=> g \in IdsOf(a)
           /\ g \in IdsOf(a) => b.groupPeers[g] = a.groupPeers[g] /\ b.groupRes[g] = a.groupRes[g]
  PROVE  Alike(a, b)
<1>1. ASSUME NEW gs, \A g \in gs : Counts(a, g)
      PROVE  SameGroups(a, b, gs) /\ (IsPopulated(b, gs) <=> IsPopulated(a, gs))
             /\ \A p : Meets(gs, GetPeerGroups(b.groupPeers, p)) <=> Meets(gs, GetPeerGroups(a.groupPeers, p))
  <2>1. SameGroups(a, b, gs)
    BY <1>1 DEF SameGroups
  <2>2. IsPopulated(b, gs) <=> IsPopulated(a, gs)
    BY <2>1 DEF SameGroups, IsPopulated
  <2>3. ASSUME NEW p
        PROVE  Meets(gs, GetPeerGroups(b.groupPeers, p)) <=> Meets(gs, GetPeerGroups(a.groupPeers, p))
    BY <2>1 DEF SameGroups, Meets, GetPeerGroups, IdsOf
  <2> QED  BY <2>1, <2>2, <2>3
<1>2. \A i \in DOMAIN a.policies : \A g \in RuleGroups(a.policies[i]) : Counts(a, g)
  BY DEF Counts
<1>3. SamePolicies(a, b)
  <2>1. \A i \in DOMAIN a.policies : IsLive(b, i) <=> IsLive(a, i)
    BY <1>1, <1>2 DEF IsLive, Enabled
  <2>2. \A i : IsLive(a, i) \/ IsLive(b, i) => i \in DOMAIN a.policies
    BY DEF IsLive, Enabled
  <2> QED  BY <1>1, <1>2, <2>1, <2>2 DEF SamePolicies
<1>4. SameRoutes(a, b)
  <2>1. \A x \in DOMAIN a.routes :
          /\ \A g \in a.routes[x].groups : Counts(a, g)
          /\ \A g \in a.routes[x].peerGroups : Counts(a, g)
          /\ \A g \in a.routes[x].groups \cup a.routes[x].peerGroups : Counts(a, g)
    BY DEF Counts, RouteGroups
  <2>2. \A x \in DOMAIN a.routes :
          IsLiveRoute(b, x) <=> IsLiveRoute(a, x)
    BY <1>1, <2>1 DEF IsLiveRoute
  <2>3. \A x : IsLiveRoute(a, x) \/ IsLiveRoute(b, x) => x \in DOMAIN a.routes
    BY DEF IsLiveRoute
  <2> QED  BY <1>1, <2>1, <2>2, <2>3 DEF SameRoutes
<1>5. SamePosture(a, b)
  BY DEF SamePosture, FirstFailed
<1>6. SameDns(a, b)
  <2>1. \A s \in DOMAIN a.nsGroups : \A g \in a.nsGroups[s].groups : Counts(a, g)
    BY DEF Counts
  <2>2. \A g \in a.noDns : Counts(a, g)
    BY DEF Counts
  <2>3. \A p : NameServersOf(b, p) = NameServersOf(a, p)
    BY <1>1, <2>1 DEF NameServersOf, Enabled
  <2>4. \A p : IsManaged(b, p) = IsManaged(a, p)
    BY <1>1, <2>2 DEF IsManaged
  <2> QED  BY <2>3, <2>4 DEF SameDns
<1>7. \A r \in Enabled(a.routers) : SameGroups(a, b, a.routers[r].peerGroups)
  <2>1. \A r \in Enabled(a.routers) : \A g \in a.routers[r].peerGroups : Counts(a, g)
    BY DEF Counts, Enabled
  <2> QED  BY <1>1, <2>1
<1> QED  BY <1>3, <1>4, <1>5, <1>6, <1>7 DEF Alike, SameRest

LEMMA AlikeObjects ==
  ASSUME NEW a, NEW b, SameRest(a, b), SameMembership(a, b),
         b.policies = a.policies \/ SamePolicies(a, b),
         b.routes = a.routes \/ SameRoutes(a, b),
         b.checks = a.checks \/ SamePosture(a, b),
         (b.nsGroups = a.nsGroups /\ b.noDns = a.noDns) \/ SameDns(a, b)
  PROVE  Alike(a, b)
<1>1. \A gs : SameGroups(a, b, gs)
  BY DEF SameGroups, SameMembership, IdsOf
<1>2. SamePolicies(a, b)
  BY <1>1 DEF SamePolicies, IsLive, IsPopulated, IdsOf, SameMembership
<1>3. SameRoutes(a, b)
  BY <1>1 DEF SameRoutes, IsLiveRoute, IsPopulated, IdsOf, SameMembership
<1>4. SamePosture(a, b)
  BY DEF SamePosture, FirstFailed
<1>5. SameDns(a, b)
  BY DEF SameDns, NameServersOf, IsManaged, SameMembership
<1> QED  BY <1>1, <1>2, <1>3, <1>4, <1>5 DEF Alike, SameRest

\* A policy that concerns nobody, before and after, may change.
LEMMA InertPolicy ==
  ASSUME NEW a, NEW b, SameMembership(a, b), NEW i, ~IsLive(a, i), ~IsLive(b, i),
         \A j : j # i => /\ j \in DOMAIN b.policies <=> j \in DOMAIN a.policies
                         /\ j \in DOMAIN a.policies => b.policies[j] = a.policies[j]
  PROVE  SamePolicies(a, b)
<1>1. \A gs : SameGroups(a, b, gs) /\ (IsPopulated(b, gs) <=> IsPopulated(a, gs))
  BY DEF SameGroups, SameMembership, IdsOf, IsPopulated
<1>2. ASSUME NEW j, j # i
      PROVE  /\ IsLive(b, j) <=> IsLive(a, j)
             /\ IsLive(a, j) => b.policies[j] = a.policies[j]
  <2>1. j \in Enabled(b.policies) <=> j \in Enabled(a.policies)
    BY <1>2 DEF Enabled
  <2>2. j \in Enabled(a.policies) => b.policies[j] = a.policies[j]
    BY <1>2 DEF Enabled
  <2> QED  BY <1>1, <2>1, <2>2 DEF IsLive
<1>3. ASSUME NEW j, IsLive(a, j) \/ IsLive(b, j)
      PROVE  /\ IsLive(a, j) /\ IsLive(b, j) /\ b.policies[j] = a.policies[j]
             /\ SameGroups(a, b, RuleGroups(a.policies[j]))
  <2>1. j # i
    BY <1>3
  <2> QED  BY <1>1, <1>2, <1>3, <2>1
<1> QED  BY <1>3 DEF SamePolicies

LEMMA InertRoute ==
  ASSUME NEW a, NEW b, SameMembership(a, b), NEW x, ~IsLiveRoute(a, x), ~IsLiveRoute(b, x),
         \A y : y # x => /\ y \in DOMAIN b.routes <=> y \in DOMAIN a.routes
                         /\ y \in DOMAIN a.routes => b.routes[y] = a.routes[y]
  PROVE  SameRoutes(a, b)
<1>1. \A gs : SameGroups(a, b, gs) /\ (IsPopulated(b, gs) <=> IsPopulated(a, gs))
  BY DEF SameGroups, SameMembership, IdsOf, IsPopulated
<1>2. ASSUME NEW y, y # x
      PROVE  /\ IsLiveRoute(b, y) <=> IsLiveRoute(a, y)
             /\ IsLiveRoute(a, y) => b.routes[y] = a.routes[y]
  BY <1>1, <1>2 DEF IsLiveRoute
<1>3. ASSUME NEW y, IsLiveRoute(a, y) \/ IsLiveRoute(b, y)
      PROVE  /\ IsLiveRoute(a, y) /\ IsLiveRoute(b, y) /\ b.routes[y] = a.routes[y]
             /\ SameGroups(a, b, a.routes[y].groups \cup a.routes[y].peerGroups)
  <2>1. y # x
    BY <1>3
  <2> QED  BY <1>1, <1>2, <1>3, <2>1
<1> QED  BY <1>3 DEF SameRoutes

\* A posture check may change that no policy in force refers to, or only one
\* that has nobody in its groups and does not name both a peer and a resource.
LEMMA InertCheck ==
  ASSUME NEW a, NEW b, NamesHold(a), GroupsHold(a), NEW k,
         \A j : j # k => /\ j \in DOMAIN b.checks <=> j \in DOMAIN a.checks
                         /\ j \in DOMAIN a.checks => b.checks[j] = a.checks[j],
         \A i \in Enabled(a.policies) :
           \/ \A j \in DOMAIN a.policies[i].checks : a.policies[i].checks[j] # k
           \/ /\ ~IsPopulated(a, RuleGroups(a.policies[i]))
              /\ a.policies[i].srcPeer = None \/ a.policies[i].dstRes = None
           \/ k \in DOMAIN a.checks /\ k \in DOMAIN b.checks /\ b.checks[k] = a.checks[k]
  PROVE  SamePosture(a, b)
<1> SUFFICES ASSUME NEW i, NEW q, IsLive(a, i), Judged(a, i, q)
             PROVE  FirstFailed(b, a.policies[i].checks, q) = FirstFailed(a, a.policies[i].checks, q)
  BY DEF SamePosture
<1> DEFINE r == a.policies[i]
<1>1. i \in Enabled(a.policies)
  BY DEF IsLive
<1>2. CASE \/ \A j \in DOMAIN r.checks : r.checks[j] # k
           \/ k \in DOMAIN a.checks /\ k \in DOMAIN b.checks /\ b.checks[k] = a.checks[k]
  <2>1. \A j \in DOMAIN r.checks : (r.checks[j] \in DOMAIN b.checks /\ q \in b.checks[r.checks[j]])
                                   <=> (r.checks[j] \in DOMAIN a.checks /\ q \in a.checks[r.checks[j]])
    BY <1>2
  <2> HIDE DEF r
  <2>2. FirstFailed(b, r.checks, q) = FirstFailed(a, r.checks, q)
    BY <2>1 DEF FirstFailed
  <2> QED  BY <2>2 DEF r
<1>3. CASE ~IsPopulated(a, RuleGroups(r)) /\ (r.srcPeer = None \/ r.dstRes = None)
  <2>1. \A g \in RuleGroups(r) \cap IdsOf(a) : a.groupPeers[g] = {} /\ a.groupRes[g] = {}
    BY <1>3 DEF IsPopulated
  <2>2. Members(r.sources, a.groupPeers) = {}
    BY <2>1 DEF Members, RuleGroups, IdsOf
  <2>3. PICK n \in Enabled(a.resources) : i \in Ids(a, n) /\ q \in ResSrc(a, i)
    BY <2>2 DEF Judged
  <2>4. r.srcPeer # None
    BY <2>2, <2>3 DEF ResSrc, GetResourcePolicyPeers
  <2>5. r.dstRes # n
    BY <1>3, <2>3, <2>4 DEF NamesHold, Enabled
  <2>6. ~Meets(r.destinations, Having(a, n))
    BY <2>1 DEF Meets, Having, RuleGroups, GroupsHold
  <2> QED  BY <2>3, <2>5, <2>6, IdsAre
<1> QED  BY <1>1, <1>2, <1>3

\* Name servers that nobody has, before and after, may change.
LEMMA InertNameServers ==
  ASSUME NEW a, NEW b, SameMembership(a, b), b.noDns = a.noDns, NEW s,
         \A t : t # s => /\ t \in DOMAIN b.nsGroups <=> t \in DOMAIN a.nsGroups
                         /\ t \in DOMAIN a.nsGroups => b.nsGroups[t] = a.nsGroups[t],
         s \in Enabled(a.nsGroups) => ~IsPopulated(a, a.nsGroups[s].groups),
         s \in Enabled(b.nsGroups) => ~IsPopulated(a, b.nsGroups[s].groups)
  PROVE  SameDns(a, b)
<1>1. \A gs : ~IsPopulated(a, gs) => \A p : ~Meets(gs, GetPeerGroups(a.groupPeers, p))
  BY DEF IsPopulated, Meets, GetPeerGroups, IdsOf
<1>2. \A t, p : t \in NameServersOf(b, p) <=> t \in NameServersOf(a, p)
  <2>1. ASSUME NEW p PROVE s \notin NameServersOf(b, p) /\ s \notin NameServersOf(a, p)
    BY <1>1 DEF NameServersOf, SameMembership
  <2>2. ASSUME NEW t, NEW p, t # s PROVE t \in NameServersOf(b, p) <=> t \in NameServersOf(a, p)
    BY <2>2 DEF NameServersOf, Enabled, SameMembership
  <2> QED  BY <2>1, <2>2
<1>3. \A p : NameServersOf(b, p) = NameServersOf(a, p)
  <2> SUFFICES ASSUME NEW p PROVE NameServersOf(b, p) = NameServersOf(a, p)
    OBVIOUS
  <2>1. \A t : t \in NameServersOf(b, p) <=> t \in NameServersOf(a, p)
    BY <1>2
  <2> QED  BY <2>1 DEF NameServersOf
<1>4. \A p : IsManaged(b, p) = IsManaged(a, p)
  BY DEF IsManaged, SameMembership
<1> QED  BY <1>3, <1>4 DEF SameDns

\* Groups without members may get or lose managed DNS.
LEMMA InertDns ==
  ASSUME NEW a, NEW b, SameMembership(a, b), b.nsGroups = a.nsGroups,
         ~IsPopulated(a, b.noDns \ a.noDns), ~IsPopulated(a, a.noDns \ b.noDns)
  PROVE  SameDns(a, b)
<1>1. \A p : NameServersOf(b, p) = NameServersOf(a, p)
  BY DEF NameServersOf, SameMembership
<1>2. \A g \in IdsOf(a) : g \in b.noDns \ a.noDns \/ g \in a.noDns \ b.noDns => a.groupPeers[g] = {}
  BY DEF IsPopulated
<1>3. \A p : Meets(b.noDns, GetPeerGroups(a.groupPeers, p)) <=> Meets(a.noDns, GetPeerGroups(a.groupPeers, p))
  BY <1>2 DEF Meets, GetPeerGroups, IdsOf
<1>4. \A p : IsManaged(b, p) = IsManaged(a, p)
  BY <1>3 DEF IsManaged, SameMembership
<1> QED  BY <1>1, <1>4 DEF SameDns

-----------------------------------------------------------------------------
(* Ids are real ids along every behaviour. *)

NamesInv ==
  /\ ProxyInv
  /\ NamesHold(acct)
  /\ \A c \in DOMAIN joining : joining[c].peer # None

Introduces(ps) ==
  /\ acct'.peers \subseteq acct.peers \cup ps
  /\ DOMAIN acct'.resources \subseteq DOMAIN acct.resources \cup scope.resources
  /\ DOMAIN acct'.policies \subseteq DOMAIN acct.policies \cup scope.policies

LEMMA ConfigNames ==
  ASSUME Consistent(acct), Next
  PROVE  Introduces({})
<1>1. ASSUME acct'.peers \subseteq acct.peers, DOMAIN acct'.resources \subseteq DOMAIN acct.resources,
             DOMAIN acct'.policies \subseteq DOMAIN acct.policies
      PROVE  Introduces({})
  BY <1>1 DEF Introduces
<1>2. CASE GroupOperation
  <2>1. acct'.peers = acct.peers /\ acct'.resources = acct.resources /\ acct'.policies = acct.policies
    BY <1>2, ZenonT(30) DEF GroupOperation, CreateGroup, UpdateGroup, UpdateGroups, GroupAddPeer, GroupDeletePeer,
       GroupAddResource, GroupDeleteResource, DeleteGroups, WithGroup, Consistent, Fields, Commit
  <2> QED  BY <1>1, <2>1
<1>3. CASE PolicyOperation
  <2>1. acct'.peers = acct.peers /\ acct'.resources = acct.resources
    BY <1>3 DEF PolicyOperation, DeletePolicy, SavePolicy, DeletePostureChecks, SavePostureChecks,
       Consistent, Fields, Commit
  <2>2. ASSUME NEW i \in scope.policies, DeletePolicy(i)
        PROVE  DOMAIN acct'.policies \subseteq DOMAIN acct.policies
    <3>1. acct'.policies = Drop(acct.policies, {i})
      BY <2>2 DEF DeletePolicy, Consistent, Fields, Commit
    <3> QED  BY <3>1 DEF Drop
  <2>3. ASSUME NEW i \in scope.policies, NEW r, SavePolicy(i, r)
        PROVE  DOMAIN acct'.policies = DOMAIN acct.policies \cup {i}
    <3>1. acct'.policies = Put(acct.policies, i, ValidatePolicy(r))
      BY <2>3 DEF SavePolicy, Consistent, Fields, Commit
    <3> QED  BY <3>1 DEF Put
  <2>4. ASSUME NEW k, NEW ps, DeletePostureChecks(k) \/ SavePostureChecks(k, ps)
        PROVE  acct'.policies = acct.policies
    BY <2>4 DEF DeletePostureChecks, SavePostureChecks, Consistent, Fields, Commit
  <2> QED  BY <1>3, <2>1, <2>2, <2>3, <2>4 DEF PolicyOperation, Introduces
<1>4. CASE RouteOperation
  <2>1. acct'.peers = acct.peers /\ acct'.resources = acct.resources /\ acct'.policies = acct.policies
    BY <1>4 DEF RouteOperation, DeleteRoute, CreateRoute, SaveRoute, Consistent, Fields, Commit
  <2> QED  BY <1>1, <2>1
<1>5. CASE DnsOperation
  <2>1. acct'.peers = acct.peers /\ acct'.resources = acct.resources /\ acct'.policies = acct.policies
    BY <1>5, ZenonT(30) DEF DnsOperation, DeleteNameServerGroup, CreateNameServerGroup, SaveNameServerGroup,
       SaveDNSSettings, DeleteZone, CreateRecord, DeleteRecord, CreateZone, UpdateZone, Consistent, Fields, Commit
  <2> QED  BY <1>1, <2>1
<1>6. CASE NetworkOperation
  <2>1. acct'.peers = acct.peers /\ acct'.policies = acct.policies
    BY <1>6, ZenonT(30) DEF NetworkOperation, CreateNetwork, DeleteNetwork, DeleteRouter, CreateRouter,
       UpdateRouter, DeleteResource, CreateResource, UpdateResource, WithResource, WithoutResources,
          Consistent, Fields, Commit
  <2>2. ASSUME NEW net, NEW r, NEW new,
               \/ CreateNetwork(net) \/ DeleteRouter(r) \/ CreateRouter(r, new) \/ UpdateRouter(r, new)
        PROVE  acct'.resources = acct.resources
    BY <2>2 DEF CreateNetwork, DeleteRouter, CreateRouter, UpdateRouter, Consistent, Fields, Commit
  <2>3. ASSUME NEW net, NEW n, DeleteNetwork(net) \/ DeleteResource(n)
        PROVE  DOMAIN acct'.resources \subseteq DOMAIN acct.resources
    <3>1. PICK ns, f, h : acct' = [WithoutResources(ns) EXCEPT !.routers = f, !.networks = h] \/ acct' = WithoutResources(ns)
      BY <2>3 DEF DeleteNetwork, DeleteResource, Consistent, Fields, Commit
    <3>2. acct'.resources = Drop(acct.resources, ns)
      BY <3>1 DEF WithoutResources, Consistent, Fields, Commit
    <3> QED  BY <3>2 DEF Drop
  <2>4. ASSUME NEW n \in scope.resources, NEW new, NEW gs, CreateResource(n, new, gs) \/ UpdateResource(n, new, gs)
        PROVE  DOMAIN acct'.resources = DOMAIN acct.resources \cup {n}
    <3>1. acct'.resources = Put(acct.resources, n, new)
      BY <2>4 DEF CreateResource, UpdateResource, WithResource, Consistent, Fields, Commit
    <3> QED  BY <3>1 DEF Put
  <2> QED  BY <1>6, <2>1, <2>2, <2>3, <2>4 DEF NetworkOperation, Introduces, Consistent, Fields, Commit
<1>7. ASSUME NEW p, DeletePeer(p)
      PROVE  Introduces({})
  <2>1. acct'.peers \subseteq acct.peers /\ acct'.resources = acct.resources
    BY <1>7 DEF DeletePeer, WithoutPeers, Consistent, Fields, Commit
  <2>2. PICK is : acct'.policies = Drop(acct.policies, is)
    BY <1>7 DEF DeletePeer, WithoutPeers, Consistent, Fields, Commit
  <2> QED  BY <1>1, <2>1, <2>2 DEF Drop
<1> QED  BY <1>2, <1>3, <1>4, <1>5, <1>6, <1>7 DEF Next

LEMMA StaysIntroduced ==
  ASSUME acct'.peers = acct.peers, acct'.resources = acct.resources, acct'.policies = acct.policies
  PROVE  Introduces({})
  BY DEF Introduces

LEMMA MembersName ==
  ASSUME Consistent(acct), \A c \in DOMAIN joining : joining[c].peer # None, scope.newcomers \subseteq Peers,
         None \notin Peers, MNext
  PROVE  /\ Introduces({}) \/ \E p : p # None /\ Introduces({p})
         /\ \A c \in DOMAIN joining' : joining'[c].peer # None
<1>1. CASE Next /\ UNCHANGED reads
  BY <1>1, ConfigNames DEF reads
<1>2. CASE KeyOperation /\ UNCHANGED reads
  BY <1>2, StaysIntroduced DEF KeyOperation, DeleteSetupKey, CreateSetupKey, SaveSetupKey, reads,
     Consistent, Fields, Commit
<1>3. ASSUME NEW c, AddPeer(c)
      PROVE  /\ Introduces({}) \/ \E p : p # None /\ Introduces({p})
             /\ \A d \in DOMAIN joining' : joining'[d].peer # None
  <2>1. joining[c].peer # None /\ \A d \in DOMAIN joining' : joining'[d].peer # None
    <3>1. c \in DOMAIN joining /\ joining' = Drop(joining, {c})
      BY <1>3 DEF AddPeer, Consistent, Fields, Commit
    <3> QED  BY <3>1 DEF Drop
  <2>2. CASE acct' = acct
    BY <2>1, <2>2, StaysIntroduced
  <2>3. CASE acct' = Enrolled(joining[c])
    <3>1. acct'.peers = acct.peers \cup {joining[c].peer} /\ acct'.resources = acct.resources
          /\ acct'.policies = acct.policies
      BY <2>3 DEF Enrolled, Consistent, Fields, Commit
    <3>2. Introduces({joining[c].peer})
      BY <3>1 DEF Introduces
    <3> QED  BY <2>1, <3>2
  <2> QED  BY <1>3, <2>2, <2>3 DEF AddPeer, vars, Consistent, Fields, Commit
<1>4. ASSUME NEW u, NEW gs, SaveUser(u, gs) \/ AddUser(u, gs) \/ SyncUserJWTGroups(u, gs)
      PROVE  Introduces({}) /\ joining' = joining
  BY <1>4, StaysIntroduced DEF SaveUser, AddUser, SyncUserJWTGroups, Consistent, Fields, Commit
<1>5. ASSUME NEW on, SetGroupsPropagation(on)
      PROVE  Introduces({})
  BY <1>5, StaysIntroduced DEF SetGroupsPropagation, Consistent, Fields, Commit
<1>6. ASSUME NEW u, DeleteUser(u)
      PROVE  Introduces({})
  <2>1. acct'.peers \subseteq acct.peers /\ acct'.resources = acct.resources
    BY <1>6 DEF DeleteUser, WithoutPeers, Consistent, Fields, Commit
  <2>2. PICK is : acct'.policies = Drop(acct.policies, is)
    BY <1>6 DEF DeleteUser, WithoutPeers, Consistent, Fields, Commit
  <2> QED  BY <2>1, <2>2 DEF Drop, Introduces
<1>7. ASSUME NEW c, NEW p \in scope.newcomers, NEW k, HandleSetupKeyAddedPeer(c, p, k) \/ HandleUserAddedPeer(c, p, k)
      PROVE  Introduces({}) /\ \A d \in DOMAIN joining' : joining'[d].peer # None
  <2>1. acct' = acct
    BY <1>7 DEF HandleSetupKeyAddedPeer, HandleUserAddedPeer, ReadBefore, vars
  <2>2. PICK gs, l, u : joining' = Put(joining, c, [peer |-> p, groups |-> gs, key |-> l, user |-> u])
    BY <1>7 DEF HandleSetupKeyAddedPeer, HandleUserAddedPeer, ReadBefore
  <2>3. p # None
    OBVIOUS
  <2>4. \A d \in DOMAIN joining' : joining'[d].peer # None
    BY <2>2, <2>3 DEF Put
  <2> QED  BY <2>1, <2>4, StaysIntroduced
<1>8. CASE ReadAccountGroups
  BY <1>8, StaysIntroduced DEF ReadAccountGroups, vars
<1> QED  BY <1>1, <1>2, <1>3, <1>4, <1>5, <1>6, <1>7, <1>8 DEF MNext, reads

LEMMA ServicesName ==
  ASSUME Consistent(acct), SNext, ~MNext
  PROVE  Introduces({}) /\ joining' = joining
<1>1. ASSUME NEW a, \E ss : a = WithoutServices(ss) \/ \E s, svc : a = WithService(s, svc)
      PROVE  a.peers = acct.peers /\ a.resources = acct.resources /\ a.policies = acct.policies
  BY <1>1 DEF WithoutServices, WithService, Consistent, Fields, Commit
<1>2. ASSUME NEW h, NEW s, NEW p, NEW offer,
             \/ CreateService(h, s, offer) \/ UpdateService(h, s, offer) \/ CreateServiceFromPeer(h, s, p, offer)
             \/ DeleteService(h, s) \/ DeleteAllServices(h) \/ StopServiceFromPeer(h, s, p)
      PROVE  Introduces({}) /\ joining' = joining
  <2>1. PICK ss : acct' = WithoutServices(ss) \/ \E x, svc : acct' = WithService(x, svc)
    BY <1>2 DEF CreateService, UpdateService, CreateServiceFromPeer, PersistNewService, DeleteService,
       DeleteAllServices, StopServiceFromPeer, Changed, Consistent, Fields, Commit
  <2>2. joining' = joining
    BY <1>2 DEF CreateService, UpdateService, CreateServiceFromPeer, PersistNewService, DeleteService,
       DeleteAllServices, StopServiceFromPeer, Changed, reads, Consistent, Fields, Commit
  <2> QED  BY <1>1, <2>1, <2>2, StaysIntroduced
<1>3. ASSUME NEW h, NEW s, NEW p, DeleteExpiredPeerService(h, s, p)
      PROVE  Introduces({}) /\ joining' = joining
  <2>1. CASE acct' = acct
    BY <1>3, <2>1, StaysIntroduced DEF DeleteExpiredPeerService, Changed, reads, memberVars, Consistent, Fields, Commit
  <2>2. CASE acct' # acct
    <3>1. acct' = WithoutServices({s}) /\ joining' = joining
      BY <1>3, <2>2 DEF DeleteExpiredPeerService, Changed, reads, memberVars, vars, Consistent, Fields, Commit
    <3> QED  BY <1>1, <3>1, StaysIntroduced
  <2> QED  BY <2>1, <2>2
<1>4. ASSUME NEW h, NEW p, ReloadAllServicesForAccount(h) \/ ReapExpiredExposes \/ GetServiceIDByTargetID(p)
      PROVE  Introduces({}) /\ joining' = joining
  BY <1>4, StaysIntroduced DEF ReloadAllServicesForAccount, ReapExpiredExposes, GetServiceIDByTargetID,
     memberVars, vars, reads
<1>5. ASSUME NEW s, RenewServiceFromPeer(s) \/ Expire(s)
      PROVE  Introduces({}) /\ joining' = joining
  BY <1>5, StaysIntroduced DEF RenewServiceFromPeer, Expire, reads, Consistent, Fields, Commit
<1>6. ASSUME NEW p, DeleteUnusedPeer(p)
      PROVE  Introduces({}) /\ joining' = joining
  <2>1. acct'.peers \subseteq acct.peers /\ acct'.resources = acct.resources /\ joining' = joining
    BY <1>6 DEF DeleteUnusedPeer, DeletePeer, WithoutPeers, reads, Consistent, Fields, Commit
  <2>2. PICK is : acct'.policies = Drop(acct.policies, is)
    BY <1>6 DEF DeleteUnusedPeer, DeletePeer, WithoutPeers, Consistent, Fields, Commit
  <2> QED  BY <2>1, <2>2 DEF Drop, Introduces
<1> QED  BY <1>2, <1>3, <1>4, <1>5, <1>6 DEF SNext

LEMMA NamesStep == NamesInv /\ [PNext]_allVars => NamesInv'
<1> SUFFICES ASSUME NamesInv, [PNext]_allVars PROVE NamesInv'
  OBVIOUS
<1>1. ProxyInv'
  BY ProxyStep DEF NamesInv
<1>2. /\ Consistent(acct) /\ scope \in Scopes
      /\ scope.newcomers \subseteq Peers /\ None \notin Peers /\ None \notin scope.resources
      /\ scope.policies \subseteq 1 .. (FirstProxyPolicy - 1)
  BY IdsAssumption DEF NamesInv, ProxyInv, AccountInv
<1>3. ASSUME NEW ps, None \notin ps, Introduces(ps)
      PROVE  NamesHold(acct')
  BY <1>2, <1>3 DEF NamesInv, NamesHold, Introduces
<1>4. ASSUME Introduces({}) \/ \E p : p # None /\ Introduces({p})
      PROVE  NamesHold(acct')
  BY <1>3, <1>4
<1>5. CASE MNext
  BY <1>1, <1>2, <1>4, <1>5, MembersName DEF NamesInv
<1>6. CASE SNext /\ ~MNext
  BY <1>1, <1>2, <1>4, <1>6, ServicesName DEF NamesInv
<1>7. CASE UNCHANGED memberVars
  BY <1>1, <1>7 DEF NamesInv, NamesHold, memberVars, vars, reads
<1> QED  BY <1>5, <1>6, <1>7 DEF PNext, SendServiceUpdateToCluster, allVars

LEMMA NamesStart == PInit => NamesInv
<1> SUFFICES ASSUME PInit PROVE NamesInv
  OBVIOUS
<1>1. ProxyInv
  BY ProxyStart
<1>2. scope \in Scopes /\ acct.peers \subseteq Peers /\ acct.policies = <<>> /\ acct.resources = <<>> /\ joining = <<>>
  BY DEF PInit, SInit, MInit, Init
<1>3. DOMAIN <<>> = {}
  OBVIOUS
<1> QED  BY <1>1, <1>2, <1>3, IdsAssumption DEF NamesInv, NamesHold

-----------------------------------------------------------------------------
(* A step that tells nobody leaves the maps as they are. *)

\* The account before and after gives the same maps, zones apart where the
\* operation sends the maps under the old serial.
Quiet ==
  /\ Alike(acct, acct') /\ Uses(acct') = Uses(acct)
  /\ \/ updated' \/ acct'.zones = acct.zones
     \/ \A p : ZonesOf(acct', p) = ZonesOf(acct, p)

IsTold == updated' /\ bumped'

\* What Alike does not speak of and the maps are made from.
Basics == {"peers", "valid", "expired", "routers", "resources", "zones", "services", "embedded"}

LEMMA QuietChange ==
  ASSUME \A f \in Basics : acct'[f] = acct[f], Alike(acct, acct')
  PROVE  Quiet
<1>1. acct'.peers = acct.peers /\ acct'.services = acct.services /\ acct'.embedded = acct.embedded
      /\ acct'.zones = acct.zones
  BY DEF Basics
<1>2. Uses(acct') = Uses(acct)
  BY <1>1 DEF Uses
<1> QED  BY <1>1, <1>2 DEF Quiet

LEMMA RestKept ==
  ASSUME \A f \in Basics : acct'[f] = acct[f]
  PROVE  SameRest(acct, acct')
  BY DEF Basics, SameRest

LEMMA NothingChanges ==
  ASSUME acct' = acct
  PROVE  Quiet
<1>1. Alike(acct, acct')
  BY AlikeObjects DEF SameRest, SameMembership
<1> QED  BY <1>1, QuietChange

LEMMA CountsIsAffects ==
  ASSUME NEW g
  PROVE  Counts(acct, g) <=> AreGroupChangesAffectPeers(g)
  BY DEF Counts, AreGroupChangesAffectPeers, IsGroupLinkedToDns, IsGroupLinkedToPolicy, IsGroupLinkedToRoute,
     IsGroupLinkedToNetworkRouter

LEMMA QuietGroups ==
  ASSUME \A f \in Fields \ {"groupPeers", "groupRes", "users", "jwt", "propagates"} : acct'[f] = acct[f],
         \A g : AreGroupChangesAffectPeers(g) =>
           /\ g \in DOMAIN acct'.groupPeers <=> g \in Groups
           /\ g \in Groups => acct'.groupPeers[g] = acct.groupPeers[g] /\ acct'.groupRes[g] = acct.groupRes[g]
  PROVE  Quiet
<1>1. \A f \in Basics : acct'[f] = acct[f]
  BY DEF Basics, Fields
<1>2. acct'.checks = acct.checks /\ acct'.policies = acct.policies /\ acct'.routes = acct.routes
      /\ acct'.nsGroups = acct.nsGroups /\ acct'.noDns = acct.noDns
  BY DEF Fields
<1>3. Alike(acct, acct')
  BY <1>1, <1>2, RestKept, AlikeGroups, CountsIsAffects DEF IdsOf, Groups
<1> QED  BY <1>1, <1>3, QuietChange

LEMMA GroupIsQuiet ==
  ASSUME Consistent(acct), NEW g, NEW ps, NEW rs, acct' = WithGroup(g, ps, rs), ~AreGroupChangesAffectPeers(g)
  PROVE  Quiet
<1>1. /\ \A f \in Fields \ {"groupPeers", "groupRes"} : acct'[f] = acct[f]
      /\ acct'.groupPeers = Put(acct.groupPeers, g, ps) /\ acct'.groupRes = Put(acct.groupRes, g, rs)
  BY DEF WithGroup, Consistent, Fields
<1>2. DOMAIN acct.groupRes = Groups
  BY DEF Consistent, GroupsHold, Groups, IdsOf
<1>3. \A h : h # g =>
        /\ h \in DOMAIN acct'.groupPeers <=> h \in Groups
        /\ h \in Groups => acct'.groupPeers[h] = acct.groupPeers[h] /\ acct'.groupRes[h] = acct.groupRes[h]
  BY <1>1, <1>2 DEF Put, Groups
<1> QED  BY <1>1, <1>3, QuietGroups

LEMMA GroupOperationTells ==
  ASSUME Consistent(acct), GroupOperation
  PROVE  IsTold \/ Quiet
<1>1. ASSUME NEW g, NEW ps, NEW rs, Commit(WithGroup(g, ps, rs), AreGroupChangesAffectPeers(g), TRUE)
      PROVE  IsTold \/ Quiet
  BY <1>1, GroupIsQuiet DEF Commit, IsTold
<1>2. ASSUME NEW gs, DeleteGroups(gs)
      PROVE  Quiet
  <2>1. PICK gone : /\ \A g \in gone : ValidateDeleteGroup(g)
                    /\ acct' = [acct EXCEPT !.groupPeers = Drop(@, gone), !.groupRes = Drop(@, gone),
                                            !.jwt = @ \ gone]
    BY <1>2 DEF DeleteGroups, Commit
  <2>2. /\ \A f \in Fields \ {"groupPeers", "groupRes", "jwt"} : acct'[f] = acct[f]
        /\ acct'.groupPeers = Drop(acct.groupPeers, gone) /\ acct'.groupRes = Drop(acct.groupRes, gone)
    BY <2>1 DEF Consistent, Fields
  <2>3. \A g : AreGroupChangesAffectPeers(g) => g \notin gone
    BY <2>1 DEF ValidateDeleteGroup, AreGroupChangesAffectPeers
  <2>4. DOMAIN acct.groupRes = Groups
    BY DEF Consistent, GroupsHold, Groups, IdsOf
  <2>5. \A h : h \notin gone =>
          /\ h \in DOMAIN acct'.groupPeers <=> h \in Groups
          /\ h \in Groups => acct'.groupPeers[h] = acct.groupPeers[h] /\ acct'.groupRes[h] = acct.groupRes[h]
    BY <2>2, <2>4 DEF Drop, Groups
  <2> QED  BY <2>2, <2>3, <2>5, QuietGroups
<1>3. ASSUME NEW g, NEW ps, NEW rs, NEW p, NEW n,
             \/ CreateGroup(g, ps, rs) \/ UpdateGroup(g, ps, rs) \/ UpdateGroups(g, rs)
             \/ GroupAddPeer(g, p) \/ GroupDeletePeer(g, p) \/ GroupAddResource(g, n) \/ GroupDeleteResource(g, n)
      PROVE  IsTold \/ Quiet
  BY <1>1, <1>3 DEF CreateGroup, UpdateGroup, UpdateGroups, GroupAddPeer, GroupDeletePeer, GroupAddResource,
     GroupDeleteResource
<1> QED  BY <1>2, <1>3 DEF GroupOperation

LEMMA AnyoneIsPopulated ==
  ASSUME NEW gs
  PROVE  IsPopulated(acct, gs) <=> AnyGroupHasPeersOrResources(gs)
  BY DEF IsPopulated, AnyGroupHasPeersOrResources, Groups, IdsOf

LEMMA LiveAffects ==
  ASSUME NEW b, SameMembership(acct, b), NEW i, IsLive(b, i)
  PROVE  i \in DOMAIN b.policies /\ b.policies[i].enabled /\ ArePolicyChangesAffectPeers(b.policies[i])
<1>1. \A gs : IsPopulated(b, gs) => AnyGroupHasPeersOrResources(gs)
  BY DEF IsPopulated, AnyGroupHasPeersOrResources, Groups, IdsOf, SameMembership
<1> QED  BY <1>1 DEF IsLive, Enabled, ArePolicyChangesAffectPeers

LEMMA QuietPolicy ==
  ASSUME Consistent(acct), \A f \in Fields \ {"policies"} : acct'[f] = acct[f],
         NEW i, ~IsLive(acct, i), ~IsLive(acct', i),
         \A j : j # i => /\ j \in DOMAIN acct'.policies <=> j \in DOMAIN acct.policies
                         /\ j \in DOMAIN acct.policies => acct'.policies[j] = acct.policies[j]
  PROVE  Quiet
<1>1. \A f \in Basics : acct'[f] = acct[f]
  BY DEF Basics, Fields
<1>2. acct'.checks = acct.checks /\ acct'.routes = acct.routes
      /\ acct'.nsGroups = acct.nsGroups /\ acct'.noDns = acct.noDns
      /\ acct'.groupPeers = acct.groupPeers /\ acct'.groupRes = acct.groupRes
  BY DEF Fields
<1>3. SamePolicies(acct, acct')
  BY <1>2, InertPolicy DEF SameMembership
<1>4. Alike(acct, acct')
  BY <1>1, <1>2, <1>3, RestKept, AlikeObjects DEF SameMembership
<1> QED  BY <1>1, <1>4, QuietChange

LEMMA QuietCheck ==
  ASSUME Sound(acct), \A f \in Fields \ {"checks"} : acct'[f] = acct[f], NEW k,
         \A j : j # k => /\ j \in DOMAIN acct'.checks <=> j \in DOMAIN acct.checks
                         /\ j \in DOMAIN acct.checks => acct'.checks[j] = acct.checks[j],
         \A i \in Enabled(acct.policies) :
           \/ \A j \in DOMAIN acct.policies[i].checks : acct.policies[i].checks[j] # k
           \/ /\ ~IsPopulated(acct, RuleGroups(acct.policies[i]))
              /\ acct.policies[i].srcPeer = None \/ acct.policies[i].dstRes = None
           \/ k \in DOMAIN acct.checks /\ k \in DOMAIN acct'.checks /\ acct'.checks[k] = acct.checks[k]
  PROVE  Quiet
<1>1. \A f \in Basics : acct'[f] = acct[f]
  BY DEF Basics, Fields
<1>2. acct'.policies = acct.policies /\ acct'.routes = acct.routes
      /\ acct'.nsGroups = acct.nsGroups /\ acct'.noDns = acct.noDns
      /\ acct'.groupPeers = acct.groupPeers /\ acct'.groupRes = acct.groupRes
  BY DEF Fields
<1>0. NamesHold(acct) /\ GroupsHold(acct)
  BY DEF Sound, Consistent
<1>3. SamePosture(acct, acct')
  BY <1>0, InertCheck
<1>4. Alike(acct, acct')
  BY <1>1, <1>2, <1>3, RestKept, AlikeObjects DEF SameMembership
<1> QED  BY <1>1, <1>4, QuietChange

LEMMA PolicyOperationTells ==
  ASSUME Sound(acct), PolicyOperation, ~ChecksNamedPeer
  PROVE  IsTold \/ Quiet
<1>0. DOMAIN acct = Fields /\ Consistent(acct)
  BY DEF Sound, Consistent
<1>1. ASSUME NEW i, DeletePolicy(i)
      PROVE  IsTold \/ Quiet
  <2>1. /\ \A f \in Fields \ {"policies"} : acct'[f] = acct[f]
        /\ acct'.policies = Drop(acct.policies, {i})
    BY <1>0, <1>1 DEF DeletePolicy, Commit, Fields
  <2>2. IsTold \/ ~ArePolicyChangesAffectPeers(acct.policies[i])
    BY <1>1 DEF DeletePolicy, Commit, IsTold
  <2>3. ~ArePolicyChangesAffectPeers(acct.policies[i]) => ~IsLive(acct, i)
    BY LiveAffects DEF SameMembership
  <2>4. ~IsLive(acct', i)
    BY <2>1 DEF IsLive, Enabled, Drop
  <2>5. \A j : j # i => /\ j \in DOMAIN acct'.policies <=> j \in DOMAIN acct.policies
                        /\ j \in DOMAIN acct.policies => acct'.policies[j] = acct.policies[j]
    BY <2>1 DEF Drop
  <2> QED  BY <1>0, <2>1, <2>2, <2>3, <2>4, <2>5, QuietPolicy
<1>2. ASSUME NEW i, NEW r, SavePolicy(i, r)
      PROVE  IsTold \/ Quiet
  <2> DEFINE new == ValidatePolicy(r)
  <2>1. acct' = [acct EXCEPT !.policies = Put(@, i, new)]
    BY <1>2 DEF SavePolicy, Commit
  <2>2. IsTold \/ IF i \notin DOMAIN acct.policies THEN ~ArePolicyChangesAffectPeers(new)
                  ELSE ~ArePolicyChangesAffectPeersWithExisting(new, acct.policies[i])
    BY <1>2 DEF SavePolicy, Commit, IsTold
  <2> HIDE DEF new
  <2>3. /\ \A f \in Fields \ {"policies"} : acct'[f] = acct[f]
        /\ acct'.policies = Put(acct.policies, i, new)
    BY <1>0, <2>1 DEF Fields
  <2>4. SameMembership(acct, acct') /\ SameMembership(acct, acct)
    BY <2>3 DEF SameMembership, Fields
  <2>5. acct'.policies[i] = new
    BY <2>3 DEF Put
  <2>6. IsTold \/ (~IsLive(acct, i) /\ ~IsLive(acct', i))
    BY <2>2, <2>4, <2>5, LiveAffects DEF ArePolicyChangesAffectPeersWithExisting
  <2>7. \A j : j # i => /\ j \in DOMAIN acct'.policies <=> j \in DOMAIN acct.policies
                        /\ j \in DOMAIN acct.policies => acct'.policies[j] = acct.policies[j]
    BY <2>3 DEF Put
  <2> QED  BY <1>0, <2>3, <2>6, <2>7, QuietPolicy
<1>3. ASSUME NEW k, DeletePostureChecks(k)
      PROVE  Quiet
  <2>1. /\ \A f \in Fields \ {"checks"} : acct'[f] = acct[f]
        /\ acct'.checks = Drop(acct.checks, {k})
    BY <1>0, <1>3 DEF DeletePostureChecks, Commit, Fields
  <2>2. \A j : j # k => /\ j \in DOMAIN acct'.checks <=> j \in DOMAIN acct.checks
                        /\ j \in DOMAIN acct.checks => acct'.checks[j] = acct.checks[j]
    BY <2>1 DEF Drop
  <2>3. \A i \in Enabled(acct.policies) : \A j \in DOMAIN acct.policies[i].checks : acct.policies[i].checks[j] # k
    BY <1>3 DEF DeletePostureChecks, PoliciesWithCheck, Enabled
  <2> QED  BY <2>1, <2>2, <2>3, QuietCheck
<1>4. ASSUME NEW k, NEW ps, SavePostureChecks(k, ps)
      PROVE  IsTold \/ Quiet
  <2>1. /\ \A f \in Fields \ {"checks"} : acct'[f] = acct[f]
        /\ acct'.checks = Put(acct.checks, k, ps)
    BY <1>0, <1>4 DEF SavePostureChecks, Commit, Fields
  <2>2. \A j : j # k => /\ j \in DOMAIN acct'.checks <=> j \in DOMAIN acct.checks
                        /\ j \in DOMAIN acct.checks => acct'.checks[j] = acct.checks[j]
    BY <2>1 DEF Put
  <2>3. CASE k \notin DOMAIN acct.checks
    <3>1. \A i \in Enabled(acct.policies) : \A j \in DOMAIN acct.policies[i].checks : acct.policies[i].checks[j] # k
      BY <2>3, <1>0 DEF Consistent, PoliciesHold, RuleHolds, Enabled
    <3> QED  BY <2>1, <2>2, <3>1, QuietCheck
  <2>4. CASE k \in DOMAIN acct.checks /\ acct.checks[k] = ps
    <3>1. k \in DOMAIN acct'.checks /\ acct'.checks[k] = acct.checks[k]
      BY <2>1, <2>4 DEF Put
    <3> QED  BY <2>1, <2>2, <2>4, <3>1, QuietCheck
  <2>5. CASE k \in DOMAIN acct.checks /\ acct.checks[k] # ps /\ ~IsTold
    <3>1. ~ArePostureCheckChangesAffectPeers(k)
      BY <1>4, <2>5 DEF SavePostureChecks, Commit, IsTold
    <3>2. ASSUME NEW i \in Enabled(acct.policies), NEW j \in DOMAIN acct.policies[i].checks,
                 acct.policies[i].checks[j] = k
          PROVE  /\ ~IsPopulated(acct, RuleGroups(acct.policies[i]))
                 /\ acct.policies[i].srcPeer = None \/ acct.policies[i].dstRes = None
      <4>1. i \in PoliciesWithCheck(k)
        BY <3>2 DEF PoliciesWithCheck, Enabled
      <4>2. ~IsPopulated(acct, RuleGroups(acct.policies[i]))
        BY <3>1, <4>1, AnyoneIsPopulated DEF ArePostureCheckChangesAffectPeers
      <4>3. acct'.checks[k] # acct.checks[k]
        BY <2>1, <2>5 DEF Put
      <4>4. acct.policies[i].srcPeer = None \/ acct.policies[i].dstRes = None
        BY <2>5, <3>2, <4>3 DEF ChecksNamedPeer
      <4> QED  BY <4>2, <4>4
    <3> QED  BY <2>1, <2>2, <3>2, QuietCheck
  <2> QED  BY <2>3, <2>4, <2>5
<1> QED  BY <1>1, <1>2, <1>3, <1>4 DEF PolicyOperation

\* What the maps are made from, services and zones apart.
Mapped == {"peers", "valid", "expired", "groupPeers", "groupRes", "checks", "policies", "routes",
           "nsGroups", "noDns", "routers", "resources"}

LEMMA MappedAlike ==
  ASSUME \A f \in Mapped : acct'[f] = acct[f]
  PROVE  Alike(acct, acct')
<1>1. SameRest(acct, acct') /\ SameMembership(acct, acct') /\ acct'.policies = acct.policies /\ acct'.routes = acct.routes
      /\ acct'.checks = acct.checks /\ acct'.nsGroups = acct.nsGroups /\ acct'.noDns = acct.noDns
  BY DEF Mapped, SameRest, SameMembership
<1> QED  BY <1>1, AlikeObjects

LEMMA LiveRouteAffects ==
  ASSUME NEW b, SameMembership(acct, b), NEW x, IsLiveRoute(b, x)
  PROVE  x \in DOMAIN b.routes /\ AreRouteChangesAffectPeers(b.routes[x])
<1>1. \A gs : IsPopulated(b, gs) => AnyGroupHasPeersOrResources(gs)
  BY DEF IsPopulated, AnyGroupHasPeersOrResources, Groups, IdsOf, SameMembership
<1> QED  BY <1>1 DEF IsLiveRoute, AreRouteChangesAffectPeers

LEMMA QuietRoute ==
  ASSUME \A f \in Fields \ {"routes"} : acct'[f] = acct[f],
         NEW x, ~IsLiveRoute(acct, x), ~IsLiveRoute(acct', x),
         \A y : y # x => /\ y \in DOMAIN acct'.routes <=> y \in DOMAIN acct.routes
                         /\ y \in DOMAIN acct.routes => acct'.routes[y] = acct.routes[y]
  PROVE  Quiet
<1>1. \A f \in Basics : acct'[f] = acct[f]
  BY DEF Basics, Fields
<1>2. acct'.checks = acct.checks /\ acct'.policies = acct.policies
      /\ acct'.nsGroups = acct.nsGroups /\ acct'.noDns = acct.noDns
      /\ acct'.groupPeers = acct.groupPeers /\ acct'.groupRes = acct.groupRes
  BY DEF Fields
<1>3. SameRoutes(acct, acct')
  BY <1>2, InertRoute DEF SameMembership
<1>4. Alike(acct, acct')
  BY <1>1, <1>2, <1>3, RestKept, AlikeObjects DEF SameMembership
<1> QED  BY <1>1, <1>4, QuietChange

LEMMA RouteOperationTells ==
  ASSUME Sound(acct), RouteOperation, ~RouteReachesGroups
  PROVE  IsTold \/ Quiet
<1>0. DOMAIN acct = Fields
  BY DEF Sound, Consistent
<1>1. ASSUME NEW x, NEW r, CreateRoute(x, r) \/ SaveRoute(x, r)
      PROVE  IsTold \/ Quiet
  <2>1. /\ \A f \in Fields \ {"routes"} : acct'[f] = acct[f]
        /\ acct'.routes = Put(acct.routes, x, r)
    BY <1>0, <1>1 DEF CreateRoute, SaveRoute, Commit, Fields
  <2>2. SameMembership(acct, acct') /\ SameMembership(acct, acct)
    BY <2>1 DEF SameMembership, Fields
  <2>3. acct'.routes[x] = r /\ x \in DOMAIN acct'.routes
    BY <2>1 DEF Put
  <2>4. IsTold \/ /\ ~AreRouteChangesAffectPeers(r)
                  /\ x \notin DOMAIN acct.routes \/ ~AreRouteChangesAffectPeers(acct.routes[x])
    <3>1. CASE CreateRoute(x, r)
      BY <3>1 DEF CreateRoute, Commit, IsTold
    <3>2. CASE SaveRoute(x, r) /\ ~IsTold
      <4>1. x \in DOMAIN acct.routes /\ ~AreRouteChangesAffectPeers(acct.routes[x]) /\ r.peer = None
        BY <3>2 DEF SaveRoute, Commit, IsTold
      <4>2. ~AreRouteChangesAffectPeers(r)
        BY <2>2, <2>3, <4>1 DEF RouteReachesGroups, SameMembership
      <4> QED  BY <4>1, <4>2
    <3> QED  BY <1>1, <3>1, <3>2
  <2>5. IsTold \/ (~IsLiveRoute(acct, x) /\ ~IsLiveRoute(acct', x))
    BY <2>2, <2>3, <2>4, LiveRouteAffects
  <2>6. \A y : y # x => /\ y \in DOMAIN acct'.routes <=> y \in DOMAIN acct.routes
                        /\ y \in DOMAIN acct.routes => acct'.routes[y] = acct.routes[y]
    BY <2>1 DEF Put
  <2> QED  BY <2>1, <2>5, <2>6, QuietRoute
<1>2. ASSUME NEW x, DeleteRoute(x)
      PROVE  IsTold \/ Quiet
  <2>1. /\ \A f \in Fields \ {"routes"} : acct'[f] = acct[f]
        /\ acct'.routes = Drop(acct.routes, {x})
    BY <1>0, <1>2 DEF DeleteRoute, Commit, Fields
  <2>2. IsTold \/ ~AreRouteChangesAffectPeers(acct.routes[x])
    BY <1>2 DEF DeleteRoute, Commit, IsTold
  <2>3. IsTold \/ ~IsLiveRoute(acct, x)
    BY <2>2, LiveRouteAffects DEF SameMembership
  <2>4. ~IsLiveRoute(acct', x)
    BY <2>1 DEF IsLiveRoute, Drop
  <2>5. \A y : y # x => /\ y \in DOMAIN acct'.routes <=> y \in DOMAIN acct.routes
                        /\ y \in DOMAIN acct.routes => acct'.routes[y] = acct.routes[y]
    BY <2>1 DEF Drop
  <2> QED  BY <2>1, <2>3, <2>4, <2>5, QuietRoute
<1> QED  BY <1>1, <1>2 DEF RouteOperation

LEMMA QuietDns ==
  ASSUME \A f \in Fields \ {"nsGroups", "noDns"} : acct'[f] = acct[f], SameDns(acct, acct')
  PROVE  Quiet
<1>1. \A f \in Basics : acct'[f] = acct[f]
  BY DEF Basics, Fields
<1>2. acct'.checks = acct.checks /\ acct'.policies = acct.policies /\ acct'.routes = acct.routes
      /\ acct'.groupPeers = acct.groupPeers /\ acct'.groupRes = acct.groupRes
  BY DEF Fields
<1>3. Alike(acct, acct')
  BY <1>1, <1>2, RestKept, AlikeObjects DEF SameMembership
<1> QED  BY <1>1, <1>3, QuietChange

LEMMA QuietServers ==
  ASSUME \A f \in Fields \ {"nsGroups"} : acct'[f] = acct[f], NEW s,
         \A t : t # s => /\ t \in DOMAIN acct'.nsGroups <=> t \in DOMAIN acct.nsGroups
                         /\ t \in DOMAIN acct.nsGroups => acct'.nsGroups[t] = acct.nsGroups[t],
         s \in Enabled(acct.nsGroups) => ~AnyGroupHasPeersOrResources(acct.nsGroups[s].groups),
         s \in Enabled(acct'.nsGroups) => ~AnyGroupHasPeersOrResources(acct'.nsGroups[s].groups)
  PROVE  Quiet
<1>1. acct'.groupPeers = acct.groupPeers /\ acct'.groupRes = acct.groupRes /\ acct'.noDns = acct.noDns
  BY DEF Fields
<1>2. /\ s \in Enabled(acct.nsGroups) => ~IsPopulated(acct, acct.nsGroups[s].groups)
      /\ s \in Enabled(acct'.nsGroups) => ~IsPopulated(acct, acct'.nsGroups[s].groups)
  BY AnyoneIsPopulated
<1>3. SameDns(acct, acct')
  BY <1>1, <1>2, InertNameServers DEF SameMembership
<1> QED  BY <1>3, QuietDns

LEMMA DnsOperationTells ==
  ASSUME Sound(acct), DnsOperation
  PROVE  IsTold \/ Quiet
<1>0. DOMAIN acct = Fields
  BY DEF Sound, Consistent
<1>1. ASSUME NEW s, NEW new, CreateNameServerGroup(s, new) \/ SaveNameServerGroup(s, new)
      PROVE  IsTold \/ Quiet
  <2>1. /\ \A f \in Fields \ {"nsGroups"} : acct'[f] = acct[f]
        /\ acct'.nsGroups = Put(acct.nsGroups, s, new)
    BY <1>0, <1>1 DEF CreateNameServerGroup, SaveNameServerGroup, Commit, Fields
  <2>2. \/ IsTold
        \/ s \notin DOMAIN acct.nsGroups /\ ~AnyGroupHasPeersOrResources(new.groups)
        \/ s \in DOMAIN acct.nsGroups /\ ~AreNameServerGroupChangesAffectPeers(new, acct.nsGroups[s])
    BY <1>1 DEF CreateNameServerGroup, SaveNameServerGroup, Commit, IsTold
  <2>3. acct'.nsGroups[s] = new
    BY <2>1 DEF Put
  <2>4. \/ IsTold
        \/ /\ s \in Enabled(acct.nsGroups) => ~AnyGroupHasPeersOrResources(acct.nsGroups[s].groups)
           /\ s \in Enabled(acct'.nsGroups) => ~AnyGroupHasPeersOrResources(acct'.nsGroups[s].groups)
    BY <2>2, <2>3 DEF AreNameServerGroupChangesAffectPeers, Enabled
  <2>5. \A t : t # s => /\ t \in DOMAIN acct'.nsGroups <=> t \in DOMAIN acct.nsGroups
                        /\ t \in DOMAIN acct.nsGroups => acct'.nsGroups[t] = acct.nsGroups[t]
    BY <2>1 DEF Put
  <2> QED  BY <2>1, <2>4, <2>5, QuietServers
<1>2. ASSUME NEW s, DeleteNameServerGroup(s)
      PROVE  IsTold \/ Quiet
  <2>1. /\ \A f \in Fields \ {"nsGroups"} : acct'[f] = acct[f]
        /\ acct'.nsGroups = Drop(acct.nsGroups, {s})
    BY <1>0, <1>2 DEF DeleteNameServerGroup, Commit, Fields
  <2>2. IsTold \/ ~AnyGroupHasPeersOrResources(acct.nsGroups[s].groups)
    BY <1>2 DEF DeleteNameServerGroup, Commit, IsTold
  <2>3. s \notin Enabled(acct'.nsGroups)
    BY <2>1 DEF Drop, Enabled
  <2>4. \A t : t # s => /\ t \in DOMAIN acct'.nsGroups <=> t \in DOMAIN acct.nsGroups
                        /\ t \in DOMAIN acct.nsGroups => acct'.nsGroups[t] = acct.nsGroups[t]
    BY <2>1 DEF Drop
  <2> QED  BY <2>1, <2>2, <2>3, <2>4, QuietServers
<1>3. ASSUME NEW gs, SaveDNSSettings(gs)
      PROVE  IsTold \/ Quiet
  <2>1. /\ \A f \in Fields \ {"noDns"} : acct'[f] = acct[f]
        /\ acct'.noDns = gs
    BY <1>0, <1>3 DEF SaveDNSSettings, Commit, Fields
  <2>2. IsTold \/ /\ ~AnyGroupHasPeersOrResources(gs \ acct.noDns)
                  /\ ~AnyGroupHasPeersOrResources(acct.noDns \ gs)
    BY <1>3 DEF SaveDNSSettings, AreDNSSettingChangesAffectPeers, Commit, IsTold
  <2>3. IsTold \/ (~IsPopulated(acct, gs \ acct.noDns) /\ ~IsPopulated(acct, acct.noDns \ gs))
    BY <2>2, AnyoneIsPopulated
  <2>4. SameMembership(acct, acct') /\ acct'.nsGroups = acct.nsGroups
    BY <2>1 DEF SameMembership, Fields
  <2>5. IsTold \/ SameDns(acct, acct')
    BY <2>1, <2>3, <2>4, InertDns
  <2> QED  BY <2>1, <2>5, QuietDns
<1>4. ASSUME NEW z, NEW gs, NEW on, CreateZone(z, gs, on) \/ UpdateZone(z, gs, on)
      PROVE  Quiet
  <2>1. \A f \in Fields \ {"zones"} : acct'[f] = acct[f]
    BY <1>0, <1>4 DEF CreateZone, UpdateZone, Commit, Fields
  <2>2. Alike(acct, acct')
    BY <2>1, MappedAlike DEF Mapped, Fields
  <2>3. Uses(acct') = Uses(acct)
    BY <2>1 DEF Uses, Fields
  <2>4. CASE UpdateZone(z, gs, on)
    BY <2>2, <2>3, <2>4 DEF Quiet, UpdateZone, Commit
  <2>5. CASE CreateZone(z, gs, on)
    <3> DEFINE new == [enabled |-> on, groups |-> gs, records |-> FALSE]
    <3>1. acct' = [acct EXCEPT !.zones = Put(@, z, new)] /\ z \notin DOMAIN acct.zones
      BY <2>5 DEF CreateZone, Commit
    <3>2. ~new.records
      OBVIOUS
    <3> HIDE DEF new
    <3>3. acct'.zones = Put(acct.zones, z, new) /\ acct'.groupPeers = acct.groupPeers
      BY <1>0, <3>1 DEF Fields
    <3>4. /\ DOMAIN acct'.zones = DOMAIN acct.zones \cup {z} /\ acct'.zones[z] = new
          /\ \A y \in DOMAIN acct.zones : acct'.zones[y] = acct.zones[y]
      BY <3>1, <3>3 DEF Put
    <3>5. \A p, y : y \in ZonesOf(acct', p) <=> y \in ZonesOf(acct, p)
      BY <3>1, <3>2, <3>3, <3>4 DEF ZonesOf, Enabled
    <3>6. ASSUME NEW p PROVE ZonesOf(acct', p) = ZonesOf(acct, p)
      BY <3>5 DEF ZonesOf
    <3> QED  BY <2>2, <2>3, <3>6 DEF Quiet
  <2> QED  BY <1>4, <2>4, <2>5
<1>5. ASSUME NEW z, DeleteZone(z) \/ CreateRecord(z) \/ DeleteRecord(z)
      PROVE  IsTold
  BY <1>5 DEF DeleteZone, CreateRecord, DeleteRecord, Commit, IsTold
<1> QED  BY <1>1, <1>2, <1>3, <1>4, <1>5 DEF DnsOperation

LEMMA NetworkOperationTells ==
  ASSUME Sound(acct), NetworkOperation
  PROVE  IsTold \/ Quiet
<1>0. DOMAIN acct = Fields
  BY DEF Sound, Consistent
<1>1. ASSUME NEW net, CreateNetwork(net)
      PROVE  Quiet
  <2>1. \A f \in Fields \ {"networks"} : acct'[f] = acct[f]
    BY <1>0, <1>1 DEF CreateNetwork, Commit, Fields
  <2>2. Alike(acct, acct')
    BY <2>1, MappedAlike DEF Mapped, Fields
  <2> QED  BY <2>1, <2>2, QuietChange DEF Basics, Fields
<1>2. ASSUME NEW net, NEW r, NEW n, NEW new, NEW gs,
             \/ DeleteNetwork(net) \/ DeleteRouter(r) \/ CreateRouter(r, new) \/ UpdateRouter(r, new)
             \/ DeleteResource(n) \/ CreateResource(n, new, gs) \/ UpdateResource(n, new, gs)
      PROVE  IsTold
  BY <1>2 DEF DeleteNetwork, DeleteRouter, CreateRouter, UpdateRouter, DeleteResource, CreateResource,
     UpdateResource, Commit, IsTold
<1> QED  BY <1>1, <1>2 DEF NetworkOperation

LEMMA NextTells ==
  ASSUME Sound(acct), Next, ~ChecksNamedPeer, ~RouteReachesGroups
  PROVE  IsTold \/ Quiet
<1>1. ASSUME NEW p, DeletePeer(p)
      PROVE  IsTold
  BY <1>1 DEF DeletePeer, Commit, IsTold
<1> QED  BY <1>1, GroupOperationTells, PolicyOperationTells, RouteOperationTells, DnsOperationTells,
            NetworkOperationTells DEF Next, Sound

\* The operations that send the maps under the old serial.
IsSent ==
  /\ updated'
  /\ DOMAIN acct'.users # DOMAIN acct.users \/ acct'.services # acct.services

LEMMA SyncTells ==
  ASSUME Sound(acct), NEW u, NEW names, SyncUserJWTGroups(u, names)
  PROVE  IsTold \/ Quiet
<1> DEFINE issued == acct.jwt \cup (names \ Groups)
           gained == (names \cap issued) \ acct.users[u]
           lost   == (acct.users[u] \cap acct.jwt) \ names
           base   == WithEmpty(acct.groupPeers, names \ Groups)
           owned  == ((acct.users[u] \cap Groups) \ lost) \cup gained
           spread == saving[1].propagates
<1>0. DOMAIN acct = Fields /\ Consistent(acct) /\ DOMAIN acct.groupRes = Groups
  BY DEF Sound, Consistent, GroupsHold, Groups, IdsOf
<1>1. acct' = [acct EXCEPT !.jwt = issued, !.groupRes = WithEmpty(@, names \ Groups), !.users[u] = owned,
                           !.groupPeers = IF spread THEN Memberships(u, gained, lost, base) ELSE base]
  BY DEF SyncUserJWTGroups, Commit
<1>2. IsTold <=> spread /\ \E g \in gained \cup lost : AreGroupChangesAffectPeers(g)
  BY DEF SyncUserJWTGroups, Commit, IsTold
<1> HIDE DEF issued, gained, lost, owned, spread, base
<1>3. /\ \A f \in Fields \ {"groupPeers", "groupRes", "users", "jwt"} : acct'[f] = acct[f]
      /\ acct'.groupRes = WithEmpty(acct.groupRes, names \ Groups)
      /\ acct'.groupPeers = IF spread THEN Memberships(u, gained, lost, base) ELSE base
  BY <1>0, <1>1 DEF Fields
<1>4. \A g \in Groups : g \in DOMAIN base /\ base[g] = acct.groupPeers[g]
  BY DEF base, WithEmpty, Groups
<1>5. \A g \in Groups : acct'.groupRes[g] = acct.groupRes[g]
  BY <1>0, <1>3 DEF WithEmpty
<1>6. \A g \in Groups : ~spread \/ g \notin gained \cup lost =>
        g \in DOMAIN acct'.groupPeers /\ acct'.groupPeers[g] = acct.groupPeers[g]
  BY <1>3, <1>4 DEF Memberships
<1>7. \A g : g \in DOMAIN acct'.groupPeers => g \in Groups \cup names
  BY <1>3 DEF Memberships, base, WithEmpty, Groups
<1>8. \A g \in names \ Groups : ~AreGroupChangesAffectPeers(g)
  BY DEF SyncUserJWTGroups, IsNewGroup
<1> QED  BY <1>0, <1>2, <1>3, <1>5, <1>6, <1>7, <1>8, QuietGroups

LEMMA PropagationTells ==
  ASSUME Sound(acct), NEW on, SetGroupsPropagation(on)
  PROVE  IsTold \/ Quiet
<1>0. DOMAIN acct = Fields /\ Consistent(acct)
  BY DEF Sound, Consistent
<1>1. PICK grown, late : /\ acct' = [acct EXCEPT !.propagates = on, !.groupPeers = late]
                         /\ DOMAIN late = Groups /\ \A g \in Groups \ grown : late[g] = acct.groupPeers[g]
                         /\ IsTold <=> (\E g \in grown : AreGroupChangesAffectPeers(g)) /\ grown # {}
  <2> DEFINE joins(g) == {p \in acct.peers : acct.owner[p] \in DOMAIN acct.users
                                             /\ g \in acct.users[acct.owner[p]]} \ acct.groupPeers[g]
             grown    == {g \in Groups : on /\ joins(g) # {}}
             late     == [g \in Groups |-> IF g \in grown THEN acct.groupPeers[g] \cup joins(g) ELSE acct.groupPeers[g]]
  <2>1. acct' = [acct EXCEPT !.propagates = on, !.groupPeers = late]
    BY DEF SetGroupsPropagation, Commit
  <2>2. IsTold <=> (\E g \in grown : AreGroupChangesAffectPeers(g)) /\ grown # {}
    BY DEF SetGroupsPropagation, Commit, IsTold
  <2> HIDE DEF grown, joins
  <2>3. DOMAIN late = Groups /\ \A g \in Groups \ grown : late[g] = acct.groupPeers[g]
    OBVIOUS
  <2> HIDE DEF late
  <2> QED  BY <2>1, <2>2, <2>3
<1>2. /\ \A f \in Fields \ {"groupPeers", "propagates"} : acct'[f] = acct[f]
      /\ acct'.groupPeers = late
  BY <1>0, <1>1 DEF Fields
<1>3. \A g \in Groups : acct'.groupRes[g] = acct.groupRes[g]
  BY <1>2 DEF Fields
<1> QED  BY <1>0, <1>1, <1>2, <1>3, QuietGroups

LEMMA MembersTell ==
  ASSUME Sound(acct), MNext, ~ChecksNamedPeer, ~RouteReachesGroups
  PROVE  IsTold \/ Quiet \/ IsSent
<1>0. DOMAIN acct = Fields
  BY DEF Sound, Consistent
<1>1. CASE KeyOperation
  <2>1. \A f \in Fields \ {"keys"} : acct'[f] = acct[f]
    BY <1>0, <1>1 DEF KeyOperation, DeleteSetupKey, CreateSetupKey, SaveSetupKey, Commit, Fields
  <2>2. Alike(acct, acct')
    BY <2>1, MappedAlike DEF Mapped, Fields
  <2> QED  BY <2>1, <2>2, QuietChange DEF Basics, Fields
<1>2. ASSUME NEW c, AddPeer(c)
      PROVE  IsTold \/ Quiet
  BY <1>2, NothingChanges DEF AddPeer, Commit, IsTold, vars
<1>3. ASSUME NEW u, NEW gs, SaveUser(u, gs) \/ AddUser(u, gs)
      PROVE  IsTold
  BY <1>3 DEF SaveUser, AddUser, Commit, IsTold
<1>4. ASSUME NEW u, DeleteUser(u)
      PROVE  IsSent
  <2>1. acct'.users = Drop(acct.users, {u}) /\ updated' /\ u \in DOMAIN acct.users
    BY <1>0, <1>4 DEF DeleteUser, WithoutPeers, Commit, Fields
  <2>2. u \notin DOMAIN acct'.users
    BY <2>1 DEF Drop
  <2> QED  BY <2>1, <2>2 DEF IsSent
<1>5. ASSUME NEW c, NEW p, NEW k,
             HandleSetupKeyAddedPeer(c, p, k) \/ HandleUserAddedPeer(c, p, k) \/ ReadAccountGroups
      PROVE  Quiet
  BY <1>5, NothingChanges DEF HandleSetupKeyAddedPeer, HandleUserAddedPeer, ReadBefore, ReadAccountGroups, vars
<1> QED  BY <1>1, <1>2, <1>3, <1>4, <1>5, NextTells, SyncTells, PropagationTells DEF MNext

LEMMA ServicesTell ==
  ASSUME Sound(acct), ServicesHold(acct.services), SNext, ~ChecksNamedPeer, ~RouteReachesGroups
  PROVE  IsTold \/ Quiet \/ IsSent
<1>0. DOMAIN acct = Fields
  BY DEF Sound, Consistent
<1>1. ASSUME NEW v, acct' = [acct EXCEPT !.services = v], updated'
      PROVE  Quiet \/ IsSent
  <2>1. \A f \in Fields \ {"services"} : acct'[f] = acct[f]
    BY <1>0, <1>1 DEF Fields
  <2>2. acct'.services # acct.services => IsSent
    BY <1>1 DEF IsSent
  <2>3. Alike(acct, acct')
    BY <2>1, MappedAlike DEF Mapped, Fields
  <2> QED  BY <2>1, <2>2, <2>3, QuietChange DEF Basics, Fields
<1>2. ASSUME NEW ss, NEW s, NEW svc, acct' = WithoutServices(ss) \/ acct' = WithService(s, svc), updated'
      PROVE  Quiet \/ IsSent
  BY <1>1, <1>2 DEF WithoutServices, WithService
<1>3. ASSUME NEW h, NEW s, NEW p, NEW offer,
             \/ CreateService(h, s, offer) \/ UpdateService(h, s, offer) \/ CreateServiceFromPeer(h, s, p, offer)
             \/ DeleteService(h, s) \/ DeleteAllServices(h) \/ StopServiceFromPeer(h, s, p)
      PROVE  Quiet \/ IsSent
  <2>1. PICK ss, x, svc : acct' = WithoutServices(ss) \/ acct' = WithService(x, svc)
    BY <1>3 DEF CreateService, UpdateService, CreateServiceFromPeer, PersistNewService, DeleteService,
       DeleteAllServices, StopServiceFromPeer, Changed, Commit
  <2>2. updated'
    BY <1>3 DEF CreateService, UpdateService, CreateServiceFromPeer, PersistNewService, DeleteService,
       DeleteAllServices, StopServiceFromPeer, Changed, Commit
  <2> QED  BY <1>2, <2>1, <2>2
<1>4. ASSUME NEW h, NEW s, NEW p, DeleteExpiredPeerService(h, s, p)
      PROVE  Quiet \/ IsSent
  BY <1>2, <1>4, NothingChanges DEF DeleteExpiredPeerService, Changed, Commit, memberVars, vars
<1>5. ASSUME NEW h, NEW p, ReloadAllServicesForAccount(h) \/ ReapExpiredExposes \/ GetServiceIDByTargetID(p)
      PROVE  Quiet
  BY <1>5, NothingChanges DEF ReloadAllServicesForAccount, ReapExpiredExposes, GetServiceIDByTargetID, memberVars, vars
<1>6. ASSUME NEW s, RenewServiceFromPeer(s) \/ Expire(s)
      PROVE  Quiet
  <2>1. PICK b : acct' = [acct EXCEPT !.services[s].fresh = b] /\ s \in Services
    BY <1>6 DEF RenewServiceFromPeer, Expire, Commit
  <2>2. /\ \A f \in Fields \ {"services"} : acct'[f] = acct[f]
        /\ acct'.services = [acct.services EXCEPT ![s].fresh = b]
    BY <1>0, <2>1 DEF Fields
  <2>3. DOMAIN acct'.services = DOMAIN acct.services
    BY <2>2
  <2>4. \A x \in DOMAIN acct.services : \A f \in {"enabled", "cluster", "targets"} :
          acct'.services[x][f] = acct.services[x][f]
    BY <2>2 DEF ServicesHold, ServiceFields
  <2>5. Enabled(acct'.services) = Enabled(acct.services)
    BY <2>3, <2>4 DEF Enabled
  <2>6. \A x \in Enabled(acct.services) : /\ acct'.services[x].cluster = acct.services[x].cluster
                                          /\ acct'.services[x].targets = acct.services[x].targets
    BY <2>4 DEF Enabled
  <2>7. acct'.embedded = acct.embedded /\ acct'.peers = acct.peers /\ acct'.zones = acct.zones
    BY <2>2 DEF Fields
  <2>8. Uses(acct') = Uses(acct)
    BY <2>5, <2>6, <2>7 DEF Uses
  <2>9. Alike(acct, acct')
    BY <2>2, MappedAlike DEF Mapped, Fields
  <2> QED  BY <2>7, <2>8, <2>9 DEF Quiet
<1>7. ASSUME NEW p, DeleteUnusedPeer(p)
      PROVE  IsTold
  BY <1>7 DEF DeleteUnusedPeer, DeletePeer, Commit, IsTold
<1> QED  BY <1>3, <1>4, <1>5, <1>6, <1>7, MembersTell DEF SNext

LEMMA QuietMisses ==
  ASSUME Sound(acct), Sound(acct'), Quiet, NEW p
  PROVE  /\ [FullMap(acct, p) EXCEPT !.zones = {}] = [FullMap(acct', p) EXCEPT !.zones = {}]
         /\ updated' \/ FullMap(acct, p).zones = FullMap(acct', p).zones \/ acct'.groupPeers # acct.groupPeers
<1>1. Alike(acct, acct') /\ Uses(acct') = Uses(acct)
  BY DEF Quiet
<1>2. [FullMap(acct, p) EXCEPT !.zones = {}] = [FullMap(acct', p) EXCEPT !.zones = {}]
  BY <1>1, SameMaps
<1>3. ASSUME ~updated', acct'.groupPeers = acct.groupPeers
      PROVE  FullMap(acct, p).zones = FullMap(acct', p).zones
  <2>1. acct'.peers = acct.peers /\ acct'.valid = acct.valid
    BY <1>1 DEF Alike
  <2>2. p \in acct.valid => (IsManaged(acct', p) <=> IsManaged(acct, p))
    BY <1>1 DEF Alike, SameDns
  <2>3. acct'.zones = acct.zones => ZonesOf(acct', p) = ZonesOf(acct, p)
    BY <1>3 DEF ZonesOf
  <2>4. ZonesOf(acct', p) = ZonesOf(acct, p)
    BY <1>3, <2>3 DEF Quiet
  <2>5. /\ FullMap(acct, p).zones = IF p \in acct.peers \cap acct.valid /\ IsManaged(acct, p)
                                    THEN ZonesOf(acct, p) ELSE {}
        /\ FullMap(acct', p).zones = IF p \in acct'.peers \cap acct'.valid /\ IsManaged(acct', p)
                                     THEN ZonesOf(acct', p) ELSE {}
    BY ZonesAre
  <2> QED  BY <2>1, <2>2, <2>4, <2>5
<1> QED  BY <1>2, <1>3

\* Whatever operation runs, in whatever account the operations can have made: the
\* peers are sent their maps again if it changed the map of any of them (the
\* Are...ChangesAffectPeers functions together), with the exceptions that the
\* property names.
THEOREM UpdatesAreSent == PSpec => NoMissedUpdate
<1> DEFINE Missed ==
      \/ updated' /\ bumped'
      \/ ChecksNamedPeer
      \/ RouteReachesGroups
      \/ \A old \in MapsOf(acct), new \in MapsOf(acct') :
           old.peer = new.peer =>
              /\ \/ [old.map EXCEPT !.zones = {}] = [new.map EXCEPT !.zones = {}]
                 \/ updated' /\ DOMAIN acct'.users # DOMAIN acct.users
                 \/ updated' /\ acct'.services # acct.services
              /\ \/ updated' \/ old.map.zones = new.map.zones
                 \/ acct'.groupPeers # acct.groupPeers
<1>1. ASSUME NamesInv, NamesInv', [PNext]_allVars
      PROVE  [Missed]_vars
  <2>1. Sound(acct) /\ Sound(acct') /\ ServicesHold(acct.services)
    BY <1>1 DEF Sound, NamesInv, ProxyInv, AccountInv
  <2>2. IsTold \/ Quiet \/ IsSent \/ ChecksNamedPeer \/ RouteReachesGroups
    <3>1. CASE SNext
      BY <2>1, <3>1, ServicesTell
    <3>2. CASE UNCHANGED memberVars
      BY <3>2, NothingChanges DEF memberVars, vars
    <3> QED  BY <1>1, <3>1, <3>2 DEF PNext, SendServiceUpdateToCluster, allVars
  <2>3. ASSUME NEW old \in MapsOf(acct), NEW new \in MapsOf(acct'), old.peer = new.peer, Quiet \/ IsSent
        PROVE  /\ \/ [old.map EXCEPT !.zones = {}] = [new.map EXCEPT !.zones = {}]
                  \/ updated' /\ DOMAIN acct'.users # DOMAIN acct.users
                  \/ updated' /\ acct'.services # acct.services
               /\ \/ updated' \/ old.map.zones = new.map.zones
                  \/ acct'.groupPeers # acct.groupPeers
    <3>1. PICK p : old.map = FullMap(acct, p) /\ new.map = FullMap(acct', p)
      BY <2>3 DEF MapsOf, FullMap
    <3>2. CASE Quiet
      BY <2>1, <3>1, <3>2, QuietMisses
    <3>3. CASE IsSent
      BY <3>3 DEF IsSent
    <3> QED  BY <2>3, <3>2, <3>3
  <2> QED  BY <2>2, <2>3 DEF IsTold
<1>2. NamesInv /\ NamesInv' /\ [PNext]_allVars => [Missed]_vars
  BY <1>1
<1> QED  BY <1>2, NamesStart, NamesStep, PTL DEF PSpec, NoMissedUpdate
=============================================================================
