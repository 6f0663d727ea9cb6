---------------------------- MODULE AccountConfig ----------------------------
(***************************************************************************)
(* The operations that configure an account of the management server:      *)
(* groups, policies, posture checks, routes, name servers, networks and    *)
(* their routers and resources, zones, and the removal of a peer.  Each    *)
(* validates its input against the account, changes it and decides whether *)
(* the connected peers are sent new network maps (UpdateAccountPeers) in   *)
(* one database transaction; with SQLite, whose pool has one connection,   *)
(* transactions do not overlap, and an operation is one action here.       *)
(*                                                                         *)
(* acct     the account, in the shape NetworkMap describes, with           *)
(*            keys        setup key |-> [groups, limit, used, revoked],    *)
(*            users       user |-> its auto groups,                        *)
(*            owner       peer |-> the user who added it, or None,         *)
(*            jwt         the groups that users' tokens have created,      *)
(*            propagates  Settings.GroupsPropagationEnabled,               *)
(*            services    service |-> what the reverse proxy publishes     *)
(*                        (AccountServices);                               *)
(* scope    which objects and inputs this behaviour uses, chosen once: a   *)
(*          bound on the exploration, not a part of the server;            *)
(* updated  whether the last operation called UpdateAccountPeers;          *)
(* bumped   whether it incremented the account's network serial.           *)
(*                                                                         *)
(* An operation that is refused changes nothing and is not an action.      *)
(***************************************************************************)
EXTENDS NetworkMap

CONSTANTS Peers, Scopes

\* The rules that administrators send are policies of the shape above; the
\* HTTP handler takes groups or a single peer or resource, not both.
ASSUME RulesAssumption ==
  \A s \in Scopes :
    /\ s.rules \subseteq [enabled : BOOLEAN, both : BOOLEAN,
                         sources : SUBSET s.groups, destinations : SUBSET s.groups,
                         srcPeer : Peers \cup {None}, dstPeer : Peers \cup {None},
                         dstRes : s.resources \cup {None}, checks : Seq(s.checks)]
    /\ \A r \in s.rules :
         /\ r.srcPeer # None => r.sources = {}
         /\ r.dstPeer # None \/ r.dstRes # None => r.destinations = {}

\* Ids are not empty, machines that join are peers, and the policies of the
\* administrators come before those of the services.
ASSUME IdsAssumption ==
  /\ None \notin Peers
  /\ \A s \in Scopes :
       /\ s.newcomers \subseteq Peers /\ None \notin s.resources
       /\ s.policies \subseteq 1 .. (FirstProxyPolicy - 1)

VARIABLES acct, scope, updated, bumped
vars == <<acct, scope, updated, bumped>>

Put(f, k, v) == [x \in DOMAIN f \cup {k} |-> IF x = k THEN v ELSE f[x]]
Drop(f, ks) == [k \in DOMAIN f \ ks |-> f[k]]
Groups == DOMAIN acct.groupPeers

Commit(a, tells, counts) ==
  /\ acct' = a
  /\ updated' = tells
  /\ bumped' = counts
  /\ UNCHANGED scope

Init ==
  /\ scope \in Scopes
  /\ LET stored == Peers \ scope.newcomers
     IN acct = [peers |-> stored, valid |-> stored \ scope.unapproved, expired |-> scope.expired,
                groupPeers |-> <<>>, groupRes |-> <<>>, checks |-> <<>>, policies |-> <<>>,
                routes |-> <<>>, nsGroups |-> <<>>, noDns |-> {}, networks |-> {},
                routers |-> <<>>, resources |-> <<>>, zones |-> <<>>,
                keys |-> <<>>, users |-> [u \in scope.users |-> {}],
                owner |-> [p \in stored |-> None], jwt |-> {}, propagates |-> FALSE,
                services |-> <<>>, embedded |-> scope.embedded]
  /\ updated = FALSE
  /\ bumped = FALSE

-----------------------------------------------------------------------------
(* Links between objects. *)

RouteGroups(r) == r.groups \cup r.peerGroups \cup r.acGroups

IsGroupLinkedToRoute(g) == \E x \in DOMAIN acct.routes : g \in RouteGroups(acct.routes[x])
IsGroupLinkedToPolicy(g) == \E i \in DOMAIN acct.policies : g \in RuleGroups(acct.policies[i])
IsGroupLinkedToDns(g) == \E s \in DOMAIN acct.nsGroups : g \in acct.nsGroups[s].groups
IsGroupLinkedToSetupKey(g) == \E k \in DOMAIN acct.keys : g \in acct.keys[k].groups
IsGroupLinkedToUser(g) == \E u \in DOMAIN acct.users : g \in acct.users[u]
IsGroupLinkedToNetworkRouter(g) == \E r \in DOMAIN acct.routers : g \in acct.routers[r].peerGroups

AreGroupChangesAffectPeers(g) ==
  \/ g \in acct.noDns
  \/ IsGroupLinkedToDns(g)
  \/ IsGroupLinkedToPolicy(g)
  \/ IsGroupLinkedToRoute(g)
  \/ IsGroupLinkedToNetworkRouter(g)

AnyGroupHasPeersOrResources(gs) ==
  \E g \in gs \cap Groups : acct.groupPeers[g] # {} \/ acct.groupRes[g] # {}

\* Group ids are generated, so a new group is not referenced by anything.
IsNewGroup(g) ==
  /\ g \notin Groups
  /\ ~(AreGroupChangesAffectPeers(g) \/ IsGroupLinkedToSetupKey(g) \/ IsGroupLinkedToUser(g))
  /\ \A z \in DOMAIN acct.zones : g \notin acct.zones[z].groups

-----------------------------------------------------------------------------
(* Groups. *)

\* Any ids may be given: nothing looks up the peers and resources of a group.
WithGroup(g, ps, rs) ==
  [acct EXCEPT !.groupPeers = Put(@, g, ps), !.groupRes = Put(@, g, rs)]

CreateGroup(g, ps, rs) ==
  /\ IsNewGroup(g)
  /\ Commit(WithGroup(g, ps, rs), AreGroupChangesAffectPeers(g), TRUE)

UpdateGroup(g, ps, rs) ==
  /\ g \in Groups
  /\ Commit(WithGroup(g, ps, rs), AreGroupChangesAffectPeers(g), TRUE)

\* UpdateGroups stores the groups' resources; membership is left as it is.
UpdateGroups(g, rs) ==
  /\ g \in Groups
  /\ Commit(WithGroup(g, acct.groupPeers[g], rs), AreGroupChangesAffectPeers(g), TRUE)

GroupAddPeer(g, p) ==
  /\ g \in Groups
  /\ Commit(WithGroup(g, acct.groupPeers[g] \cup {p}, acct.groupRes[g]),
            AreGroupChangesAffectPeers(g), TRUE)

GroupDeletePeer(g, p) ==
  /\ g \in Groups
  /\ Commit(WithGroup(g, acct.groupPeers[g] \ {p}, acct.groupRes[g]),
            AreGroupChangesAffectPeers(g), TRUE)

\* Nothing is saved, counted or sent when the group does not change.
GroupAddResource(g, n) ==
  /\ g \in Groups /\ n \notin acct.groupRes[g]
  /\ Commit(WithGroup(g, acct.groupPeers[g], acct.groupRes[g] \cup {n}),
            AreGroupChangesAffectPeers(g), TRUE)

GroupDeleteResource(g, n) ==
  /\ g \in Groups /\ n \in acct.groupRes[g]
  /\ Commit(WithGroup(g, acct.groupPeers[g], acct.groupRes[g] \ {n}),
            AreGroupChangesAffectPeers(g), TRUE)

\* Mutant of ValidateDeleteGroup: the DNS settings are forgotten.
DeleteUnmanagedGroup(g) ==
  /\ acct.groupRes[g] = {}
  /\ ~(IsGroupLinkedToRoute(g) \/ IsGroupLinkedToDns(g) \/ IsGroupLinkedToPolicy(g)
       \/ IsGroupLinkedToSetupKey(g) \/ IsGroupLinkedToUser(g) \/ IsGroupLinkedToNetworkRouter(g))

ValidateDeleteGroup(g) ==
  /\ acct.groupRes[g] = {}
  /\ ~IsGroupLinkedToRoute(g)
  /\ ~IsGroupLinkedToDns(g)
  /\ ~IsGroupLinkedToPolicy(g)
  /\ ~IsGroupLinkedToSetupKey(g)
  /\ ~IsGroupLinkedToUser(g)
  /\ ~IsGroupLinkedToNetworkRouter(g)
  /\ g \notin acct.noDns

\* Those of the groups that pass are deleted, the others skipped; nobody is told.
DeleteGroups(gs) ==
  LET gone == {g \in gs \cap Groups : ValidateDeleteGroup(g)}
  IN /\ gone # {}
     /\ Commit([acct EXCEPT !.groupPeers = Drop(@, gone), !.groupRes = Drop(@, gone),
                            !.jwt = @ \ gone], FALSE, TRUE)

-----------------------------------------------------------------------------
(* Policies and posture checks. *)

UsesResource(r) == r.srcPeer # None \/ r.dstPeer # None \/ r.dstRes # None

ArePolicyChangesAffectPeers(r) ==
  UsesResource(r) \/ AnyGroupHasPeersOrResources(RuleGroups(r))

\* Mutant of ArePolicyChangesAffectPeersWithExisting: only the new rule counts.
NewPolicyAffectsPeers(r, old) == r.enabled /\ ArePolicyChangesAffectPeers(r)

ArePolicyChangesAffectPeersWithExisting(r, old) ==
  /\ r.enabled \/ old.enabled
  /\ ArePolicyChangesAffectPeers(old) \/ ArePolicyChangesAffectPeers(r)

\* Unknown groups and posture checks are silently dropped from the policy; the
\* positions of dropped checks stay empty.  A peer or resource that the rule names
\* is not looked up.
ValidatePolicy(r) ==
  [r EXCEPT !.sources = @ \cap Groups, !.destinations = @ \cap Groups,
            !.checks = RestrictValues(@, LAMBDA k : k \in DOMAIN acct.checks)]

\* Policy.Equal compares the posture checks without their order.
Unordered(r) ==
  [r EXCEPT !.checks = {<<k, Cardinality({i \in DOMAIN @ : @[i] = k})>> : k \in Range(@)}]

SavePolicy(i, r) ==
  LET new   == ValidatePolicy(r)
      tells == IF i \notin DOMAIN acct.policies THEN ArePolicyChangesAffectPeers(new)
               ELSE ArePolicyChangesAffectPeersWithExisting(new, acct.policies[i])
  IN /\ i \in DOMAIN acct.policies => Unordered(acct.policies[i]) # Unordered(new)
     /\ Commit([acct EXCEPT !.policies = Put(@, i, new)], tells, TRUE)

DeletePolicy(i) ==
  /\ i \in DOMAIN acct.policies
  /\ Commit([acct EXCEPT !.policies = Drop(@, {i})],
            ArePolicyChangesAffectPeers(acct.policies[i]), TRUE)

PoliciesWithCheck(k) ==
  {i \in DOMAIN acct.policies : \E j \in DOMAIN acct.policies[i].checks : acct.policies[i].checks[j] = k}

ArePostureCheckChangesAffectPeers(k) ==
  \E i \in PoliciesWithCheck(k) : AnyGroupHasPeersOrResources(RuleGroups(acct.policies[i]))

\* ps are the peers that fail the check as saved.
SavePostureChecks(k, ps) ==
  LET isUpdate == k \in DOMAIN acct.checks
  IN Commit([acct EXCEPT !.checks = Put(@, k, ps)],
            isUpdate /\ ArePostureCheckChangesAffectPeers(k), isUpdate)

DeletePostureChecks(k) ==
  /\ k \in DOMAIN acct.checks
  /\ PoliciesWithCheck(k) = {}
  /\ Commit([acct EXCEPT !.checks = Drop(@, {k})], FALSE, TRUE)

-----------------------------------------------------------------------------
(* Routes. *)

AreRouteChangesAffectPeers(r) ==
  \/ r.peer # None
  \/ AnyGroupHasPeersOrResources(r.groups)
  \/ AnyGroupHasPeersOrResources(r.peerGroups)

\* The single peers of the other routes are remembered by route id
\* (seenPeers[prefixRoute.ID]): they match no peer below.
CheckRoutePrefixOrDomainsExistForPeers(x, r) ==
  LET same == {y \in DOMAIN acct.routes \ {x} : acct.routes[y].net = r.net}
      seenGroups == UNION {acct.routes[y].peerGroups : y \in same}
      seenPeers  == Members(seenGroups, acct.groupPeers)
  IN /\ r.peer # None => r.peer \in acct.peers \ seenPeers
     /\ ~Meets(r.peerGroups, seenGroups)
     /\ ~Meets(Members(r.peerGroups, acct.groupPeers), seenPeers)

ValidateRoute(x, r) ==
  /\ r.peer = None \/ r.peerGroups = {}
  /\ r.groups # {} /\ RouteGroups(r) \subseteq Groups
  /\ CheckRoutePrefixOrDomainsExistForPeers(x, r)

CreateRoute(x, r) ==
  /\ x \notin DOMAIN acct.routes
  /\ ValidateRoute(x, r)
  /\ Commit([acct EXCEPT !.routes = Put(@, x, r)], AreRouteChangesAffectPeers(r), TRUE)

\* The route as sent is judged before it is given its account id, and under the
\* empty id no group is found: of the new side only a single peer counts.
SaveRoute(x, r) ==
  /\ x \in DOMAIN acct.routes
  /\ ValidateRoute(x, r)
  /\ Commit([acct EXCEPT !.routes = Put(@, x, r)],
            AreRouteChangesAffectPeers(acct.routes[x]) \/ r.peer # None, TRUE)

DeleteRoute(x) ==
  /\ x \in DOMAIN acct.routes
  /\ Commit([acct EXCEPT !.routes = Drop(@, {x})],
            AreRouteChangesAffectPeers(acct.routes[x]), TRUE)

-----------------------------------------------------------------------------
(* Name servers, DNS settings and zones. *)

ValidateGroups(gs) == gs # {} /\ gs \subseteq Groups

AreNameServerGroupChangesAffectPeers(new, old) ==
  /\ new.enabled \/ old.enabled
  /\ AnyGroupHasPeersOrResources(new.groups) \/ AnyGroupHasPeersOrResources(old.groups)

CreateNameServerGroup(s, new) ==
  /\ s \notin DOMAIN acct.nsGroups /\ ValidateGroups(new.groups)
  /\ Commit([acct EXCEPT !.nsGroups = Put(@, s, new)],
            AnyGroupHasPeersOrResources(new.groups), TRUE)

SaveNameServerGroup(s, new) ==
  /\ s \in DOMAIN acct.nsGroups /\ ValidateGroups(new.groups)
  /\ Commit([acct EXCEPT !.nsGroups = Put(@, s, new)],
            AreNameServerGroupChangesAffectPeers(new, acct.nsGroups[s]), TRUE)

DeleteNameServerGroup(s) ==
  /\ s \in DOMAIN acct.nsGroups
  /\ Commit([acct EXCEPT !.nsGroups = Drop(@, {s})],
            AnyGroupHasPeersOrResources(acct.nsGroups[s].groups), TRUE)

AreDNSSettingChangesAffectPeers(gs) ==
  \/ AnyGroupHasPeersOrResources(gs \ acct.noDns)
  \/ AnyGroupHasPeersOrResources(acct.noDns \ gs)

SaveDNSSettings(gs) ==
  /\ gs = {} \/ ValidateGroups(gs)
  /\ Commit([acct EXCEPT !.noDns = gs], AreDNSSettingChangesAffectPeers(gs), TRUE)

\* A new zone has no records, hence reaches nobody yet.
CreateZone(z, gs, on) ==
  /\ z \notin DOMAIN acct.zones /\ gs \subseteq Groups
  /\ Commit([acct EXCEPT !.zones = Put(@, z, [enabled |-> on, groups |-> gs, records |-> FALSE])],
            FALSE, FALSE)

UpdateZone(z, gs, on) ==
  /\ z \in DOMAIN acct.zones /\ gs \subseteq Groups
  /\ Commit([acct EXCEPT !.zones[z].groups = gs, !.zones[z].enabled = on], TRUE, FALSE)

DeleteZone(z) ==
  /\ z \in DOMAIN acct.zones
  /\ Commit([acct EXCEPT !.zones = Drop(@, {z})], TRUE, TRUE)

\* The first record of a zone is created, or its last one deleted.
CreateRecord(z) ==
  /\ z \in DOMAIN acct.zones
  /\ Commit([acct EXCEPT !.zones[z].records = TRUE], TRUE, TRUE)

DeleteRecord(z) ==
  /\ z \in DOMAIN acct.zones /\ acct.zones[z].records
  /\ Commit([acct EXCEPT !.zones[z].records = FALSE], TRUE, TRUE)

-----------------------------------------------------------------------------
(* Networks, their routers and resources.  They always tell the peers. *)

CreateNetwork(net) ==
  /\ net \notin acct.networks
  /\ Commit([acct EXCEPT !.networks = @ \cup {net}], FALSE, FALSE)

CreateRouter(r, new) ==
  /\ r \notin DOMAIN acct.routers /\ new.network \in acct.networks
  /\ Commit([acct EXCEPT !.routers = Put(@, r, new)], TRUE, TRUE)

\* The network given must exist; it need not be the one the router was in.
UpdateRouter(r, new) ==
  /\ r \in DOMAIN acct.routers /\ new.network \in acct.networks
  /\ Commit([acct EXCEPT !.routers = Put(@, r, new)], TRUE, TRUE)

DeleteRouter(r) ==
  /\ r \in DOMAIN acct.routers
  /\ Commit([acct EXCEPT !.routers = Drop(@, {r})], TRUE, TRUE)

WithResource(n, new, gs) ==
  [acct EXCEPT !.resources = Put(@, n, new),
               !.groupRes = [g \in Groups |-> IF g \in gs THEN @[g] \cup {n} ELSE @[g] \ {n}]]

\* Like that of a new group, the id of a new resource is referenced by nothing.
IsNewResource(n) ==
  /\ n \notin DOMAIN acct.resources
  /\ \A g \in Groups : n \notin acct.groupRes[g]
  /\ \A i \in DOMAIN acct.policies : acct.policies[i].dstRes # n

CreateResource(n, new, gs) ==
  /\ IsNewResource(n) /\ new.network \in acct.networks /\ gs \subseteq Groups
  /\ Commit(WithResource(n, new, gs), TRUE, TRUE)

UpdateResource(n, new, gs) ==
  /\ n \in DOMAIN acct.resources /\ new.network \in acct.networks /\ gs \subseteq Groups
  /\ Commit(WithResource(n, new, gs), TRUE, TRUE)

\* Policies that name the resource keep naming it.
WithoutResources(ns) ==
  [acct EXCEPT !.resources = Drop(@, ns), !.groupRes = [g \in Groups |-> @[g] \ ns]]

DeleteResource(n) ==
  /\ n \in DOMAIN acct.resources
  /\ Commit(WithoutResources({n}), TRUE, TRUE)

DeleteNetwork(net) ==
  LET In(f) == {k \in DOMAIN f : f[k].network = net}
  IN /\ net \in acct.networks
     /\ Commit([WithoutResources(In(acct.resources)) EXCEPT
                  !.routers = Drop(@, In(acct.routers)), !.networks = @ \ {net}], TRUE, TRUE)

\* Memberships and the policies that name a peer go with it; a route keeps its id.
WithoutPeers(ps) ==
  LET naming == {i \in DOMAIN acct.policies :
                   ps \cap {acct.policies[i].srcPeer, acct.policies[i].dstPeer} # {}}
  IN [acct EXCEPT !.peers = @ \ ps, !.valid = @ \ ps, !.owner = Drop(@, ps),
                  !.policies = Drop(@, naming), !.groupPeers = [g \in Groups |-> @[g] \ ps]]

\* The transactions of DeleteResource and DeletePeer come after a look at the
\* services, which is an action of AccountServices.
DeletePeer(p) ==
  /\ p \in acct.peers
  /\ \A r \in DOMAIN acct.routers : acct.routers[r].peer # p
  /\ Commit(WithoutPeers({p}), TRUE, TRUE)

-----------------------------------------------------------------------------
(* The operations, on the objects and inputs of the scope. *)

GroupOperation ==
  \E g \in scope.groups :
    \/ \E rs \in {{}, scope.resources} :
         UpdateGroups(g, rs) \/ \E ps \in scope.members : CreateGroup(g, ps, rs) \/ UpdateGroup(g, ps, rs)
    \/ \E p \in Peers : /\ GroupAddPeer(g, p) \/ GroupDeletePeer(g, p)
                        /\ acct'.groupPeers[g] \in scope.members
    \/ \E n \in scope.resources : GroupAddResource(g, n) \/ GroupDeleteResource(g, n)
    \/ DeleteGroups({g}) \/ DeleteGroups(Groups)

PolicyOperation ==
  \/ \E i \in scope.policies : DeletePolicy(i) \/ \E r \in scope.rules : SavePolicy(i, r)
  \/ \E k \in scope.checks : DeletePostureChecks(k)
                            \/ \E ps \in scope.failing : SavePostureChecks(k, ps)

RouteOperation ==
  \E x \in scope.routes : DeleteRoute(x) \/ \E r \in scope.paths : CreateRoute(x, r) \/ SaveRoute(x, r)

DnsOperation ==
  \/ \E s \in scope.nsGroups : DeleteNameServerGroup(s) \/
       \E new \in scope.servers : CreateNameServerGroup(s, new) \/ SaveNameServerGroup(s, new)
  \/ \E gs \in scope.noDns : SaveDNSSettings(gs)
  \/ \E z \in scope.zones : DeleteZone(z) \/ CreateRecord(z) \/ DeleteRecord(z) \/
       \E g \in scope.groups, on \in BOOLEAN : CreateZone(z, {g}, on) \/ UpdateZone(z, {g}, on)

NetworkOperation ==
  \/ \E net \in scope.networks : CreateNetwork(net) \/ DeleteNetwork(net)
  \/ \E r \in scope.routers : DeleteRouter(r) \/
       \E new \in scope.routing : CreateRouter(r, new) \/ UpdateRouter(r, new)
  \/ \E n \in scope.resources : DeleteResource(n) \/
       \E new \in scope.hosts, g \in scope.groups :
          CreateResource(n, new, {g}) \/ UpdateResource(n, new, {g})

Next ==
  \/ GroupOperation
  \/ PolicyOperation
  \/ RouteOperation
  \/ DnsOperation
  \/ NetworkOperation
  \/ \E p \in scope.removable : DeletePeer(p)

Spec == Init /\ [][Next]_vars

-----------------------------------------------------------------------------
(* Properties. *)

\* The controller injects the policies of the services before it computes maps.
Map(p) == GetPeerNetworkMap(InjectProxyPolicies(acct), p)
MapsOf(a) == {[peer |-> p, map |-> GetPeerNetworkMap(whole, p)] :
                p \in Peers, whole \in {InjectProxyPolicies(a)}}

\* What an object refers to exists, wherever the server looks a reference up when it
\* saves one: the groups of routes, policies, name servers, DNS settings and setup
\* keys, the posture checks of policies, and the networks of routers and resources.
\* The components of a map are built on it: filterGroupPeers dereferences every
\* group that a route or a relevant policy names.
NoDanglingReference ==
  /\ \A x \in DOMAIN acct.routes : RouteGroups(acct.routes[x]) \subseteq Groups
  /\ \A i \in DOMAIN acct.policies :
       /\ RuleGroups(acct.policies[i]) \subseteq Groups
       /\ \A j \in DOMAIN acct.policies[i].checks : acct.policies[i].checks[j] \in DOMAIN acct.checks
  /\ \A s \in DOMAIN acct.nsGroups : acct.nsGroups[s].groups \subseteq Groups
  /\ acct.noDns \subseteq Groups
  /\ \A k \in DOMAIN acct.keys : acct.keys[k].groups \subseteq Groups
  /\ \A r \in DOMAIN acct.routers : acct.routers[r].network \in acct.networks
  /\ \A n \in DOMAIN acct.resources : acct.resources[n].network \in acct.networks

\* Cutting the account down loses nothing: the map computed from the components
\* of a peer is the one the whole account gives, in all that concerns approved
\* peers.  Peers that are not approved are the exception, because a policy may name
\* them (getPeerFromResource does not look at validatedPeersMap), and so are two
\* kinds of sources of route firewall rules: those that are no peers of the map,
\* and a peer that its policy names, whose posture the components do not record.
PruningIsExact ==
  \A p \in acct.valid :
    LET a     == InjectProxyPolicies(acct)
        map   == Map(p)
        whole == Calculate(WholeAccount(a, p), p)
        approved(pairs) == {x \in pairs : x[2] \in acct.valid}
        sure(rule) ==
          \/ a.routes[rule[1]].acGroups = {}
          \/ /\ rule[3] \in Known(map) \cap acct.valid
             /\ rule[3] = a.policies[rule[2]].srcPeer => a.policies[rule[2]].checks = <<>>
        seen(m) == [m EXCEPT
                      !.peers = @ \cap acct.valid, !.offline = @ \cap acct.valid,
                      !.firewall = approved(@), !.routes = approved(@), !.netRoutes = approved(@),
                      !.netRules = {rule \in @ : rule[3] \in acct.valid},
                      !.routeRules = {rule \in @ : sure(rule)}]
    IN seen(map) = seen(whole)

\* Two approved peers know of each other or neither does, so that a tunnel has
\* both its ends; two routing peers of one network are the exception.
MutualVisibility ==
  \A p, q \in acct.valid :
    \/ q \in Known(Map(p)) <=> p \in Known(Map(q))
    \/ \E n \in Enabled(acct.resources) : {p, q} \subseteq RoutersOf(acct, acct.resources[n].network)

\* A peer that is given a route to a network resource through another peer is a
\* peer of that one, whose firewall lets it through to the resource.  A routing peer
\* that is not approved gets no map; a client hears of it only if a policy names it.
RoutersAdmitClients ==
  \A p \in acct.valid :
    \A route \in {rt \in Map(p).netRoutes : rt[2] \in acct.valid \ {p}} :
      /\ p \in Known(Map(route[2]))
      /\ \E rule \in Map(route[2]).netRules : rule[1] = route[1] /\ rule[3] = p

\* A saved posture check is one of a policy that names both its source peer and
\* its destination resource, so that the policy has no groups to look at.
ChecksNamedPeer ==
  \E i \in Enabled(acct.policies) :
    LET r == acct.policies[i]
    IN /\ r.srcPeer # None /\ r.dstRes # None
       /\ \E j \in DOMAIN r.checks : r.checks[j] \in DOMAIN acct.checks
                                      /\ acct'.checks[r.checks[j]] # acct.checks[r.checks[j]]

\* A route that concerned nobody, without a peer and over empty groups only, is
\* saved with groups that have members (SaveRoute).
RouteReachesGroups ==
  \E x \in DOMAIN acct.routes \cap DOMAIN acct'.routes :
    /\ ~AreRouteChangesAffectPeers(acct.routes[x])
    /\ AreRouteChangesAffectPeers(acct'.routes[x]) /\ acct'.routes[x].peer = None
    /\ acct'.groupPeers = acct.groupPeers

\* An operation that changes the map of a peer increments the network serial and
\* sends the maps again.  Deleting a user with its peers and the operations on
\* services send them under the old serial.  Zones are weaker: saving one does
\* not increment the serial, and a change of a group does not look at zones.  Two
\* changes are missed: of a posture check whose policy names a peer and a resource
\* (arePostureCheckChangesAffectPeers looks at groups only), and of a route that
\* comes to groups with members.
NoMissedUpdate ==
  [][\/ updated' /\ bumped'
     \/ ChecksNamedPeer
     \/ RouteReachesGroups
     \/ \A old \in MapsOf(acct), new \in MapsOf(acct') :
          old.peer = new.peer =>
             /\ \/ [old.map EXCEPT !.zones = {}] = [new.map EXCEPT !.zones = {}]
                \/ updated' /\ DOMAIN acct'.users # DOMAIN acct.users
                \/ updated' /\ acct'.services # acct.services
             /\ \/ updated' \/ old.map.zones = new.map.zones
                \/ acct'.groupPeers # acct.groupPeers]_vars
=============================================================================
