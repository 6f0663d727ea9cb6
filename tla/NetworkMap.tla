------------------------------ MODULE NetworkMap ------------------------------
(***************************************************************************)
(* The network map of a peer: what the management server computes from an  *)
(* account and sends to the peer.  The code works in two phases, and so    *)
(* does this module:                                                       *)
(*   Components(a, p)  cuts the account down to what concerns p            *)
(*                     (types/account_components.go);                      *)
(*   Calculate(c, p)   computes the map from those components alone        *)
(*                     (types/networkmap_components.go).                   *)
(*                                                                         *)
(* An account a is a record of                                             *)
(*   peers, valid, expired  sets of peers: existing, approved, login       *)
(*                          expired;                                       *)
(*   groupPeers, groupRes   functions on the existing groups: the peers    *)
(*                          and the network resources of each;             *)
(*   checks     posture check |-> the peers that fail it;                  *)
(*   policies   policy |-> [enabled, both, sources, srcPeer, destinations, *)
(*              dstPeer, dstRes, checks], the policy and its one rule      *)
(*              ("both" is Bidirectional, "checks" a list that may have    *)
(*              gaps: position |-> posture check);                         *)
(*   routes     route |-> [enabled, net, peer, peerGroups, groups,         *)
(*              acGroups];                                                 *)
(*   nsGroups   name server group |-> [enabled, groups, servers];          *)
(*   noDns      the groups whose DNS is not managed;                       *)
(*   networks, routers, resources                                          *)
(*              router |-> [network, peer, peerGroups, enabled],           *)
(*              resource |-> [network, enabled];                           *)
(*   zones      zone |-> [enabled, groups, records], "records": has some;  *)
(*   services   service |-> [enabled, cluster, targets, ...], and          *)
(*   embedded   peer |-> its cluster, for the peers that are proxies.      *)
(* Policies are numbered in the order of the account's list.               *)
(***************************************************************************)
EXTENDS Integers, FiniteSets, Sequences, SequencesExt

CONSTANT None       \* stands for an empty peer or resource reference

Enabled(f) == {i \in DOMAIN f : f[i].enabled}

Members(gs, groups) == UNION {groups[g] : g \in gs \cap DOMAIN groups}

GetPeerGroups(groups, p) == {g \in DOMAIN groups : p \in groups[g]}

RuleGroups(r) == r.sources \cup r.destinations

Meets(A, B) == A \cap B # {}

-----------------------------------------------------------------------------
(* Policies that no administrator has written: every proxy of the cluster of an
   enabled service may reach the service's targets.  They come last. *)

FirstProxyPolicy == 100

ProxyPolicy(a, q, t) ==
  [enabled |-> TRUE, both |-> FALSE, checks |-> <<>>,
   sources |-> {}, srcPeer |-> q, destinations |-> {},
   dstPeer |-> IF t \in DOMAIN a.resources THEN None ELSE t,
   dstRes |-> IF t \in DOMAIN a.resources THEN t ELSE None]

InjectProxyPolicies(a) ==
  LET uses == SetToSeq(UNION {{<<s, q, t>> : q \in {e \in DOMAIN a.embedded \cap a.peers :
                                                     a.embedded[e] = a.services[s].cluster},
                                             t \in a.services[s].targets} : s \in Enabled(a.services)})
      at(i) == uses[i + 1 - FirstProxyPolicy]
      ids == FirstProxyPolicy .. (FirstProxyPolicy + Len(uses) - 1)
  IN [a EXCEPT !.policies = [i \in DOMAIN @ \cup ids |->
                               IF i \in DOMAIN @ THEN @[i] ELSE ProxyPolicy(a, at(i)[2], at(i)[3])]]

-----------------------------------------------------------------------------
(* Phase one: the part of the account that concerns p. *)

\* The first check of the list q fails, as a set of at most one pair.
FirstFailed(a, cs, q) ==
  LET failed == {i \in DOMAIN cs : cs[i] \in DOMAIN a.checks /\ q \in a.checks[cs[i]]}
  IN {<<cs[i], q>> : i \in {j \in failed : \A k \in failed : j <= k}}

GetPeersFromGroups(a, gs, cs) ==
  {q \in Members(gs, a.groupPeers) \cap a.valid : FirstFailed(a, cs, q) = {}}

RuleSources(a, r) ==
  IF r.srcPeer # None THEN {r.srcPeer} ELSE GetPeersFromGroups(a, r.sources, r.checks)
RuleDestinations(a, r) ==
  IF r.dstPeer # None THEN {r.dstPeer} ELSE GetPeersFromGroups(a, r.destinations, <<>>)

\* Mutant of Failures: the peers are cut, but why is not recorded.
FailuresUnrecorded(a, r, qs) == {}

\* The posture failures that checking the peers qs as sources of r records.
Failures(a, r, qs) == UNION {FirstFailed(a, r.checks, q) : q \in qs \cap a.valid}

GetPeersGroupsPoliciesRoutes(a, p) ==
  LET on   == Enabled(a.policies)
      src  == [i \in on |-> RuleSources(a, a.policies[i])]
      dst  == [i \in on |-> RuleDestinations(a, a.policies[i])]
      ac   == UNION {a.routes[x].acGroups : x \in Enabled(a.routes)}
      asAc == {i \in on : Meets(a.policies[i].destinations, ac)}
      from == {i \in on : p \in src[i]}
      to   == {i \in on : p \in dst[i]}
  IN [peers    |-> {p} \cup (UNION {dst[i] : i \in from}) \cup (UNION {src[i] : i \in to}),
      groups   |-> GetPeerGroups(a.groupPeers, p) \cup ac
                   \cup (UNION {a.routes[x].groups \cup a.routes[x].peerGroups : x \in DOMAIN a.routes})
                   \cup (UNION {RuleGroups(a.policies[i]) : i \in asAc})
                   \cup (UNION {a.policies[i].destinations : i \in from})
                   \cup (UNION {a.policies[i].sources : i \in to}),
      policies |-> asAc \cup from \cup to,
      failed   |-> UNION {Failures(a, a.policies[i], Members(a.policies[i].sources, a.groupPeers))
                            : i \in on}]

GetPoliciesForNetworkResource(a, n) ==
  LET in == {g \in DOMAIN a.groupRes : n \in a.groupRes[g]}
  IN {i \in Enabled(a.policies) : \/ a.policies[i].dstRes = n
                                  \/ Meets(a.policies[i].destinations, in)}

RoutersOf(a, net) ==
  UNION {IF a.routers[r].peer # None THEN {a.routers[r].peer}
         ELSE Members(a.routers[r].peerGroups, a.groupPeers)
           : r \in {s \in Enabled(a.routers) : a.routers[s].network = net}}

\* policy.Rules[0]'s source peers, before any check.
GetResourcePolicyPeers(r, groups) ==
  IF r.srcPeer # None THEN {r.srcPeer} ELSE Members(r.sources, groups)

\* What one enabled network resource adds.  A policy counts when p routes the
\* network, when p is a source of it that passes its checks, or when it comes
\* after such a policy in the list.
ResourceComponents(a, p, n) ==
  LET ids     == GetPoliciesForNetworkResource(a, n)
      router  == p \in RoutersOf(a, a.resources[n].network)
      isIn(i) == p \in GetResourcePolicyPeers(a.policies[i], a.groupPeers)
      passes(i) == isIn(i) /\ FirstFailed(a, a.policies[i].checks, p) = {}
      collects(i) == router \/ \E j \in ids : j < i /\ passes(j)
      used    == {i \in ids : collects(i) \/ passes(i)}
      sources(i) == GetResourcePolicyPeers(a.policies[i], a.groupPeers) \cap a.valid
      checked(i) == IF collects(i) THEN sources(i) ELSE sources(i) \cap {p}
  IN [peers    |-> UNION {{q \in sources(i) : FirstFailed(a, a.policies[i].checks, q) = {}}
                            : i \in {j \in ids : collects(j)}},
      failed   |-> UNION {Failures(a, a.policies[i], checked(i)) : i \in ids},
      groups   |-> UNION {RuleGroups(a.policies[i]) : i \in used},
      policies |-> IF used = {} THEN {} ELSE ids,
      kept     |-> router \/ used # {}]

GetPeerNetworkMapComponents(a, p) ==
  LET base  == GetPeersGroupsPoliciesRoutes(a, p)
      res   == [n \in Enabled(a.resources) |-> ResourceComponents(a, p, n)]
      nets  == {a.resources[n].network : n \in DOMAIN res}
      rtrs  == [net \in nets |-> RoutersOf(a, net)]
      peers == (base.peers \cup (UNION {res[n].peers : n \in DOMAIN res})
                \cup ((UNION {rtrs[net] : net \in nets}) \cap a.valid)) \cap a.peers
      gs    == (base.groups \cup UNION {res[n].groups : n \in DOMAIN res}) \cap DOMAIN a.groupPeers
  IN [peers       |-> peers,
      routerPeers |-> (UNION {rtrs[net] : net \in nets}) \cap a.peers,
      groups      |-> [g \in gs |-> a.groupPeers[g] \cap peers],            \* filterGroupPeers
      policies    |-> base.policies,
      rules       |-> a.policies,
      failed      |-> base.failed \cup UNION {res[n].failed : n \in DOMAIN res},
      routes      |-> a.routes,
      nsGroups    |-> [s \in {t \in Enabled(a.nsGroups) : Meets(a.nsGroups[t].groups, base.groups)}
                         |-> a.nsGroups[s]],
      resources   |-> {n \in DOMAIN res : res[n].kept},
      resPolicies |-> [n \in DOMAIN res |-> res[n].policies],
      routers     |-> [n \in DOMAIN res |-> rtrs[a.resources[n].network]],
      zones       |-> {z \in Enabled(a.zones) : a.zones[z].records /\
                         Meets(a.zones[z].groups, GetPeerGroups(a.groupPeers, p))},
      expired     |-> a.expired,
      noDns       |-> a.noDns]

\* The whole account in the shape of components: nothing is cut.
WholeAccount(a, p) ==
  LET cut == GetPeerNetworkMapComponents(a, p)
      on  == Enabled(a.resources)
  IN [cut EXCEPT !.peers = a.valid,
                 !.groups = a.groupPeers,
                 !.policies = DOMAIN a.policies,
                 !.failed = UNION {{<<k, q>> : q \in a.checks[k]} : k \in DOMAIN a.checks},
                 !.nsGroups = a.nsGroups,
                 !.resources = on,
                 !.resPolicies = [n \in on |-> GetPoliciesForNetworkResource(a, n)]]

-----------------------------------------------------------------------------
(* Phase two: the map of p, from the components alone. *)

ValidatePostureChecksOnPeer(c, cs, q) ==
  q \in c.peers /\ \A i \in DOMAIN cs : <<cs[i], q>> \notin c.failed

GetAllPeersFromGroups(c, gs, cs) ==
  {q \in Members(gs, c.groups) : ValidatePostureChecksOnPeer(c, cs, q)}

FromSources(c, r) ==
  IF r.srcPeer # None THEN {r.srcPeer} \cap c.peers
  ELSE GetAllPeersFromGroups(c, r.sources, r.checks)
FromDestinations(c, r) ==
  IF r.dstPeer # None THEN {r.dstPeer} \cap c.peers
  ELSE GetAllPeersFromGroups(c, r.destinations, <<>>)

\* The firewall rules of p: policy, remote peer, direction.
GetPeerConnectionResources(c, p) ==
  UNION {LET r   == c.rules[i]
             src == FromSources(c, r)
             dst == FromDestinations(c, r)
             out == (IF p \in src THEN dst ELSE {}) \cup (IF r.both /\ p \in dst THEN src ELSE {})
             in  == (IF p \in dst THEN src ELSE {}) \cup (IF r.both /\ p \in src THEN dst ELSE {})
         IN {<<i, q, "out">> : q \in out \ {p}} \cup {<<i, q, "in">> : q \in in \ {p}}
           : i \in {j \in c.policies : c.rules[j].enabled}}

\* The routes q serves, enabled or not.
GetRoutingPeerRoutes(c, q) ==
  IF q \notin c.peers \cup c.routerPeers THEN {}
  ELSE {x \in DOMAIN c.routes : \/ c.routes[x].peer = q
                                \/ q \in Members(c.routes[x].peerGroups, c.groups)}

\* Pairs of a route and the peer that serves it.
GetRoutesToSync(c, p, connected) ==
  LET own  == GetRoutingPeerRoutes(c, p)
      nets == {c.routes[x].net : x \in own}
  IN {<<x, p>> : x \in own \cap Enabled(c.routes)} \cup
     UNION {{<<x, q>> : q \in {peer \in connected : x \in GetRoutingPeerRoutes(c, peer)}}
              : x \in {y \in Enabled(c.routes) : /\ Meets(c.routes[y].groups, GetPeerGroups(c.groups, p))
                                                 /\ c.routes[y].net \notin nets}}

\* Mutant of GetRulePeers: the peer named as source is forgotten.
RulePeersOfGroups(c, r, p, dist) ==
  {q \in Members(r.sources, c.groups) \ {p} :
     q \in dist /\ ValidatePostureChecksOnPeer(c, r.checks, q)}

GetRulePeers(c, r, p, dist) ==
  {q \in (Members(r.sources, c.groups) \ {p}) \cup ({r.srcPeer} \ {None}) :
     q \in dist /\ ValidatePostureChecksOnPeer(c, r.checks, q)}

\* A route without access control groups lets anybody through; for another,
\* the policies that have one of its groups as destination say who may pass.
GetPeerRoutesFirewallRules(c, p) ==
  LET rulesFor(x) == {i \in c.policies : /\ c.rules[i].enabled
                                         /\ Meets(c.rules[i].destinations, c.routes[x].acGroups)}
      rulePeers(x, i) == GetRulePeers(c, c.rules[i], p, Members(c.routes[x].groups, c.groups))
  IN UNION {IF c.routes[x].acGroups = {} THEN {<<x, None, None>>}
            ELSE UNION {{<<x, i, q>> : q \in rulePeers(x, i)} : i \in rulesFor(x)}
              : x \in GetRoutingPeerRoutes(c, p) \cap Enabled(c.routes)}

IsRouter(c, p, n) == p \in c.routers[n]

\* Pairs of a resource and the routing peer its traffic goes to.
GetNetworkResourcesRoutesToSync(c, p) ==
  LET isClient(n) == \E i \in c.resPolicies[n] :
                       /\ p \in GetResourcePolicyPeers(c.rules[i], c.groups)
                       /\ ValidatePostureChecksOnPeer(c, c.rules[i].checks, p)
  IN UNION {{<<n, q>> : q \in (IF IsRouter(c, p, n) THEN {p}
                               ELSE IF isClient(n) THEN c.routers[n] ELSE {}) \cap c.peers}
              : n \in {m \in c.resources : c.resPolicies[m] # {}}}

\* The peers that may use the resources p routes.
ResourceSourcePeers(c, p) ==
  UNION {{q \in GetResourcePolicyPeers(c.rules[i], c.groups) :
            ValidatePostureChecksOnPeer(c, c.rules[i].checks, q)}
           : i \in UNION {c.resPolicies[n] : n \in {m \in c.resources : IsRouter(c, p, m)}}}

GetPeerNetworkResourceFirewallRules(c, p, routes) ==
  UNION {UNION {{<<n, i, q>> : q \in GetRulePeers(c, c.rules[i], p, c.peers)} : i \in c.resPolicies[n]}
           : n \in {m \in c.resources : <<m, p>> \in routes}}

\* Mutant of AddNetworksRoutingPeers: only the next hops, not the clients.
AddNextHops(c, p, routes, known) ==
  ({route[2] : route \in routes} \ ({p} \cup known)) \cap (c.peers \cup c.routerPeers)

AddNetworksRoutingPeers(c, p, routes, known) ==
  ((ResourceSourcePeers(c, p) \cup {route[2] : route \in routes}) \ ({p} \cup known))
     \cap (c.peers \cup c.routerPeers)

GetPeerNSGroupsFromGroups(c, p) ==
  {s \in Enabled(c.nsGroups) : /\ Meets(c.nsGroups[s].groups, GetPeerGroups(c.groups, p))
                               /\ p \notin c.nsGroups[s].servers}

Calculate(c, p) ==
  LET rules   == GetPeerConnectionResources(c, p)
      acl     == {rule[2] : rule \in rules}
      offline == acl \cap c.expired
      routes  == GetNetworkResourcesRoutesToSync(c, p)
      managed == ~Meets(c.noDns, GetPeerGroups(c.groups, p))
  IN [peers         |-> (acl \ offline) \cup AddNetworksRoutingPeers(c, p, routes, acl),
      offline       |-> offline,
      firewall      |-> rules,
      routes        |-> GetRoutesToSync(c, p, acl \ offline),
      netRoutes     |-> routes,
      routeRules    |-> GetPeerRoutesFirewallRules(c, p),
      netRules      |-> GetPeerNetworkResourceFirewallRules(c, p, routes),
      nsGroups      |-> IF managed THEN GetPeerNSGroupsFromGroups(c, p) ELSE {},
      zones         |-> IF managed THEN c.zones ELSE {},
      dns           |-> managed]

EmptyMap == [peers |-> {}, offline |-> {}, firewall |-> {}, routes |-> {}, netRoutes |-> {},
             routeRules |-> {}, netRules |-> {}, nsGroups |-> {}, zones |-> {}, dns |-> FALSE]

\* An unknown or unapproved peer gets a map with nothing in it.
GetPeerNetworkMap(a, p) ==
  IF p \notin a.peers \cap a.valid THEN EmptyMap
  ELSE Calculate(GetPeerNetworkMapComponents(a, p), p)

\* The peers a map makes known, connected or expired.
Known(m) == m.peers \cup m.offline
=============================================================================
