--------------------------- MODULE MCAccountConfig ---------------------------
(* ProxyControl, hence all of an account, with three peers and two groups, one
   set of features at a time. *)
EXTENDS ProxyControl

MCPeers == {"p1", "p2", "p3"}

Nothing == [groups |-> {"g1", "g2"}, members |-> {{}, {"p1"}, {"p1", "p2"}},
            unapproved |-> {}, expired |-> {}, removable |-> {},
            policies |-> {}, rules |-> {}, checks |-> {}, failing |-> {},
            routes |-> {}, paths |-> {}, nsGroups |-> {}, servers |-> {}, noDns |-> {},
            zones |-> {}, networks |-> {}, routers |-> {}, routing |-> {},
            resources |-> {}, hosts |-> {},
            newcomers |-> {}, keys |-> {}, limits |-> {}, handouts |-> {}, users |-> {}, claims |-> {}, calls |-> {},
            services |-> {}, offers |-> {}, clusterOf |-> <<>>, handlers |-> {}, exposers |-> {},
            maxExposes |-> 1, embedded |-> <<>>, streams |-> {}, clusters |-> {}]

Rule == [enabled |-> TRUE, both |-> FALSE, sources |-> {"g1"}, srcPeer |-> None,
         destinations |-> {"g2"}, dstPeer |-> None, dstRes |-> None, checks |-> <<>>]

Path == [enabled |-> TRUE, net |-> "n1", peer |-> None, peerGroups |-> {"g1"},
         groups |-> {"g2"}, acGroups |-> {}]

\* Two policies that share groups, one checking the posture of its sources.
Policies ==
  [Nothing EXCEPT
     !.policies = {1, 2}, !.checks = {"c1"}, !.failing = {{}, {"p1"}},
     !.unapproved = {"p2"}, !.expired = {"p3"},
     !.rules = {[Rule EXCEPT !.checks = <<"c1">>],
                [Rule EXCEPT !.sources = {"g1", "g2"}, !.both = TRUE],
                [Rule EXCEPT !.enabled = FALSE],
                [Rule EXCEPT !.destinations = {}, !.dstPeer = "p3", !.checks = <<"c1">>]}]

\* Routes served by groups and by peers, with a policy that opens one of them.  A peer
\* that was removed may be put in groups and policies again.
Routes ==
  [Nothing EXCEPT
     !.policies = {1}, !.routes = {"r1", "r2"}, !.expired = {"p2"}, !.removable = {"p1"},
     !.rules = {Rule, [Rule EXCEPT !.sources = {}, !.srcPeer = "p1"],
                [Rule EXCEPT !.sources = {"g2"}, !.destinations = {"g1"}, !.both = TRUE]},
     !.paths = {Path, [Path EXCEPT !.enabled = FALSE, !.acGroups = {"g1"}],
                [Path EXCEPT !.peer = "p1", !.peerGroups = {}, !.acGroups = {"g2"}],
                [Path EXCEPT !.peer = "p3", !.peerGroups = {}]}]

\* A route that moves from one group to the other, one of which is empty.
Regrouped ==
  [Nothing EXCEPT
     !.policies = {1}, !.routes = {"r1"}, !.removable = {"p1"},
     !.rules = {Rule, [Rule EXCEPT !.sources = {}, !.srcPeer = "p1"]},
     !.paths = {[Path EXCEPT !.groups = {"g1"}], [Path EXCEPT !.peerGroups = {"g2"}],
                [Path EXCEPT !.peer = "p3", !.peerGroups = {}, !.groups = {"g1"}]}]

\* Name servers, DNS settings and a zone.
Dns ==
  [Nothing EXCEPT
     !.nsGroups = {"s1"}, !.zones = {"z1"}, !.noDns = {{}, {"g1"}, {"g2"}},
     !.servers = {[enabled |-> on, groups |-> gs, servers |-> {"p1"}] :
                    on \in BOOLEAN, gs \in {{"g1"}, {"g1", "g2"}}}]

\* A network with a router and a resource, opened by policies; p1 may fail the
\* posture check of one that names it with the resource.
Networks ==
  [Nothing EXCEPT
     !.policies = {1}, !.networks = {"n1"}, !.routers = {"r1"}, !.resources = {"h1"},
     !.checks = {"c1"}, !.failing = {{}, {"p1"}}, !.members = {{"p1"}, {"p1", "p2"}},
     !.rules = {[Rule EXCEPT !.checks = <<"c1">>],
                [Rule EXCEPT !.sources = {}, !.srcPeer = "p1", !.destinations = {}, !.dstRes = "h1",
                             !.checks = <<"c1">>]},
     !.routing = {[network |-> "n1", peer |-> "p3", peerGroups |-> {}, enabled |-> TRUE],
                  [network |-> "n1", peer |-> None, peerGroups |-> {"g1"}, enabled |-> TRUE]},
     !.hosts = {[network |-> "n1", enabled |-> TRUE]}]

\* A policy that names a routing peer which is not approved, and one that opens the
\* resource behind it.
Unapproved ==
  [Nothing EXCEPT
     !.policies = {1, 2}, !.unapproved = {"p3"}, !.networks = {"n1"}, !.routers = {"r1"}, !.resources = {"h1"},
     !.members = {{"p1"}, {"p1", "p2", "p3"}},
     !.rules = {[Rule EXCEPT !.destinations = {}, !.dstPeer = "p3"],
                [Rule EXCEPT !.destinations = {}, !.dstRes = "h1"]},
     !.routing = {[network |-> "n1", peer |-> "p3", peerGroups |-> {}, enabled |-> TRUE]},
     !.hosts = {[network |-> "n1", enabled |-> TRUE]}]

\* A route that a policy opens to a peer it names, whose posture may fail.
Named ==
  [Nothing EXCEPT
     !.policies = {1, 2}, !.checks = {"c1"}, !.failing = {{"p1"}}, !.routes = {"r1"},
     !.members = {{"p3"}, {"p1", "p2"}},
     !.rules = {[Rule EXCEPT !.sources = {}, !.srcPeer = "p1", !.checks = <<"c1">>],
                [Rule EXCEPT !.sources = {"g2"}, !.destinations = {"g1"}]},
     !.paths = {[Path EXCEPT !.acGroups = {"g2"}], [Path EXCEPT !.acGroups = {"g1"}]}]

\* A one-off setup key that two machines present, in any order.
Keys ==
  [Nothing EXCEPT
     !.policies = {1}, !.rules = {Rule}, !.members = {{}},
     !.newcomers = {"p2", "p3"}, !.calls = {1, 2},
     !.keys = {"k1"}, !.limits = {1}, !.handouts = {{"g1"}}]

\* A user whose groups change while its machine is being added.
Users ==
  [Nothing EXCEPT
     !.policies = {1}, !.rules = {Rule}, !.members = {{}},
     !.newcomers = {"p2"}, !.calls = {1}, !.users = {"u1"}, !.handouts = {{"g1"}, {"g2"}},
     !.claims = {{}, {"g2"}}]

Offer == [domain |-> "d1", body |-> 1, enabled |-> TRUE, targets |-> {}]

\* Services that forward to peers; p3 is a proxy of their cluster.
Exposing ==
  [Nothing EXCEPT
     !.groups = {}, !.members = {}, !.services = {"s1", "s2"}, !.handlers = {1}, !.exposers = {"p1"},
     !.embedded = [p \in {"p3"} |-> "c1"],
     !.clusterOf = [d1 |-> "c1", d2 |-> "c2"],
     !.offers = {[Offer EXCEPT !.targets = {"p1", "p2"}], [Offer EXCEPT !.domain = "d2", !.targets = {"p1"}],
                 [Offer EXCEPT !.enabled = FALSE]}]

\* A proxy with two successive or overlapping streams, in one of two clusters.
Proxying ==
  [Nothing EXCEPT
     !.groups = {}, !.members = {}, !.newcomers = MCPeers, !.services = {"s1"}, !.handlers = {1},
     !.streams = {"t1", "t2"}, !.clusters = {"c1"},
     !.clusterOf = [d1 |-> "c1", d2 |-> "c2"],
     !.offers = {Offer, [Offer EXCEPT !.body = 2, !.enabled = FALSE], [Offer EXCEPT !.domain = "d2"]}]

\* Two handlers, whose notices may be sent in either order, and one stream.
Racing ==
  [Proxying EXCEPT !.services = {"s1", "s2"}, !.handlers = {1, 2}, !.streams = {"t1"},
     !.offers = {Offer, [Offer EXCEPT !.domain = "d2", !.body = 2]}]

\* A proxy that comes back with another address.
Moving ==
  [Proxying EXCEPT !.clusters = {"c1", "c2"}, !.offers = {[Offer EXCEPT !.domain = "d2"]}]

MCScopes == {Policies, Routes, Regrouped, Dns, Networks, Unapproved, Named, Keys, Users, Exposing, Proxying, Racing, Moving}
=============================================================================
