---------------------------- MODULE MCLoginExpiry ----------------------------
EXTENDS LoginExpiry
CONSTANTS p1, p2, u1, j1, j2

OneOwner == [p \in Peer |-> u1]

(* Two peers and one goroutine, for either expiration; two goroutines for one peer; *)
(* two calls of administrators for one peer and one goroutine, UpdatePeer too.       *)
Pair(k) == [peers |-> {p1, p2}, callers |-> {p1}, jobs |-> {j1}, kinds |-> {k},
            edited |-> {}, calls |-> 1]
One(jobs, k, n) == [peers |-> {p1}, callers |-> {p1}, jobs |-> jobs, kinds |-> {k},
                      edited |-> {}, calls |-> n]
Edited(k) == [One({j1}, k, 2) EXCEPT !.edited = {p1}]
SmallScopes == {Pair("login"), Pair("inactivity"), One({j1, j2}, "login", 1),
                Edited("login"), Edited("inactivity")}
=============================================================================
