---------------------------- MODULE AccountMembers ----------------------------
(***************************************************************************)
(* How peers enter an account: setup keys, users and the groups both hand  *)
(* out, AddPeer, SaveOrAddUsers, SyncUserJWTGroups and DeleteUser, on top  *)
(* of AccountConfig.                                                       *)
(*                                                                         *)
(* AddPeer, SaveOrAddUsers and SyncUserJWTGroups read part of what they    *)
(* act on before they begin their transaction, so each is two actions,     *)
(* with whatever happens to the account between them:                      *)
(*                                                                         *)
(* joining  call of AddPeer |-> what it has read: [peer, groups, key, user] *)
(* saving   what a call that updates a user has read: [groups, propagates], *)
(*          in a sequence that is empty when there is no such call.        *)
(*                                                                         *)
(* The groups whose id is in acct.jwt were issued by a token: such a group *)
(* is found by its name, which is its id here.                             *)
(* A peer is its WireGuard key.  The group All, IPv6, roles and identity   *)
(* providers are left out; blocking a user is in LoginExpiry.  A key past  *)
(* its expiry date is a revoked one here.                                  *)
(***************************************************************************)
EXTENDS AccountConfig

\* Every setup key has an id; a limit of zero or less is none.
ASSUME KeysAssumption == \A s \in Scopes : None \notin s.keys /\ s.limits \subseteq Int

VARIABLES joining, saving
reads == <<joining, saving>>
memberVars == <<vars, reads>>

MInit == Init /\ joining = <<>> /\ saving = <<>>

Of(u) == {p \in acct.peers : acct.owner[p] = u}

-----------------------------------------------------------------------------
(* Setup keys: validateSetupKeyAutoGroups refuses groups that do not exist. *)

IsOverUsed(k) == acct.keys[k].limit > 0 /\ acct.keys[k].used >= acct.keys[k].limit
IsValid(k) == k \in DOMAIN acct.keys /\ ~acct.keys[k].revoked /\ ~IsOverUsed(k)

\* Ids are generated: none is in use already, or still waited for.
CreateSetupKey(k, gs, limit) ==
  /\ k \notin DOMAIN acct.keys /\ \A c \in DOMAIN joining : joining[c].key # k
  /\ gs \subseteq Groups
  /\ Commit([acct EXCEPT !.keys = Put(@, k, [groups |-> gs, limit |-> limit, used |-> 0, revoked |-> FALSE])],
            FALSE, FALSE)

\* Usage and limit are those of the stored key.
SaveSetupKey(k, gs, revoked) ==
  /\ k \in DOMAIN acct.keys /\ gs \subseteq Groups
  /\ acct.keys[k].revoked => revoked
  /\ Commit([acct EXCEPT !.keys[k].groups = gs, !.keys[k].revoked = revoked], FALSE, FALSE)

DeleteSetupKey(k) ==
  /\ k \in DOMAIN acct.keys
  /\ Commit([acct EXCEPT !.keys = Drop(@, {k})], FALSE, FALSE)

-----------------------------------------------------------------------------
(* AddPeer. *)

ReadBefore(c, p, gs, k, u) ==
  /\ c \notin DOMAIN joining /\ p \notin acct.peers
  /\ joining' = Put(joining, c, [peer |-> p, groups |-> gs, key |-> k, user |-> u])
  /\ UNCHANGED <<vars, saving>>

HandleSetupKeyAddedPeer(c, p, k) == IsValid(k) /\ ReadBefore(c, p, acct.keys[k].groups, k, None)
HandleUserAddedPeer(c, p, u) == u \in DOMAIN acct.users /\ ReadBefore(c, p, acct.users[u], None, u)

IncrementSetupKeyUsage(key) == [key EXCEPT !.used = @ + 1]

\* The peer joins the groups that still exist; one that is gone gets a
\* membership nobody sees.
Enrolled(j) ==
  [acct EXCEPT !.peers = @ \cup {j.peer}, !.valid = @ \cup {j.peer},
               !.owner = Put(@, j.peer, j.user),
               !.groupPeers = [g \in Groups |-> IF g \in j.groups THEN @[g] \cup {j.peer} ELSE @[g]],
               !.keys = [k \in DOMAIN @ |-> IF k = j.key THEN IncrementSetupKeyUsage(@[k]) ELSE @[k]]]

\* Mutant of AddPeer: the key is not validated again in the transaction.
AddPeerUnchecked(c) ==
  LET j == joining[c]
  IN /\ c \in DOMAIN joining
     /\ joining' = Drop(joining, {c})
     /\ UNCHANGED saving
     /\ j.peer \notin acct.peers /\ Commit(Enrolled(j), TRUE, TRUE)

\* A machine that another call has registered since fails the unique index on
\* its key in each of the ten attempts, after which AddPeer goes on as if it
\* had stored the peer; a setup key that is no longer valid is an error.
AddPeer(c) ==
  LET j == joining[c]
  IN /\ c \in DOMAIN joining
     /\ joining' = Drop(joining, {c})
     /\ UNCHANGED saving
     /\ \/ /\ j.peer \notin acct.peers /\ (j.key = None \/ IsValid(j.key))
           /\ Commit(Enrolled(j), TRUE, TRUE)
        \/ j.peer \in acct.peers /\ Commit(acct, TRUE, FALSE)
        \/ /\ j.peer \notin acct.peers /\ j.key # None /\ ~IsValid(j.key)
           /\ UNCHANGED vars

-----------------------------------------------------------------------------
(* Users. *)

ReadAccountGroups ==
  /\ saving = <<>> /\ DOMAIN acct.users # {}
  /\ saving' = << [groups |-> Groups, propagates |-> acct.propagates] >>
  /\ UNCHANGED <<vars, joining>>

\* The peers of u follow the groups u gains and loses.
Memberships(u, gained, lost, groupPeers) ==
  [g \in DOMAIN groupPeers |-> CASE g \in gained -> groupPeers[g] \cup Of(u)
                                [] g \in lost -> groupPeers[g] \ Of(u)
                                [] OTHER -> groupPeers[g]]

\* processUserUpdate and SaveUser, for one user.
SaveUser(u, gs) ==
  LET old == acct.users[u]
  IN /\ u \in DOMAIN acct.users
     /\ saving # <<>> /\ gs \subseteq saving[1].groups
     /\ saving' = <<>>
     /\ Commit([acct EXCEPT !.users[u] = gs,
                            !.groupPeers = IF saving[1].propagates THEN Memberships(u, gs \ old, old \ gs, @)
                                           ELSE @], TRUE, TRUE)
     /\ UNCHANGED joining

AddUser(u, gs) ==
  /\ u \notin DOMAIN acct.users
  /\ saving # <<>> /\ gs \subseteq saving[1].groups
  /\ saving' = <<>>
  /\ Commit([acct EXCEPT !.users = Put(@, u, gs)], TRUE, TRUE)
  /\ UNCHANGED joining

WithEmpty(f, gs) == [g \in DOMAIN f \cup gs |-> IF g \in gs THEN {} ELSE f[g]]

\* The groups named in the user's token: missing ones are created, those that
\* a token issued are gained and lost, ids of deleted groups are forgotten.
SyncUserJWTGroups(u, names) ==
  LET old    == acct.users[u]
      issued == acct.jwt \cup (names \ Groups)
      gained == (names \cap issued) \ old
      lost   == (old \cap acct.jwt) \ names
      base   == WithEmpty(acct.groupPeers, names \ Groups)
  IN /\ u \in DOMAIN acct.users
     /\ saving # <<>> /\ saving' = <<>>
     /\ gained \cup lost # {} /\ \A g \in names \ Groups : IsNewGroup(g)
     /\ Commit([acct EXCEPT !.jwt = issued,
                            !.groupRes = WithEmpty(@, names \ Groups),
                            !.users[u] = ((@ \cap Groups) \ lost) \cup gained,
                            !.groupPeers = IF saving[1].propagates THEN Memberships(u, gained, lost, base)
                                           ELSE base],
               \E g \in gained \cup lost : AreGroupChangesAffectPeers(g), saving[1].propagates)
     /\ UNCHANGED joining

\* deleteRegularUser, with the user's peers: unlike DeletePeer it looks at no
\* network router and does not increment the serial.
DeleteUser(u) ==
  /\ u \in DOMAIN acct.users
  /\ Commit([WithoutPeers(Of(u)) EXCEPT !.users = Drop(@, {u})], TRUE, FALSE)

\* UpdateAccountSettings turns propagation on or off; on, every user's peers
\* join the user's groups (propagateUserGroupMemberships).
SetGroupsPropagation(on) ==
  LET late(g) == {p \in acct.peers : acct.owner[p] \in DOMAIN acct.users
                                     /\ g \in acct.users[acct.owner[p]]} \ acct.groupPeers[g]
      grown   == {g \in Groups : on /\ late(g) # {}}
  IN /\ on # acct.propagates
     /\ Commit([acct EXCEPT !.propagates = on,
                            !.groupPeers = [g \in Groups |-> IF g \in grown THEN @[g] \cup late(g) ELSE @[g]]],
               \E g \in grown : AreGroupChangesAffectPeers(g), grown # {})

-----------------------------------------------------------------------------
(* The operations on the inputs of the scope.  A group that is created now is
   not one that a call has read before. *)
IsFresh == \A g \in DOMAIN acct'.groupPeers \ Groups :
  /\ \A c \in DOMAIN joining : g \notin joining[c].groups
  /\ saving # <<>> => g \notin saving[1].groups

KeyOperation ==
  \E k \in scope.keys :
    \/ DeleteSetupKey(k)
    \/ \E gs \in scope.handouts :
         \/ \E limit \in scope.limits : CreateSetupKey(k, gs, limit)
         \/ \E revoked \in BOOLEAN : SaveSetupKey(k, gs, revoked)

MNext ==
  \/ Next /\ IsFresh /\ UNCHANGED reads
  \/ KeyOperation /\ UNCHANGED reads
  \/ \E c \in scope.calls, p \in scope.newcomers :
       \/ \E k \in scope.keys : HandleSetupKeyAddedPeer(c, p, k)
       \/ \E u \in scope.users : HandleUserAddedPeer(c, p, u)
  \/ \E c \in scope.calls : AddPeer(c)
  \/ ReadAccountGroups
  \/ \E u \in scope.users, names \in scope.claims : SyncUserJWTGroups(u, names) /\ IsFresh
  \/ \E u \in scope.users, gs \in scope.handouts : SaveUser(u, gs) \/ AddUser(u, gs)
  \/ \E u \in scope.users : DeleteUser(u) /\ UNCHANGED reads
  \/ scope.users # {} /\ \E on \in BOOLEAN : SetGroupsPropagation(on) /\ UNCHANGED reads

MSpec == MInit /\ [][MNext]_memberVars

-----------------------------------------------------------------------------
\* A setup key admits no more peers than its usage limit, however many machines
\* present it at the same time: the key is read without a lock, validated again
\* in the transaction, and AddPeer is the only one that counts.
KeyLimitHolds == \A k \in DOMAIN acct.keys :
  acct.keys[k].limit > 0 => acct.keys[k].used <= acct.keys[k].limit
=============================================================================
