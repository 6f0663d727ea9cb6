----------------------------- MODULE UpdateStream -----------------------------
(***************************************************************************)
(* What a Sync stream promises of the updates put on a peer's channel:     *)
(* they are sent in the order they were accepted and none is lost, except  *)
(* that a network map may give way to a network map right behind it.       *)
(***************************************************************************)
EXTENDS Naturals, Sequences

CONSTANT Update         \* records with a field "kind"

VARIABLES queue,        \* accepted and not sent yet
          sent          \* sent on this stream
vars == <<queue, sent>>

IsMap(u) == u.kind = "map"

Init == queue = <<>> /\ sent = <<>>

\* A stream begins or ends.
Reset == queue' = <<>> /\ sent' = <<>>

Accept == \E u \in Update : queue' = Append(queue, u) /\ UNCHANGED sent

Supersede ==
  \E i \in 1 .. Len(queue) - 1 :
    /\ IsMap(queue[i]) /\ IsMap(queue[i + 1])
    /\ queue' = SubSeq(queue, 1, i - 1) \o SubSeq(queue, i + 1, Len(queue))
    /\ UNCHANGED sent

Deliver ==
  \E n \in 1 .. Len(queue) :
    /\ sent' = sent \o SubSeq(queue, 1, n)
    /\ queue' = SubSeq(queue, n + 1, Len(queue))

Next == Reset \/ Accept \/ Supersede \/ Deliver

Spec == Init /\ [][Next]_vars
=============================================================================
