------------------------ MODULE SignalRegistryProofs ------------------------
(***************************************************************************)
(* Proofs about SignalRegistry for any number of peers, streams, messages  *)
(* and clock values.                                                       *)
(***************************************************************************)
EXTENDS SignalRegistry, TLAPS

(***************************************************************************)
(* Types.                                                                  *)
(***************************************************************************)

\* The type invariant of the registry: whatever the handlers of Register, Deregister
\* and forwardMessageToPeer do, a lookup that passed its check holds a stream.
LookupsHold == \A m \in Msg : fwd[m].at = "send" => fwd[m].dst \in Stream
SeenHold == \A s \in Stream : pc[s] \in {"compare", "cancelOld"} => seen[s] \in Stream
TypeInv == TypeOK /\ LookupsHold /\ SeenHold

LEMMA TypeInvInit == Init => TypeInv
  BY SignalConstants DEF Init, TypeInv, TypeOK, Phase, FwdPhase, LookupsHold, SeenHold

LEMMA TypeInvNext == TypeInv /\ [Next]_vars => TypeInv'
<1> SUFFICES ASSUME TypeInv, [Next]_vars PROVE TypeInv'
  OBVIOUS
<1> USE SignalConstants DEF TypeInv, TypeOK, LookupsHold, SeenHold, Phase, FwdPhase, Goto
<1>1. ASSUME NEW s \in Stream, Register(s) PROVE TypeInv'
  <2>1. CASE StoreNew(s) \/ CountUp(s) \/ LoadOlder(s) \/ Refuse(s)
    BY <2>1 DEF StoreNew, CountUp, LoadOlder, Refuse
  <2>2. CASE CompareAndSwap(s) \/ CancelOld(s)
    BY <2>2 DEF CompareAndSwap, CancelOld
  <2> QED
    BY <1>1, <2>1, <2>2 DEF Register
<1>2. ASSUME NEW s \in Stream, NewPeer(s) \/ StreamCloses(s) PROVE TypeInv'
  BY <1>2 DEF NewPeer, StreamCloses
<1>3. ASSUME NEW s \in Stream, Listen(s) \/ ListenFails(s) \/ SendHeader(s) \/ StopServing(s)
      PROVE TypeInv'
  BY <1>3 DEF Listen, ListenFails, SendHeader, StopServing
<1>4. ASSUME NEW s \in Stream, Deregister(s) \/ CountDown(s) PROVE TypeInv'
  BY <1>4 DEF Deregister, CountDown
<1>5. ASSUME NEW m \in Msg, Send(m) \/ SendDropped(m) \/ Forward(m) PROVE TypeInv'
  BY <1>5 DEF Send, SendDropped, Forward, Lookup, LookupFails, SendReturns, SendTimesOut
<1>6. CASE UNCHANGED vars
  BY <1>6 DEF vars
<1> QED
  BY <1>1, <1>2, <1>3, <1>4, <1>5, <1>6 DEF Next, ConnectStream

\* Every value the registry, the handlers and the forwarding goroutines keep has its
\* type at all times.
THEOREM TypeCorrect == Spec => []TypeOK
<1>1. TypeInv => TypeOK
  BY DEF TypeInv
<1> QED
  BY TypeInvInit, TypeInvNext, <1>1, PTL DEF Spec

(***************************************************************************)
(* The invariant of the registry entries.                                  *)
(***************************************************************************)

\* An entry belongs to its peer and holds a stream that has gone through Register.
EntryIsRegistered ==
    \A p \in PeerId : peers[p] # None =>
        KeyOf[peers[p]] = p /\ pc[peers[p]] \notin {"idle", "load", "compare"}

\* The stream that Register compared itself with is an older one of the same peer.
SeenIsOlder ==
    \A s \in Stream : pc[s] \in {"compare", "cancelOld"} =>
        /\ KeyOf[seen[s]] = KeyOf[s]
        /\ streamID[s] > streamID[seen[s]]
        /\ pc[seen[s]] \notin {"idle", "load", "compare"}

RegistryInv == TypeInv /\ EntryIsRegistered /\ SeenIsOlder /\ NoOrphanStream

LEMMA RegistryInvInit == Init => RegistryInv
  BY TypeInvInit DEF Init, RegistryInv, EntryIsRegistered, SeenIsOlder, NoOrphanStream, Accepted

LEMMA RegistryInvNext == RegistryInv /\ [Next]_vars => RegistryInv'
<1> SUFFICES ASSUME RegistryInv, [Next]_vars PROVE RegistryInv'
  OBVIOUS
<1>0. TypeInv'
  BY TypeInvNext DEF RegistryInv
<1> USE <1>0, SignalConstants DEF RegistryInv, TypeInv, TypeOK, SeenHold, EntryIsRegistered, SeenIsOlder,
         NoOrphanStream, Accepted, Phase, Goto
<1>1. ASSUME NEW s \in Stream, NewPeer(s) PROVE RegistryInv'
  BY <1>1 DEF NewPeer
<1>2. ASSUME NEW s \in Stream, StoreNew(s) PROVE RegistryInv'
  BY <1>2 DEF StoreNew
<1>3. ASSUME NEW s \in Stream, LoadOlder(s) \/ Refuse(s) PROVE RegistryInv'
  BY <1>3 DEF LoadOlder, Refuse
<1>4. ASSUME NEW s \in Stream, CompareAndSwap(s) PROVE RegistryInv'
  <2>1. CASE peers[KeyOf[s]] = seen[s]
    <3>1. EntryIsRegistered' /\ SeenIsOlder'
      BY <1>4, <2>1 DEF CompareAndSwap
    <3>2. ASSUME NEW t \in Stream, Accepted(t)', peers'[KeyOf[t]] # t
          PROVE t \in cancelled' \/ \E u \in Stream : (pc[u] = "cancelOld" /\ seen[u] = t)'
      <4>1. t # s /\ Accepted(t) /\ cancelled' = cancelled /\ seen' = seen
        BY <1>4, <2>1, <3>2 DEF CompareAndSwap
      <4>2. CASE peers[KeyOf[t]] = t
        BY <1>4, <2>1, <3>2, <4>1, <4>2 DEF CompareAndSwap
      <4>3. CASE peers[KeyOf[t]] # t
        BY <1>4, <2>1, <3>2, <4>1, <4>3 DEF CompareAndSwap
      <4> QED
        BY <4>2, <4>3
    <3> QED
      BY <3>1, <3>2
  <2>2. CASE peers[KeyOf[s]] # seen[s]
    BY <1>4, <2>2 DEF CompareAndSwap
  <2> QED
    BY <2>1, <2>2
<1>5. ASSUME NEW s \in Stream, CancelOld(s) PROVE RegistryInv'
  BY <1>5 DEF CancelOld
<1>6. ASSUME NEW s \in Stream, CountUp(s) \/ Listen(s) \/ ListenFails(s) \/ SendHeader(s) \/ StopServing(s)
      PROVE RegistryInv'
  BY <1>6 DEF CountUp, Listen, ListenFails, SendHeader, StopServing
<1>7. ASSUME NEW s \in Stream, Deregister(s) PROVE RegistryInv'
  BY <1>7, SMTT(40) DEF Deregister
<1>8. ASSUME NEW s \in Stream, CountDown(s) \/ StreamCloses(s) PROVE RegistryInv'
  BY <1>8 DEF CountDown, StreamCloses
<1>9. ASSUME NEW m \in Msg, Send(m) \/ SendDropped(m) \/ Forward(m) PROVE RegistryInv'
  BY <1>9 DEF Send, SendDropped, Forward, Lookup, LookupFails, SendReturns, SendTimesOut
<1>10. CASE UNCHANGED vars
  BY <1>10 DEF vars
<1> QED
  BY <1>1, <1>2, <1>3, <1>4, <1>5, <1>6, <1>7, <1>8, <1>9, <1>10 DEF Next, ConnectStream, Register

\* No stream keeps serving a peer that the registry routes elsewhere: Register cancels
\* the stream it replaced, and Deregister deletes nobody else's entry.
THEOREM NoOrphan == Spec => []NoOrphanStream
<1>1. RegistryInv => NoOrphanStream
  BY DEF RegistryInv
<1> QED
  BY RegistryInvInit, RegistryInvNext, <1>1, PTL DEF Spec

\* A registered stream is replaced only by a newer one and removed only by its own
\* handler, whatever the order in which the handlers of one peer run.
THEOREM NewestWins == Spec => NewestStreamWins
<1> DEFINE OK == \A p \in PeerId :
                    peers[p] # None /\ peers'[p] # peers[p] =>
                        IF peers'[p] = None THEN pc[peers[p]] = "deregister"
                        ELSE streamID[peers'[p]] > streamID[peers[p]]
<1>1. RegistryInv /\ [Next]_vars => [OK]_vars
  <2> SUFFICES ASSUME RegistryInv, [Next]_vars PROVE OK
    OBVIOUS
  <2> USE SignalConstants DEF RegistryInv, TypeInv, TypeOK, SeenHold, SeenIsOlder
  <2>1. ASSUME NEW s \in Stream, CompareAndSwap(s) PROVE OK
    BY <2>1 DEF CompareAndSwap
  <2>2. ASSUME NEW s \in Stream, StoreNew(s) PROVE OK
    BY <2>2 DEF StoreNew
  <2>3. ASSUME NEW s \in Stream, Deregister(s) PROVE OK
    BY <2>3 DEF Deregister
  <2>4. CASE UNCHANGED peers
    BY <2>4
  <2> QED
    BY <2>1, <2>2, <2>3, <2>4
       DEF Next, ConnectStream, Register, NewPeer, StreamCloses, CountUp, LoadOlder, Refuse, CancelOld,
           Listen, ListenFails, SendHeader, StopServing, CountDown, Send, SendDropped, Forward, Lookup, LookupFails,
           SendReturns, SendTimesOut, vars
<1> QED
  BY RegistryInvInit, RegistryInvNext, <1>1, PTL DEF Spec, NewestStreamWins

(***************************************************************************)
(* What Cancel hits.                                                       *)
(***************************************************************************)

\* The stream that Register replaced never becomes the registered one again: only a
\* stream that is still inside Register is ever stored.
ReplacedStaysReplaced ==
    \A s \in Stream : pc[s] = "cancelOld" => peers[KeyOf[s]] # seen[s]

LEMMA ReplacedInvariant ==
    ReplacedStaysReplaced /\ RegistryInv /\ [Next]_vars => ReplacedStaysReplaced'
<1> SUFFICES ASSUME ReplacedStaysReplaced, RegistryInv, [Next]_vars PROVE ReplacedStaysReplaced'
  OBVIOUS
<1> USE SignalConstants DEF ReplacedStaysReplaced, RegistryInv, TypeInv, TypeOK, SeenHold, SeenIsOlder,
         Phase, Goto
<1>1. ASSUME NEW s \in Stream, StoreNew(s) PROVE ReplacedStaysReplaced'
  BY <1>1 DEF StoreNew
<1>2. ASSUME NEW s \in Stream, CompareAndSwap(s) PROVE ReplacedStaysReplaced'
  BY <1>2 DEF CompareAndSwap
<1>3. ASSUME NEW s \in Stream, Deregister(s) PROVE ReplacedStaysReplaced'
  BY <1>3 DEF Deregister
<1>4. ASSUME NEW s \in Stream,
             \/ NewPeer(s) \/ LoadOlder(s) \/ Refuse(s) \/ CancelOld(s) \/ CountUp(s) \/ Listen(s)
             \/ ListenFails(s) \/ SendHeader(s) \/ StopServing(s) \/ CountDown(s) \/ StreamCloses(s)
      PROVE ReplacedStaysReplaced'
  BY <1>4 DEF NewPeer, LoadOlder, Refuse, CancelOld, CountUp, Listen, ListenFails, SendHeader,
              StopServing, CountDown, StreamCloses
<1>5. ASSUME NEW m \in Msg, Send(m) \/ SendDropped(m) \/ Forward(m) PROVE ReplacedStaysReplaced'
  BY <1>5 DEF Send, SendDropped, Forward, Lookup, LookupFails, SendReturns, SendTimesOut
<1>6. CASE UNCHANGED vars
  BY <1>6 DEF vars
<1> QED
  BY <1>1, <1>2, <1>3, <1>4, <1>5, <1>6 DEF Next, ConnectStream, Register

\* Neither Register's late Cancel nor a timed out send takes down the stream that is
\* registered meanwhile: a stream is cancelled after it was replaced, or by a goroutine
\* whose own send to it is stuck.
THEOREM CancelIsAimed == Spec => CancelHitsItsTarget
<1> DEFINE Aimed == \A s \in cancelled' \ cancelled :
                       \/ peers[KeyOf[s]] # s
                       \/ \E m \in Msg : fwd[m].at = "send" /\ fwd[m].dst = s
<1>1. ReplacedStaysReplaced /\ RegistryInv /\ [Next]_vars => [Aimed]_vars
  <2> SUFFICES ASSUME ReplacedStaysReplaced, RegistryInv, [Next]_vars PROVE Aimed
    OBVIOUS
  <2>1. ASSUME NEW s \in Stream, CancelOld(s) PROVE Aimed
    <3>1. KeyOf[seen[s]] = KeyOf[s] /\ peers[KeyOf[s]] # seen[s] /\ cancelled' = cancelled \cup {seen[s]}
      BY <2>1 DEF CancelOld, RegistryInv, SeenIsOlder, ReplacedStaysReplaced
    <3> QED
      BY <3>1
  <2>2. ASSUME NEW m \in Msg, SendTimesOut(m) PROVE Aimed
    BY <2>2 DEF SendTimesOut
  <2>3. CASE UNCHANGED cancelled
    BY <2>3
  <2> QED
    BY <2>1, <2>2, <2>3
       DEF Next, ConnectStream, Register, NewPeer, StoreNew, CountUp, LoadOlder, Refuse, CompareAndSwap,
           Listen, ListenFails, SendHeader, StopServing, Deregister, CountDown, StreamCloses, Send,
           SendDropped, Forward, Lookup, LookupFails, SendReturns, vars
<1>2. Init => ReplacedStaysReplaced
  BY DEF Init, ReplacedStaysReplaced
<1> QED
  BY RegistryInvInit, RegistryInvNext, ReplacedInvariant, <1>1, <1>2, PTL DEF Spec, CancelHitsItsTarget

(***************************************************************************)
(* The registry implements SignalService.                                  *)
(***************************************************************************)

Decided == {s \in Stream : pc[s] \notin {"idle", "load", "compare"}}
Gone == {s \in Stream : pc[s] \in {"countDown", "done"}}
Stopped == cancelled \cup {seen[s] : s \in {t \in Stream : pc[t] = "cancelOld"}}

\* A forwarding goroutine holds a stream that has gone through Register.
DstIsRegistered == \A m \in Msg : fwd[m].at = "send" => fwd[m].dst \in Decided

LEMMA DstInvariant == DstIsRegistered /\ RegistryInv /\ [Next]_vars => DstIsRegistered'
<1> SUFFICES ASSUME DstIsRegistered, RegistryInv, [Next]_vars PROVE DstIsRegistered'
  OBVIOUS
<1> USE SignalConstants DEF DstIsRegistered, Decided, RegistryInv, TypeInv, TypeOK, Phase, Goto
<1>1. ASSUME NEW s \in Stream, Register(s) \/ NewPeer(s) \/ StreamCloses(s) PROVE DstIsRegistered'
  BY <1>1 DEF Register, StoreNew, CountUp, LoadOlder, Refuse, CompareAndSwap, CancelOld, NewPeer, StreamCloses
<1>2. ASSUME NEW s \in Stream, \/ Listen(s) \/ ListenFails(s) \/ SendHeader(s) \/ StopServing(s)
                               \/ Deregister(s) \/ CountDown(s)
      PROVE DstIsRegistered'
  BY <1>2 DEF Listen, ListenFails, SendHeader, StopServing, Deregister, CountDown
<1>3. ASSUME NEW m \in Msg, Lookup(m) PROVE DstIsRegistered'
  BY <1>3 DEF Lookup, EntryIsRegistered
<1>4. ASSUME NEW m \in Msg, \/ Send(m) \/ SendDropped(m) \/ LookupFails(m)
                            \/ SendReturns(m) \/ SendTimesOut(m)
      PROVE DstIsRegistered'
  BY <1>4 DEF Send, SendDropped, LookupFails, SendReturns, SendTimesOut
<1>5. CASE UNCHANGED vars
  BY <1>5 DEF vars
<1> QED
  BY <1>1, <1>2, <1>3, <1>4, <1>5 DEF Next, ConnectStream, Forward

LEMMA StepImplementsService ==
    DstIsRegistered /\ RegistryInv /\ [Next]_vars => [Service!ServiceNext]_(Service!serviceVars)
<1> SUFFICES ASSUME DstIsRegistered, RegistryInv, [Next]_vars
             PROVE  Service!ServiceNext \/ UNCHANGED <<peers, Decided, Stopped, Gone>>
  BY DEF Service!serviceVars, Decided, Stopped, Gone
<1> USE SignalConstants DEF DstIsRegistered, RegistryInv, TypeInv, TypeOK, SeenHold, Phase, Goto
<1>1. ASSUME NEW s \in Stream, StoreNew(s) PROVE Service!Join(s)
  <2>1. s \notin Decided /\ Decided' = Decided \cup {s}
    BY <1>1 DEF StoreNew, Decided
  <2>2. Stopped' = Stopped /\ Gone' = Gone
    BY <1>1 DEF StoreNew, Stopped, Gone
  <2> QED
    BY <1>1, <2>1, <2>2 DEF StoreNew, Service!Join, Decided, Stopped, Gone
<1>2. ASSUME NEW s \in Stream, CompareAndSwap(s), peers[KeyOf[s]] = seen[s] PROVE Service!Join(s)
  <2>1. s \notin Decided /\ Decided' = Decided \cup {s}
    BY <1>2 DEF CompareAndSwap, Decided
  <2>2. Stopped' = Stopped \cup ({peers[KeyOf[s]]} \ {None}) /\ Gone' = Gone
    BY <1>2 DEF CompareAndSwap, Stopped, Gone
  <2>3. peers' = [peers EXCEPT ![KeyOf[s]] = s]
    BY <1>2 DEF CompareAndSwap
  <2> QED
    BY <2>1, <2>2, <2>3 DEF Service!Join, Decided, Stopped, Gone
<1>3. ASSUME NEW s \in Stream, CompareAndSwap(s), peers[KeyOf[s]] # seen[s]
      PROVE UNCHANGED <<peers, Decided, Stopped, Gone>>
  BY <1>3 DEF CompareAndSwap, Decided, Stopped, Gone
<1>4. ASSUME NEW s \in Stream, Refuse(s) PROVE Service!Reject(s)
  <2>1. s \notin Decided /\ Decided' = Decided \cup {s}
    BY <1>4 DEF Refuse, Decided
  <2>2. Stopped' = Stopped /\ Gone' = Gone \cup {s}
    BY <1>4 DEF Refuse, Stopped, Gone
  <2> QED
    BY <1>4, <2>1, <2>2 DEF Refuse, Service!Reject, Decided, Stopped, Gone
<1>5. ASSUME NEW s \in Stream, CancelOld(s) PROVE UNCHANGED <<peers, Decided, Stopped, Gone>>
  <2>1. Decided' = Decided /\ Gone' = Gone
    BY <1>5 DEF CancelOld, Decided, Gone
  <2>2. Stopped' = Stopped
    BY <1>5 DEF CancelOld, Stopped
  <2> QED
    BY <1>5, <2>1, <2>2 DEF CancelOld
<1>6. ASSUME NEW s \in Stream, Deregister(s) PROVE Service!Leave(s)
  <2>1. s \in Decided \ Gone /\ Decided' = Decided
    BY <1>6 DEF Deregister, Decided, Gone
  <2>2. Stopped' = Stopped /\ Gone' = Gone \cup {s}
    BY <1>6 DEF Deregister, Stopped, Gone
  <2>3. peers' = [peers EXCEPT ![KeyOf[s]] = IF @ = s THEN None ELSE @]
    BY <1>6 DEF Deregister
  <2> QED
    BY <2>1, <2>2, <2>3 DEF Service!Leave, Decided, Stopped, Gone
<1>7. ASSUME NEW s \in Stream,
             \/ NewPeer(s) \/ LoadOlder(s) \/ CountUp(s) \/ Listen(s)
             \/ SendHeader(s) \/ StopServing(s) \/ CountDown(s) \/ StreamCloses(s)
      PROVE UNCHANGED <<peers, Decided, Stopped, Gone>>
  <2>1. Decided' = Decided /\ Gone' = Gone
    BY <1>7 DEF NewPeer, LoadOlder, CountUp, Listen, SendHeader, StopServing, CountDown,
                StreamCloses, Decided, Gone
  <2>2. Stopped' = Stopped
    BY <1>7 DEF NewPeer, LoadOlder, CountUp, Listen, SendHeader, StopServing, CountDown,
                StreamCloses, Stopped
  <2> QED
    BY <1>7, <2>1, <2>2 DEF NewPeer, LoadOlder, CountUp, Listen, SendHeader, StopServing,
                            CountDown, StreamCloses
<1>8. ASSUME NEW s \in Stream, ListenFails(s) PROVE Service!Abandon(s)
  <2>1. s \in Decided \ Gone /\ Decided' = Decided
    BY <1>8 DEF ListenFails, Decided, Gone
  <2>2. Stopped' = Stopped /\ Gone' = Gone \cup {s}
    BY <1>8 DEF ListenFails, Stopped, Gone
  <2> QED
    BY <1>8, <2>1, <2>2 DEF ListenFails, Service!Abandon, Decided, Stopped, Gone
<1>9. ASSUME NEW m \in Msg, SendTimesOut(m) PROVE Service!ServiceNext
  <2>1. PICK s \in Decided : s = fwd[m].dst
    BY <1>9 DEF SendTimesOut
  <2>2. Decided' = Decided /\ Stopped' = Stopped \cup {s} /\ Gone' = Gone /\ peers' = peers
    BY <1>9, <2>1 DEF SendTimesOut, Decided, Stopped, Gone
  <2>3. s \in Stream /\ Service!Stop(s)
    BY <2>1, <2>2 DEF Service!Stop, Decided, Stopped, Gone
  <2> QED
    BY <2>3 DEF Service!ServiceNext
<1>10. ASSUME NEW m \in Msg, Send(m) \/ SendDropped(m) \/ Lookup(m) \/ LookupFails(m) \/ SendReturns(m)
      PROVE UNCHANGED <<peers, Decided, Stopped, Gone>>
  BY <1>10 DEF Send, SendDropped, Lookup, LookupFails, SendReturns, Decided, Stopped, Gone
<1>11. CASE UNCHANGED vars
  BY <1>11 DEF vars, Decided, Stopped, Gone
<1> HIDE DEF DstIsRegistered, RegistryInv, TypeInv, TypeOK, SeenHold, Phase, Goto
<1>12. ASSUME NEW s \in Stream, NewPeer(s) \/ ConnectStream(s) \/ StreamCloses(s)
       PROVE  Service!ServiceNext \/ UNCHANGED <<peers, Decided, Stopped, Gone>>
  <2>1. CASE Service!Join(s) \/ Service!Reject(s) \/ Service!Leave(s) \/ Service!Abandon(s)
    BY <2>1 DEF Service!ServiceNext
  <2>2. CASE CompareAndSwap(s)
    BY <1>2, <1>3, <2>1, <2>2
  <2>3. CASE StoreNew(s) \/ Refuse(s) \/ Deregister(s) \/ ListenFails(s)
    BY <1>1, <1>4, <1>6, <1>8, <2>1, <2>3
  <2> QED
    BY <1>5, <1>7, <1>12, <2>2, <2>3 DEF ConnectStream, Register
<1>13. ASSUME NEW m \in Msg, Send(m) \/ SendDropped(m) \/ Forward(m)
       PROVE  Service!ServiceNext \/ UNCHANGED <<peers, Decided, Stopped, Gone>>
  BY <1>9, <1>10, <1>13 DEF Forward
<1> QED
  BY <1>11, <1>12, <1>13 DEF Next

\* LoadOrStore, CompareAndSwap with its retry and the late Cancel together implement
\* one atomic registry in which taking over a peer stops its previous stream.
THEOREM RefinesService == Spec => ImplementsService
<1>1. Init => Service!ServiceInit /\ DstIsRegistered
  BY DEF Init, Service!ServiceInit, DstIsRegistered
<1> QED
  BY <1>1, RegistryInvInit, RegistryInvNext, DstInvariant, StepImplementsService, PTL
     DEF Spec, ImplementsService, Service!ServiceSpec

=============================================================================
