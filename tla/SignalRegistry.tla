--------------------------- MODULE SignalRegistry ---------------------------
(***************************************************************************)
(* The signal server: Server.ConnectStream handlers, one per gRPC stream,  *)
(* that share peer.Registry, and the forwarding goroutines of Server.Send. *)
(* The registry is a sync.Map used with LoadOrStore, CompareAndSwap and    *)
(* CompareAndDelete only (regMutex is never taken), so each of those calls *)
(* is one atomic step and everything between two of them may interleave.   *)
(*                                                                         *)
(* A stream of CONSTANT Stream is one run of ConnectStream together with   *)
(* the *peer.Peer it creates; pointer equality is equality of streams.     *)
(***************************************************************************)
EXTENDS Integers, FiniteSets

CONSTANTS
    PeerId,     \* the values of the id header
    Stream,     \* the ConnectStream calls that ever happen
    KeyOf,      \* the id header of each stream
    Time,       \* the values time.Now().UnixNano() may return
    Msg,        \* the Send calls that ever happen
    None        \* no stream

ASSUME SignalConstants ==
    /\ KeyOf \in [Stream -> PeerId]
    /\ Time \subseteq Int
    /\ None \notin Stream

VARIABLES
    peers,      \* Registry.Peers
    pc,         \* where each ConnectStream call is
    streamID,   \* Peer.StreamID
    seen,       \* the pp that Register loaded
    cancelled,  \* streams whose Peer.Cancel was called
    closed,     \* streams whose gRPC context is done
    active,     \* the ActivePeers counter
    fwd         \* the forwarding goroutines: where they are and their dstPeer

vars == <<peers, pc, streamID, seen, cancelled, closed, active, fwd>>

Phase == {"idle", "load", "compare", "countUp", "cancelOld", "listen", "header",
          "serve", "deregister", "countDown", "done"}
FwdPhase == {"idle", "lookup", "send", "done"}

TypeOK ==
    /\ peers \in [PeerId -> Stream \cup {None}]
    /\ pc \in [Stream -> Phase]
    /\ streamID \in [Stream -> Time \cup {0}]
    /\ seen \in [Stream -> Stream \cup {None}]
    /\ cancelled \subseteq Stream
    /\ closed \subseteq Stream
    /\ active \in Int
    /\ fwd \in [Msg -> [at : FwdPhase, to : PeerId, dst : Stream \cup {None}]]

Init ==
    /\ peers = [p \in PeerId |-> None]
    /\ pc = [s \in Stream |-> "idle"]
    /\ streamID = [s \in Stream |-> 0]
    /\ seen = [s \in Stream |-> None]
    /\ cancelled = {}
    /\ closed = {}
    /\ active = 0
    /\ fwd \in [Msg -> [at : {"idle"}, to : PeerId, dst : {None}]]

Goto(s, l) == pc' = [pc EXCEPT ![s] = l]

(***************************************************************************)
(* ConnectStream and Registry.Register.                                    *)
(***************************************************************************)

\* NewPeer stamps the stream with the wall clock, which may repeat or step back.
NewPeer(s) ==
    /\ pc[s] = "idle"
    /\ \E t \in Time : streamID' = [streamID EXCEPT ![s] = t]
    /\ Goto(s, "load")
    /\ UNCHANGED <<peers, seen, cancelled, closed, active, fwd>>

\* LoadOrStore found nothing and stored the peer.
StoreNew(s) ==
    /\ pc[s] = "load"
    /\ peers[KeyOf[s]] = None
    /\ peers' = [peers EXCEPT ![KeyOf[s]] = s]
    /\ Goto(s, "countUp")
    /\ UNCHANGED <<streamID, seen, cancelled, closed, active, fwd>>

CountUp(s) ==
    /\ pc[s] = "countUp"
    /\ active' = active + 1
    /\ Goto(s, "listen")
    /\ UNCHANGED <<peers, streamID, seen, cancelled, closed, fwd>>

\* LoadOrStore returned a registered stream that this one is newer than.
LoadOlder(s) ==
    /\ pc[s] = "load"
    /\ peers[KeyOf[s]] # None
    /\ streamID[s] > streamID[peers[KeyOf[s]]]
    /\ seen' = [seen EXCEPT ![s] = peers[KeyOf[s]]]
    /\ Goto(s, "compare")
    /\ UNCHANGED <<peers, streamID, cancelled, closed, active, fwd>>

\* ErrPeerAlreadyRegistered: the handler returns and gRPC ends the stream.
Refuse(s) ==
    /\ pc[s] = "load"
    /\ peers[KeyOf[s]] # None
    /\ streamID[s] <= streamID[peers[KeyOf[s]]]
    /\ closed' = closed \cup {s}
    /\ Goto(s, "done")
    /\ UNCHANGED <<peers, streamID, seen, cancelled, active, fwd>>

\* Mutant: Store instead of CompareAndSwap.
StoreBlindly(s) ==
    /\ pc[s] = "compare"
    /\ peers' = [peers EXCEPT ![KeyOf[s]] = s]
    /\ Goto(s, "cancelOld")
    /\ UNCHANGED <<streamID, seen, cancelled, closed, active, fwd>>

CompareAndSwap(s) ==
    /\ pc[s] = "compare"
    /\ IF peers[KeyOf[s]] = seen[s]
         THEN /\ peers' = [peers EXCEPT ![KeyOf[s]] = s]
              /\ Goto(s, "cancelOld")
         ELSE /\ Goto(s, "load")
              /\ UNCHANGED peers
    /\ UNCHANGED <<streamID, seen, cancelled, closed, active, fwd>>

\* Mutant: the replaced stream is not cancelled.
CancelNothing(s) ==
    /\ pc[s] = "cancelOld"
    /\ Goto(s, "listen")
    /\ UNCHANGED <<peers, streamID, seen, cancelled, closed, active, fwd>>

CancelOld(s) ==
    /\ pc[s] = "cancelOld"
    /\ cancelled' = cancelled \cup {seen[s]}
    /\ Goto(s, "listen")
    /\ UNCHANGED <<peers, streamID, seen, closed, active, fwd>>

\* dispatcher.ListenForMessages succeeded.
Listen(s) ==
    /\ pc[s] = "listen"
    /\ Goto(s, "header")
    /\ UNCHANGED <<peers, streamID, seen, cancelled, closed, active, fwd>>

\* ListenForMessages failed: RegisterPeer returns an error before ConnectStream
\* has deferred DeregisterPeer.
ListenFails(s) ==
    /\ pc[s] = "listen"
    /\ closed' = closed \cup {s}
    /\ Goto(s, "done")
    /\ UNCHANGED <<peers, streamID, seen, cancelled, active, fwd>>

\* SendHeader; an error runs the deferred DeregisterPeer.
SendHeader(s) ==
    /\ pc[s] = "header"
    /\ \E l \in {"serve", "deregister"} : Goto(s, l)
    /\ UNCHANGED <<peers, streamID, seen, cancelled, closed, active, fwd>>

\* Mutant: the stream's own context is not watched.
StopOnlyIfCancelled(s) ==
    /\ pc[s] = "serve"
    /\ s \in cancelled
    /\ Goto(s, "deregister")
    /\ UNCHANGED <<peers, streamID, seen, cancelled, closed, active, fwd>>

\* The select of ConnectStream: the client went away or the peer was cancelled.
StopServing(s) ==
    /\ pc[s] = "serve"
    /\ s \in closed \cup cancelled
    /\ Goto(s, "deregister")
    /\ UNCHANGED <<peers, streamID, seen, cancelled, closed, active, fwd>>

\* Mutant: the entry is deleted by id, whichever stream it holds.
DeregisterById(s) ==
    /\ pc[s] = "deregister"
    /\ peers' = [peers EXCEPT ![KeyOf[s]] = None]
    /\ Goto(s, "countDown")
    /\ UNCHANGED <<streamID, seen, cancelled, closed, active, fwd>>

\* Registry.Deregister: CompareAndDelete on the pointer, then the handler returns.
Deregister(s) ==
    /\ pc[s] = "deregister"
    /\ IF peers[KeyOf[s]] = s
         THEN /\ peers' = [peers EXCEPT ![KeyOf[s]] = None]
              /\ Goto(s, "countDown")
              /\ UNCHANGED closed
         ELSE /\ Goto(s, "done")
              /\ closed' = closed \cup {s}
              /\ UNCHANGED peers
    /\ UNCHANGED <<streamID, seen, cancelled, active, fwd>>

CountDown(s) ==
    /\ pc[s] = "countDown"
    /\ active' = active - 1
    /\ closed' = closed \cup {s}
    /\ Goto(s, "done")
    /\ UNCHANGED <<peers, streamID, seen, cancelled, fwd>>

\* The client closes its stream, or the connection breaks.
StreamCloses(s) ==
    /\ pc[s] \notin {"idle", "done"}
    /\ s \notin closed
    /\ closed' = closed \cup {s}
    /\ UNCHANGED <<peers, pc, streamID, seen, cancelled, active, fwd>>

(***************************************************************************)
(* Send and forwardMessageToPeer.                                          *)
(***************************************************************************)

\* The dispatcher (a library) has a listener for the peer: a stream that passed
\* ListenForMessages and whose context is not done.
HasListener(p) ==
    \E s \in Stream : /\ KeyOf[s] = p
                      /\ pc[s] \in {"header", "serve", "deregister", "countDown"}
                      /\ s \notin closed

\* Send forwards directly when the peer is found; otherwise the dispatcher runs
\* the forwarding callback if it has a listener, and drops the message if not.
Send(m) ==
    /\ fwd[m].at = "idle"
    /\ peers[fwd[m].to] # None \/ HasListener(fwd[m].to)
    /\ fwd' = [fwd EXCEPT ![m].at = "lookup"]
    /\ UNCHANGED <<peers, pc, streamID, seen, cancelled, closed, active>>

SendDropped(m) ==
    /\ fwd[m].at = "idle"
    /\ peers[fwd[m].to] = None /\ ~ HasListener(fwd[m].to)
    /\ fwd' = [fwd EXCEPT ![m].at = "done"]
    /\ UNCHANGED <<peers, pc, streamID, seen, cancelled, closed, active>>

\* forwardMessageToPeer looks the peer up again.
Lookup(m) ==
    /\ fwd[m].at = "lookup"
    /\ peers[fwd[m].to] # None
    /\ fwd' = [fwd EXCEPT ![m].at = "send", ![m].dst = peers[fwd[m].to]]
    /\ UNCHANGED <<peers, pc, streamID, seen, cancelled, closed, active>>

LookupFails(m) ==
    /\ fwd[m].at = "lookup"
    /\ peers[fwd[m].to] = None
    /\ fwd' = [fwd EXCEPT ![m].at = "done"]
    /\ UNCHANGED <<peers, pc, streamID, seen, cancelled, closed, active>>

\* The send returned (with or without an error) or the stream's context is done.
SendReturns(m) ==
    /\ fwd[m].at = "send"
    /\ fwd' = [fwd EXCEPT ![m].at = "done"]
    /\ UNCHANGED <<peers, pc, streamID, seen, cancelled, closed, active>>

\* Mutant: the registered stream is cancelled, not the one the send is stuck on.
TimeoutCancelsRegistered(m) ==
    /\ fwd[m].at = "send"
    /\ cancelled' = cancelled \cup ({peers[fwd[m].to]} \ {None})
    /\ fwd' = [fwd EXCEPT ![m].at = "done"]
    /\ UNCHANGED <<peers, pc, streamID, seen, closed, active>>

\* sendTimeout passed: cancel the peer that was looked up, whoever is registered now.
SendTimesOut(m) ==
    /\ fwd[m].at = "send"
    /\ cancelled' = cancelled \cup {fwd[m].dst}
    /\ fwd' = [fwd EXCEPT ![m].at = "done"]
    /\ UNCHANGED <<peers, pc, streamID, seen, closed, active>>

(***************************************************************************)
(* Specification.                                                          *)
(***************************************************************************)

Register(s) == \/ StoreNew(s) \/ CountUp(s) \/ LoadOlder(s) \/ Refuse(s)
               \/ CompareAndSwap(s) \/ CancelOld(s)

\* The steps of the handler once its stream exists.
ConnectStream(s) == \/ Register(s) \/ Listen(s) \/ ListenFails(s) \/ SendHeader(s)
                    \/ StopServing(s) \/ Deregister(s) \/ CountDown(s)

Forward(m) == Lookup(m) \/ LookupFails(m) \/ SendReturns(m) \/ SendTimesOut(m)

Next == \/ \E s \in Stream : NewPeer(s) \/ ConnectStream(s) \/ StreamCloses(s)
        \/ \E m \in Msg : Send(m) \/ SendDropped(m) \/ Forward(m)

Spec == Init /\ [][Next]_vars

\* The Go scheduler runs every handler that can take a step; nothing obliges a
\* client to open or close a stream, or a sender to send.
FairSpec == /\ Spec
            /\ \A s \in Stream : WF_vars(ConnectStream(s))
            /\ \A m \in Msg : WF_vars(Forward(m))

(***************************************************************************)
(* Properties.                                                             *)
(***************************************************************************)

\* Streams that Register accepted and whose handler still holds the peer as
\* registered.
Accepted(s) == pc[s] \in {"countUp", "cancelOld", "listen", "header", "serve"}

\* A stream that Register accepted and that is not the registered stream of its
\* peer any more has been cancelled, or the handler that replaced it is just about
\* to cancel it: no stream keeps serving a peer the registry does not route to.
NoOrphanStream ==
    \A s \in Stream :
        Accepted(s) /\ peers[KeyOf[s]] # s =>
            \/ s \in cancelled
            \/ \E t \in Stream : pc[t] = "cancelOld" /\ seen[t] = s

\* What Register and Deregister may do to one entry: a registered stream is replaced
\* only by one with a greater StreamID, and removed only by its own handler.
NewestStreamWins ==
    [][\A p \in PeerId :
          peers[p] # None /\ peers'[p] # peers[p] =>
              IF peers'[p] = None
                THEN pc[peers[p]] = "deregister"
                ELSE streamID[peers'[p]] > streamID[peers[p]]]_vars

\* A stream is cancelled only after it has been replaced, or by a forwarding
\* goroutine whose own send to that very stream timed out: a timed out send to an
\* old stream never takes down the peer's new stream.
CancelHitsItsTarget ==
    [][\A s \in cancelled' \ cancelled :
          \/ peers[KeyOf[s]] # s
          \/ \E m \in Msg : fwd[m].at = "send" /\ fwd[m].dst = s]_vars

\* The handlers get on: a stream whose client is gone or that was cancelled leaves the
\* registry, and Register returns, however often its CompareAndSwap has to retry.
DeadStreamLeaves ==
    \A s \in Stream :
        /\ (pc[s] = "serve" /\ s \in closed \cup cancelled) ~> (peers[KeyOf[s]] # s)
        /\ (pc[s] = "load") ~> (Accepted(s) \/ pc[s] = "done")

\* The handlers and the three sync.Map operations implement the atomic registry of
\* SignalService: a stream counts as stopped from the CompareAndSwap that replaces it,
\* although its Cancel is called one step later.
Service == INSTANCE SignalService WITH
    current <- peers,
    decided <- {s \in Stream : pc[s] \notin {"idle", "load", "compare"}},
    stopped <- cancelled \cup {seen[s] : s \in {t \in Stream : pc[t] = "cancelOld"}},
    gone <- {s \in Stream : pc[s] \in {"countDown", "done"}}
ImplementsService == Service!ServiceSpec
=============================================================================
