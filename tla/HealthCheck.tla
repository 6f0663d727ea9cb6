----------------------------- MODULE HealthCheck -----------------------------
(***************************************************************************)
(* The health check of one relay connection: healthcheck.Sender and the    *)
(* goroutines of Peer.Work at the server, healthcheck.Receiver and the     *)
(* goroutines of the relay client that feed it.                            *)
(*                                                                         *)
(* Time passes in units (Pass).  The goroutines take no time: the clock    *)
(* waits while one of them can take a step, and steps that are possible at *)
(* the same instant come in any order, which covers Go's random select.  A *)
(* time.Ticker is a countdown and the one-slot channel it fills.           *)
(*                                                                         *)
(* All messages are alike, so those under way in one direction are the set *)
(* of their ages: a message is delivered at MaxDelay at the latest, or it  *)
(* is lost (QUIC datagrams), or the path has gone silent.                  *)
(***************************************************************************)
EXTENDS Naturals

CONSTANTS
    Interval,       \* Sender.healthCheckInterval
    Window,         \* Sender.timeout, the interval and HealthCheckTimeout added up
    RWindow,        \* the Receiver's heartbeatTimeout
    Threshold,      \* attemptThreshold, NB_RELAY_HC_ATTEMPT_THRESHOLD
    WriteTimeout,   \* how long a write may block on a silent path
    MaxDelay,       \* how long a message may be under way
    MaxLost,        \* bound on the messages lost while the path works
    May             \* what may happen to the connection, see below

ASSUME HealthCheckConstants ==
    /\ {Interval, Window, RWindow, Threshold} \subseteq Nat \ {0}
    /\ {WriteTimeout, MaxDelay, MaxLost} \subseteq Nat
    /\ Interval < Window
    /\ May \subseteq {"silence",    \* the path falls silent
                     "close"}      \* one end closes, for a reason of its own

VARIABLES
    sender,         \* StartHealthCheck: "select", "blocked" if HealthCheck is full, "gone"
    ticks,          \* its tickers: time left and whether their channels hold a tick
    sAlive, sFail,  \* Sender.alive, failureCounter
    ack,            \* whether Sender.ack holds a token
    healthCheck,    \* whether Sender.HealthCheck holds one
    writer,         \* handleHealthcheckEvents: "select", "write", "gone"
    writing,        \* how long the write has taken
    connS, ctxDone, \* the server's end of the connection, and Peer.ctx
    receiver,       \* waitForHealthcheck: "select", "gone"
    rAlive, rFail,
    heartbeat,      \* whether Receiver.heartbeat holds a token
    stopped,        \* Receiver.Stop was called
    connC,          \* the client's end of the connection
    toClient, toServer,     \* ages of the messages under way
    silent, lost,   \* what the network has done
    quiet           \* time since the path fell silent

senderVars == <<sender, ticks, sAlive, sFail, ack, healthCheck>>
writerVars == <<writer, writing>>
serverVars == <<connS, ctxDone>>
receiverVars == <<receiver, rAlive, rFail, heartbeat, stopped>>
netVars == <<connC, toClient, toServer, silent, lost>>
vars == <<senderVars, writerVars, serverVars, receiverVars, netVars, quiet>>

Ticker == {"interval", "timeout", "heartbeat"}
Period == [t \in Ticker |-> CASE t = "interval" -> Interval
                              [] t = "timeout" -> Window
                              [] t = "heartbeat" -> RWindow]
Quiet == (Threshold + 1) * (Window + RWindow)

TypeOK ==
    /\ sender \in {"select", "blocked", "gone"}
    /\ ticks \in [Ticker -> [left : 1 .. Interval + Window + RWindow, due : BOOLEAN]]
    /\ \A t \in Ticker : ticks[t].left <= Period[t]
    /\ sAlive \in BOOLEAN /\ sFail \in 0 .. Threshold
    /\ ack \in BOOLEAN /\ healthCheck \in BOOLEAN
    /\ writer \in {"select", "write", "gone"}
    /\ writing \in 0 .. WriteTimeout
    /\ connS \in BOOLEAN /\ ctxDone \in BOOLEAN
    /\ receiver \in {"select", "gone"}
    /\ rAlive \in BOOLEAN /\ rFail \in 0 .. Threshold
    /\ heartbeat \in BOOLEAN /\ stopped \in BOOLEAN
    /\ connC \in BOOLEAN
    /\ toClient \subseteq 0 .. MaxDelay
    /\ toServer \subseteq 0 .. MaxDelay
    /\ silent \in BOOLEAN /\ lost \in 0 .. MaxLost
    /\ quiet \in 0 .. Quiet

\* The client's Receiver starts when the handshake's answer arrives.
Init ==
    /\ sender = "select"
    /\ \E d \in 0 .. MaxDelay :
           /\ d < Interval
           /\ ticks = [t \in Ticker |-> [left |-> IF t = "heartbeat" THEN Period[t] ELSE Period[t] - d,
                                         due |-> FALSE]]
    /\ sAlive = FALSE /\ sFail = 0 /\ ack = FALSE /\ healthCheck = FALSE
    /\ writer = "select" /\ writing = 0
    /\ connS = TRUE /\ ctxDone = FALSE
    /\ receiver = "select" /\ rAlive = FALSE /\ rFail = 0 /\ heartbeat = FALSE /\ stopped = FALSE
    /\ connC = TRUE
    /\ toClient = {} /\ toServer = {}
    /\ silent = FALSE /\ lost = 0
    /\ quiet = 0

Take(t) == ticks[t].due /\ ticks' = [ticks EXCEPT ![t].due = FALSE]

(***************************************************************************)
(* StartHealthCheck.                                                       *)
(***************************************************************************)

\* The ticker's case sends on HealthCheck, whatever else happens meanwhile.
SendHealthCheck ==
    /\ sender = "select" /\ Take("interval")
    /\ healthCheck' = TRUE
    /\ sender' = IF healthCheck THEN "blocked" ELSE "select"
    /\ UNCHANGED <<sAlive, sFail, ack, writerVars, serverVars, receiverVars, netVars, quiet>>

\* Mutant: alive is not reset, so one answer vouches for ever.
AliveForEver ==
    /\ sender = "select" /\ Take("timeout")
    /\ IF sAlive
       THEN UNCHANGED <<sAlive, sFail, sender>>
       ELSE /\ sFail' = sFail + 1
            /\ sender' = IF sFail + 1 < Threshold THEN "select" ELSE "gone"
            /\ UNCHANGED sAlive
    /\ UNCHANGED <<ack, healthCheck, writerVars, serverVars, receiverVars, netVars, quiet>>

\* timeoutTicker.C; a Sender that gives up sends on Timeout and closes both channels.
CheckTimeout ==
    /\ sender = "select" /\ Take("timeout")
    /\ IF sAlive
       THEN sAlive' = FALSE /\ UNCHANGED <<sFail, sender>>
       ELSE /\ sFail' = sFail + 1
            /\ sender' = IF sFail + 1 < Threshold THEN "select" ELSE "gone"
            /\ UNCHANGED sAlive
    /\ UNCHANGED <<ack, healthCheck, writerVars, serverVars, receiverVars, netVars, quiet>>

TakeAck ==
    /\ sender = "select" /\ ack
    /\ ack' = FALSE /\ sFail' = 0 /\ sAlive' = TRUE
    /\ UNCHANGED <<sender, ticks, healthCheck, writerVars, serverVars, receiverVars, netVars, quiet>>

SenderStopped ==
    /\ sender = "select" /\ ctxDone
    /\ sender' = "gone"
    /\ UNCHANGED <<ticks, sAlive, sFail, ack, healthCheck, writerVars, serverVars, receiverVars, netVars,
                   quiet>>

StartHealthCheck == SendHealthCheck \/ CheckTimeout \/ TakeAck \/ SenderStopped

(***************************************************************************)
(* Peer.Work and handleHealthcheckEvents.                                  *)
(***************************************************************************)

\* HealthCheck is readable when it holds a token, and for ever once it is closed.
WriteHealthCheck ==
    /\ writer = "select" /\ (healthCheck \/ sender = "gone")
    /\ healthCheck' = FALSE
    /\ writer' = "write" /\ writing' = 0
    /\ UNCHANGED <<sender, ticks, sAlive, sFail, ack, serverVars, receiverVars, netVars, quiet>>

\* On a silent path it goes nowhere.
WriteEnds ==
    /\ writer = "write" /\ connS
    /\ writer' = "select" /\ writing' = 0
    /\ toClient' = IF silent THEN {} ELSE toClient \cup {0}
    /\ UNCHANGED <<senderVars, serverVars, receiverVars, connC, toServer, silent, lost, quiet>>

\* Mutant: the writer gives up and leaves the connection open.
WriteGivesUp ==
    /\ writer = "write" /\ (~ connS \/ (silent /\ writing = WriteTimeout))
    /\ writer' = "gone" /\ writing' = 0
    /\ UNCHANGED <<senderVars, serverVars, receiverVars, netVars, quiet>>

\* A write that blocks until its timeout closes the connection, one on a closed connection fails.
WriteFails ==
    /\ writer = "write" /\ (~ connS \/ (silent /\ writing = WriteTimeout))
    /\ writer' = "gone" /\ writing' = 0
    /\ connS' = FALSE
    /\ UNCHANGED <<senderVars, ctxDone, receiverVars, netVars, quiet>>

\* Mutant: the connection is left to its read loop.
TimeoutIgnored ==
    /\ writer = "select" /\ sender = "gone"
    /\ writer' = "gone"
    /\ UNCHANGED <<senderVars, writing, serverVars, receiverVars, netVars, quiet>>

\* hc.Timeout holds a token or is closed.
TimeoutReceived ==
    /\ writer = "select" /\ sender = "gone"
    /\ writer' = "gone"
    /\ connS' = FALSE
    /\ UNCHANGED <<senderVars, writing, ctxDone, receiverVars, netVars, quiet>>

WriterStopped ==
    /\ writer = "select" /\ ctxDone
    /\ writer' = "gone"
    /\ UNCHANGED <<senderVars, writing, serverVars, receiverVars, netVars, quiet>>

HandleHealthcheckEvents ==
    WriteHealthCheck \/ WriteEnds \/ WriteFails \/ TimeoutReceived \/ WriterStopped

\* Work reads the client's answer: OnHCResponse.
OnHCResponse ==
    /\ connS /\ ~ silent
    /\ \E a \in toServer : toServer' = toServer \ {a}
    /\ ack' = TRUE
    /\ UNCHANGED <<sender, ticks, sAlive, sFail, healthCheck, writerVars, serverVars, receiverVars, connC,
                   toClient, silent, lost, quiet>>

\* Work's read fails and it cancels the context.
WorkReturns ==
    /\ ~ connS /\ ~ ctxDone
    /\ ctxDone' = TRUE
    /\ UNCHANGED <<senderVars, writerVars, connS, receiverVars, netVars, quiet>>

(***************************************************************************)
(* The client: readLoop, waitForHealthcheck and listenForStopEvents.       *)
(***************************************************************************)

\* Mutant: the answer goes out but the Receiver hears nothing of it.
AnswerOnly ==
    /\ connC /\ ~ silent
    /\ \E a \in toClient : toClient' = toClient \ {a}
    /\ toServer' = toServer \cup {0}
    /\ UNCHANGED <<senderVars, writerVars, serverVars, receiverVars, connC, silent, lost, quiet>>

\* handleHealthCheck: the answer, then Heartbeat.
HandleHealthCheck ==
    /\ connC /\ ~ silent
    /\ \E a \in toClient : toClient' = toClient \ {a}
    /\ toServer' = toServer \cup {0}
    /\ heartbeat' = TRUE
    /\ UNCHANGED <<senderVars, writerVars, serverVars, receiver, rAlive, rFail, stopped, connC, silent, lost,
                   quiet>>

TakeHeartbeat ==
    /\ receiver = "select" /\ heartbeat
    /\ heartbeat' = FALSE /\ rAlive' = TRUE /\ rFail' = 0
    /\ UNCHANGED <<senderVars, writerVars, serverVars, receiver, stopped, netVars, quiet>>

CheckHeartbeat ==
    /\ receiver = "select" /\ Take("heartbeat")
    /\ IF rAlive
       THEN rAlive' = FALSE /\ UNCHANGED <<rFail, receiver>>
       ELSE /\ rFail' = rFail + 1
            /\ receiver' = IF rFail + 1 < Threshold THEN "select" ELSE "gone"
            /\ UNCHANGED rAlive
    /\ UNCHANGED <<sender, sAlive, sFail, ack, healthCheck, writerVars, serverVars, heartbeat, stopped,
                   netVars, quiet>>

ReceiverStopped ==
    /\ receiver = "select" /\ stopped
    /\ receiver' = "gone"
    /\ UNCHANGED <<senderVars, writerVars, serverVars, rAlive, rFail, heartbeat, stopped, netVars, quiet>>

\* listenForStopEvents: OnTimeout holds a token.
OnTimeout ==
    /\ receiver = "gone" /\ ~ stopped /\ connC
    /\ connC' = FALSE
    /\ UNCHANGED <<senderVars, writerVars, serverVars, receiverVars, toClient, toServer, silent, lost, quiet>>

\* readLoop ends: hc.Stop.
ReadLoopEnds ==
    /\ ~ connC /\ ~ stopped
    /\ stopped' = TRUE
    /\ UNCHANGED <<senderVars, writerVars, serverVars, receiver, rAlive, rFail, heartbeat, netVars, quiet>>

Client == HandleHealthCheck \/ TakeHeartbeat \/ CheckHeartbeat \/ ReceiverStopped \/ OnTimeout \/ ReadLoopEnds

(***************************************************************************)
(* The network and the clock.                                              *)
(***************************************************************************)

Lose ==
    /\ lost < MaxLost /\ ~ silent
    /\ \/ \E a \in toClient : toClient' = toClient \ {a} /\ UNCHANGED toServer
       \/ \E a \in toServer : toServer' = toServer \ {a} /\ UNCHANGED toClient
    /\ lost' = lost + 1
    /\ UNCHANGED <<senderVars, writerVars, serverVars, receiverVars, connC, silent, quiet>>

\* The path delivers nothing any more, and neither end is told.
FallSilent ==
    /\ "silence" \in May /\ ~ silent
    /\ silent' = TRUE
    /\ toClient' = {} /\ toServer' = {}
    /\ UNCHANGED <<senderVars, writerVars, serverVars, receiverVars, connC, lost, quiet>>

Close ==
    /\ "close" \in May /\ connS /\ connC
    /\ \/ connS' = FALSE /\ UNCHANGED connC
       \/ connC' = FALSE /\ UNCHANGED connS
    /\ UNCHANGED <<senderVars, writerVars, ctxDone, receiverVars, toClient, toServer, silent, lost, quiet>>

\* One end learns that the other has closed.
CloseArrives ==
    /\ connS # connC /\ ~ silent
    /\ connS' = FALSE /\ connC' = FALSE
    /\ UNCHANGED <<senderVars, writerVars, ctxDone, receiverVars, toClient, toServer, silent, lost, quiet>>

\* A step some goroutine takes at once.
Busy ==
    \/ sender = "select" /\ (ticks["interval"].due \/ ticks["timeout"].due \/ ack \/ ctxDone)
    \/ writer = "select" /\ (healthCheck \/ sender = "gone" \/ ctxDone)
    \/ writer = "write" /\ (~ connS \/ ~ silent \/ writing = WriteTimeout)
    \/ ~ connS /\ ~ ctxDone
    \/ receiver = "select" /\ (ticks["heartbeat"].due \/ heartbeat \/ stopped)
    \/ receiver = "gone" /\ ~ stopped
    \/ ~ connC /\ ~ stopped
    \/ ~ silent /\ (MaxDelay \in toClient \cup toServer \/ connS # connC)

\* Both functions defer ticker.Stop.
Stopped(t) == IF t = "heartbeat" THEN receiver = "gone" ELSE sender = "gone"

Older(ages) == {a + 1 : a \in ages}

Pass ==
    /\ ~ Busy
    /\ connS \/ connC
    /\ ticks' = [t \in Ticker |->
           IF Stopped(t) THEN [left |-> Period[t], due |-> FALSE]
           ELSE IF ticks[t].left = 1 THEN [left |-> Period[t], due |-> TRUE]
           ELSE [ticks[t] EXCEPT !.left = @ - 1]]
    /\ writing' = IF writer = "write" THEN writing + 1 ELSE 0
    /\ toClient' = IF silent THEN {} ELSE Older(toClient)
    /\ toServer' = IF silent THEN {} ELSE Older(toServer)
    /\ quiet' = IF silent /\ quiet < Quiet THEN quiet + 1 ELSE quiet
    /\ UNCHANGED <<sender, sAlive, sFail, ack, healthCheck, writer, serverVars, receiverVars, connC, silent,
                   lost>>

Network == Lose \/ FallSilent \/ Close \/ CloseArrives

Next == StartHealthCheck \/ HandleHealthcheckEvents \/ OnHCResponse \/ WorkReturns \/ Client \/ Network \/ Pass

Spec == Init /\ [][Next]_vars

\* Time passes and goroutines run; a select whose case stays ready takes it in the end.
Fairness ==
    /\ WF_vars(Pass) /\ WF_vars(CloseArrives)
    /\ WF_vars(StartHealthCheck) /\ SF_vars(SenderStopped)
    /\ WF_vars(HandleHealthcheckEvents) /\ SF_vars(TimeoutReceived) /\ WF_vars(WorkReturns)
    /\ WF_vars(TakeHeartbeat) /\ WF_vars(CheckHeartbeat) /\ WF_vars(ReceiverStopped)
    /\ WF_vars(OnTimeout) /\ WF_vars(ReadLoopEnds)

FairSpec == Spec /\ Fairness

(***************************************************************************)
(* Properties.                                                             *)
(***************************************************************************)

\* What the periods leave room for: an answer is back before the Sender's window ends, a
\* heartbeat arrives before the Receiver's, and a write that blocks fails before the next tick.
FastPath == 2 * MaxDelay < Window - Interval /\ MaxDelay < RWindow - Interval
ShortWrites == WriteTimeout < Interval

\* Neither end gives up a connection whose messages arrive within MaxDelay, not even when
\* fewer of them than the threshold are lost, and whatever the phases of the three tickers.
LiveConnIsKept == sFail = Threshold \/ rFail = Threshold => silent \/ lost >= Threshold

\* The Sender sends on HealthCheck without a look at its context: it is never left with a
\* full channel whose reader is in a write or gone.
SenderNeverBlocks == sender # "blocked"

\* Each end gives up Threshold + 1 of its windows after the path has fallen silent at the
\* latest.  (The server's connection is closed some heartbeats later: HealthCheck, closed, is
\* as ready as Timeout.)
SilenceIsNoticed ==
    /\ sender # "gone" => quiet <= (Threshold + 1) * Window
    /\ connC => quiet <= (Threshold + 1) * RWindow

\* A connection on a silent path ends at both sides, with all its goroutines.  The Sender
\* "will also stop if the context is canceled", and so does the writer of its messages.
SilentPathEnds ==
    /\ silent ~> ~ connS /\ ~ connC /\ sender = "gone" /\ receiver = "gone"
    /\ ctxDone ~> sender = "gone" /\ writer = "gone"
=============================================================================
