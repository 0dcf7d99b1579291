--------------------------- MODULE ServerProcess ---------------------------
(***************************************************************************)
(* The process (cmd/api): the hooks that fx runs in order at the start and *)
(* in the opposite order at the stop.  They are those of the idle cleanup, *)
(* of the heartbeat (ServerHeartbeat), of Sentry and of the HTTP server    *)
(* (HTTPServer); the first one, of the gateway, has no part in the start.  *)
(* A stop has a deadline: when it is over, fx runs no more hooks and the   *)
(* process exits.                                                          *)
(***************************************************************************)
EXTENDS ServerHeartbeat, HTTPServer

VARIABLE
    stage      \* off; starting and running; the OnStop hooks: stopping, of
               \* the HTTP server and of Sentry, reporting, of the heartbeat,
               \* sweeping, of the idle cleanup, cancelling, of the gateway

processVars == <<stage, vars, httpVars>>

ProcessInit == Init /\ HTTPInit /\ stage = "off"

-----------------------------------------------------------------------------

\* The first hook starts the goroutine of the idle cleanup.
StartProcess ==
    /\ stage = "off" /\ stage' = "starting"
    /\ Start /\ UNCHANGED httpVars

\* A hook that fails ends the start: the hooks before it are stopped.
StartHeartbeat ==
    /\ stage = "starting" /\ FirstReport
    /\ stage' = IF phase' = "up" THEN "starting" ELSE "sweeping"
    /\ UNCHANGED httpVars

StartHTTP ==
    /\ stage = "starting" /\ phase = "up" /\ Listen
    /\ stage' = "running" /\ UNCHANGED vars

\* A signal: the last hook is stopped first.
Stop ==
    /\ stage = "running" /\ stage' = "stopping"
    /\ BeginShutdown /\ UNCHANGED vars

\* Mutant: the hooks are stopped in the order in which they were started.
StopHeartbeatFirst ==
    /\ stage \in {"stopping", "reporting"} /\ BeginStop
    /\ UNCHANGED <<stage, httpVars>>

\* Sentry sends what it has left, for two seconds at most, if it is enabled.
FlushSentry ==
    /\ stage = "stopping" /\ server = "closed"
    /\ stage' = "reporting" /\ UNCHANGED <<vars, httpVars>>

StopHeartbeat ==
    /\ stage = "reporting" /\ BeginStop
    /\ UNCHANGED <<stage, httpVars>>

\* An error of this hook does not keep the next one from being called.
FinishHeartbeat ==
    /\ stage = "reporting" /\ ReportOffline
    /\ stage' = "sweeping" /\ UNCHANGED httpVars

\* ShutdownActiveRooms has returned.
FinishSweep ==
    /\ stage = "sweeping" /\ stage' = "cancelling"
    /\ UNCHANGED <<vars, httpVars>>

\* The context of the callbacks is cancelled last: those of the sweep still
\* have it.  Then the process exits.
CancelEvents ==
    /\ stage = "cancelling" /\ stage' = "off"
    /\ Vanish /\ UNCHANGED vars

Stopping == {"stopping", "reporting", "sweeping", "cancelling"}

\* The process exits where it is.
Exit ==
    /\ stage' = "off" /\ Vanish
    /\ IF Halted THEN UNCHANGED vars ELSE Crash

\* The deadline of the stop.  A crash while stopping looks the same.
StopTimesOut == stage \in Stopping /\ Exit

CrashProcess == stage \in {"starting", "running"} /\ Exit

ProcessNext ==
    \/ StartProcess \/ StartHeartbeat \/ StartHTTP
    \/ Stop \/ FlushSentry \/ StopHeartbeat \/ FinishHeartbeat
    \/ FinishSweep \/ CancelEvents
    \/ StopTimesOut \/ CrashProcess
    \/ FinishShutdown /\ stage = "stopping" /\ UNCHANGED <<stage, vars>>
    \/ \E c \in Conns : Serve(c) /\ UNCHANGED <<stage, vars>>
    \/ /\ TickDue \/ SaveReport \/ LoopExits \/ Expire \/ TimePasses
       /\ UNCHANGED <<stage, httpVars>>

ProcessSpec == ProcessInit /\ [][ProcessNext]_processVars

\* Handlers go on and calls return; nothing forces a client to send a request
\* or the process to start, to stop or to crash.  The deadline is not needed.
\* A goroutine that comes back to its select finds done closed long before the
\* next tick: it does not take ticks for ever.
FairProcessSpec ==
    /\ ProcessSpec
    /\ WF_vars(TimePasses) /\ WF_vars(Expire)
    /\ WF_vars(TickDue) /\ WF_vars(SaveReport) /\ SF_vars(LoopExits)
    /\ WF_processVars(StartHeartbeat) /\ WF_processVars(FlushSentry)
    /\ WF_processVars(StopHeartbeat) /\ WF_processVars(FinishHeartbeat)
    /\ WF_processVars(FinishSweep) /\ WF_processVars(CancelEvents)
    /\ WF_httpVars(FinishShutdown)
    /\ \A c \in Conns : WF_httpVars(Serve(c) /\ ~Accept(c))

-----------------------------------------------------------------------------

\* The OnStop hooks of the heartbeat and of the idle cleanup wait for all
\* requests: no create, leave, end or status call runs while the server says
\* that it is offline or sweeps its rooms.  Joins on a WebSocket may.
SweepIsAlone ==
    phase = "stopping" \/ stage \in {"sweeping", "cancelling"} => Busy = {}

\* As long as failed reports fit into the life of an entry, a server that works
\* on a request, also while it drains, is in the registry and looks healthy.
ServesWhileListed ==
    (faults + 1) * Interval < TTL /\ Busy # {} =>
        listed /\ entry # Null /\ entry.status = "healthy"

\* What has gone through the pipeline was answered, by one body at most,
\* unless the handler returned an error after it had answered: a panic after
\* the first byte adds nothing to it.
AnswerIsWhole ==
    \A c \in Conns :
        LET r == request[c]
        IN r # NoRequest /\ r.step = "served" /\ ~r.hijacked =>
             r.sent # 0 /\ (r.bodies > 1 => r.torn)

\* The request log has the status that the client got, unless the handler
\* returned an error after it had answered, also when a handler panics.
LoggedStatusIsSent ==
    "logger" \in recorders =>
        \A c \in Conns :
            LET r == request[c]
            IN r # NoRequest /\ r.step = "served" /\ ~r.hijacked /\ ~r.torn =>
                 r.recorded = r.sent

\* A stop ends by itself when the calls of the requests return: no hook waits
\* for one that waits for it, whatever reports fail.
StopEnds == stage = "stopping" ~> stage = "off"

\* ARCHITECTURE.md: client and agent join over WebSocket.  A join with a proper
\* handshake gets its WebSocket.
JoinsAreUpgraded ==
    \A c \in Conns :
        request[c] # NoRequest /\ request[c].route = "join"
        /\ request[c].step = "served" => request[c].hijacked
=============================================================================
