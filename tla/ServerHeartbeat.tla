--------------------------- MODULE ServerHeartbeat ---------------------------
(***************************************************************************)
(* The registry of media servers in Redis (media_server_state_scheduler,   *)
(* media_server_state_reporter, redis_media_server_state_repository): the  *)
(* id of this server in the set media:servers and its entry                *)
(* media:server:<id>, which lives for TTL and is renewed by a ticker.      *)
(*                                                                         *)
(* Time is counted in units that are longer than a call to Redis: it does  *)
(* not pass while a report is being saved, nor while a tick is due.  Ages  *)
(* stop at their limit, so no bound on the clock is needed.  The counters  *)
(* of the payload (rooms, participants) are left out.                      *)
(***************************************************************************)
EXTENDS Integers

CONSTANTS
    HeartbeatInterval, HeartbeatTTL,   \* configuration; not positive: unset
    DefaultInterval,                   \* ten seconds
    MaxFaults,   \* bound: reports that fail, over the whole behaviour
    Null         \* no value

ASSUME HeartbeatAssumption ==
    /\ HeartbeatInterval \in Int /\ HeartbeatTTL \in Int
    /\ DefaultInterval \in Nat \ {0} /\ MaxFaults \in Nat

\* mediaServerStateInterval and mediaServerStateTTL.
Interval == IF HeartbeatInterval > 0 THEN HeartbeatInterval ELSE DefaultInterval
TTL == IF HeartbeatTTL > 0 THEN HeartbeatTTL ELSE 3 * Interval

VARIABLES
    phase,    \* starting, up, stopping: the OnStart and OnStop hooks;
              \* down: not started, or stopped; dead: crashed
    loop,     \* the ticker goroutine: none, waiting, saving
    since,    \* time since the last tick
    listed,   \* the id is in media:servers
    entry,    \* media:server:<id>
    faults    \* failed reports so far

vars == <<phase, loop, since, listed, entry, faults>>

Entries == [status : {"healthy", "offline"}, age : 0..TTL]

ASSUME NullIsNoEntry == Null \notin Entries

Init ==
    /\ phase = "down" /\ loop = "none" /\ since = 0
    /\ listed = FALSE /\ entry = Null /\ faults = 0

-----------------------------------------------------------------------------

\* Mutant: a report over an existing entry does not start its life again.
WriteKeepTTL(status, list) ==
    /\ listed' = list
    /\ entry' = [status |-> status, age |-> IF entry = Null THEN 0 ELSE entry.age]

\* Mutant: an id that is in the set is never removed from it.
WriteWithoutRemoval(status, list) ==
    /\ listed' = (listed \/ list)
    /\ entry' = [status |-> status, age |-> 0]

\* One transaction updates the set and the entry.
WriteState(status, list) ==
    /\ listed' = list
    /\ entry' = [status |-> status, age |-> 0]

\* A failing report may have been applied or not.
Report(status, list, ok) ==
    \/ ok /\ WriteState(status, list) /\ UNCHANGED faults
    \/ /\ ~ok /\ faults < MaxFaults /\ faults' = faults + 1
       /\ WriteState(status, list) \/ UNCHANGED <<listed, entry>>

Start ==
    /\ phase \in {"down", "dead"} /\ loop = "none"
    /\ phase' = "starting"
    /\ UNCHANGED <<loop, since, listed, entry, faults>>

\* An error of the first report ends the start of the process.
FirstReport ==
    /\ phase = "starting"
    /\ \E ok \in BOOLEAN :
         /\ Report("healthy", TRUE, ok)
         /\ phase' = IF ok THEN "up" ELSE "down"
         /\ loop' = IF ok THEN "waiting" ELSE "none"
    /\ since' = 0

\* The select may still take a tick when done has been closed.
TickDue ==
    /\ loop = "waiting" /\ since = Interval
    /\ loop' = "saving" /\ since' = 0
    /\ UNCHANGED <<phase, listed, entry, faults>>

\* An error is logged, the next tick tries again.
SaveReport ==
    /\ loop = "saving"
    /\ \E ok \in BOOLEAN : Report("healthy", TRUE, ok)
    /\ loop' = "waiting"
    /\ UNCHANGED <<phase, since>>

BeginStop ==
    /\ phase = "up" /\ phase' = "stopping"
    /\ UNCHANGED <<loop, since, listed, entry, faults>>

\* Mutant: OnStop does not close done.
LoopStays == FALSE /\ UNCHANGED vars

LoopExits ==
    /\ phase = "stopping" /\ loop = "waiting"
    /\ loop' = "none"
    /\ UNCHANGED <<phase, since, listed, entry, faults>>

\* Mutant: OnStop does not wait for the ticker goroutine.
ReportOfflineAtOnce ==
    /\ phase = "stopping"
    /\ \E ok \in BOOLEAN : Report("offline", FALSE, ok)
    /\ phase' = "down"
    /\ UNCHANGED <<loop, since>>

\* OnStop, after the ticker goroutine has ended.
ReportOffline ==
    /\ phase = "stopping" /\ loop = "none"
    /\ \E ok \in BOOLEAN : Report("offline", FALSE, ok)
    /\ phase' = "down"
    /\ UNCHANGED <<loop, since>>

Crash ==
    /\ phase \in {"starting", "up", "stopping"}
    /\ phase' = "dead" /\ loop' = "none"
    /\ UNCHANGED <<since, listed, entry, faults>>

\* Redis removes an entry whose time is over.
Expire ==
    /\ entry # Null /\ entry.age = TTL
    /\ entry' = Null
    /\ UNCHANGED <<phase, loop, since, listed, faults>>

TimePasses ==
    /\ phase # "starting" /\ loop # "saving"
    /\ loop = "waiting" => since < Interval
    /\ entry # Null => entry.age < TTL
    /\ since' = IF loop = "waiting" THEN since + 1 ELSE since
    /\ entry' = IF entry = Null THEN Null ELSE [entry EXCEPT !.age = @ + 1]
    /\ since' # since \/ entry' # entry
    /\ UNCHANGED <<phase, loop, listed, faults>>

Next ==
    \/ Start \/ FirstReport \/ TickDue \/ SaveReport
    \/ BeginStop \/ LoopExits \/ ReportOffline \/ Crash
    \/ Expire \/ TimePasses

Spec == Init /\ [][Next]_vars

-----------------------------------------------------------------------------

Halted == phase \in {"down", "dead"}

\* A process that has ended writes nothing: the tick that was on its way when
\* the stop began never turns an offline server healthy again.
DownIsSilent ==
    [][Halted =>
          /\ listed' = listed
          /\ entry' # Null => entry # Null /\ entry'.status = entry.status]_vars

\* A server that is up has its entry as long as its failed reports and the
\* interval it is in fit into the life of an entry.  With the default of
\* three intervals one failure is survived, a second one may not be.
UpIsKnown ==
    phase = "up" /\ (faults + 1) * Interval < TTL =>
        listed /\ entry # Null /\ entry.status = "healthy"

\* When no report failed, a server that was stopped, after any number of
\* crashes and restarts, is not listed and does not look healthy.
StoppedIsUnlisted ==
    phase = "down" /\ faults = 0 =>
        ~listed /\ (entry # Null => entry.status = "offline")

\* A server that died or failed to say that it stops does not look healthy
\* for ever: its entry expires, unless the server comes back.
DeadServerExpires ==
    Halted /\ entry # Null /\ entry.status = "healthy" ~> ~Halted \/ entry = Null
=============================================================================
