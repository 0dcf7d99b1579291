# Verification of port-media

TLA+ models of the media session server in this repository: a Go service that
creates media sessions, negotiates WebRTC connections for a user and an agent
(Pion), forwards their audio, and reflects what happens in Postgres and Redis.
The models are written from the code; line references are those of
`PROJECT.json` (`map`).

## 1. Inventory

| Component | State | Operations | Correct when |
|---|---|---|---|
| Room entity (`core/domain/entity`) | status, participants, their connection state and audio track, last runtime event, `UpdatedAt` | NewRoom, JoinParticipant, RemoveParticipant, UpdateParticipantState / TrackState, RecordRuntimeEvent, Close, Fail | a terminal room is never joined again |
| Session service (`core/service/session`) | one mutex per session | CreateSession, JoinSession, LeaveParticipant, EndSession, HandleConnectionStateChange, HandleMediaTrackStateChange, HandleDataChannelMessage, CleanupIdleRooms, ShutdownActiveRooms | one runtime room per session, which changes as the contract of a session says; records, live state and connections follow it, whichever call fails |
| Queries | none | GetSessionStatus, GetRuntimeStats | what they answer agrees with the room and with each other |
| Runtime repository | map of rooms in memory (deep copies) | Save, FindBySessionID, List, Delete | holds active rooms only |
| Session records (Postgres `rooms`) | row per room; `session_id` not unique | Save (upsert), FindBySessionID (any row) | a terminal record stays terminal |
| Live state (Redis `media:session:<id>`) | one entry per session with a TTL equal to the idle timeout; a bounded history of runtime events in it | Save, Find, expiry | mirrors the runtime room; its history is ordered and complete |
| Projector | none | Project, roomConnectionState, roomMediaState, appendRuntimeEvent | does not depend on the map's iteration order |
| WebRTC engine (`adapter/out/webrtc`) | connections, audio bridge and data channels per session; relays | AcceptOffer, CreateOffer, ApplyAnswer, CloseParticipant, CloseSession, callbacks | all participants of a session share a bridge; audio reaches the other role |
| Gateway | pending offers, context of the callbacks | storeOffer, offer, deletion with both Close calls; callbacks to the service | an offer that is pending can be answered |
| Idle cleanup (`adapter/in/lifecycle`) | ticker goroutine | tick, OnStop | idle rooms are closed, no room survives a stop |
| Heartbeat | ticker goroutine, Redis `media:servers` and `media:server:<id>` | Report, ReportOffline | a running server is listed, a stopped one is not |
| HTTP pipeline (`cmd/api/http.go`, `adapter/in/http`) | recorders around the response writer of a request | RequestLogger, CORS, Recover, routes, handlers, error handler; token check; WebSocket upgrade | a request gets one answer, and the log has its status |
| Process (`cmd/api`, fx) | the hooks that have been started | start and stop in opposite orders, deadline of the stop | no request runs beside the sweep; a stop ends |
| Health, monitoring (Sentry) | none | Check, Flush | |
| Configuration, database set-up, logging; generated fakes | none that changes | | |

How they interact. An HTTP request (create, leave, end) or a WebSocket message
(join) calls the service on a goroutine of its own. The service takes the lock of
the session, works on a copy of the room and writes it to the runtime map, the
records and the live state, in this order, each of which can fail. The engine
calls back: every change of a connection's state starts a goroutine (Pion's
`go handler(state)`), `OnTrack` and the end of a relay call the track handler, and
the goroutine that reads a data channel hands its messages on one by one.
The callbacks ask for the same lock. The idle cleanup and the shutdown sweep call
the same teardown (`closeRoom`) **without** the lock. At a stop, fx stops the HTTP
server, flushes Sentry, stops the heartbeat, sweeps the rooms and cancels the
context of the callbacks, in this order and under one deadline.

Hard parts: the sweep against handlers; stale and reordered callbacks; two
records of one session; one of several saves failing; a crash that loses the
runtime map while record and live state survive; a history that is read and written
back by everybody; the order in which participants join against the order in which
their tracks arrive; offers that outlive their connection; the life of Redis entries
against the ticks that renew them; requests that still run while the process stops;
panics and encoding errors after an answer has begun. `PROJECT.json` lists each
hazard at its line with the properties that cover it.

## 2. Modules

| Module | Models | State and actions |
|---|---|---|
| `Room` | the entity | pure operators on a record `[id, session, status, parts, updatedAt]`; guards are operators of their own (`CanAddParticipant`) |
| `SessionService` | service, repositories, live state, engine as the service sees it, cleanup, queries | one action per access to shared state. `pc[t]` is the point a goroutine has reached, `held[t]` its copy of the room, `req[t]` what it serves and its early `now`; `lock`, `runtime`, `records`, `states`, `conns`, `peers`, `relays`, `callbacks`; `todo` is the janitor's list. `GetSessionStatus` is a state function |
| `SessionContract` | the promise of the service: a session has no room or one open room with members | `Open`, `Join`, `Leave`, `Finish`, `Lose`; `SessionService` implements it with `open` and `members` read off the runtime repository |
| `EventHistory` | the last event and the history of events in the three stores; data channels | calls to the stores one by one, by handlers under the lock and by the janitor without it; `CreateDataChannel`, `OpenChannel`, `CloseChannel`, `OnMessage`, `HandleDataChannelMessage` |
| `MediaEngine` | engine and gateway: bridges, registration, relays and pending offers of one session | AcceptOffer and CreateOffer in two halves (`BeginAccept` or `BeginOffer`, then `FinishAccept` or `FailAccept`), `StoreOffer`, `ApplyAnswer`, both Close calls, the sweep in its two steps without the lock, `OnTrack`, `RelayEnds` |
| `Projection` | `roomConnectionState`, `roomMediaState` | one behaviour is one evaluation; `Visit` takes any participant that is left, as a Go map may |
| `SessionReports` | the answer to a status request and the stats, both built on `Projection` | `Evaluate` and `ConnectionReturns` run the projections, `GetSessionStatus` goes through payload, query and mapper, `NextRoom` and `CountRoom` are the loop of `Build` |
| `ServerHeartbeat` | heartbeat scheduler, reporter and repository | start, first report, tick, save, stop, offline report, crash, expiry, time |
| `HTTPServer` | a request on its way through middleware, handler and error handler; `http.Server` | one action per step that can end or change the answer; `Listen`, `BeginShutdown`, `FinishShutdown` |
| `ServerProcess` | the fx hooks | `stage`; extends `ServerHeartbeat` and `HTTPServer` and takes their actions apart into those that go on by themselves and those that a hook runs |
| `MC...` | | small sets, rooms and symmetry for TLC |
| `SessionServiceProofs`, `SessionRoomProofs`, `SessionContractProofs`, `EventHistoryProofs`, `MediaEngineProofs`, `SessionReportsProofs`, `ServerHeartbeatProofs`, `ServerProcessProofs` | | theorems, section 5 |

`SessionService` extends `Room`. Handlers share their steps: a join, a leave and
both callbacks go through `SaveRuntime`, `SaveRecord`, `SaveState`; what differs
after an error is in `PersistFailed` (a join fails its room, the others give up).
`failRoom` and `closeRoom` are the steps `CloseMedia`, `DeleteRuntime`,
`CloseRecord`, `CloseState`; the janitor goes through the same ones with no lock.
`Projection`, `SessionReports`, `EventHistory` and `MediaEngine` refine what
`SessionService` keeps abstract: the view in a live state entry is the room itself
there, a handler has no events to note, and a bridge does not appear. `EventHistory`
in turn keeps of a room its last event and of the requests their kind.

What is abstracted. Identifiers are model values; a participant's role is a
function of its id, so agents are a set; names, user ids, SDP, timestamps other
than `UpdatedAt`, metrics and log lines are left out. A participant has one audio
track or none, as `newParticipant` makes it. A failing store call may have been
applied or not. Definitions marked "Mutant" are variants of the definition that
follows or precedes them with a plausible bug; no action uses them, they show that
each property can fail.

## 3. Runs

Run any of them with `tlc -config <name>.cfg <module>`; with two workers none takes
more than three minutes.

| Run | Module | Shows | Bounds |
|---|---|---|---|
| Requests | MCSessionService | `RuntimeHasActiveRecord`, `RegisteredAreMembers`, `LiveStateMirrorsRoom`, `RoomsFailWithTheirAgent`, `TerminalSticky`, `ShownEndIsFinal` next to one failing call | one session and room, agent and user who publish, one goroutine at a time, two connections, one unanswered callback when the next is reported |
| Recreate | MCSessionService | `TypeOK`, `OneRuntimeRoomPerSession`, `RuntimeOnlyActive`, `RuntimeHasActiveRecord`, `LocksAreReleased`, and the refinement `ImplementsContract` | two rooms of one session, two goroutines, crash anywhere, one failing call |
| Maintenance | MCSessionService | `ServiceInvariant`, `FreshRoomIsReflected`, `IdleRoomsAreClosed` with cleanup, expiry, stop, sweep and restart | two rooms, one goroutine, timeout 1, clock to 1, one failing call |
| History | MCEventHistory | `HistoryIsOrdered`, `HistoryHasNoGaps`, `HistoryIsRecorded` | one session, one goroutine of requests, two data channels, the janitor; a history of two, three messages, one failing call; expiry and crashes anywhere |
| Bridge | MCMediaEngine | `TypeOK`, `RegisteredShareBridge`, `RelayReachesOpposite`, `NoBridgeWithoutConnection`, `PendingOffersAreAnswerable` | an agent and two users, three connections, two bridges; negotiations in both directions fail, sweeps come at any time |
| Projections | MCSessionReports | `ConnectionStateIsDetermined`, `MediaStateIsDetermined`, `FailedAgentTrackShows`, `AnswerIsConsistent`, `StatsAddUp`, `StatsAgreeWithAnswer` | every room that a handler projects of an agent and two users, next to one other room; with and without an event. Deadlock is not checked, since a behaviour ends when both reports are made |
| Process | MCServerProcess | `UpIsKnown`, `StoppedIsUnlisted`, `SweepIsAlone`, `ServesWhileListed`, `AnswerIsWhole`, `LoggedStatusIsSent`, `DownIsSilent`, `DeadServerExpires`, `StopEnds` | a client that asks for every route but the end, which is served like a leave, and one that joins; both recorders or none; interval 1, the default TTL of 3, two failing reports (one more than the TTL survives); crashes and the deadline anywhere. Ages stop at their limit, so time is unbounded |

Why the bounds are enough to see the hazards. Requests of different sessions share
nothing but the clock and the failure budget, so one session suffices. Handlers of
one session exclude each other: `HandlerOK`, proved for any number of goroutines,
says that a handler's writes fall between its lock and its return. So one
goroutine at a time produces every order of handlers, and Requests, whose
properties speak of the moments between handlers, has one, while callbacks wait as
goroutines in `callbacks`. Recreate, which is about the lock itself and about the
refinement, has two, and in Maintenance the janitor works next to a handler. Two
rooms are needed for two records of one session. Two connections are one per
participant, or the duplicate join of one. One failing call may hit any store call
of any handler at any point; a second one adds combinations that each end in the
same `PersistFailed` or teardown step. A timeout of 1 and a clock that reaches it
make rooms both fresh and idle. In History three messages overflow a history of
two, and the readers of two channels and a request are three that want the lock.
Three connections for three participants include one that was replaced and is
still open; two bridges are the one in use and one that a relay remembers. Three
participants with the agent's id in the middle distinguish the two roles, two of
one role, and every order. Two requests are one that the server waits for and one
on a WebSocket that it does not; more of the same kind only wait alongside.

### Divergences from the documents

Each run checks one statement of `docs/ARCHITECTURE.md` that the code does not keep.

| Run | Statement | What happens |
|---|---|---|
| ShutdownRace (`ShutdownLeavesNoRoom`) | line 76, "Service shutdown must close active runtime rooms before exit." | a WebSocket join that the stop does not wait for saves its room after the sweep took its list |
| IdleRace (`ShownEndIsFinal`) | lines 74-75, idle rooms must be closed with closed live state | a handler that had read the room writes it back over the closed state |
| OrphanPeer (`ClosedSessionHasNoPeers`) | lines 74-75, "must close media peers" | a second join of one participant replaces the registered connection without closing it |
| JoinUpgrade (`JoinsAreUpgraded`) | lines 48-49, client and agent join "over WebSocket" | the recorders of RequestLogger (`logger.go:60`) and Recover (`recover.go:76`) hide the `Hijacker` of net/http, so behind them every upgrade is refused with 500, and the error handler adds a second body |
| LateSubscriber (`AudioIsForwarded`) | line 126, "forwards audio tracks between subscribed participants" | a user's track that arrives before the agent has joined finds no destination, for good |

The other runs that have joins, ShutdownRace among them, presuppose a join that was
upgraded, as in a chain without recorders (`http_test.go` builds `NewHTTPHandler` with
nil middlewares).

Three more show in the code and have no run. Two state changes of one connection are
reported by goroutines of their own (`engine.go:484`) and may be handled in the other
order, so the state that lines 72-73 want in the room may be the older one. The
failure of an agent's connection or track fails the whole room
(`runtime_event_handler.go:74`, `:115`), while lines 72-73 say that
individual participant failures "must update that participant state without failing
the whole room". The code keeps
that for users: `RoomsFailWithTheirAgent` (Requests) says that a room fails only with
its agent. For an agent `CriticalTheorem` proves the contrary of the document: once it
has failed, its room does not stay open. With `room_idle_timeout` 0 the hook that
closes rooms at shutdown is not registered (`idle_room_cleanup_scheduler.go:41`), so a
stop then closes none.

## 4. Fairness

`FairSpec` of `SessionService` is weak fairness of the janitor's steps and nothing
else: its ticker goes on, and a teardown that has begun goes from write to write. It
takes no lock, so no handler has to make progress for it. No fairness of requests,
callbacks, crashes, stops or time: clients need not call.

`FairProcessSpec` of `ServerProcess`: time passes and Redis expires entries; hooks
that have been called and requests that have been accepted go on, since their calls
return or time out. The ticker goroutine goes on, and with strong fairness of
`LoopExits` it sees `done` closed some time: it comes back to its select long before
the next tick is due, so it cannot take ticks for ever instead. Nothing forces a
client to send a request (`Accept`), or the process to start, to be stopped, to crash
or to miss its deadline; `StopEnds` therefore does not rest on the deadline.

## 5. Proofs

`tlapm` checks these for all values of the constants that satisfy the named
assumptions (bounds are naturals, agents are participants, `Null` is no other value).

* `SessionServiceProofs`: `ServiceInvariantHolds`, and from it `TypeCorrect`,
  `OneRuntimeRoomTheorem`, `RuntimeOnlyActiveTheorem`. That a session has one
  runtime room is not inductive: a handler that is about to save its copy could add
  a second one. `ServiceInvariant` adds what a handler relies on (`HandlerOK`): it
  has the lock of its session, its copy is of the only room the session can have
  in the runtime, and what it will save is active; and that a room is stored under
  its own id. `LocksTheorem` builds on it: every step of a handler goes on under its
  lock or returns it (`HandleGoesOn`), and a goroutine that begins something new
  holds none. The janitor holds no lock, and the argument survives it, because it
  only deletes. There is one lemma per action; `GotoStep` and `ReturnStep` hold what
  handler steps have in common, `HandlerUndisturbed` and `OthersUndisturbed` that
  the others are not disturbed. The run Maintenance checks the same invariant.
* `SessionRoomProofs`, with the janitor, crashes, stops and failing calls at any time.
  `RecordsTheorem`: a room has one session in the runtime, in the records and in every
  copy somebody works on; most of what follows needs it to know that a save under one
  lock cannot meet the room of another session. `CriticalTheorem` and `FreshTheorem`
  are about sessions nobody is at work on, so their invariants (`CriticalInvariant`,
  `FreshInvariant`) say for each step of a handler whether the property holds already or
  what the handler's copy has that will make it hold. What `CriticalTheorem` states,
  `CriticalFailureEndsRoom`, is the behaviour of the code where the document says
  otherwise (section 3).
* `SessionContractProofs`, under `NoCleanup`, an idle timeout of 0, with which the code
  starts no cleanup; every theorem names it, since with a cleanup a janitor without the
  lock deletes under a handler (IdleRace) and the statements are false. `WorkInvariant`
  says for every step of a handler how its copy, the runtime room, the record and the
  registered connections differ (`WorkOK`), and that they do not where no handler is at
  work (`Settled`). From it follow `ActiveRecordTheorem`, `RegisteredTheorem` and
  `TerminalStickyTheorem`, with failing calls and crashes anywhere, and
  `ContractTheorem`, the refinement: a save under the lock is one step of the contract,
  a restart is `Lose` for all rooms, every other step stutters. `ShownEndTheorem` adds
  that a room whose end was shown has a terminal record (`EndInvariant`).
  `MirrorTheorem` moreover assumes that the process neither crashes nor stops: after a
  restart the runtime is empty while Redis still shows the room.
* `EventHistoryProofs`: `TypeCorrect`, `OrderedTheorem`, `NoGapsTheorem` and
  `RecordedTheorem`, for any goroutines, channels, limit and numbers of messages and
  faults. None of the three is inductive: what a handler has read will be written, and
  so must be in order too. `HistoryInvariant` says it of every copy: a handler, under
  the lock, has read an ordered history without a gap and knows the newest event in
  committed order (`HandlerOK`); a message is newer than all that is committed and is in
  room and record before it is in the live state (`MessageOK`); the janitor's copy may
  lack newer events at its end but has no gap inside (`JanitorOK`), and its write
  either finds nothing newer or is `overtaken`. What appending to a bounded history does
  is `AppendIsSuffix`, from which `MessageKeepsOrder` and `MessageLeavesNoGap` follow.
  The proof found that the order of the cases of `OnError` matters (a closing handler
  may be that of a join), which now is in their guards.
* `MediaEngineProofs`: `EngineTypeCorrect`, `SharedBridgeTheorem`, `RelayTheorem`,
  `BridgeReleaseTheorem` and `OfferTheorem`, for any participants, connections and
  bridges. The strengthening follows the negotiation that is under way, the tracks
  the current bridge must have and the offer that has still to be stored. Three
  history variables, which no action reads in a guard, carry what the properties
  depend on: `swept`, a sweep came between the halves of a negotiation, `stale`, an
  offer was made between the two steps of a sweep, and `failed`, a negotiation
  failed on the bridge.
* `SessionReportsProofs`: `ConnectionStateTheorem`, `MediaStateTheorem` and
  `FailedAgentTrackTheorem`, for any finite set of participants; the invariant ties the
  flags to the participants that have been visited. `AnswerTheorem`,
  `StatsTotalsTheorem` and `StatsAgreeTheorem`, for any participants and any finite set
  of other rooms, one of each session (`CompanionsAssumption`): `ReportsInvariant` says
  that the counters are those of the rooms visited so far (`Counted`), that the answer
  is the one `ConnectionOf` and `MediaOf` allow for the subject, and that a room in
  evaluation is not among those counted. One turn of Build is `CountKeeps`. That
  `Sum`, a fold over a finite set, is what it should be is `SumCountsUnits`: it is the
  size of a set of units, since a smallest set for which it were not cannot exist; the
  other facts about sums follow from those about cardinalities. That members can be
  listed in the order of their ids, each once, is `ViewsInOrder`.
* `ServerHeartbeatProofs`: `UpIsKnownTheorem`, for any interval, TTL and number of
  failures. The invariant bounds the age of the entry by the time since the last
  tick plus one interval for every failed report. `DefaultTTLTheorem` applies it to
  the TTL that the code computes when none is configured: one failed report is
  survived, whatever the interval. `DownIsSilentTheorem` and
  `StoppedIsUnlistedTheorem` need only that a process that has ended has no ticker
  goroutine (`HaltedStep`): it comes down by a failed report or by the offline one.
* `ServerProcessProofs`: `ProcessImplementsHeartbeat` shows that the process
  implements the heartbeat: each of its steps is a step of `ServerHeartbeat` or
  leaves that alone. `ProcessUpIsKnown` follows without another look at the process.
  `SweepIsAloneTheorem` needs that the HTTP server is closed from the flush of
  Sentry on and that a closed server has no busy connection; `ServesTheorem` adds that
  a server with a busy connection is in a stage whose heartbeat is up. `AnswerTheorem`
  and `LogTheorem` rest on an invariant of one request: which steps come before its
  first byte, and which error comes after it. All hold for any set of connections, of
  routes a client asks for, and of recorders.

Every safety invariant and action property that a passing run checks is stated by one
of these theorems, except `RoomsFailWithTheirAgent`. Only model-checked besides it: the
liveness properties (`IdleRoomsAreClosed`, `DeadServerExpires`, `StopEnds`), which are
out of the prover's reach. The theorems under `NoCleanup` say nothing of a service with
the cleanup; there the runs with the janitor, and the theorems of
`SessionServiceProofs` and `SessionRoomProofs`, are what is known.

## 6. Limits of the models

* Pending callbacks and relays are sets: two equal ones count as one.
* `SessionService` takes AcceptOffer as one step at its registration; its halves
  and the sweep in between are in `MediaEngine`. A failed AcceptOffer leaves either
  no trace or the callback of the connection it closed.
* CreateOffer and ApplyAnswer, and with them data channels, have no caller in the
  service. They are taken to be called as AcceptOffer is, by a handler that holds the
  lock of the session.
* `LiveStateMirrorsRoom`, `RoomsFailWithTheirAgent`, `FreshRoomIsReflected` and
  `ShownEndIsFinal` are about behaviours without failing calls: after a failed save
  the code itself returns with the stores out of step.
* `TerminalSticky` is checked without the cleanup: `IdleRace` shows what the cleanup
  does to an end that was shown. `RegisteredShareBridge` and `RelayReachesOpposite` hold
  as long as no sweep has come between the halves of a negotiation; after one, the
  bridge that the new connection subscribed to is gone.
* `RuntimeHasActiveRecord`, `RegisteredAreMembers`, the mirror and the refinement of
  the contract are checked without the unlocked janitor.
* `HistoryHasNoGaps` and `HistoryIsRecorded` leave out behaviours in which the
  janitor has written back what it read before a message came (`overtaken`), which
  the code does; `HistoryIsOrdered` holds with it.
* The time of an event, which is read before the lock is waited for, is not kept:
  events are numbered in the order in which they are handled. Messages that are no
  text, and the initial messages of a channel, leave no trace in the service.
* `IdleRoomsAreClosed` is checked for one session, so the list of the cleanup that an
  error ends has one room at a time.
* In `SessionReports` only the subject has runtime events, and all of one type.
* In `ServerHeartbeat` no time passes during a call to Redis or while a tick is due;
  a configured status other than healthy and a disabled heartbeat are left out.
* In `HTTPServer` a connection has one request at a time, and the size of a body, the
  headers of CORS and the texts of errors are left out. Sentry is disabled in the
  pipeline, where it is then a pass-through; its flush at the stop is a hook.
* Not modelled: a store write that is applied after its call returned; the clamp of
  the cleanup interval; a process without the hook of the idle cleanup or of the
  heartbeat; the SQL, the JSON and the token format themselves; configuration,
  database set-up and logging, which keep no state that changes; Pion, net/http, fx
  and Redis beyond what the code asks of them; the generated fakes of the tests.

## 7. Plan

Done, in this order: the session service, since all hazards that span several
components meet there; the engine, the projections and the heartbeat; the contract of
a session and the event history; the offers of the gateway; the HTTP pipeline and the
process; the reports. Next:

1. Proofs: `RoomsFailWithTheirAgent`, and how much of `SessionContractProofs` survives a cleanup that deletes only
   rooms no handler has read.
2. `IdleCleanup`: the cleanup of several sessions' rooms with the interval of the
   ticker and the error that ends a round, and how late an idle room is closed.
3. The media view of `SessionService` (registered connections, relays) as an
   abstraction that `MediaEngine` implements.
