---------------------------- MODULE EventHistory ----------------------------
(***************************************************************************)
(* The runtime events of a session: a message on a data channel, which the *)
(* engine opens with an offer (internal/adapter/out/webrtc), is noted by   *)
(* the session service in the runtime room and in the record as the last   *)
(* event, and in the live state as the last of a bounded history, which    *)
(* every handler reads from Redis and writes back with its own view of the *)
(* room.                                                                   *)
(*                                                                         *)
(* One session, its calls to the three stores one by one.  The messages of *)
(* a channel are handled one after another by the goroutine that reads it; *)
(* those of two channels, a rejoin's and the one before, compete for the   *)
(* lock of the session.  The cleanup, Janitor, takes no lock.  Events are  *)
(* numbered in the order in which they are handled.  Of a room only the    *)
(* last event is kept here; SessionService has its participants.           *)
(***************************************************************************)
EXTENDS Integers, Sequences

CONSTANTS
    Threads,       \* goroutines of requests and of the other callbacks
    Channels,      \* data channels, each with the goroutine that reads it
    Janitor, Null,
    RuntimeEventHistoryLimit,   \* ServiceOptions
    MaxEvents, MaxFaults        \* bounds: messages, and calls that fail

ASSUME HistoryAssumption ==
    /\ Threads \cap Channels = {}
    /\ Janitor \notin Threads \cup Channels /\ Null \notin Threads \cup Channels
    /\ RuntimeEventHistoryLimit \in Int
    /\ MaxEvents \in Nat /\ MaxFaults \in Nat

VARIABLES
    channel,    \* none, connecting, open, or closed
    lock,       \* the goroutine that holds the lock of the session
    room,       \* runtime repository: the last event of the room (0: none)
    record,     \* its status and last event in the records table
    entry,      \* the live state in Redis
    op,         \* what each handler, and the janitor, is doing (Waiting: the
                \* reader of a channel waits for the lock)
    count,      \* history: the number of messages handled
    committed,  \* history: those whose write of the live state was applied
    overtaken,  \* history: the janitor wrote back what it had read before a
                \* message came
    faults      \* the number of calls that failed

vars == <<channel, lock, room, record, entry, op, count, committed, overtaken, faults>>

Limit == IF RuntimeEventHistoryLimit > 0 THEN RuntimeEventHistoryLimit ELSE 10

Handlers == Threads \cup Channels
Procs == Handlers \cup {Janitor}
Terminal == {"closed", "failed"}
Kinds == {"join", "change", "message", "end", "fail"}
Events == Nat \ {0}

Entries == [status : {"active"} \cup Terminal, last : Nat, history : Seq(Events)]
Records == [status : {"created", "active"} \cup Terminal, last : Nat]

\* seen: the history that was read; found: whether reading succeeded.
Ops == [kind : Kinds, step : {"runtime", "record", "read", "state"},
        status : {"active"} \cup Terminal, last : Nat, seen : Seq(Events)]

Waiting == [kind |-> "message", step |-> "lock"]

ASSUME NullIsNoRoom == Null \notin Nat \cup Entries \cup Ops \cup {Waiting}

Init ==
    /\ channel = [c \in Channels |-> "none"]
    /\ lock = Null /\ room = Null /\ entry = Null
    /\ record = [status |-> "created", last |-> 0]
    /\ op = [t \in Procs |-> Null]
    /\ count = 0 /\ committed = {} /\ overtaken = FALSE /\ faults = 0

-----------------------------------------------------------------------------

CallFails == faults < MaxFaults /\ faults' = faults + 1

\* Mutant: the oldest events are kept.
AppendKeepsOldest(events, e) ==
    LET next == Append(events, e)
    IN IF Len(next) <= Limit THEN next ELSE SubSeq(next, 1, Limit)

AppendRuntimeEvent(events, e) ==
    LET next == Append(events, e)
    IN IF Len(next) <= Limit THEN next
       ELSE SubSeq(next, Len(next) - Limit + 1, Len(next))

Begin(t, kind, status, last) ==
    op' = [op EXCEPT ![t] = [kind |-> kind, step |-> "runtime", status |-> status,
                             last |-> last, seen |-> <<>>]]

Goto(t, step) == op' = [op EXCEPT ![t].step = step] /\ UNCHANGED lock

Return(t) ==
    /\ op' = [op EXCEPT ![t] = Null]
    /\ lock' = IF t = Janitor THEN lock ELSE Null

\* Mutant: handlers of one session run at the same time.
NoLock(t) == UNCHANGED lock

Lock(t) == lock = Null /\ lock' = t

\* CreateOffer with a label makes a channel for the agent.
CreateDataChannel(c) ==
    /\ room # Null /\ channel[c] = "none"
    /\ channel' = [channel EXCEPT ![c] = "connecting"]
    /\ UNCHANGED <<lock, room, record, entry, op, count, committed, overtaken, faults>>

\* External: it opens, and what OnOpen sends goes to the peer.
OpenChannel(c) ==
    /\ channel[c] = "connecting" /\ channel' = [channel EXCEPT ![c] = "open"]
    /\ UNCHANGED <<lock, room, record, entry, op, count, committed, overtaken, faults>>

\* Its connection is closed, by whomever; a message that is being handled stays.
CloseChannel(c) ==
    /\ channel[c] \in {"connecting", "open"}
    /\ channel' = [channel EXCEPT ![c] = "closed"]
    /\ UNCHANGED <<lock, room, record, entry, op, count, committed, overtaken, faults>>

\* A text; other messages are dropped.  The gateway hands it on as it comes,
\* and the handler asks for the lock.
OnMessage(c) ==
    /\ channel[c] = "open" /\ op[c] = Null /\ count < MaxEvents
    /\ op' = [op EXCEPT ![c] = Waiting]
    /\ UNCHANGED <<channel, lock, room, record, entry, count, committed, overtaken, faults>>

HandleDataChannelMessage(c) ==
    /\ op[c] = Waiting
    /\ \/ /\ room # Null /\ count < MaxEvents /\ Lock(c)
          /\ count' = count + 1 /\ Begin(c, "message", "active", count')
       \/ /\ room = Null /\ lock = Null
          /\ op' = [op EXCEPT ![c] = Null] /\ UNCHANGED <<lock, count>>
    /\ UNCHANGED <<channel, room, record, entry, committed, overtaken, faults>>

\* The runtime room, or the record of a session that has none.
LastKnown == IF room # Null THEN room ELSE record.last

Receive(t) ==
    /\ op[t] = Null /\ Lock(t)
    /\ \/ /\ room # Null \/ record.status \notin Terminal
          /\ Begin(t, "join", "active", LastKnown)
       \/ room # Null /\ Begin(t, "change", "active", room)
       \/ room # Null /\ Begin(t, "fail", "failed", room)
       \/ Begin(t, "end", "closed", LastKnown)
    /\ UNCHANGED <<channel, room, record, entry, count, committed, overtaken, faults>>

\* CleanupIdleRooms and ShutdownActiveRooms close a snapshot of the room.
Sweep ==
    /\ op[Janitor] = Null /\ room # Null
    /\ Begin(Janitor, "end", "closed", room)
    /\ UNCHANGED <<channel, lock, room, record, entry, count, committed, overtaken, faults>>

Closing(t) == op[t].status \in Terminal

\* Save, or Delete when the room is closed.
WriteRuntime(t) ==
    /\ op[t] # Null /\ op[t].step = "runtime"
    /\ room' = IF Closing(t) THEN Null ELSE op[t].last
    /\ Goto(t, "record")
    /\ UNCHANGED <<channel, record, entry, count, committed, overtaken, faults>>

\* An error fails the room of a join and is ignored when a room is closed;
\* any other handler gives up.
OnError(t) ==
    CASE Closing(t) -> Goto(t, "read")
      [] ~Closing(t) /\ op[t].kind = "join" ->
           Begin(t, "join", "failed", op[t].last) /\ UNCHANGED lock
      [] OTHER -> Return(t)

\* Mutant: the live state is written although the record is not.
OnRecordErrorGoOn(t) == Goto(t, "read")

OnRecordError(t) == OnError(t)

\* A write that fails may have been applied.
SaveRecord(t) ==
    /\ op[t] # Null /\ op[t].step = "record"
    /\ \/ /\ record' = [status |-> op[t].status, last |-> op[t].last]
          /\ overtaken' = (overtaken \/ (t = Janitor /\ op[t].last < record.last))
       \/ UNCHANGED <<record, overtaken>>
    /\ \/ /\ record' = [status |-> op[t].status, last |-> op[t].last]
          /\ Goto(t, "read") /\ UNCHANGED faults
       \/ CallFails /\ OnRecordError(t)
    /\ UNCHANGED <<channel, room, entry, count, committed>>

\* No live state, or an error: there is no history.
ReadState(t) ==
    /\ op[t] # Null /\ op[t].step = "read"
    /\ \E seen \in {<<>>, IF entry = Null THEN <<>> ELSE entry.history} :
         /\ IF entry # Null /\ seen # entry.history THEN CallFails ELSE UNCHANGED faults
         /\ op' = [op EXCEPT ![t].step = "state", ![t].seen = seen]
    /\ UNCHANGED <<channel, lock, room, record, entry, count, committed, overtaken>>

\* ProjectWithRuntimeEvent for a message, ProjectWithRuntimeEventHistory else.
Project(o) ==
    [status |-> o.status, last |-> o.last,
     history |-> IF o.kind = "message" THEN AppendRuntimeEvent(o.seen, o.last) ELSE o.seen]

\* A message has been handled since the room or the history was read.
Outdated(o) ==
    \E n \in committed : n > o.last \/ (o.seen # <<>> /\ n > o.seen[Len(o.seen)])

SaveState(t) ==
    /\ op[t] # Null /\ op[t].step = "state"
    /\ \/ /\ entry' = Project(op[t])
          /\ committed' = committed \cup (IF op[t].kind = "message" THEN {op[t].last} ELSE {})
          /\ overtaken' = (overtaken \/ (t = Janitor /\ Outdated(op[t])))
       \/ UNCHANGED <<entry, committed, overtaken>>
    /\ \/ entry' = Project(op[t]) /\ Return(t) /\ UNCHANGED faults
       \/ CallFails /\ IF Closing(t) THEN Return(t) ELSE OnError(t)
    /\ UNCHANGED <<channel, room, record, count>>

\* External: the live state expires, the process dies and starts again.
Expire ==
    /\ entry # Null /\ entry' = Null
    /\ UNCHANGED <<channel, lock, room, record, op, count, committed, overtaken, faults>>

Crash ==
    /\ channel' = [c \in Channels |-> "none"]
    /\ room' = Null /\ lock' = Null /\ op' = [t \in Procs |-> Null]
    /\ UNCHANGED <<record, entry, count, committed, overtaken, faults>>

Next ==
    \/ \E c \in Channels :
         \/ CreateDataChannel(c) \/ OpenChannel(c) \/ CloseChannel(c)
         \/ OnMessage(c) \/ HandleDataChannelMessage(c)
    \/ \E t \in Threads : Receive(t)
    \/ Sweep
    \/ \E t \in Procs : WriteRuntime(t) \/ SaveRecord(t) \/ ReadState(t) \/ SaveState(t)
    \/ Expire \/ Crash

Spec == Init /\ [][Next]_vars

-----------------------------------------------------------------------------

Increasing(events) ==
    \A i, j \in 1..Len(events) : i < j => events[i] < events[j]

\* Every variable has its type.
TypeOK ==
    /\ channel \in [Channels -> {"none", "connecting", "open", "closed"}]
    /\ lock \in Handlers \cup {Null} /\ room \in Nat \cup {Null}
    /\ record \in Records /\ entry \in Entries \cup {Null}
    /\ op \in [Procs -> Ops \cup {Null, Waiting}]
    /\ count \in Nat /\ committed \subseteq Events
    /\ overtaken \in BOOLEAN /\ faults \in Nat

\* However handlers, cleanup, expiry, crashes and errors interleave, a client
\* sees a history of at most Limit events, in the order in which they were
\* handled and none twice: also when a sweep has written back an older one.
HistoryIsOrdered ==
    entry # Null => Len(entry.history) <= Limit /\ Increasing(entry.history)

\* Unless a sweep writes back what it read before a message came, the history
\* that a client sees has no gap and is up to date: every event that was ever
\* written to the live state and is newer than the oldest one shown is shown.
HistoryHasNoGaps ==
    ~overtaken /\ entry # Null /\ entry.history # <<>> =>
        \A n \in committed : n > entry.history[1] =>
            \E i \in 1..Len(entry.history) : entry.history[i] = n

\* The stores are written in the order runtime, record, live state, and a
\* handler whose record cannot be written gives up: the live state never shows
\* an event that the record, from which the room is rebuilt after a crash, and
\* the last event beside the history do not know of.
HistoryIsRecorded ==
    ~overtaken /\ entry # Null /\ entry.history # <<>> =>
        LET newest == entry.history[Len(entry.history)]
        IN newest <= record.last /\ newest <= entry.last
=============================================================================
