-------------------------- MODULE EventHistoryProofs --------------------------
(***************************************************************************)
(* The event history of a session, for any number of goroutines, channels, *)
(* messages and failing calls, and any limit.                              *)
(*                                                                         *)
(* Events are numbered as they are handled, under the lock, and committed  *)
(* when they reach the live state.  So whatever a handler or the janitor   *)
(* has read is an ordered part of what is committed, and the message that  *)
(* is at work is newer than all of it.  A handler under the lock moreover  *)
(* knows the newest event, unless a sweep wrote back an older one before.  *)
(***************************************************************************)
EXTENDS EventHistory, SequenceTheorems, TLAPS

USE HistoryAssumption, NullIsNoRoom

-----------------------------------------------------------------------------
(* The history that a message extends.                                     *)

\* There is room for one event at least.
LEMMA LimitType == Limit \in Nat \ {0}
BY DEF Limit

\* A newer event at the end, and the oldest ones dropped: the history is a
\* suffix of the old one and the event.
LEMMA AppendIsSuffix ==
    ASSUME NEW h \in Seq(Events), NEW e \in Events, Len(h) <= Limit
    PROVE  \E k \in 0..Len(h) :
              LET a == AppendRuntimeEvent(h, e) IN
              /\ a \in Seq(Events) /\ Len(a) = Len(h) - k + 1 /\ Len(a) <= Limit
              /\ \A i \in 1..Len(a) : a[i] = IF i = Len(a) THEN e ELSE h[k + i]
<1> DEFINE next == Append(h, e)
           a == AppendRuntimeEvent(h, e)
<1>1. /\ next \in Seq(Events) /\ Len(next) = Len(h) + 1 /\ Len(h) \in Nat
      /\ \A i \in 1..Len(next) : next[i] = IF i = Len(next) THEN e ELSE h[i]
  OBVIOUS
<1> HIDE DEF next
<1>2. CASE Len(next) <= Limit
  <2>1. a = next
    BY <1>2 DEF AppendRuntimeEvent, next
  <2>2. 0 \in 0..Len(h)
    BY <1>1
  <2> HIDE DEF a
  <2> QED BY <1>1, <1>2, <2>1, <2>2 DEF a
<1>3. CASE Len(next) > Limit
  <2> DEFINE k == Len(next) - Limit
  <2>1. k = 1 /\ Len(next) = Limit + 1
    BY <1>1, <1>3, LimitType
  <2>2. a = SubSeq(next, 2, Len(next))
    BY <1>1, <1>3, <2>1, LimitType DEF AppendRuntimeEvent, next
  <2>3. /\ a \in Seq(Events) /\ Len(a) = Len(next) - 1
        /\ \A i \in 1..Len(a) : a[i] = next[1 + i]
    BY <1>1, <2>1, <2>2, LimitType, SubSeqProperties
  <2> HIDE DEF a, k
  <2>4. 1 \in 0..Len(h)
    BY <1>1, <2>1, LimitType
  <2>5. \A i \in 1..Len(a) : a[i] = IF i = Len(a) THEN e ELSE h[1 + i]
    BY <1>1, <2>3
  <2> QED BY <1>1, <2>1, <2>3, <2>4, <2>5, LimitType DEF a
<1> QED BY <1>1, <1>2, <1>3, LimitType

\* Ordered, and made of committed events.
Ordered(h, S) ==
    /\ Len(h) <= Limit /\ Increasing(h)
    /\ \A i \in 1..Len(h) : h[i] \in S

\* Whatever is committed and newer than the oldest event shown is shown.
Gapless(h, S) ==
    \A n \in S : h # <<>> /\ h[1] < n => \E i \in 1..Len(h) : h[i] = n

\* The same, but newer events may be missing at the end.
GaplessInside(h, S) ==
    \A n \in S : h # <<>> /\ h[1] < n /\ n < h[Len(h)] => \E i \in 1..Len(h) : h[i] = n

UpTo(S, n) == \A m \in S : m <= n

\* Without live state there is no history.
LEMMA EmptyHistory ==
    ASSUME NEW S
    PROVE  Ordered(<<>>, S) /\ Gapless(<<>>, S) /\ GaplessInside(<<>>, S)
BY LimitType DEF Ordered, Gapless, GaplessInside, Increasing

\* A message is newer than everything committed: its history is in order.
LEMMA MessageKeepsOrder ==
    ASSUME NEW S \in SUBSET Events, NEW h \in Seq(Events), NEW e \in Events \ S,
           Ordered(h, S), UpTo(S, e)
    PROVE  LET a == AppendRuntimeEvent(h, e) IN
           /\ a \in Seq(Events) /\ Ordered(a, S \cup {e})
           /\ \A i \in 1..Len(a) : a[i] <= e
<1> DEFINE a == AppendRuntimeEvent(h, e)
<1>1. PICK k \in 0..Len(h) :
        /\ a \in Seq(Events) /\ Len(a) = Len(h) - k + 1 /\ Len(a) <= Limit
        /\ \A i \in 1..Len(a) : a[i] = IF i = Len(a) THEN e ELSE h[k + i]
  BY AppendIsSuffix DEF Ordered
<1> HIDE DEF a
<1>2. /\ Len(h) \in Nat /\ Len(a) \in Nat
      /\ \A i \in 1..Len(h) : h[i] \in S /\ h[i] < e
  BY DEF Ordered, UpTo, Events
<1>3. ASSUME NEW i \in 1..Len(a), i # Len(a)
      PROVE  k + i \in 1..Len(h) /\ a[i] = h[k + i]
  <2>1. k \in Int /\ i \in Int /\ 1 <= i /\ i < Len(a) /\ 0 <= k
    BY <1>2, <1>3
  <2>2. k + i \in 1..Len(h)
    BY <1>1, <1>2, <2>1
  <2> QED BY <1>1, <1>3, <2>2
<1>4. ASSUME NEW i \in 1..Len(a) PROVE a[i] \in S \cup {e} /\ a[i] <= e
  <2>1. CASE i = Len(a)
    <3>1. a[i] = e /\ e <= e
      BY <1>1, <2>1 DEF Events
    <3> QED BY <3>1
  <2>2. CASE i # Len(a)
    <3>1. k + i \in 1..Len(h) /\ a[i] = h[k + i]
      BY <1>3, <2>2
    <3> QED BY <1>2, <3>1 DEF Events
  <2> QED BY <2>1, <2>2
<1>5. ASSUME NEW i \in 1..Len(a), NEW j \in 1..Len(a), i < j PROVE a[i] < a[j]
  <2>1. i # Len(a) /\ k + i \in 1..Len(h) /\ a[i] = h[k + i]
    BY <1>2, <1>3, <1>5
  <2>2. CASE j = Len(a)
    BY <1>1, <1>2, <2>1, <2>2
  <2>3. CASE j # Len(a)
    <3>1. k + j \in 1..Len(h) /\ a[j] = h[k + j] /\ k + i < k + j
      BY <1>2, <1>3, <1>5, <2>3
    <3> QED BY <2>1, <3>1 DEF Ordered, Increasing
  <2> QED BY <2>2, <2>3
<1> QED BY <1>1, <1>4, <1>5 DEF Ordered, Increasing, a

\* ... and without a gap, if what was read has none.
LEMMA MessageLeavesNoGap ==
    ASSUME NEW S \in SUBSET Events, NEW h \in Seq(Events), NEW e \in Events \ S,
           Ordered(h, S), UpTo(S, e), Gapless(h, S)
    PROVE  Gapless(AppendRuntimeEvent(h, e), S \cup {e})
<1> DEFINE a == AppendRuntimeEvent(h, e)
<1>1. PICK k \in 0..Len(h) :
        /\ a \in Seq(Events) /\ Len(a) = Len(h) - k + 1 /\ Len(a) <= Limit
        /\ \A i \in 1..Len(a) : a[i] = IF i = Len(a) THEN e ELSE h[k + i]
  BY AppendIsSuffix DEF Ordered
<1> HIDE DEF a
<1>2. Len(h) \in Nat /\ Len(a) \in Nat /\ Len(a) \in 1..Len(a) /\ a[Len(a)] = e
  BY <1>1
<1>3. SUFFICES ASSUME NEW n \in S, a[1] < n PROVE \E i \in 1..Len(a) : a[i] = n
  BY <1>2 DEF Gapless, a
<1>4. n < e
  BY DEF UpTo, Events
<1>5. Len(a) # 1 /\ k + 1 \in 1..Len(h) /\ a[1] = h[k + 1] /\ h # <<>>
  <2>1. Len(a) # 1
    <3> SUFFICES ASSUME Len(a) = 1 PROVE FALSE
      OBVIOUS
    <3> QED BY <1>2, <1>3, <1>4 DEF Events
  <2>2. k + 1 \in 1..Len(h) /\ 1 \in 1..Len(a)
    BY <1>1, <1>2, <2>1
  <2>3. a[1] = h[k + 1]
    BY <1>1, <2>1, <2>2
  <2> QED BY <2>1, <2>2, <2>3
<1>6. h[1] <= h[k + 1]
  BY <1>2, <1>5 DEF Ordered, Increasing, Events
<1>7. PICK i \in 1..Len(h) : h[i] = n
  <2>1. h[1] < n
    BY <1>3, <1>5, <1>6 DEF Events
  <2> QED BY <1>5, <2>1 DEF Gapless
<1>8. i > k + 1
  BY <1>2, <1>3, <1>5, <1>7 DEF Ordered, Increasing, Events
<1>9. i - k \in 1..Len(a) /\ i - k # Len(a) /\ k + (i - k) = i
  BY <1>1, <1>2, <1>7, <1>8
<1> QED BY <1>1, <1>7, <1>9

\* A sweep that knows the newest event leaves no gap at the end either.
LEMMA NothingNewerLeavesNoGap ==
    ASSUME NEW S \in SUBSET Events, NEW h \in Seq(Events), GaplessInside(h, S),
           h # <<>> => UpTo(S, h[Len(h)])
    PROVE  Gapless(h, S)
<1> SUFFICES ASSUME NEW n \in S, h # <<>>, h[1] < n PROVE \E i \in 1..Len(h) : h[i] = n
  BY DEF Gapless
<1>1. Len(h) \in Nat /\ Len(h) \in 1..Len(h) /\ h[Len(h)] \in Nat /\ n \in Nat
  BY DEF Events
<1>2. CASE n = h[Len(h)]
  BY <1>1, <1>2
<1>3. CASE n # h[Len(h)]
  <2>1. n < h[Len(h)]
    BY <1>1, <1>3 DEF UpTo
  <2> QED BY <2>1 DEF GaplessInside
<1> QED BY <1>2, <1>3

\* What was read stays an ordered part, and whole inside, when a newer event is
\* committed.
LEMMA NewerEventKeeps ==
    ASSUME NEW S \in SUBSET Events, NEW h \in Seq(Events), NEW e \in Events,
           Ordered(h, S), UpTo(S, e)
    PROVE  /\ Ordered(h, S \cup {e})
           /\ GaplessInside(h, S) => GaplessInside(h, S \cup {e})
<1>1. Ordered(h, S \cup {e})
  BY DEF Ordered
<1>2. ASSUME GaplessInside(h, S), NEW n \in S \cup {e},
             h # <<>>, h[1] < n, n < h[Len(h)]
      PROVE  \E i \in 1..Len(h) : h[i] = n
  <2>1. Len(h) \in 1..Len(h) /\ h[Len(h)] \in S
    BY <1>2 DEF Ordered
  <2>2. n \in S
    BY <1>2, <2>1 DEF UpTo, Events
  <2> QED BY <1>2, <2>2 DEF GaplessInside
<1> QED BY <1>1, <1>2 DEF GaplessInside

-----------------------------------------------------------------------------
(* The inductive invariant.                                                *)

EntryOK ==
    entry # Null =>
        /\ Ordered(entry.history, committed)
        /\ ~overtaken => /\ Gapless(entry.history, committed)
                         /\ \A i \in 1..Len(entry.history) : entry.history[i] <= entry.last

\* The room and the record know the newest event.
Recorded ==
    ~overtaken => UpTo(committed, record.last) /\ (room # Null => UpTo(committed, room))

\* A message at work is the newest, and written to the stores in their order.
MessageOK(t) ==
    op[t].kind = "message" =>
        /\ op[t].last = count /\ count \in Events \ committed /\ op[t].status = "active"
        /\ op[t].step # "runtime" => room = Null \/ count <= room
        /\ ~overtaken /\ op[t].step \in {"read", "state"} => count <= record.last

\* A handler at work holds the lock, so nothing is committed behind its back.
HandlerOK(t) ==
    op[t] \notin {Null, Waiting} =>
        /\ lock = t /\ MessageOK(t)
        /\ Ordered(op[t].seen, committed)
        /\ ~overtaken => Gapless(op[t].seen, committed) /\ UpTo(committed, op[t].last)

\* The janitor holds no lock: what it has read may have become old.
JanitorOK ==
    op[Janitor] # Null =>
        /\ op[Janitor] # Waiting
        /\ op[Janitor].kind = "end" /\ op[Janitor].status = "closed"
        /\ Ordered(op[Janitor].seen, committed)
        /\ ~overtaken => GaplessInside(op[Janitor].seen, committed)

HistoryInvariant ==
    /\ TypeOK
    /\ committed \subseteq 1..count
    /\ EntryOK /\ Recorded
    /\ \A t \in Handlers : HandlerOK(t)
    /\ JanitorOK

\* Initially nothing is committed and nobody is at work.
LEMMA HistoryInitially == Init => HistoryInvariant
<1> SUFFICES ASSUME Init PROVE HistoryInvariant
  OBVIOUS
<1>1. TypeOK
  BY DEF Init, TypeOK, Records, Procs, Handlers
<1>2. committed \subseteq 1..count /\ EntryOK /\ Recorded /\ JanitorOK
  BY DEF Init, EntryOK, Recorded, JanitorOK, UpTo, Procs
<1>3. \A t \in Handlers : HandlerOK(t)
  BY DEF Init, HandlerOK, Handlers, Procs
<1> QED BY <1>1, <1>2, <1>3 DEF HistoryInvariant

\* Nobody is a goroutine and Null, or a goroutine and the janitor.
LEMMA Goroutines ==
    /\ Null \notin Handlers /\ Janitor \notin Handlers
    /\ Handlers \subseteq Procs /\ Janitor \in Procs
    /\ Null # Waiting /\ Waiting \notin Ops
    /\ Null \notin Nat /\ Null \notin Ops /\ Null \notin Entries
<1>1. Waiting \notin Ops
  <2> SUFFICES ASSUME Waiting \in Ops PROVE FALSE
    OBVIOUS
  <2> QED BY DEF Waiting, Ops
<1> QED BY <1>1 DEF Handlers, Procs

\* Under the lock, or when it is free, nobody else is at work.
LEMMA OthersRest ==
    ASSUME HistoryInvariant, NEW t, lock \in {Null, t}, NEW u \in Handlers \ {t}
    PROVE  op[u] \in {Null, Waiting}
BY Goroutines DEF HistoryInvariant, HandlerOK

\* Who does not move stays as it is, while nothing is committed and the record
\* falls back only if it is overtaken.
LEMMA HandlerStays ==
    ASSUME HistoryInvariant, TypeOK', NEW t \in Handlers, op'[t] = op[t],
           UNCHANGED <<lock, count, committed>>, overtaken => overtaken',
           ~overtaken' => record'.last >= record.last, room' \in {room, Null}
    PROVE  HandlerOK(t)'
<1>1. HandlerOK(t)
  BY DEF HistoryInvariant
<1>2. record.last \in Nat /\ record'.last \in Nat /\ count \in Nat
  BY DEF HistoryInvariant, TypeOK, Records
<1> QED BY <1>1, <1>2 DEF HandlerOK, MessageOK

LEMMA JanitorStays ==
    ASSUME HistoryInvariant, op'[Janitor] = op[Janitor], UNCHANGED committed,
           overtaken => overtaken'
    PROVE  JanitorOK'
BY DEF HistoryInvariant, JanitorOK

LEMMA EntryStays ==
    ASSUME HistoryInvariant, entry' \in {entry, Null}, UNCHANGED committed,
           overtaken => overtaken'
    PROVE  EntryOK'
BY DEF HistoryInvariant, EntryOK

\* Who is at a step of its own is at work.
LEMMA AtWork ==
    ASSUME TypeOK, NEW t \in Procs, op[t] # Null,
           op[t].step \in {"runtime", "record", "read", "state"}
    PROVE  op[t] \in Ops /\ op[t] # Waiting
BY DEF TypeOK, Waiting

-----------------------------------------------------------------------------
(* One lemma for each kind of step.                                        *)

\* What happens to a channel is not seen in the stores.
LEMMA ChannelStep ==
    ASSUME HistoryInvariant, NEW c \in Channels,
           CreateDataChannel(c) \/ OpenChannel(c) \/ CloseChannel(c)
    PROVE  HistoryInvariant'
<1>1. /\ UNCHANGED <<lock, room, record, entry, op, count, committed, overtaken, faults>>
      /\ channel' \in [Channels -> {"none", "connecting", "open", "closed"}]
  BY DEF CreateDataChannel, OpenChannel, CloseChannel, HistoryInvariant, TypeOK
<1>2. TypeOK'
  BY <1>1 DEF HistoryInvariant, TypeOK
<1>3. \A t \in Handlers : HandlerOK(t)'
  BY <1>1 DEF HistoryInvariant, HandlerOK, MessageOK
<1> QED BY <1>1, <1>2, <1>3, JanitorStays, EntryStays DEF HistoryInvariant, Recorded

\* A reader asks for the lock.
LEMMA OnMessageStep ==
    ASSUME HistoryInvariant, NEW c \in Channels, OnMessage(c)
    PROVE  HistoryInvariant'
<1> USE DEF OnMessage
<1>1. TypeOK'
  BY Goroutines DEF HistoryInvariant, TypeOK, Handlers
<1>2. ASSUME NEW t \in Handlers PROVE HandlerOK(t)'
  BY Goroutines DEF HistoryInvariant, TypeOK, HandlerOK, MessageOK, Handlers
<1>3. op'[Janitor] = op[Janitor]
  BY Goroutines DEF HistoryInvariant, TypeOK, Handlers
<1> QED BY <1>1, <1>2, <1>3, JanitorStays, EntryStays DEF HistoryInvariant, Recorded

\* A message takes the lock and the next number.
LEMMA HandleStep ==
    ASSUME HistoryInvariant, NEW c \in Channels, HandleDataChannelMessage(c)
    PROVE  HistoryInvariant'
<1> USE DEF HandleDataChannelMessage
<1>1. c \in Handlers /\ op[c] = Waiting /\ lock = Null
  BY DEF Handlers, Lock
<1>2. CASE op' = [op EXCEPT ![c] = Null] /\ UNCHANGED <<lock, count>>
  <2>1. TypeOK'
    BY <1>2, Goroutines DEF HistoryInvariant, TypeOK
  <2>2. op'[c] = Null /\ \A t \in Procs \ {c} : op'[t] = op[t]
    BY <1>1, <1>2, Goroutines DEF HistoryInvariant, TypeOK
  <2>3. ASSUME NEW t \in Handlers PROVE HandlerOK(t)'
    <3>1. op'[t] \in {Null, Waiting}
      BY <1>1, <2>2, OthersRest, Goroutines
    <3> QED BY <3>1 DEF HandlerOK
  <2>4. op'[Janitor] = op[Janitor]
    BY <1>1, <2>2, Goroutines
  <2> QED BY <1>2, <2>1, <2>3, <2>4, JanitorStays, EntryStays
          DEF HistoryInvariant, Recorded
<1>3. CASE lock' = c /\ count' = count + 1 /\ Begin(c, "message", "active", count')
  <2> DEFINE o == [kind |-> "message", step |-> "runtime", status |-> "active",
                   last |-> count', seen |-> <<>>]
  <2>1. count \in Nat /\ count' \in Events /\ count' \in Nat
    BY <1>3 DEF HistoryInvariant, TypeOK, Events
  <2>2. o \in Ops
    BY <2>1 DEF Ops, Kinds
  <2>3. op' = [op EXCEPT ![c] = o]
    BY <1>3 DEF Begin
  <2>4. TypeOK'
    BY <1>1, <1>3, <2>1, <2>2, <2>3 DEF HistoryInvariant, TypeOK
  <2>5. op'[c] = o /\ \A t \in Procs \ {c} : op'[t] = op[t]
    BY <1>1, <2>3, Goroutines DEF HistoryInvariant, TypeOK
  <2>6. committed' \subseteq 1..count' /\ count' \notin committed' /\ UpTo(committed, count')
    BY <1>3, <2>1 DEF HistoryInvariant, UpTo
  <2>7. HandlerOK(c)'
    BY <1>3, <2>1, <2>5, <2>6, EmptyHistory DEF HandlerOK, MessageOK
  <2>8. ASSUME NEW t \in Handlers \ {c} PROVE HandlerOK(t)'
    <3>1. op'[t] \in {Null, Waiting}
      BY <1>1, <2>5, OthersRest, Goroutines
    <3> QED BY <3>1 DEF HandlerOK
  <2>9. op'[Janitor] = op[Janitor]
    BY <1>1, <2>5, Goroutines
  <2> QED BY <1>3, <2>4, <2>6, <2>7, <2>8, <2>9, JanitorStays, EntryStays
          DEF HistoryInvariant, Recorded
<1> QED BY <1>2, <1>3 DEF Lock

\* A handler takes the lock and reads the last event from the room, or from the
\* record: with the lock free, it is the newest that is committed.
LEMMA ReceiveStep ==
    ASSUME HistoryInvariant, NEW t \in Threads, Receive(t)
    PROVE  HistoryInvariant'
<1>1. PICK kind \in {"join", "change", "fail", "end"},
           status \in {"active"} \cup Terminal, last \in {LastKnown} :
        Begin(t, kind, status, last)
  BY DEF Receive, LastKnown, Terminal
<1>2. /\ t \in Handlers /\ lock = Null /\ lock' = t /\ op[t] = Null
      /\ UNCHANGED <<channel, room, record, entry, count, committed, overtaken, faults>>
  BY DEF Receive, Lock, Handlers
<1>3. last \in Nat
  BY <1>1 DEF LastKnown, HistoryInvariant, TypeOK, Records
<1>4. ~overtaken => UpTo(committed, last)
  BY <1>1 DEF LastKnown, HistoryInvariant, Recorded
<1> DEFINE o == [kind |-> kind, step |-> "runtime", status |-> status,
                 last |-> last, seen |-> <<>>]
<1>5. o \in Ops
  BY <1>3 DEF Ops, Kinds
<1>6. TypeOK'
  BY <1>1, <1>2, <1>5 DEF HistoryInvariant, TypeOK, Begin
<1>7. op'[t] = o /\ \A u \in Procs \ {t} : op'[u] = op[u]
  BY <1>1, <1>2, Goroutines DEF HistoryInvariant, TypeOK, Begin
<1>8. HandlerOK(t)'
  BY <1>1, <1>2, <1>4, <1>7, EmptyHistory DEF HandlerOK, MessageOK
<1>9. ASSUME NEW u \in Handlers \ {t} PROVE HandlerOK(u)'
  <2>1. op'[u] \in {Null, Waiting}
    BY <1>2, <1>7, OthersRest, Goroutines
  <2> QED BY <2>1 DEF HandlerOK
<1>10. op'[Janitor] = op[Janitor]
  BY <1>2, <1>7, Goroutines
<1> QED BY <1>2, <1>6, <1>8, <1>9, <1>10, JanitorStays, EntryStays
        DEF HistoryInvariant, Recorded

\* The janitor takes a snapshot of the room.
LEMMA SweepStep ==
    ASSUME HistoryInvariant, Sweep
    PROVE  HistoryInvariant'
<1> DEFINE o == [kind |-> "end", step |-> "runtime", status |-> "closed",
                 last |-> room, seen |-> <<>>]
<1>1. o \in Ops /\ op' = [op EXCEPT ![Janitor] = o]
  BY DEF Sweep, Begin, Ops, Kinds, Terminal, HistoryInvariant, TypeOK
<1>2. UNCHANGED <<channel, lock, room, record, entry, count, committed, overtaken, faults>>
  BY DEF Sweep
<1>3. TypeOK'
  BY <1>1, <1>2 DEF HistoryInvariant, TypeOK
<1>4. op'[Janitor] = o /\ \A u \in Handlers : op'[u] = op[u]
  BY <1>1, Goroutines DEF HistoryInvariant, TypeOK
<1>5. JanitorOK'
  BY <1>1, <1>4, Goroutines, EmptyHistory DEF JanitorOK
<1>6. \A u \in Handlers : HandlerOK(u)'
  BY <1>2, <1>3, <1>4, HandlerStays DEF HistoryInvariant, TypeOK, Records
<1> QED BY <1>2, <1>3, <1>5, <1>6, EntryStays DEF HistoryInvariant, Recorded

\* The live state is gone.
LEMMA ExpireStep ==
    ASSUME HistoryInvariant, Expire
    PROVE  HistoryInvariant'
<1> USE DEF Expire
<1>1. TypeOK'
  BY DEF HistoryInvariant, TypeOK
<1>2. \A u \in Handlers : HandlerOK(u)'
  BY <1>1, HandlerStays DEF HistoryInvariant, TypeOK, Records
<1> QED BY <1>1, <1>2, EntryStays, JanitorStays DEF HistoryInvariant, Recorded

\* Nobody is at work after a crash.
LEMMA CrashStep ==
    ASSUME HistoryInvariant, Crash
    PROVE  HistoryInvariant'
<1> USE DEF Crash
<1>1. TypeOK'
  BY DEF HistoryInvariant, TypeOK
<1>2. (\A u \in Handlers : HandlerOK(u)') /\ JanitorOK'
  BY Goroutines DEF HandlerOK, JanitorOK
<1> QED BY <1>1, <1>2, EntryStays DEF HistoryInvariant, Recorded

\* The room is written: a handler knows the newest event, the janitor deletes.
LEMMA WriteRuntimeStep ==
    ASSUME HistoryInvariant, NEW t \in Procs, WriteRuntime(t)
    PROVE  HistoryInvariant'
<1> DEFINE o == [op[t] EXCEPT !.step = "record"]
<1>1. /\ op' = [op EXCEPT ![t] = o]
      /\ room' = IF Closing(t) THEN Null ELSE op[t].last
      /\ UNCHANGED <<channel, lock, record, entry, count, committed, overtaken, faults>>
  BY DEF WriteRuntime, Goto
<1>2. op[t] \in Ops /\ op[t] # Null /\ op[t] # Waiting
  BY AtWork DEF WriteRuntime, HistoryInvariant
<1>3. /\ o \in Ops /\ o.step = "record" /\ o.kind = op[t].kind
      /\ o.status = op[t].status /\ o.last = op[t].last /\ o.seen = op[t].seen
  BY <1>2 DEF Ops
<1>4. op'[t] = o /\ \A u \in Procs \ {t} : op'[u] = op[u]
  BY <1>1 DEF HistoryInvariant, TypeOK
<1>5. op[t].last \in Nat
  BY <1>2 DEF Ops
<1> HIDE DEF o
<1>6. TypeOK'
  BY <1>1, <1>3, <1>5 DEF HistoryInvariant, TypeOK
<1>7. CASE t \in Handlers
  <2>1. HandlerOK(t) /\ lock = t
    BY <1>2, <1>7 DEF HistoryInvariant, HandlerOK
  <2>2. Recorded'
    BY <1>1, <1>2, <2>1 DEF HistoryInvariant, Recorded, HandlerOK
  <2>3. HandlerOK(t)'
    BY <1>1, <1>2, <1>3, <1>4, <2>1
    DEF HandlerOK, MessageOK, Closing, HistoryInvariant, TypeOK
  <2>4. ASSUME NEW u \in Handlers \ {t} PROVE HandlerOK(u)'
    <3>1. op'[u] \in {Null, Waiting}
      BY <1>4, <2>1, OthersRest, Goroutines
    <3> QED BY <3>1 DEF HandlerOK
  <2>5. op'[Janitor] = op[Janitor]
    BY <1>4, <1>7, Goroutines
  <2> QED BY <1>1, <1>6, <2>2, <2>3, <2>4, <2>5, JanitorStays, EntryStays
          DEF HistoryInvariant
<1>8. CASE t = Janitor
  <2>1. op[t].status = "closed" /\ room' = Null
    BY <1>1, <1>2, <1>8 DEF HistoryInvariant, JanitorOK, Closing, Terminal
  <2>2. JanitorOK'
    BY <1>1, <1>2, <1>3, <1>4, <1>8, Goroutines DEF HistoryInvariant, JanitorOK
  <2>3. \A u \in Handlers : HandlerOK(u)'
    BY <1>1, <1>4, <1>6, <1>8, <2>1, Goroutines, HandlerStays
    DEF HistoryInvariant, TypeOK, Records
  <2> QED BY <1>1, <1>6, <2>1, <2>2, <2>3, EntryStays DEF HistoryInvariant, Recorded
<1> QED BY <1>7, <1>8 DEF Procs

\* An error ends the handler, unless a join is to fail its room or a room is
\* closed anyhow.
LEMMA ErrorProceeds ==
    ASSUME TypeOK, NEW t \in Procs, op[t] \in Ops, OnError(t)
    PROVE  \/ Closing(t) /\ Goto(t, "read")
           \/ ~Closing(t) /\ op[t].kind = "join" /\ UNCHANGED lock
              /\ Begin(t, "join", "failed", op[t].last)
           \/ ~Closing(t) /\ Return(t)
BY DEF OnError

\* The record is written: by a handler, which knows the newest event; by the
\* janitor, which overtakes if it does not.
LEMMA SaveRecordWrites ==
    ASSUME HistoryInvariant, NEW t \in Procs, SaveRecord(t)
    PROVE  /\ record' \in {record, [status |-> op[t].status, last |-> op[t].last]}
           /\ record' \in Records
           /\ overtaken' \in BOOLEAN
           /\ overtaken => overtaken'
           /\ t # Janitor => overtaken' = overtaken
           /\ ~overtaken' /\ t = Janitor => record'.last >= record.last
           /\ ~overtaken' => UpTo(committed, record'.last)
<1>1. op[t] \in Ops /\ op[t] # Null /\ op[t] # Waiting
  BY AtWork DEF SaveRecord, HistoryInvariant
<1>2. op[t].last \in Nat /\ op[t].status \in {"active"} \cup Terminal
  BY <1>1 DEF Ops
<1> DEFINE new == [status |-> op[t].status, last |-> op[t].last]
<1>3. new \in Records /\ new.last = op[t].last
  BY <1>2 DEF Records
<1>4. record \in Records /\ record.last \in Nat /\ overtaken \in BOOLEAN
  BY DEF HistoryInvariant, TypeOK, Records
<1> HIDE DEF new
<1>5. \/ record' = new /\ overtaken' = (overtaken \/ (t = Janitor /\ op[t].last < record.last))
      \/ UNCHANGED <<record, overtaken>>
  BY DEF SaveRecord, new
<1>6. committed \subseteq Events
  BY DEF HistoryInvariant, TypeOK
<1>7. ~overtaken => UpTo(committed, record.last)
  BY DEF HistoryInvariant, Recorded
<1>8. ~overtaken /\ t # Janitor => UpTo(committed, op[t].last)
  BY <1>1 DEF HistoryInvariant, HandlerOK, Procs
<1>9. ASSUME ~overtaken', record' = new, t = Janitor, ~(op[t].last < record.last),
             ~overtaken
      PROVE  UpTo(committed, record'.last) /\ record'.last >= record.last
  BY <1>2, <1>3, <1>4, <1>6, <1>7, <1>9 DEF UpTo, Events
<1>10. CASE record' = new /\ overtaken' = (overtaken \/ (t = Janitor /\ op[t].last < record.last))
  <2>1. CASE t = Janitor
    BY <1>3, <1>4, <1>9, <1>10, <2>1 DEF new
  <2>2. CASE t # Janitor
    BY <1>3, <1>4, <1>8, <1>10, <2>2 DEF new
  <2> QED BY <2>1, <2>2
<1>11. CASE UNCHANGED <<record, overtaken>>
  BY <1>4, <1>7, <1>11
<1> QED BY <1>5, <1>10, <1>11

LEMMA SaveRecordStep ==
    ASSUME HistoryInvariant, NEW t \in Procs, SaveRecord(t)
    PROVE  HistoryInvariant'
<1>1. op[t] \in Ops /\ op[t] # Null /\ op[t] # Waiting
  BY AtWork DEF SaveRecord, HistoryInvariant
<1>2. op[t].last \in Nat /\ op[t].status \in {"active"} \cup Terminal /\ TypeOK
  BY <1>1 DEF Ops, HistoryInvariant
<1>3. /\ UNCHANGED <<channel, room, entry, count, committed>>
      /\ faults' \in Nat
  BY <1>2 DEF SaveRecord, CallFails, TypeOK
<1>4. /\ record' \in Records
      /\ overtaken' \in BOOLEAN
      /\ overtaken => overtaken'
      /\ t # Janitor => overtaken' = overtaken
      /\ ~overtaken' /\ t = Janitor => record'.last >= record.last
      /\ ~overtaken' => UpTo(committed, record'.last)
  BY SaveRecordWrites
<1>5. Recorded'
  BY <1>3, <1>4 DEF HistoryInvariant, Recorded
<1> DEFINE onward == [op[t] EXCEPT !.step = "read"]
           again == [kind |-> "join", step |-> "runtime", status |-> "failed",
                     last |-> op[t].last, seen |-> <<>>]
<1>6. PICK o \in {Null, onward, again} :
        /\ op' = [op EXCEPT ![t] = o]
        /\ o = Null => lock' = IF t = Janitor THEN lock ELSE Null
        /\ o # Null => UNCHANGED lock
        /\ o = onward => Closing(t) \/ record'.last = op[t].last
        /\ Closing(t) => o = onward
  <2>1. /\ onward \in Ops /\ again \in Ops /\ onward.step = "read" /\ again.step = "runtime"
    BY <1>1, <1>2 DEF Ops, Kinds, Terminal
  <2>2. onward # Null /\ again # Null /\ onward # again
    BY <2>1, Goroutines
  <2>3. /\ Goto(t, "read") => op' = [op EXCEPT ![t] = onward] /\ UNCHANGED lock
        /\ Begin(t, "join", "failed", op[t].last) => op' = [op EXCEPT ![t] = again]
        /\ Return(t) => /\ op' = [op EXCEPT ![t] = Null]
                        /\ lock' = IF t = Janitor THEN lock ELSE Null
    BY DEF Goto, Begin, Return
  <2>4. \/ Goto(t, "read") /\ (Closing(t) \/ record'.last = op[t].last)
        \/ ~Closing(t) /\ UNCHANGED lock /\ Begin(t, "join", "failed", op[t].last)
        \/ ~Closing(t) /\ Return(t)
    <3>1. CASE Goto(t, "read") /\ record' = [status |-> op[t].status, last |-> op[t].last]
      BY <3>1
    <3>2. CASE OnError(t)
      BY <1>1, <1>2, <3>2, ErrorProceeds
    <3> QED BY <3>1, <3>2 DEF SaveRecord, OnRecordError
  <2> HIDE DEF onward, again
  <2>5. CASE Goto(t, "read") /\ (Closing(t) \/ record'.last = op[t].last)
    BY <2>2, <2>3, <2>5
  <2>6. CASE ~Closing(t) /\ UNCHANGED lock /\ Begin(t, "join", "failed", op[t].last)
    BY <2>2, <2>3, <2>6
  <2>7. CASE ~Closing(t) /\ Return(t)
    BY <2>2, <2>3, <2>7
  <2> QED BY <2>4, <2>5, <2>6, <2>7
<1>7. op'[t] = o /\ \A u \in Procs \ {t} : op'[u] = op[u]
  BY <1>2, <1>6 DEF TypeOK
<1>8. /\ onward \in Ops /\ onward.step = "read" /\ onward.kind = op[t].kind
      /\ onward.status = op[t].status /\ onward.last = op[t].last
      /\ onward.seen = op[t].seen
      /\ again \in Ops /\ again.kind = "join" /\ again.last = op[t].last
      /\ again.seen = <<>>
  BY <1>1, <1>2 DEF Ops, Kinds, Terminal
<1> HIDE DEF onward, again
<1>9. TypeOK'
  <2>1. lock' \in Handlers \cup {Null}
    BY <1>2, <1>6 DEF TypeOK
  <2>2. op' \in [Procs -> Ops \cup {Null, Waiting}]
    BY <1>2, <1>6, <1>8 DEF TypeOK
  <2> QED BY <1>2, <1>3, <1>4, <2>1, <2>2 DEF TypeOK
<1>10. CASE t \in Handlers
  <2>1. HandlerOK(t) /\ lock = t /\ t # Janitor
    BY <1>1, <1>10, Goroutines DEF HistoryInvariant, HandlerOK
  <2>2. HandlerOK(t)'
    <3>1. CASE o = Null
      BY <1>7, <3>1 DEF HandlerOK
    <3>2. CASE o = again
      BY <1>1, <1>3, <1>4, <1>6, <1>7, <1>8, <2>1, <3>2, Goroutines, EmptyHistory
      DEF HandlerOK, MessageOK
    <3>3. CASE o = onward
      <4>1. onward # Null /\ lock' = t
        BY <1>6, <1>8, <2>1, <3>3, Goroutines
      <4>2. MessageOK(t)'
        <5> SUFFICES ASSUME op[t].kind = "message" PROVE MessageOK(t)'
          BY <1>7, <1>8, <3>3 DEF MessageOK
        <5>1. ~Closing(t) /\ record'.last = count /\ op[t].step # "runtime" /\ count \in Nat
          BY <1>1, <1>2, <1>6, <2>1, <3>3
          DEF HandlerOK, MessageOK, Closing, Terminal, SaveRecord, TypeOK
        <5> QED BY <1>1, <1>3, <1>4, <1>7, <1>8, <2>1, <3>3, <5>1 DEF HandlerOK, MessageOK
      <4> QED BY <1>1, <1>3, <1>4, <1>7, <1>8, <2>1, <3>3, <4>1, <4>2 DEF HandlerOK
    <3> QED BY <3>1, <3>2, <3>3
  <2>3. ASSUME NEW u \in Handlers \ {t} PROVE HandlerOK(u)'
    <3>1. op'[u] \in {Null, Waiting}
      BY <1>7, <2>1, OthersRest, Goroutines
    <3> QED BY <3>1 DEF HandlerOK
  <2>4. op'[Janitor] = op[Janitor]
    BY <1>7, <2>1, Goroutines
  <2> QED BY <1>3, <1>4, <1>5, <1>9, <2>2, <2>3, <2>4, JanitorStays, EntryStays
          DEF HistoryInvariant
<1>11. CASE t = Janitor
  <2>1. o = onward
    BY <1>1, <1>6, <1>11 DEF HistoryInvariant, JanitorOK, Closing, Terminal
  <2>2. UNCHANGED lock
    BY <1>6, <1>8, <2>1, Goroutines
  <2>3. JanitorOK'
    BY <1>1, <1>3, <1>4, <1>7, <1>8, <1>11, <2>1, Goroutines DEF HistoryInvariant, JanitorOK
  <2>4. \A u \in Handlers : HandlerOK(u)'
    BY <1>3, <1>4, <1>7, <1>9, <1>11, <2>2, Goroutines, HandlerStays
  <2> QED BY <1>3, <1>4, <1>5, <1>9, <2>3, <2>4, EntryStays DEF HistoryInvariant
<1> QED BY <1>10, <1>11 DEF Procs

\* What is read is ordered, and whole if the live state is.
LEMMA ReadStateStep ==
    ASSUME HistoryInvariant, NEW t \in Procs, ReadState(t)
    PROVE  HistoryInvariant'
<1>1. op[t] \in Ops /\ op[t] # Null /\ op[t] # Waiting /\ op[t].step = "read" /\ TypeOK
  BY AtWork DEF ReadState, HistoryInvariant
<1>2. /\ UNCHANGED <<channel, lock, room, record, entry, count, committed, overtaken>>
      /\ faults' \in Nat
  BY <1>1 DEF ReadState, CallFails, TypeOK
<1>3. PICK seen \in {<<>>, IF entry = Null THEN <<>> ELSE entry.history} :
        op' = [op EXCEPT ![t].step = "state", ![t].seen = seen]
  BY DEF ReadState
<1> DEFINE o == [op[t] EXCEPT !.step = "state", !.seen = seen]
<1>4. seen \in Seq(Events)
  <2>1. entry # Null => entry.history \in Seq(Events)
    BY <1>1 DEF TypeOK, Entries
  <2>2. <<>> \in Seq(Events)
    OBVIOUS
  <2> QED BY <2>1, <2>2
<1>5. Ordered(seen, committed) /\ (~overtaken => Gapless(seen, committed))
  BY EmptyHistory DEF HistoryInvariant, EntryOK
<1>6. /\ o \in Ops /\ o.step = "state" /\ o.kind = op[t].kind
      /\ o.status = op[t].status /\ o.last = op[t].last /\ o.seen = seen
  BY <1>1, <1>4 DEF Ops
<1>7. op' = [op EXCEPT ![t] = o]
  BY <1>1, <1>3 DEF TypeOK
<1> HIDE DEF o
<1>8. op'[t] = o /\ \A u \in Procs \ {t} : op'[u] = op[u]
  BY <1>1, <1>7 DEF TypeOK
<1>9. TypeOK'
  BY <1>1, <1>2, <1>6, <1>7 DEF TypeOK
<1>10. CASE t \in Handlers
  <2>1. HandlerOK(t) /\ lock = t /\ t # Janitor
    BY <1>1, <1>10, Goroutines DEF HistoryInvariant, HandlerOK
  <2>2. HandlerOK(t)'
    BY <1>1, <1>2, <1>5, <1>6, <1>8, <2>1 DEF HandlerOK, MessageOK
  <2>3. ASSUME NEW u \in Handlers \ {t} PROVE HandlerOK(u)'
    <3>1. op'[u] \in {Null, Waiting}
      BY <1>8, <2>1, OthersRest, Goroutines
    <3> QED BY <3>1 DEF HandlerOK
  <2>4. op'[Janitor] = op[Janitor]
    BY <1>8, <2>1, Goroutines
  <2> QED BY <1>2, <1>9, <2>2, <2>3, <2>4, JanitorStays, EntryStays
          DEF HistoryInvariant, Recorded
<1>11. CASE t = Janitor
  <2>1. ~overtaken => GaplessInside(seen, committed)
    BY <1>5 DEF Gapless, GaplessInside
  <2>2. JanitorOK'
    BY <1>1, <1>2, <1>5, <1>6, <1>8, <1>11, <2>1, Goroutines DEF HistoryInvariant, JanitorOK
  <2>3. \A u \in Handlers : HandlerOK(u)'
    BY <1>1, <1>2, <1>8, <1>9, <1>11, Goroutines, HandlerStays DEF TypeOK, Records
  <2> QED BY <1>2, <1>9, <2>2, <2>3, EntryStays DEF HistoryInvariant, Recorded
<1> QED BY <1>10, <1>11 DEF Procs

\* The live state a handler without a message writes is the one it has read;
\* so is the janitor's, unless it overtakes.
LEMMA ProjectionIsWhole ==
    ASSUME HistoryInvariant, NEW t \in Procs, op[t] \in Ops, op[t].kind # "message"
    PROVE  /\ Project(op[t]) \in Entries
           /\ Ordered(Project(op[t]).history, committed)
           /\ ~overtaken /\ (t = Janitor => ~Outdated(op[t])) =>
                /\ Gapless(Project(op[t]).history, committed)
                /\ UpTo(committed, Project(op[t]).last)
<1>1. Project(op[t]) = [status |-> op[t].status, last |-> op[t].last, history |-> op[t].seen]
  BY DEF Project
<1>2. /\ op[t].status \in {"active"} \cup Terminal /\ op[t].last \in Nat
      /\ op[t].seen \in Seq(Events) /\ op[t] \notin {Null, Waiting}
  BY Goroutines DEF Ops
<1>3. committed \in SUBSET Events
  BY DEF HistoryInvariant, TypeOK
<1>4. CASE t # Janitor
  <2>1. HandlerOK(t)
    BY <1>4 DEF HistoryInvariant, Procs
  <2> QED BY <1>1, <1>2, <1>4, <2>1 DEF HandlerOK, Entries
<1>5. CASE t = Janitor
  <2>1. /\ Ordered(op[t].seen, committed)
        /\ ~overtaken => GaplessInside(op[t].seen, committed)
    BY <1>2, <1>5 DEF HistoryInvariant, JanitorOK
  <2>2. ASSUME ~overtaken, ~Outdated(op[t])
        PROVE  /\ Gapless(op[t].seen, committed) /\ UpTo(committed, op[t].last)
    <3>1. op[t].seen # <<>> => op[t].seen[Len(op[t].seen)] \in Events
      BY <1>2
    <3>2. /\ UpTo(committed, op[t].last)
          /\ op[t].seen # <<>> => UpTo(committed, op[t].seen[Len(op[t].seen)])
      BY <1>2, <1>3, <2>2, <3>1 DEF Outdated, UpTo, Events
    <3> QED BY <1>2, <1>3, <2>1, <2>2, <3>2, NothingNewerLeavesNoGap
  <2> QED BY <1>1, <1>2, <1>5, <2>1, <2>2 DEF Entries
<1> QED BY <1>4, <1>5

\* A write of the live state ends the handler, but that of a join which failed.
LEMMA SaveStateProceeds ==
    ASSUME HistoryInvariant, NEW t \in Procs, SaveState(t)
    PROVE  \/ Return(t)
           \/ op[t].kind = "join" /\ UNCHANGED lock /\ Begin(t, "join", "failed", op[t].last)
<1>1. op[t] \in Ops /\ TypeOK
  BY AtWork DEF SaveState, HistoryInvariant
<1> QED BY <1>1, ErrorProceeds DEF SaveState

\* A message is committed: it is newer than whatever was read before.
LEMMA CommitStep ==
    ASSUME HistoryInvariant, NEW t \in Procs, SaveState(t), op[t].kind = "message",
           entry' = Project(op[t]), committed' = committed \cup {op[t].last}
    PROVE  HistoryInvariant'
<1>1. op[t] \in Ops /\ op[t] # Null /\ op[t] # Waiting /\ op[t].step = "state" /\ TypeOK
  BY AtWork DEF SaveState, HistoryInvariant
<1>2. t # Janitor /\ t \in Handlers
  BY <1>1 DEF HistoryInvariant, JanitorOK, Procs
<1>3. HandlerOK(t) /\ lock = t /\ MessageOK(t)
  BY <1>1, <1>2 DEF HistoryInvariant, HandlerOK
<1>4. /\ op[t].last = count /\ count \in Events \ committed /\ count \in Nat
      /\ op[t].status = "active" /\ op[t].seen \in Seq(Events)
      /\ Ordered(op[t].seen, committed)
  BY <1>1, <1>3 DEF MessageOK, HandlerOK, Ops, TypeOK
<1>5. /\ UNCHANGED <<channel, room, record, count>> /\ faults' \in Nat
      /\ overtaken' = overtaken
      /\ op' = [op EXCEPT ![t] = Null] /\ lock' = Null
  <2>1. Return(t)
    BY <1>1, SaveStateProceeds
  <2>2. overtaken' = overtaken
    BY <1>1, <1>2 DEF SaveState, TypeOK
  <2>3. UNCHANGED <<channel, room, record, count>> /\ faults' \in Nat
    BY <1>1 DEF SaveState, CallFails, TypeOK
  <2> QED BY <1>2, <2>1, <2>2, <2>3 DEF Return
<1>6. committed \in SUBSET Events /\ UpTo(committed, count) /\ committed' \subseteq 1..count
  <2>1. committed \in SUBSET Events /\ committed \subseteq 1..count
    BY <1>1 DEF HistoryInvariant, TypeOK
  <2> QED BY <1>4, <2>1 DEF UpTo, Events
<1> DEFINE a == AppendRuntimeEvent(op[t].seen, count)
<1>7. /\ a \in Seq(Events) /\ Ordered(a, committed')
      /\ \A i \in 1..Len(a) : a[i] <= count
      /\ Gapless(op[t].seen, committed) => Gapless(a, committed')
  BY <1>4, <1>6, MessageKeepsOrder, MessageLeavesNoGap
<1>8. entry' = [status |-> "active", last |-> count, history |-> a]
  BY <1>4 DEF Project
<1> HIDE DEF a
<1>9. /\ entry' \in Entries /\ entry' # Null
      /\ entry'.history = a /\ entry'.last = count
  BY <1>4, <1>7, <1>8, Goroutines DEF Entries
<1>10. TypeOK'
  BY <1>1, <1>4, <1>5, <1>6, <1>9 DEF TypeOK
<1>11. EntryOK'
  BY <1>1, <1>3, <1>5, <1>7, <1>9 DEF EntryOK, HandlerOK
<1>12. Recorded'
  <2> SUFFICES ASSUME ~overtaken
               PROVE  UpTo(committed', record.last) /\ (room # Null => UpTo(committed', room))
    BY <1>5 DEF Recorded
  <2>1. count <= record.last /\ (room # Null => count <= room)
    BY <1>1, <1>3 DEF MessageOK
  <2>2. UpTo(committed, record.last) /\ (room # Null => UpTo(committed, room))
    BY DEF HistoryInvariant, Recorded
  <2> QED BY <1>4, <2>1, <2>2 DEF UpTo
<1>13. ASSUME NEW u \in Handlers PROVE HandlerOK(u)'
  <2>1. op'[t] = Null /\ \A v \in Procs \ {t} : op'[v] = op[v]
    BY <1>1, <1>5 DEF TypeOK
  <2>2. u # t => op[u] \in {Null, Waiting}
    BY <1>3, OthersRest
  <2>3. op'[u] \in {Null, Waiting}
    BY <2>1, <2>2, Goroutines
  <2> QED BY <2>3 DEF HandlerOK
<1>14. JanitorOK'
  <2>1. op'[Janitor] = op[Janitor]
    BY <1>1, <1>2, <1>5, Goroutines DEF TypeOK
  <2>2. op[Janitor] # Null /\ op[Janitor] # Waiting => op[Janitor].seen \in Seq(Events)
    BY <1>1, Goroutines DEF TypeOK, Ops
  <2> QED BY <1>4, <1>5, <1>6, <2>1, <2>2, NewerEventKeeps DEF HistoryInvariant, JanitorOK
<1> QED BY <1>5, <1>6, <1>10, <1>11, <1>12, <1>13, <1>14 DEF HistoryInvariant

\* Nothing is committed: what was read is written back, or nothing is.
LEMMA WriteBackStep ==
    ASSUME HistoryInvariant, NEW t \in Procs, SaveState(t), UNCHANGED committed,
           entry' = entry \/ op[t].kind # "message"
    PROVE  HistoryInvariant'
<1>1. op[t] \in Ops /\ op[t] # Null /\ op[t] # Waiting /\ TypeOK
  BY AtWork DEF SaveState, HistoryInvariant
<1>2. /\ UNCHANGED <<channel, room, record, count>> /\ faults' \in Nat
  BY <1>1 DEF SaveState, CallFails, TypeOK
<1>3. \/ /\ entry' = Project(op[t])
         /\ overtaken' = (overtaken \/ (t = Janitor /\ Outdated(op[t])))
      \/ UNCHANGED <<entry, overtaken>>
  BY DEF SaveState
<1>4. overtaken' \in BOOLEAN /\ (overtaken => overtaken')
  <2>1. overtaken \in BOOLEAN
    BY <1>1 DEF TypeOK
  <2>2. CASE overtaken' = (overtaken \/ (t = Janitor /\ Outdated(op[t])))
    BY <2>2
  <2>3. CASE overtaken' = overtaken
    BY <2>1, <2>3
  <2> QED BY <1>3, <2>2, <2>3
<1> DEFINE again == [kind |-> "join", step |-> "runtime", status |-> "failed",
                     last |-> op[t].last, seen |-> <<>>]
<1>5. /\ again \in Ops /\ again.kind = "join" /\ again.last = op[t].last
      /\ again.seen = <<>> /\ again # Null
  <2>1. op[t].last \in Nat
    BY <1>1 DEF Ops
  <2>2. again \in Ops
    BY <2>1 DEF Ops, Kinds, Terminal
  <2> QED BY <2>2, Goroutines
<1>6. PICK o \in {Null, again} :
        /\ op' = [op EXCEPT ![t] = o]
        /\ o = Null => lock' = IF t = Janitor THEN lock ELSE Null
        /\ o = again => op[t].kind = "join" /\ UNCHANGED lock
  <2>1. CASE Return(t)
    <3> HIDE DEF again
    <3> QED BY <1>5, <2>1 DEF Return
  <2>2. CASE op[t].kind = "join" /\ UNCHANGED lock /\ Begin(t, "join", "failed", op[t].last)
    <3>1. op' = [op EXCEPT ![t] = again]
      BY <2>2 DEF Begin
    <3> HIDE DEF again
    <3> QED BY <1>5, <2>2, <3>1
  <2> QED BY <2>1, <2>2, SaveStateProceeds
<1> HIDE DEF again
<1>7. op'[t] = o /\ \A u \in Procs \ {t} : op'[u] = op[u]
  BY <1>1, <1>6 DEF TypeOK
<1>8. EntryOK' /\ entry' \in Entries \cup {Null}
  <2>1. CASE entry' = entry
    BY <1>1, <1>2, <1>4, <2>1, EntryStays DEF TypeOK
  <2>2. CASE entry' # entry
    <3>1. /\ entry' = Project(op[t]) /\ op[t].kind # "message"
          /\ overtaken' = (overtaken \/ (t = Janitor /\ Outdated(op[t])))
      BY <1>3, <2>2
    <3>2. /\ entry' \in Entries /\ Ordered(entry'.history, committed)
          /\ ~overtaken' => Gapless(entry'.history, committed) /\ UpTo(committed, entry'.last)
      BY <1>1, <3>1, ProjectionIsWhole
    <3>3. ~overtaken' => \A i \in 1..Len(entry'.history) : entry'.history[i] <= entry'.last
      BY <3>2 DEF Ordered, UpTo
    <3> QED BY <3>2, <3>3 DEF EntryOK
  <2> QED BY <2>1, <2>2
<1>9. TypeOK'
  <2>1. lock' \in Handlers \cup {Null}
    BY <1>1, <1>6 DEF TypeOK
  <2>2. op' \in [Procs -> Ops \cup {Null, Waiting}]
    BY <1>1, <1>5, <1>6 DEF TypeOK
  <2> QED BY <1>1, <1>2, <1>4, <1>8, <2>1, <2>2 DEF TypeOK
<1>10. Recorded'
  BY <1>2, <1>4 DEF HistoryInvariant, Recorded
<1>11. CASE t \in Handlers
  <2>1. HandlerOK(t) /\ lock = t /\ t # Janitor
    BY <1>1, <1>11, Goroutines DEF HistoryInvariant, HandlerOK
  <2>2. HandlerOK(t)'
    <3>1. CASE o = Null
      BY <1>7, <3>1 DEF HandlerOK
    <3>2. CASE o = again
      BY <1>1, <1>2, <1>4, <1>5, <1>6, <1>7, <2>1, <3>2, EmptyHistory DEF HandlerOK, MessageOK
    <3> QED BY <3>1, <3>2
  <2>3. ASSUME NEW u \in Handlers \ {t} PROVE HandlerOK(u)'
    <3>1. op'[u] \in {Null, Waiting}
      BY <1>7, <2>1, OthersRest, Goroutines
    <3> QED BY <3>1 DEF HandlerOK
  <2>4. op'[Janitor] = op[Janitor]
    BY <1>7, <2>1, Goroutines
  <2>5. JanitorOK'
    BY <1>2, <1>4, <2>4, JanitorStays
  <2> QED BY <1>2, <1>4, <1>8, <1>9, <1>10, <2>2, <2>3, <2>5 DEF HistoryInvariant
<1>12. CASE t = Janitor
  <2>1. o = Null /\ UNCHANGED lock
    BY <1>1, <1>6, <1>12 DEF HistoryInvariant, JanitorOK
  <2>2. JanitorOK'
    BY <1>7, <1>12, <2>1 DEF JanitorOK
  <2>3. \A u \in Handlers : HandlerOK(u)'
    BY <1>1, <1>2, <1>4, <1>7, <1>9, <1>12, <2>1, Goroutines, HandlerStays DEF TypeOK, Records
  <2> QED BY <1>2, <1>4, <1>8, <1>9, <1>10, <2>2, <2>3 DEF HistoryInvariant
<1> QED BY <1>11, <1>12 DEF Procs

LEMMA SaveStateStep ==
    ASSUME HistoryInvariant, NEW t \in Procs, SaveState(t)
    PROVE  HistoryInvariant'
<1>1. CASE UNCHANGED <<entry, committed>>
  BY <1>1, WriteBackStep
<1>2. CASE entry' = Project(op[t]) /\ op[t].kind # "message" /\ UNCHANGED committed
  BY <1>2, WriteBackStep
<1>3. CASE entry' = Project(op[t]) /\ op[t].kind = "message"
           /\ committed' = committed \cup {op[t].last}
  BY <1>3, CommitStep
<1>4. \/ UNCHANGED <<entry, committed>>
      \/ entry' = Project(op[t]) /\ op[t].kind # "message" /\ UNCHANGED committed
      \/ entry' = Project(op[t]) /\ op[t].kind = "message"
         /\ committed' = committed \cup {op[t].last}
  BY DEF SaveState
<1> QED BY <1>1, <1>2, <1>3, <1>4

\* The invariant is inductive.
LEMMA HistoryStep == HistoryInvariant /\ [Next]_vars => HistoryInvariant'
<1> SUFFICES ASSUME HistoryInvariant, [Next]_vars PROVE HistoryInvariant'
  OBVIOUS
<1>1. CASE UNCHANGED vars
  BY <1>1 DEF vars, HistoryInvariant, TypeOK, EntryOK, Recorded, HandlerOK, MessageOK,
              JanitorOK
<1>2. ASSUME NEW c \in Channels,
             CreateDataChannel(c) \/ OpenChannel(c) \/ CloseChannel(c)
      PROVE  HistoryInvariant'
  BY <1>2, ChannelStep
<1>3. ASSUME NEW c \in Channels, OnMessage(c) PROVE HistoryInvariant'
  BY <1>3, OnMessageStep
<1>4. ASSUME NEW c \in Channels, HandleDataChannelMessage(c) PROVE HistoryInvariant'
  BY <1>4, HandleStep
<1>5. ASSUME NEW t \in Threads, Receive(t) PROVE HistoryInvariant'
  BY <1>5, ReceiveStep
<1>6. CASE Sweep
  BY <1>6, SweepStep
<1>7. ASSUME NEW t \in Procs, WriteRuntime(t) PROVE HistoryInvariant'
  BY <1>7, WriteRuntimeStep
<1>8. ASSUME NEW t \in Procs, SaveRecord(t) PROVE HistoryInvariant'
  BY <1>8, SaveRecordStep
<1>9. ASSUME NEW t \in Procs, ReadState(t) PROVE HistoryInvariant'
  BY <1>9, ReadStateStep
<1>10. ASSUME NEW t \in Procs, SaveState(t) PROVE HistoryInvariant'
  BY <1>10, SaveStateStep
<1>11. CASE Expire
  BY <1>11, ExpireStep
<1>12. CASE Crash
  BY <1>12, CrashStep
<1> QED BY <1>1, <1>2, <1>3, <1>4, <1>5, <1>6, <1>7, <1>8, <1>9, <1>10, <1>11, <1>12 DEF Next

LEMMA HistoryInvariantHolds == Spec => []HistoryInvariant
<1> QED BY HistoryInitially, HistoryStep, PTL DEF Spec

-----------------------------------------------------------------------------
(* What a client sees.                                                     *)

\* Every variable has its type.
THEOREM TypeCorrect == Spec => []TypeOK
<1>1. HistoryInvariant => TypeOK
  BY DEF HistoryInvariant
<1> QED BY <1>1, HistoryInvariantHolds, PTL

\* However handlers, cleanup, expiry, crashes and errors interleave, the history
\* in the live state is bounded, in the order of handling, and without doubles.
THEOREM OrderedTheorem == Spec => []HistoryIsOrdered
<1>1. HistoryInvariant => HistoryIsOrdered
  BY DEF HistoryInvariant, EntryOK, Ordered, HistoryIsOrdered
<1> QED BY <1>1, HistoryInvariantHolds, PTL

\* As long as no sweep has written back an older history, none of the committed
\* events is missing behind the oldest one shown.
THEOREM NoGapsTheorem == Spec => []HistoryHasNoGaps
<1>1. HistoryInvariant => HistoryHasNoGaps
  BY DEF HistoryInvariant, EntryOK, Gapless, HistoryHasNoGaps
<1> QED BY <1>1, HistoryInvariantHolds, PTL

\* The record and the last event of the live state know the newest event shown:
\* a room that is rebuilt after a crash does not fall behind its own history.
THEOREM RecordedTheorem == Spec => []HistoryIsRecorded
<1>1. HistoryInvariant => HistoryIsRecorded
  <2> SUFFICES ASSUME HistoryInvariant, ~overtaken, entry # Null, entry.history # <<>>
               PROVE  LET newest == entry.history[Len(entry.history)]
                      IN newest <= record.last /\ newest <= entry.last
    BY DEF HistoryIsRecorded
  <2>1. entry.history \in Seq(Events)
    BY DEF HistoryInvariant, TypeOK, Entries
  <2>2. Len(entry.history) \in 1..Len(entry.history)
    BY <2>1
  <2> QED BY <2>2 DEF HistoryInvariant, EntryOK, Ordered, Recorded, UpTo
<1> QED BY <1>1, HistoryInvariantHolds, PTL
=============================================================================
