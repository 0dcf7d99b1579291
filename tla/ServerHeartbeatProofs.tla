------------------------ MODULE ServerHeartbeatProofs ------------------------
(***************************************************************************)
(* Proofs about ServerHeartbeat, for any interval, life of an entry and    *)
(* number of failing reports.                                              *)
(***************************************************************************)
EXTENDS ServerHeartbeat, TLAPS

\* Every variable has its type; while the server is up its goroutine runs,
\* and a report is saved at the moment of its tick.
HeartbeatTypes ==
    /\ phase \in {"down", "dead", "starting", "up", "stopping"}
    /\ loop \in {"none", "waiting", "saving"}
    /\ since \in Nat /\ since <= Interval /\ faults \in Nat /\ listed \in BOOLEAN
    /\ entry \in Entries \cup {Null}
    /\ phase = "up" => loop # "none"
    /\ phase \in {"down", "dead"} => loop = "none"
    /\ phase = "starting" => loop = "none"
    /\ loop = "saving" => since = 0

\* The entry of a server that is up is no older than the intervals whose
\* reports failed and the one it is in.
Elapsed == IF loop = "saving" THEN Interval ELSE since
EntryIsYoung ==
    phase = "up" /\ (faults + 1) * Interval < TTL =>
        /\ listed /\ entry # Null /\ entry.status = "healthy"
        /\ entry.age <= Elapsed + faults * Interval

\* The inductive invariant.
HeartbeatInvariant == HeartbeatTypes /\ EntryIsYoung

\* Whatever is configured, the interval and the life of an entry are positive.
LEMMA HeartbeatNumbers ==
  Interval \in Nat \ {0} /\ TTL \in Nat \ {0} /\ MaxFaults \in Nat
<1>1. Interval \in Nat \ {0} /\ MaxFaults \in Nat
  BY HeartbeatAssumption DEF Interval
<1>2. 3 * Interval \in Nat \ {0}
  BY <1>1
<1> QED
  BY <1>1, <1>2, HeartbeatAssumption DEF TTL

\* One more failure is one more interval.
LEMMA OneMoreInterval ==
  ASSUME NEW k \in Nat
  PROVE  /\ (k + 1) * Interval = k * Interval + Interval
         /\ k * Interval \in Nat /\ k * Interval <= (k + 1) * Interval
  BY HeartbeatNumbers

\* A report, applied or not, leaves a well-typed registry.
LEMMA ReportTypes ==
  ASSUME HeartbeatTypes, NEW status \in {"healthy", "offline"}, NEW list \in BOOLEAN,
         NEW ok \in BOOLEAN, Report(status, list, ok)
  PROVE  /\ entry' \in Entries \cup {Null} /\ listed' \in BOOLEAN /\ faults' \in Nat
         /\ ok => /\ faults' = faults /\ listed' = list /\ entry' # Null
                  /\ entry'.status = status /\ entry'.age = 0
         /\ ~ok => /\ faults' = faults + 1
                   /\ \/ UNCHANGED <<listed, entry>>
                      \/ /\ listed' = list /\ entry' # Null
                         /\ entry'.status = status /\ entry'.age = 0
<1>1. /\ entry \in Entries \cup {Null} /\ listed \in BOOLEAN /\ faults \in Nat
      /\ TTL \in Nat /\ 0 \in 0..TTL
  BY HeartbeatNumbers DEF HeartbeatTypes
<1>2. ASSUME WriteState(status, list)
      PROVE  /\ listed' = list /\ entry' \in Entries /\ entry' # Null
             /\ entry'.status = status /\ entry'.age = 0
  <2>1. entry' = [status |-> status, age |-> 0] /\ listed' = list
    BY <1>2 DEF WriteState
  <2>2. entry' \in Entries
    BY <1>1, <2>1 DEF Entries
  <2> QED
    BY <2>1, <2>2, NullIsNoEntry
<1>3. CASE ok /\ WriteState(status, list) /\ UNCHANGED faults
  BY <1>1, <1>2, <1>3
<1>4. CASE ~ok /\ faults' = faults + 1 /\ WriteState(status, list)
  BY <1>1, <1>2, <1>4
<1>5. CASE ~ok /\ faults' = faults + 1 /\ UNCHANGED <<listed, entry>>
  BY <1>1, <1>5
<1> QED
  BY <1>3, <1>4, <1>5 DEF Report

\* A server that is down satisfies the invariant.
LEMMA HeartbeatInit == Init => HeartbeatInvariant
<1>1. Init => HeartbeatTypes
  <2> SUFFICES ASSUME Init PROVE HeartbeatTypes
    OBVIOUS
  <2>1. listed \in BOOLEAN /\ entry \in Entries \cup {Null}
    BY DEF Init
  <2>2. since \in Nat /\ since <= Interval /\ faults \in Nat
    BY HeartbeatNumbers DEF Init
  <2> QED
    BY <2>1, <2>2 DEF Init, HeartbeatTypes
<1>2. Init => EntryIsYoung
  <2> SUFFICES ASSUME phase # "up" PROVE EntryIsYoung
    BY DEF Init
  <2> QED
    BY DEF EntryIsYoung
<1> QED
  BY <1>1, <1>2 DEF HeartbeatInvariant

\* The report of a tick: a good one makes the entry new, a failed one leaves
\* it at most one interval older than the failures before it explain.
LEMMA SaveReportKeeps == HeartbeatInvariant /\ SaveReport => HeartbeatInvariant'
<1> SUFFICES ASSUME HeartbeatInvariant, SaveReport PROVE HeartbeatInvariant'
  OBVIOUS
<1>1. PICK ok \in BOOLEAN : Report("healthy", TRUE, ok)
  BY DEF SaveReport
<1>2. /\ phase' = phase /\ since' = since /\ since = 0 /\ loop' = "waiting"
      /\ loop = "saving" /\ faults \in Nat /\ HeartbeatTypes
  BY DEF SaveReport, HeartbeatInvariant, HeartbeatTypes
<1>3. HeartbeatTypes'
  BY <1>1, <1>2, ReportTypes DEF HeartbeatTypes
<1>4. ASSUME phase' = "up", (faults' + 1) * Interval < TTL
      PROVE  /\ listed' /\ entry' # Null /\ entry'.status = "healthy"
             /\ entry'.age <= Elapsed' + faults' * Interval
  <2>1. Elapsed' = 0 /\ Elapsed = Interval /\ faults' \in Nat
    BY <1>2, <1>3 DEF Elapsed, HeartbeatTypes
  <2>2. CASE entry' # Null /\ entry'.status = "healthy" /\ entry'.age = 0 /\ listed' = TRUE
    BY <2>1, <2>2, OneMoreInterval
  <2>3. CASE faults' = faults + 1 /\ UNCHANGED <<listed, entry>>
    <3>1. (faults + 1) * Interval < TTL
      BY <1>2, <1>4, <2>3, OneMoreInterval, HeartbeatNumbers
    <3>2. listed /\ entry # Null /\ entry.status = "healthy"
          /\ entry.age <= Interval + faults * Interval
      BY <1>2, <1>4, <2>1, <3>1 DEF HeartbeatInvariant, EntryIsYoung
    <3>3. faults' * Interval = faults * Interval + Interval /\ faults * Interval \in Nat
      BY <1>2, <2>3, OneMoreInterval
    <3> QED
      BY <2>1, <2>3, <3>2, <3>3, HeartbeatNumbers
  <2> QED
    BY <1>1, <1>2, <2>2, <2>3, ReportTypes
<1>5. EntryIsYoung'
  BY <1>4 DEF EntryIsYoung
<1> QED
  BY <1>3, <1>5 DEF HeartbeatInvariant

\* The first report starts a server with a new entry.
LEMMA FirstReportKeeps == HeartbeatInvariant /\ FirstReport => HeartbeatInvariant'
<1> SUFFICES ASSUME HeartbeatInvariant, FirstReport PROVE HeartbeatInvariant'
  OBVIOUS
<1>1. PICK ok \in BOOLEAN : /\ Report("healthy", TRUE, ok)
                            /\ phase' = IF ok THEN "up" ELSE "down"
                            /\ loop' = IF ok THEN "waiting" ELSE "none"
  BY DEF FirstReport
<1>2. HeartbeatTypes /\ since' = 0 /\ faults \in Nat
  BY DEF FirstReport, HeartbeatInvariant, HeartbeatTypes
<1>3. /\ entry' \in Entries \cup {Null} /\ listed' \in BOOLEAN /\ faults' \in Nat
      /\ ok => /\ listed' = TRUE /\ entry' # Null
               /\ entry'.status = "healthy" /\ entry'.age = 0
  BY <1>1, <1>2, ReportTypes
<1>4. HeartbeatTypes'
  BY <1>1, <1>2, <1>3, HeartbeatNumbers DEF HeartbeatTypes
<1>5. EntryIsYoung'
  <2> SUFFICES ASSUME phase' = "up"
               PROVE  /\ listed' /\ entry' # Null /\ entry'.status = "healthy"
                      /\ entry'.age <= Elapsed' + faults' * Interval
    BY DEF EntryIsYoung
  <2>1. ok /\ loop' = "waiting"
    BY <1>1
  <2>2. Elapsed' = 0 /\ faults' * Interval \in Nat
    BY <1>2, <1>3, <2>1, OneMoreInterval DEF Elapsed
  <2> QED
    BY <1>3, <2>1, <2>2
<1> QED
  BY <1>4, <1>5 DEF HeartbeatInvariant

\* Time: the entry grows older with the interval, and cannot reach its TTL.
LEMMA TimeKeeps ==
  ASSUME HeartbeatInvariant, TimePasses \/ TickDue \/ Expire
  PROVE  HeartbeatInvariant'
<1>1. HeartbeatTypes /\ faults \in Nat /\ Interval \in Nat \ {0} /\ TTL \in Nat \ {0}
  BY HeartbeatNumbers DEF HeartbeatInvariant, HeartbeatTypes
<1>2. CASE TimePasses
  <2>1. HeartbeatTypes'
    BY <1>1, <1>2 DEF TimePasses, HeartbeatTypes, Entries
  <2>2. ASSUME phase' = "up", (faults' + 1) * Interval < TTL
        PROVE  /\ listed' /\ entry' # Null /\ entry'.status = "healthy"
               /\ entry'.age <= Elapsed' + faults' * Interval
    <3>1. loop = "waiting" /\ phase = "up" /\ faults' = faults /\ listed' = listed
          /\ since' = since + 1 /\ loop' = loop
      BY <1>1, <1>2, <2>2 DEF TimePasses, HeartbeatTypes
    <3>2. listed /\ entry \in Entries /\ entry.status = "healthy"
          /\ entry.age <= since + faults * Interval
      BY <1>1, <2>2, <3>1 DEF HeartbeatInvariant, EntryIsYoung, Elapsed, HeartbeatTypes
    <3>3. entry' = [entry EXCEPT !.age = entry.age + 1]
      BY <1>2, <3>2, NullIsNoEntry DEF TimePasses
    <3>4. entry'.age = entry.age + 1 /\ entry'.status = "healthy" /\ entry' # Null
      <4>1. entry' \in Entries
        <5>1. entry.age \in 0..TTL /\ entry.age < TTL /\ entry \in Entries
          BY <1>2, <3>2, NullIsNoEntry DEF TimePasses, Entries
        <5>2. entry.age + 1 \in 0..TTL
          BY <1>1, <5>1
        <5> QED
          BY <3>3, <5>1, <5>2 DEF Entries
      <4>2. entry'.age = entry.age + 1 /\ entry'.status = entry.status
        BY <3>2, <3>3 DEF Entries
      <4> QED
        BY <3>2, <4>1, <4>2, NullIsNoEntry
    <3>5. /\ Elapsed' = since + 1 /\ since \in Nat /\ faults * Interval \in Nat
          /\ entry.age \in Nat
      BY <1>1, <3>1, <3>2, OneMoreInterval DEF Elapsed, Entries, HeartbeatTypes
    <3>6. entry'.age <= Elapsed' + faults' * Interval
      <4> DEFINE past == faults * Interval
      <4>1. past \in Nat /\ entry.age <= since + past
        BY <3>2, <3>5
      <4>2. entry.age + 1 <= (since + 1) + past
        BY <3>5, <4>1
      <4> QED
        BY <3>1, <3>4, <3>5, <4>2
    <3> QED
      BY <3>1, <3>2, <3>4, <3>6
  <2> QED
    BY <2>1, <2>2 DEF HeartbeatInvariant, EntryIsYoung
<1>3. CASE TickDue
  BY <1>1, <1>3 DEF TickDue, HeartbeatInvariant, HeartbeatTypes, EntryIsYoung, Elapsed
<1>4. CASE Expire
  <2>1. HeartbeatTypes'
    BY <1>1, <1>4 DEF Expire, HeartbeatTypes
  <2>2. ASSUME phase = "up", (faults + 1) * Interval < TTL PROVE FALSE
    <3>1. entry.age = TTL /\ entry.age <= Elapsed + faults * Interval
      BY <1>4, <2>2 DEF Expire, HeartbeatInvariant, EntryIsYoung
    <3>2. Elapsed \in Nat /\ Elapsed <= Interval
      BY <1>1 DEF Elapsed, HeartbeatTypes
    <3> QED
      BY <1>1, <2>2, <3>1, <3>2, OneMoreInterval
  <2> QED
    BY <1>4, <2>1, <2>2 DEF Expire, HeartbeatInvariant, EntryIsYoung
<1> QED
  BY <1>2, <1>3, <1>4

\* Start, stop and crash leave no server that is up with an older entry.
LEMMA LifecycleKeeps ==
  ASSUME HeartbeatInvariant,
         Start \/ BeginStop \/ LoopExits \/ ReportOffline \/ Crash
  PROVE  HeartbeatInvariant'
<1>1. phase' # "up"
  BY DEF Start, BeginStop, LoopExits, ReportOffline, Crash
<1>2. HeartbeatTypes
  BY DEF HeartbeatInvariant
<1>3. CASE ReportOffline
  <2>1. PICK ok \in BOOLEAN : Report("offline", FALSE, ok)
    BY <1>3 DEF ReportOffline
  <2>2. entry' \in Entries \cup {Null} /\ listed' \in BOOLEAN /\ faults' \in Nat
    BY <1>2, <2>1, ReportTypes
  <2>3. HeartbeatTypes'
    BY <1>2, <1>3, <2>2 DEF ReportOffline, HeartbeatTypes
  <2> QED
    BY <1>1, <2>3 DEF HeartbeatInvariant, EntryIsYoung
<1>4. CASE Start \/ BeginStop \/ LoopExits \/ Crash
  <2>1. HeartbeatTypes'
    BY <1>2, <1>4 DEF Start, BeginStop, LoopExits, Crash, HeartbeatTypes
  <2> QED
    BY <1>1, <2>1 DEF HeartbeatInvariant, EntryIsYoung
<1> QED
  BY <1>3, <1>4

\* The invariant is inductive.
LEMMA HeartbeatInductive == HeartbeatInvariant /\ [Next]_vars => HeartbeatInvariant'
<1> SUFFICES ASSUME HeartbeatInvariant, [Next]_vars PROVE HeartbeatInvariant'
  OBVIOUS
<1>1. CASE UNCHANGED vars
  BY <1>1 DEF vars, HeartbeatInvariant, HeartbeatTypes, EntryIsYoung, Elapsed
<1>2. CASE Next
  BY <1>2, SaveReportKeeps, FirstReportKeeps, TimeKeeps, LifecycleKeeps DEF Next
<1> QED
  BY <1>1, <1>2

\* Whatever the interval, the life of an entry and the failures: a server
\* that is up is in the registry while (failures + 1) * Interval < TTL.
THEOREM UpIsKnownTheorem == Spec => []UpIsKnown
<1>1. HeartbeatInvariant => UpIsKnown
  BY DEF HeartbeatInvariant, EntryIsYoung, UpIsKnown
<1> QED
  BY HeartbeatInit, HeartbeatInductive, <1>1, PTL DEF Spec

\* Only time touches the registry of a server that has ended.
LEMMA HaltedStep ==
  ASSUME HeartbeatTypes, [Next]_vars, Halted
  PROVE  /\ listed' = listed /\ faults' = faults
         /\ entry' # Null => entry # Null /\ entry'.status = entry.status
<1>1. CASE UNCHANGED vars \/ Start
  BY <1>1 DEF vars, Start
<1>2. CASE Expire
  BY <1>2 DEF Expire
<1>3. CASE TimePasses
  <2>1. ASSUME entry # Null PROVE entry'.status = entry.status
    <3>1. entry \in Entries /\ entry' = [entry EXCEPT !.age = entry.age + 1]
      BY <1>3, <2>1 DEF TimePasses, HeartbeatTypes
    <3> QED
      BY <3>1 DEF Entries
  <2> QED
    BY <1>3, <2>1 DEF TimePasses
<1>4. ~(FirstReport \/ TickDue \/ SaveReport \/ BeginStop \/ LoopExits
        \/ ReportOffline \/ Crash)
  BY DEF HeartbeatTypes, Halted, FirstReport, TickDue, SaveReport, BeginStop,
         LoopExits, ReportOffline, Crash
<1> QED
  BY <1>1, <1>2, <1>3, <1>4 DEF Next

\* A process that has ended writes nothing, whatever tick was on its way.
THEOREM DownIsSilentTheorem == Spec => DownIsSilent
<1>1. HeartbeatInvariant /\ [Next]_vars =>
        [Halted => /\ listed' = listed
                   /\ entry' # Null => entry # Null /\ entry'.status = entry.status]_vars
  BY HaltedStep DEF HeartbeatInvariant
<1> QED
  BY HeartbeatInit, HeartbeatInductive, <1>1, PTL DEF Spec, DownIsSilent

\* A server comes down by a failed report or by the report of its end.
LEMMA StopKeeps ==
  ASSUME HeartbeatTypes, StoppedIsUnlisted, [Next]_vars
  PROVE  StoppedIsUnlisted'
<1>1. CASE phase = "down"
  <2>1. phase' = "down" /\ faults' = 0 => faults = 0 /\ Halted
    BY <1>1, HaltedStep DEF Halted
  <2> QED
    BY <1>1, <2>1, HaltedStep DEF StoppedIsUnlisted
<1>2. CASE phase # "down" /\ phase' = "down"
  <2>1. CASE FirstReport
    <3>1. PICK ok \in BOOLEAN : /\ Report("healthy", TRUE, ok)
                                /\ phase' = IF ok THEN "up" ELSE "down"
      BY <2>1 DEF FirstReport
    <3>2. ~ok
      BY <1>2, <3>1
    <3>3. faults' = faults + 1 /\ faults \in Nat
      BY <3>1, <3>2, ReportTypes DEF HeartbeatTypes
    <3> QED
      BY <3>3 DEF StoppedIsUnlisted
  <2>2. CASE ReportOffline
    <3>1. PICK ok \in BOOLEAN : Report("offline", FALSE, ok)
      BY <2>2 DEF ReportOffline
    <3>2. /\ ok => ~listed' /\ entry'.status = "offline"
          /\ ~ok => faults' = faults + 1
      BY <3>1, ReportTypes
    <3> QED
      BY <3>2 DEF StoppedIsUnlisted, HeartbeatTypes
  <2> QED
    BY <1>2, <2>1, <2>2
    DEF Next, vars, Start, TickDue, SaveReport, BeginStop, LoopExits, Crash, Expire,
        TimePasses
<1>3. CASE phase' # "down"
  BY <1>3 DEF StoppedIsUnlisted
<1> QED
  BY <1>1, <1>2, <1>3

\* When no report failed, a server that was stopped is not listed and does not
\* look healthy, after any number of crashes and restarts.
THEOREM StoppedIsUnlistedTheorem == Spec => []StoppedIsUnlisted
<1>1. Init => StoppedIsUnlisted
  BY DEF Init, StoppedIsUnlisted
<1>2. HeartbeatInvariant => HeartbeatTypes
  BY DEF HeartbeatInvariant
<1> QED
  BY HeartbeatInit, HeartbeatInductive, StopKeeps, <1>1, <1>2, PTL DEF Spec

\* A server that is up and had at most one failed report is in the registry.
SurvivesOneFailure ==
    phase = "up" /\ faults <= 1 => listed /\ entry # Null /\ entry.status = "healthy"

\* Unless the life of an entry is configured, it is long enough for one failed
\* report, whatever the interval.
THEOREM DefaultTTLTheorem ==
  ASSUME HeartbeatTTL <= 0
  PROVE  Spec => []SurvivesOneFailure
<1>1. TTL = 3 * Interval
  BY HeartbeatAssumption DEF TTL
<1>2. ASSUME NEW k \in Nat, k <= 1 PROVE (k + 1) * Interval < TTL
  <2>1. k = 0 \/ k = 1
    BY <1>2
  <2>2. Interval \in Nat \ {0}
    BY HeartbeatNumbers
  <2>3. (0 + 1) * Interval < 3 * Interval /\ (1 + 1) * Interval < 3 * Interval
    BY <2>2
  <2> QED
    BY <1>1, <2>1, <2>3
<1>3. HeartbeatInvariant => SurvivesOneFailure
  <2> SUFFICES ASSUME HeartbeatInvariant, phase = "up", faults <= 1
               PROVE  listed /\ entry # Null /\ entry.status = "healthy"
    BY DEF SurvivesOneFailure
  <2>1. faults \in Nat
    BY DEF HeartbeatInvariant, HeartbeatTypes
  <2> QED
    BY <1>2, <2>1 DEF HeartbeatInvariant, EntryIsYoung
<1> QED
  BY HeartbeatInductive, HeartbeatInit, <1>3, PTL DEF Spec
=============================================================================
