------------------------ MODULE SessionReportsProofs ------------------------
(***************************************************************************)
(* What the outside sees of a room, for any set of participants and any    *)
(* other rooms (Projections checks three and one): its projections depend  *)
(* on no iteration order, the answer to a status request fits the room,    *)
(* and the stats add up and agree with it.                                 *)
(*                                                                         *)
(* The sums of the stats are folds over finite sets: SumCountsUnits shows  *)
(* once, by well-founded minimality, that such a sum counts a set, and the *)
(* other facts about sums follow from those about cardinality.             *)
(***************************************************************************)
EXTENDS SessionReports, FiniteSetTheorems, FunctionTheorems, TLAPS

-----------------------------------------------------------------------------
(* The projections.                                                        *)

\* The argument is a room, and what the loop has still to visit is in it.
ArgumentOK ==
    /\ room.status \in RoomStatuses
    /\ room.parts \in [Participants -> ParticipantStates]
    /\ \A p \in Members(room) : room.parts[p].state \in ConnectionStates
    /\ which \in {"connection", "media"}
    /\ left \subseteq Members(room)

\* The flags are those of the participants visited so far, none of which
\* decided the result.
ConnectionScan ==
    which = "connection" /\ result = Null /\ ~Terminal(room.status) =>
        /\ \A p \in Members(room) \ left :
              ~ConnectionVerdict(p) /\ ConnectionFlag(p) \in has
        /\ \A f \in has : \E p \in Members(room) \ left : f = ConnectionFlag(p)

MediaScan ==
    which = "media" /\ result = Null /\ ~Terminal(room.status) =>
        /\ \A p \in Members(room) \ left : room.parts[p].track # "none" =>
              ~MediaVerdict(p) /\ MediaFlag(p) \in has
        /\ \A f \in has : \E p \in Members(room) \ left :
              room.parts[p].track # "none" /\ f = MediaFlag(p)

\* The inductive invariant.
ScanInvariant ==
    /\ ArgumentOK /\ ConnectionScan /\ MediaScan
    /\ ConnectionStateIsDetermined /\ MediaStateIsDetermined /\ FailedAgentTrackShows

\* The states of the members, seen from the flags of a finished loop.
LEMMA ConnectionFlagMeans ==
  ASSUME ArgumentOK, NEW p \in Members(room)
  PROVE  /\ ConnectionFlag(p) = "connected" <=> room.parts[p].state = "connected"
         /\ ConnectionFlag(p) = "connecting" <=>
              room.parts[p].state \in {"new", "connecting", "closed"}
         /\ ConnectionFlag(p) = "disconnected" <=>
              room.parts[p].state \in {"failed", "disconnected"}
  BY DEF ArgumentOK, ConnectionFlag, ConnectionStates

\* At the start nothing has been visited.
LEMMA ScanInit == Init => ScanInvariant
<1> SUFFICES ASSUME Init PROVE ScanInvariant
  OBVIOUS
<1>1. ArgumentOK
  BY DEF Init, ArgumentOK, Members, ParticipantStates, Absent
<1> QED
  BY <1>1 DEF Init, ScanInvariant, ConnectionScan, MediaScan,
     ConnectionStateIsDetermined, MediaStateIsDetermined, FailedAgentTrackShows, Returned

\* The returns before the loops.
LEMMA EarlyReturnKeeps == ScanInvariant /\ EarlyReturn => ScanInvariant'
<1> SUFFICES ASSUME ScanInvariant, EarlyReturn PROVE ScanInvariant'
  OBVIOUS
<1> USE NullIsNoState
<1>1. ArgumentOK'
  BY DEF ScanInvariant, EarlyReturn, ArgumentOK, Members
<1>2. result' # Null /\ UNCHANGED <<room, which>>
  BY DEF EarlyReturn, Terminal, ConnectionStates, TrackStates
<1>3. ConnectionStateIsDetermined'
  BY <1>2 DEF EarlyReturn, ConnectionStateIsDetermined, Returned, Terminal, States,
              Members
<1>4. MediaStateIsDetermined'
  BY <1>2 DEF EarlyReturn, MediaStateIsDetermined, Returned, Terminal
<1>5. FailedAgentTrackShows'
  BY <1>2 DEF EarlyReturn, FailedAgentTrackShows, NoCriticalTrackFailure, Returned, Terminal
<1> QED
  BY <1>1, <1>2, <1>3, <1>4, <1>5 DEF ScanInvariant, ConnectionScan, MediaScan

\* One round of roomConnectionState.
LEMMA VisitConnectionKeeps ==
  ASSUME ScanInvariant, NEW p \in left, Visit(p), VisitConnection(p)
  PROVE  ScanInvariant'
<1> USE NullIsNoState
<1>1. ArgumentOK' /\ p \in Members(room) /\ UNCHANGED <<room, which>>
      /\ which = "connection" /\ ~Terminal(room.status)
  BY DEF ScanInvariant, Visit, VisitConnection, ArgumentOK, Members
<1>2. Members(room)' \ left' = (Members(room) \ left) \cup {p}
  BY <1>1 DEF Visit, Members
<1>3. CASE ConnectionVerdict(p)
  <2>1. result' = "failed" /\ "failed" # Null
    BY <1>3 DEF VisitConnection, ConnectionStates
  <2>2. ConnectionStateIsDetermined'
    BY <1>1, <1>3, <2>1
    DEF ConnectionStateIsDetermined, ConnectionVerdict, Terminal, Members
  <2> QED
    BY <1>1, <2>1, <2>2
    DEF ScanInvariant, ConnectionScan, MediaScan, MediaStateIsDetermined,
        FailedAgentTrackShows, Returned
<1>4. CASE ~ConnectionVerdict(p)
  <2>1. has' = has \cup {ConnectionFlag(p)} /\ result' = Null /\ result = Null
    BY <1>4 DEF VisitConnection, Visit
  <2>2. ConnectionScan'
    BY <1>1, <1>2, <1>4, <2>1
    DEF ScanInvariant, ConnectionScan, ConnectionVerdict, ConnectionFlag, Members
  <2> QED
    BY <1>1, <2>1, <2>2
    DEF ScanInvariant, MediaScan, ConnectionStateIsDetermined,
        MediaStateIsDetermined, FailedAgentTrackShows, Returned
<1> QED
  BY <1>3, <1>4

\* One round of roomMediaState.
LEMMA VisitMediaKeeps ==
  ASSUME ScanInvariant, NEW p \in left, Visit(p), VisitMedia(p)
  PROVE  ScanInvariant'
<1> USE NullIsNoState
<1>1. ArgumentOK' /\ p \in Members(room) /\ UNCHANGED <<room, which>>
      /\ which = "media" /\ ~Terminal(room.status) /\ result = Null
  BY DEF ScanInvariant, Visit, VisitMedia, ArgumentOK, Members
<1>2. Members(room)' \ left' = (Members(room) \ left) \cup {p}
  BY <1>1 DEF Visit, Members
<1>3. CASE room.parts[p].track # "none" /\ MediaVerdict(p)
  <2>1. result' = room.parts[p].track /\ room.parts[p].track \in {"failed", "active"}
    BY <1>3 DEF VisitMedia, MediaVerdict
  <2>2. result' # Null
    BY <2>1 DEF TrackStates
  <2>3. MediaStateIsDetermined'
    BY <1>1, <1>3, <2>1
    DEF MediaStateIsDetermined, MediaVerdict, NoCriticalTrackFailure, Terminal,
        Members, Tracks
  <2>4. FailedAgentTrackShows'
    BY <1>1, <1>3, <2>1 DEF FailedAgentTrackShows, Members, Tracks
  <2> QED
    BY <1>1, <2>2, <2>3, <2>4
    DEF ScanInvariant, ConnectionScan, MediaScan, ConnectionStateIsDetermined, Returned
<1>4. CASE ~(room.parts[p].track # "none" /\ MediaVerdict(p))
  <2>1. /\ result' = Null
        /\ has' = IF room.parts[p].track = "none" THEN has ELSE has \cup {MediaFlag(p)}
    BY <1>1, <1>4 DEF VisitMedia
  <2>2. MediaScan'
    BY <1>1, <1>2, <1>4, <2>1
    DEF ScanInvariant, MediaScan, MediaVerdict, MediaFlag, Members
  <2> QED
    BY <1>1, <2>1, <2>2
    DEF ScanInvariant, ConnectionScan, ConnectionStateIsDetermined,
        MediaStateIsDetermined, FailedAgentTrackShows, Returned
<1> QED
  BY <1>3, <1>4

\* The end of a loop: the flags stand for all the members.
LEMMA LoopEndsKeeps == ScanInvariant /\ LoopEnds => ScanInvariant'
<1> SUFFICES ASSUME ScanInvariant, LoopEnds PROVE ScanInvariant'
  OBVIOUS
<1> USE NullIsNoState
<1>1. ArgumentOK' /\ left = {} /\ ~Terminal(room.status) /\ result = Null
      /\ UNCHANGED <<room, which, left, has>>
  BY DEF ScanInvariant, LoopEnds, ArgumentOK, Members
<1>2. CASE which = "connection"
  <2>1. \A p \in Members(room) : ~ConnectionVerdict(p) /\ ConnectionFlag(p) \in has
    BY <1>1, <1>2 DEF ScanInvariant, ConnectionScan
  <2>2. \A f \in has : \E p \in Members(room) : f = ConnectionFlag(p)
    BY <1>1, <1>2 DEF ScanInvariant, ConnectionScan
  <2>3. /\ "connected" \in has <=> "connected" \in States
        /\ "connecting" \in has <=> States \cap {"new", "connecting", "closed"} # {}
        /\ "disconnected" \in has <=> States \cap {"failed", "disconnected"} # {}
    <3>1. \A f : f \in has <=> \E p \in Members(room) : f = ConnectionFlag(p)
      BY <2>1, <2>2
    <3>2. "connected" \in has <=> "connected" \in States
      BY <3>1, ConnectionFlagMeans DEF ScanInvariant, States
    <3>3. "connecting" \in has <=> States \cap {"new", "connecting", "closed"} # {}
      <4>1. "connecting" \in has <=> \E p \in Members(room) :
               room.parts[p].state \in {"new", "connecting", "closed"}
        BY <3>1, ConnectionFlagMeans DEF ScanInvariant
      <4> QED BY <4>1 DEF States
    <3>4. "disconnected" \in has <=> States \cap {"failed", "disconnected"} # {}
      <4>1. "disconnected" \in has <=>
               \E p \in Members(room) : room.parts[p].state \in {"failed", "disconnected"}
        BY <3>1, ConnectionFlagMeans DEF ScanInvariant
      <4> QED BY <4>1 DEF States
    <3> QED BY <3>2, <3>3, <3>4
  <2>4. States # {} /\ States \subseteq ConnectionStates
    BY <1>2 DEF LoopEnds, States, ScanInvariant, ArgumentOK
  <2>5. ~\E p \in Members(room) : IsCritical(p) /\ room.parts[p].state = "failed"
    BY <2>1 DEF ConnectionVerdict
  <2>6. result' = ConnectionDefault
    BY <1>2 DEF LoopEnds
  <2>7. ConnectionStateIsDetermined'
    <3>1. States' = States /\ Members(room)' = Members(room)
      BY <1>1 DEF States, Members
    <3>2. ~(States \cap {"new", "connecting", "closed"} # {}) /\ "connected" \notin States
            => States \cap {"failed", "disconnected"} # {}
      BY <2>4 DEF ConnectionStates
    <3>3. result' = IF "connected" \in States THEN "connected"
                    ELSE IF States \cap {"new", "connecting", "closed"} # {} THEN "connecting"
                    ELSE "disconnected"
      BY <2>3, <2>6, <3>2 DEF ConnectionDefault
    <3>4. ~(\E p \in Members(room) : IsCritical(p) /\ room.parts[p].state = "failed")'
      BY <1>1, <2>5, <3>1
    <3>5. room'.status \notin {"failed", "closed"}
      BY <1>1 DEF Terminal
    <3> QED
      BY <2>4, <3>1, <3>3, <3>4, <3>5 DEF ConnectionStateIsDetermined
  <2>8. result' # Null
    BY <2>6 DEF ConnectionDefault, ConnectionStates
  <2> QED
    BY <1>1, <1>2, <2>7, <2>8
    DEF ScanInvariant, ConnectionScan, MediaScan, MediaStateIsDetermined,
        FailedAgentTrackShows, Returned
<1>3. CASE which = "media"
  <2>1. /\ \A p \in Members(room) : room.parts[p].track # "none" =>
              ~MediaVerdict(p) /\ room.parts[p].track \in has
        /\ \A f \in has : \E p \in Members(room) :
              room.parts[p].track # "none" /\ f = room.parts[p].track
    BY <1>1, <1>3 DEF ScanInvariant, MediaScan, MediaFlag
  <2>2. has = Tracks
    BY <2>1 DEF Tracks
  <2>3. "active" \notin Tracks /\ Tracks \subseteq TrackStates
    BY <2>1 DEF Tracks, MediaVerdict, ScanInvariant, ArgumentOK, ParticipantStates,
                Members
  <2>4. result' = MediaDefault
    BY <1>3 DEF LoopEnds
  <2>5. MediaStateIsDetermined'
    BY <1>1, <2>2, <2>3, <2>4
    DEF MediaStateIsDetermined, MediaDefault, Tracks, Members, Terminal, TrackStates
  <2>6. result' # Null
    BY <2>4 DEF MediaDefault, TrackStates
  <2>7. NoCriticalTrackFailure
    BY <2>1 DEF NoCriticalTrackFailure, MediaVerdict
  <2>8. FailedAgentTrackShows'
    BY <1>1, <2>7 DEF FailedAgentTrackShows, NoCriticalTrackFailure, Members, Terminal
  <2> QED
    BY <1>1, <1>3, <2>5, <2>6, <2>8
    DEF ScanInvariant, ConnectionScan, MediaScan, ConnectionStateIsDetermined, Returned
<1> QED
  BY <1>2, <1>3 DEF ScanInvariant, ArgumentOK

\* Every step of an evaluation keeps the invariant.
LEMMA ScanStep == ScanInvariant /\ [Next]_vars => ScanInvariant'
<1> SUFFICES ASSUME ScanInvariant, [Next]_vars PROVE ScanInvariant'
  OBVIOUS
<1>1. CASE UNCHANGED vars
  <2> USE <1>1 DEF vars, ScanInvariant, Members
  <2>1. ArgumentOK'
    BY DEF ArgumentOK
  <2>2. ConnectionScan'
    BY DEF ConnectionScan, ConnectionVerdict, ConnectionFlag
  <2>3. MediaScan'
    BY DEF MediaScan, MediaVerdict, MediaFlag
  <2>4. ConnectionStateIsDetermined'
    BY DEF ConnectionStateIsDetermined, Returned, States
  <2>5. MediaStateIsDetermined'
    BY DEF MediaStateIsDetermined, Returned, Tracks, NoCriticalTrackFailure
  <2>6. FailedAgentTrackShows'
    BY DEF FailedAgentTrackShows, Returned, Tracks, NoCriticalTrackFailure
  <2> QED
    BY <2>1, <2>2, <2>3, <2>4, <2>5, <2>6
<1>2. CASE Next
  <2>1. \A p \in left : Visit(p) => VisitConnection(p) \/ VisitMedia(p)
    BY DEF Visit
  <2> QED
    BY <1>2, <2>1, EarlyReturnKeeps, VisitConnectionKeeps, VisitMediaKeeps,
       LoopEndsKeeps DEF Next
<1> QED
  BY <1>1, <1>2

\* roomConnectionState returns the same answer whatever order the map is read
\* in, for any set of participants.
THEOREM ConnectionStateTheorem == Spec => []ConnectionStateIsDetermined
<1>1. ScanInvariant => ConnectionStateIsDetermined
  BY DEF ScanInvariant
<1> QED
  BY ScanInit, ScanStep, <1>1, PTL DEF Spec

\* So does roomMediaState for a room without a failed agent track.
THEOREM MediaStateTheorem == Spec => []MediaStateIsDetermined
<1>1. ScanInvariant => MediaStateIsDetermined
  BY DEF ScanInvariant
<1> QED
  BY ScanInit, ScanStep, <1>1, PTL DEF Spec

\* With a failed agent track it returns failed, or active when some other
\* track of the room is.
THEOREM FailedAgentTrackTheorem == Spec => []FailedAgentTrackShows
<1>1. ScanInvariant => FailedAgentTrackShows
  BY DEF ScanInvariant
<1> QED
  BY ScanInit, ScanStep, <1>1, PTL DEF Spec

-----------------------------------------------------------------------------
(* Sums.                                                                   *)

\* A function that can be summed.
Numbered(f) == \A x \in DOMAIN f : f[x] \in Nat

\* The sum of f over s, as a set of units to be counted.
Units(f, s) == {u \in s \X Nat : 1 <= u[2] /\ u[2] <= f[u[1]]}

\* One element has as many units as its value.
LEMMA UnitsOfOne ==
    ASSUME NEW f, Numbered(f), NEW x \in DOMAIN f
    PROVE  IsFiniteSet(Units(f, {x})) /\ Cardinality(Units(f, {x})) = f[x]
<1> DEFINE n == f[x]
<1>1. n \in Nat
  BY DEF Numbered
<1>2. Units(f, {x}) = {x} \X (1..n)
  BY <1>1 DEF Units
<1>3. IsFiniteSet(1..n) /\ Cardinality(1..n) = n
  BY <1>1, FS_Interval
<1>4. IsFiniteSet({x}) /\ Cardinality({x}) = 1
  BY FS_Singleton
<1>5. ASSUME NEW S, NEW T, IsFiniteSet(S), IsFiniteSet(T)
      PROVE  IsFiniteSet(S \X T) /\ Cardinality(S \X T) = Cardinality(S) * Cardinality(T)
  BY <1>5, FS_Product
<1> HIDE DEF n
<1>6. /\ IsFiniteSet({x} \X (1..n))
      /\ Cardinality({x} \X (1..n)) = Cardinality({x}) * Cardinality(1..n)
  BY <1>3, <1>4, <1>5, Zenon
<1>7. Cardinality({x}) * Cardinality(1..n) = n
  BY <1>1, <1>3, <1>4
<1>8. IsFiniteSet(Units(f, {x})) /\ Cardinality(Units(f, {x})) = n
  BY <1>2, <1>6, <1>7
<1> QED BY <1>8 DEF n

\* A finite sum counts a finite set.
LEMMA UnitsFinite ==
    ASSUME NEW f, Numbered(f), NEW s \in SUBSET DOMAIN f, IsFiniteSet(s)
    PROVE  IsFiniteSet(Units(f, s))
<1> DEFINE block == [x \in s |-> Units(f, {x})]
<1>1. block \in Surjection(s, Range(block))
  <2>1. block \in [s -> {Units(f, {x}) : x \in s}]
    OBVIOUS
  <2> HIDE DEF block
  <2> QED BY <2>1, Fun_RangeProperties
<1>2. IsFiniteSet(Range(block))
  BY <1>1, FS_Surjection
<1>3. \A b \in Range(block) : IsFiniteSet(b)
  BY UnitsOfOne DEF Range
<1>4. IsFiniteSet(UNION Range(block))
  BY <1>2, <1>3, FS_UNION
<1>5. Units(f, s) = UNION Range(block)
  BY DEF Range, Units
<1> QED BY <1>4, <1>5

\* The units of an element are apart from those of the others.
LEMMA UnitsAdd ==
    ASSUME NEW f, Numbered(f), NEW s \in SUBSET DOMAIN f, IsFiniteSet(s), NEW x \in s
    PROVE  /\ Cardinality(Units(f, s)) = Cardinality(Units(f, s \ {x})) + f[x]
           /\ Cardinality(Units(f, s \ {x})) \in Nat
<1>1. Units(f, s) = Units(f, s \ {x}) \cup Units(f, {x})
  BY DEF Units
<1>2. Units(f, s \ {x}) \cap Units(f, {x}) = {}
  BY DEF Units
<1>3. IsFiniteSet(s \ {x})
  BY FS_RemoveElement
<1>4. IsFiniteSet(Units(f, s \ {x})) /\ IsFiniteSet(Units(f, {x}))
  BY <1>3, UnitsFinite, UnitsOfOne
<1>5. Cardinality(Units(f, {x})) = f[x] /\ f[x] \in Nat
  BY UnitsOfOne DEF Numbered
<1>6. Cardinality(Units(f, s \ {x})) \in Nat
  BY <1>4, FS_CardinalityType
<1>7. Cardinality(Units(f, s \ {x}) \cup Units(f, {x}))
        = Cardinality(Units(f, s \ {x})) + Cardinality(Units(f, {x})) - Cardinality({})
  BY <1>2, <1>4, FS_Union
<1> QED BY <1>1, <1>5, <1>6, <1>7, FS_EmptySet

\* The element that FoldSet takes next.
Pick(s) == CHOOSE x \in s : TRUE

\* The recursive definition behind FoldSet.
IsFold(f, iter) ==
    iter = [s \in SUBSET (DOMAIN f) |->
              IF s = {} THEN 0 ELSE iter[s \ {Pick(s)}] + f[Pick(s)]]

\* Sum is the value of that definition at the whole domain.
LEMMA SumIsFold ==
    ASSUME NEW f, NEW iter, iter = CHOOSE g : IsFold(f, g)
    PROVE  Sum(f) = iter[DOMAIN f]
  BY DEF Sum, FoldSet, MapThenFoldSet, IsFold, Pick

\* Counting units is one solution of it, and there is no other.
LEMMA SumCountsUnits ==
    ASSUME NEW f, Numbered(f), IsFiniteSet(DOMAIN f)
    PROVE  Sum(f) = Cardinality(Units(f, DOMAIN f))
<1> DEFINE D == DOMAIN f
           g == [s \in SUBSET D |-> Cardinality(Units(f, s))]
           h == CHOOSE iter : IsFold(f, iter)
<1>0. \A s \in SUBSET D : IsFiniteSet(s)
  BY FS_Subset
<1>1. \A s \in SUBSET D : s # {} => Pick(s) \in s
  BY DEF Pick
<1>2. ASSUME NEW s \in SUBSET D
      PROVE  g[s] = IF s = {} THEN 0 ELSE g[s \ {Pick(s)}] + f[Pick(s)]
  <2>1. CASE s = {}
    <3>1. Units(f, s) = {}
      BY <2>1 DEF Units
    <3> QED BY <2>1, <3>1, FS_EmptySet
  <2>2. CASE s # {}
    <3>1. Pick(s) \in s /\ s \ {Pick(s)} \in SUBSET D
      BY <1>1, <2>2
    <3> QED BY <1>0, <2>2, <3>1, UnitsAdd
  <2> QED BY <2>1, <2>2
<1>3. IsFold(f, g)
  <2> DEFINE k == [s \in SUBSET D |-> IF s = {} THEN 0 ELSE g[s \ {Pick(s)}] + f[Pick(s)]]
  <2>1. g = k
    BY <1>2
  <2> QED BY <2>1 DEF IsFold
<1>4. IsFold(f, h)
  BY <1>3
<1> HIDE DEF g, h
<1>5. \A s \in SUBSET D : h[s] = IF s = {} THEN 0 ELSE h[s \ {Pick(s)}] + f[Pick(s)]
  BY <1>4 DEF IsFold
<1>6. SUFFICES ASSUME h[D] # g[D] PROVE FALSE
  BY SumIsFold DEF g, h
<1> DEFINE bad == {s \in SUBSET D : h[s] # g[s]}
           R == StrictSubsetOrdering(D)
<1>7. IsWellFoundedOn(R, FiniteSubsetsOf(D)) /\ FiniteSubsetsOf(D) = SUBSET D
  BY FS_StrictSubsetOrderingWellFounded, FS_FiniteSubsetsOfFinite
<1>8. PICK m \in bad : \A s \in bad : <<s, m>> \notin R
  <2>1. bad # {} /\ bad \subseteq FiniteSubsetsOf(D)
    BY <1>6, <1>7
  <2> HIDE DEF bad, R
  <2> QED BY <1>7, <2>1, WFMin
<1>9. m # {}
  BY <1>2, <1>5, <1>8
<1>10. m \ {Pick(m)} \in SUBSET D /\ <<m \ {Pick(m)}, m>> \in R
  BY <1>1, <1>8, <1>9 DEF StrictSubsetOrdering
<1>11. h[m \ {Pick(m)}] = g[m \ {Pick(m)}]
  BY <1>8, <1>10
<1> QED BY <1>2, <1>5, <1>8, <1>9, <1>11

\* Sets of the same size.
LEMMA SameSize ==
    ASSUME NEW S, IsFiniteSet(S), NEW T, NEW f \in [S -> T],
           \A x, y \in S : f[x] = f[y] => x = y,
           \A z \in T : \E x \in S : f[x] = z
    PROVE  IsFiniteSet(T) /\ Cardinality(T) = Cardinality(S)
<1>1. f \in Bijection(S, T)
  BY DEF Bijection, Injection, IsInjective, Surjection
<1>2. ExistsBijection(S, T)
  BY <1>1 DEF ExistsBijection
<1> QED BY <1>2, FS_Bijection

\* The summand of one element, and the rest.
LEMMA SumSplits ==
    ASSUME NEW f, Numbered(f), IsFiniteSet(DOMAIN f), NEW x \in DOMAIN f,
           NEW g, DOMAIN g = DOMAIN f \ {x}, \A y \in DOMAIN g : g[y] = f[y]
    PROVE  Sum(f) = Sum(g) + f[x] /\ Sum(g) \in Nat /\ Sum(f) \in Nat
<1>1. Numbered(g) /\ f[x] \in Nat
  BY DEF Numbered
<1>2. IsFiniteSet(DOMAIN g)
  BY FS_RemoveElement
<1>3. Sum(f) = Cardinality(Units(f, DOMAIN f)) /\ Sum(g) = Cardinality(Units(g, DOMAIN g))
  BY <1>1, <1>2, SumCountsUnits
<1>4. Units(g, DOMAIN g) = Units(f, DOMAIN f \ {x})
  BY DEF Units
<1>5. /\ Cardinality(Units(f, DOMAIN f)) = Cardinality(Units(f, DOMAIN f \ {x})) + f[x]
      /\ Cardinality(Units(f, DOMAIN f \ {x})) \in Nat
  BY UnitsAdd
<1> QED BY <1>1, <1>3, <1>4, <1>5

\* Zeros add up to zero.
LEMMA SumOfNothing ==
    ASSUME NEW f, IsFiniteSet(DOMAIN f), \A x \in DOMAIN f : f[x] = 0
    PROVE  Sum(f) = 0
<1>1. Sum(f) = Cardinality(Units(f, DOMAIN f))
  BY SumCountsUnits DEF Numbered
<1>2. Units(f, DOMAIN f) = {}
  BY DEF Units
<1> QED BY <1>1, <1>2, FS_EmptySet

\* Counting one more, as Build does in its maps.
LEMMA SumIncrement ==
    ASSUME NEW S, IsFiniteSet(S), NEW f \in [S -> Nat], NEW x \in S
    PROVE  Sum([f EXCEPT ![x] = @ + 1]) = Sum(f) + 1 /\ Sum(f) \in Nat
<1> DEFINE g == [y \in S \ {x} |-> f[y]]
           h == [f EXCEPT ![x] = @ + 1]
<1>1. Numbered(f) /\ Numbered(h) /\ DOMAIN f = S /\ DOMAIN h = S /\ h[x] = f[x] + 1
  BY DEF Numbered
<1>2. Sum(f) = Sum(g) + f[x] /\ Sum(g) \in Nat /\ f[x] \in Nat
  BY <1>1, SumSplits
<1>3. \A y \in S \ {x} : g[y] = h[y]
  OBVIOUS
<1>4. DOMAIN g = S \ {x}
  OBVIOUS
<1> HIDE DEF g, h
<1>5. Sum(h) = Sum(g) + h[x]
  BY <1>1, <1>3, <1>4, SumSplits
<1> QED BY <1>1, <1>2, <1>5 DEF h

\* The sum of a map with two keys.
LEMMA SumOfTwo ==
    ASSUME NEW x, NEW y, x # y, NEW f \in [{x, y} -> Nat]
    PROVE  Sum(f) = f[x] + f[y]
<1> DEFINE g == [z \in {y} |-> f[z]]
           h == [z \in {} |-> f[z]]
<1>1. IsFiniteSet({x, y}) /\ IsFiniteSet({y}) /\ IsFiniteSet({})
  <2>1. IsFiniteSet({y} \cup {x})
    BY FS_Singleton, FS_AddElement
  <2>2. {x, y} = {y} \cup {x}
    OBVIOUS
  <2> QED BY <2>1, <2>2, FS_Singleton, FS_EmptySet
<1>2. Sum(f) = Sum(g) + f[x] /\ Sum(g) \in Nat
  BY <1>1, SumSplits DEF Numbered
<1>3. Sum(g) = Sum(h) + g[y]
  <2>1. DOMAIN g = {y} /\ DOMAIN h = DOMAIN g \ {y} /\ Numbered(g)
    BY DEF Numbered
  <2> HIDE DEF g
  <2> QED BY <1>1, <2>1, SumSplits
<1>4. Sum(h) = 0
  BY <1>1, SumOfNothing
<1> QED BY <1>2, <1>3, <1>4

\* The names of the elements do not matter.
LEMMA SumRenamed ==
    ASSUME NEW f, Numbered(f), IsFiniteSet(DOMAIN f), NEW g, Numbered(g),
           NEW b \in [DOMAIN f -> DOMAIN g],
           \A x, y \in DOMAIN f : b[x] = b[y] => x = y,
           \A z \in DOMAIN g : \E x \in DOMAIN f : b[x] = z,
           \A x \in DOMAIN f : f[x] = g[b[x]]
    PROVE  Sum(f) = Sum(g)
<1> DEFINE U == Units(f, DOMAIN f)
           V == Units(g, DOMAIN g)
           c == [u \in U |-> <<b[u[1]], u[2]>>]
<1>1. IsFiniteSet(DOMAIN g)
  BY SameSize
<1>2. Sum(f) = Cardinality(U) /\ Sum(g) = Cardinality(V) /\ IsFiniteSet(U)
  BY <1>1, SumCountsUnits, UnitsFinite
<1>3. c \in [U -> V]
  BY DEF Units
<1>4. \A u, w \in U : c[u] = c[w] => u = w
  BY DEF Units
<1>5. ASSUME NEW v \in V PROVE \E u \in U : c[u] = v
  <2>1. PICK x \in DOMAIN f : b[x] = v[1]
    BY DEF Units
  <2>2. <<x, v[2]>> \in U
    BY <2>1 DEF Units
  <2>3. c[<<x, v[2]>>] = v
    BY <2>1, <2>2 DEF Units
  <2> QED BY <2>2, <2>3
<1> HIDE DEF U, V, c
<1>6. Cardinality(V) = Cardinality(U)
  BY <1>2, <1>3, <1>4, <1>5, SameSize
<1> QED BY <1>2, <1>6

-----------------------------------------------------------------------------
(* The list of the views.                                                  *)

\* The participants of a room as they are shown.
ViewSet(r) == {ParticipantView(r, p) : p \in Members(r)}

\* A list of the views of a room, by the ids.
Sorted(seq, r) ==
    /\ seq \in [1..Cardinality(ViewSet(r)) -> ViewSet(r)]
    /\ \A i, j \in DOMAIN seq : i < j => Rank[seq[i].id] < Rank[seq[j].id]

\* A room has finitely many members.
LEMMA MembersFinite ==
    ASSUME NEW r, NEW s \in SUBSET Members(r)
    PROVE  IsFiniteSet(s) /\ Cardinality(s) \in Nat
<1>1. s \in SUBSET Participants
  BY DEF Members
<1> QED BY <1>1, ReportsAssumption, FS_Subset, FS_CardinalityType

\* There is one view of each member.
LEMMA AsManyViews ==
    ASSUME NEW r
    PROVE  /\ Cardinality(ViewSet(r)) = Cardinality(Members(r))
           /\ Cardinality(Members(r)) \in Nat /\ IsFiniteSet(ViewSet(r))
<1> DEFINE view == [p \in Members(r) |-> ParticipantView(r, p)]
<1>1. view \in [Members(r) -> ViewSet(r)]
  BY DEF ViewSet
<1>2. \A p, q \in Members(r) : view[p] = view[q] => p = q
  <2>1. \A p \in Members(r) : view[p].id = p
    BY DEF ParticipantView
  <2> QED BY <2>1
<1>3. \A v \in ViewSet(r) : \E p \in Members(r) : view[p] = v
  BY DEF ViewSet
<1>4. IsFiniteSet(Members(r)) /\ Cardinality(Members(r)) \in Nat
  BY MembersFinite
<1> HIDE DEF view
<1> QED BY <1>1, <1>2, <1>3, <1>4, SameSize

\* The position of a participant among the members, by rank.
LEMMA SortedExists == ASSUME NEW r PROVE \E seq : Sorted(seq, r)
<1> DEFINE M == Members(r)
           n == Cardinality(M)
           upTo(p) == {q \in M : Rank[q] <= Rank[p]}
           pos == [p \in M |-> Cardinality(upTo(p))]
<1>1. \A s \in SUBSET M : IsFiniteSet(s) /\ Cardinality(s) \in Nat
  BY MembersFinite
<1>2. \A p \in M : Rank[p] \in Nat /\ p \in Participants
  BY ReportsAssumption DEF Members
<1>3. ASSUME NEW p \in M PROVE pos[p] \in 1..n
  <2>1. upTo(p) \in SUBSET M /\ p \in upTo(p)
    BY <1>2
  <2>2. IsFiniteSet(M) /\ n \in Nat /\ Cardinality(upTo(p)) \in Nat
    BY <1>1, <2>1
  <2>3. Cardinality(upTo(p)) <= n
    BY <2>1, <2>2, FS_Subset
  <2>4. Cardinality(upTo(p)) # 0
    <3>1. IsFiniteSet(upTo(p)) /\ upTo(p) # {}
      BY <1>1, <2>1
    <3> HIDE DEF upTo
    <3> QED BY <3>1, FS_EmptySet
  <2> HIDE DEF upTo, n, M
  <2> QED BY <2>2, <2>3, <2>4
<1>4. ASSUME NEW p \in M, NEW q \in M, Rank[p] < Rank[q]
      PROVE  pos[p] < pos[q]
  <2>1. upTo(p) \subseteq upTo(q) /\ q \in upTo(q) /\ q \notin upTo(p)
    BY <1>2, <1>4
  <2>2. IsFiniteSet(upTo(q)) /\ Cardinality(upTo(p)) \in Nat /\ Cardinality(upTo(q)) \in Nat
    BY <1>1
  <2>3. Cardinality(upTo(p)) <= Cardinality(upTo(q))
        /\ (Cardinality(upTo(p)) = Cardinality(upTo(q)) => upTo(q) = upTo(p))
    <3> HIDE DEF upTo
    <3> QED BY <2>1, <2>2, FS_Subset
  <2>4. Cardinality(upTo(p)) # Cardinality(upTo(q))
    BY <2>1, <2>3
  <2> HIDE DEF upTo
  <2>5. Cardinality(upTo(p)) < Cardinality(upTo(q))
    BY <2>2, <2>3, <2>4
  <2> QED BY <2>5
<1>5. \A p, q \in M : pos[p] = pos[q] => p = q
  <2>1. \A p \in M : pos[p] \in Nat
    BY <1>1
  <2>2. \A p, q \in M : ~(Rank[p] < Rank[q]) /\ ~(Rank[q] < Rank[p]) => p = q
    BY <1>2, ReportsAssumption
  <2> HIDE DEF pos, M
  <2> QED BY <1>4, <2>1, <2>2
<1>6. IsFiniteSet(1..n) /\ Cardinality(1..n) = n /\ n \in Nat /\ IsFiniteSet(M)
  <2>1. n \in Nat /\ IsFiniteSet(M)
    BY <1>1
  <2> HIDE DEF n, M
  <2>2. IsFiniteSet(1..n) /\ Cardinality(1..n) = n
    BY <2>1, FS_Interval
  <2> QED BY <2>1, <2>2
<1>7. pos \in [M -> 1..n]
  <2>1. \A p \in M : pos[p] \in 1..n
    BY <1>3
  <2> QED BY <2>1
<1>8. \A i \in 1..n : \E p \in M : pos[p] = i
  <2> HIDE DEF pos, M, n
  <2>1. pos \in Injection(M, 1..n)
    BY <1>5, <1>7 DEF Injection, IsInjective
  <2>2. pos \in Surjection(M, 1..n)
    BY <1>6, <2>1, FS_Injection DEF n
  <2> QED BY <2>2 DEF Surjection
<1> DEFINE at(i) == CHOOSE p \in M : pos[p] = i
           seq == [i \in 1..n |-> ParticipantView(r, at(i))]
<1>9. \A i \in 1..n : at(i) \in M /\ pos[at(i)] = i
  BY <1>8
<1>10. \A i \in 1..n : seq[i] \in ViewSet(r) /\ seq[i].id = at(i)
  BY <1>9 DEF ViewSet, ParticipantView
<1>11. ASSUME NEW i \in 1..n, NEW j \in 1..n, i < j
       PROVE  Rank[seq[i].id] < Rank[seq[j].id]
  <2>1. at(i) \in M /\ pos[at(i)] = i /\ at(j) \in M /\ pos[at(j)] = j
    BY <1>9
  <2>2. seq[i].id = at(i) /\ seq[j].id = at(j)
    BY <1>10
  <2>3. Rank[at(i)] \in Nat /\ Rank[at(j)] \in Nat
    BY <1>2, <2>1
  <2>4. Rank[at(j)] = Rank[at(i)] => at(i) = at(j)
    BY <1>2, <2>1, ReportsAssumption
  <2> HIDE DEF at, seq, pos, M
  <2>5. ~(Rank[at(j)] < Rank[at(i)])
    BY <1>4, <1>6, <1>11, <2>1
  <2>6. at(i) # at(j)
    BY <1>11, <2>1, <1>6
  <2> QED BY <2>2, <2>3, <2>4, <2>5, <2>6
<1>12. n = Cardinality(ViewSet(r))
  BY AsManyViews
<1>13. seq \in [1..n -> ViewSet(r)] /\ DOMAIN seq = 1..n
  BY <1>10
<1>14. Sorted(seq, r)
  BY <1>11, <1>12, <1>13 DEF Sorted
<1> QED BY <1>14

\* The list that a room is shown with: every member has one place.
LEMMA ViewsInOrder ==
    ASSUME NEW r
    PROVE  LET views == ParticipantViews(r)  n == Cardinality(Members(r))
           IN /\ views \in [1..n -> ViewSet(r)] /\ n \in Nat
              /\ \A i, j \in 1..n : i < j => Rank[views[i].id] < Rank[views[j].id]
              /\ \A i \in 1..n : views[i].id \in Members(r)
                              /\ views[i] = ParticipantView(r, views[i].id)
              /\ \A i, j \in 1..n : views[i].id = views[j].id => i = j
              /\ \A p \in Members(r) : \E i \in 1..n : views[i].id = p
<1> DEFINE views == ParticipantViews(r)
           n == Cardinality(Members(r))
<1>1. Sorted(views, r)
  <2>1. views = CHOOSE seq \in [1..Cardinality(ViewSet(r)) -> ViewSet(r)] :
                    \A i, j \in DOMAIN seq : i < j => Rank[seq[i].id] < Rank[seq[j].id]
    BY DEF ParticipantViews, InOrder, ViewSet
  <2>2. PICK seq : Sorted(seq, r)
    BY SortedExists
  <2> HIDE DEF views
  <2> QED BY <2>1, <2>2 DEF Sorted
<1> HIDE DEF views
<1>2. n = Cardinality(ViewSet(r)) /\ n \in Nat /\ IsFiniteSet(Members(r))
  BY AsManyViews, MembersFinite
<1>3. views \in [1..n -> ViewSet(r)] /\ DOMAIN views = 1..n
  BY <1>1, <1>2 DEF Sorted
<1>4. \A i, j \in 1..n : i < j => Rank[views[i].id] < Rank[views[j].id]
  BY <1>1, <1>3 DEF Sorted
<1>5. \A v \in ViewSet(r) : v.id \in Members(r) /\ v = ParticipantView(r, v.id)
  BY DEF ViewSet, ParticipantView
<1>6. \A i \in 1..n : views[i].id \in Members(r) /\ views[i] = ParticipantView(r, views[i].id)
  BY <1>3, <1>5
<1>7. \A i, j \in 1..n : views[i].id = views[j].id => i = j
  <2>1. \A i \in 1..n : Rank[views[i].id] \in Nat
    BY <1>6, ReportsAssumption DEF Members
  <2> HIDE DEF n
  <2> QED BY <1>2, <1>4, <2>1
<1>8. \A p \in Members(r) : \E i \in 1..n : views[i].id = p
  <2> DEFINE ids == [i \in 1..n |-> views[i].id]
             M == Members(r)
  <2>1. ids \in [1..n -> M] /\ \A i, j \in 1..n : ids[i] = ids[j] => i = j
    BY <1>6, <1>7
  <2>2. IsFiniteSet(1..n) /\ Cardinality(1..n) = n
    <3> HIDE DEF n
    <3> QED BY <1>2, FS_Interval
  <2> HIDE DEF ids, M
  <2>3. ids \in Injection(1..n, M)
    BY <2>1 DEF Injection, IsInjective
  <2>4. ids \in Surjection(1..n, M)
    BY <1>2, <2>2, <2>3, FS_Injection DEF M
  <2>5. \A p \in M : \E i \in 1..n : ids[i] = p
    BY <2>4 DEF Surjection
  <2> QED BY <2>5 DEF ids, M
<1> QED BY <1>2, <1>3, <1>4, <1>6, <1>7, <1>8 DEF views

-----------------------------------------------------------------------------
(* What the projections return.                                            *)

\* The states of the members, and of those tracks there are.
StatesOf(r) == {r.parts[p].state : p \in Members(r)}
TracksOf(r) == {r.parts[p].track : p \in Members(r)} \ {"none"}

\* What roomConnectionState returns.
ConnectionOf(r) ==
    IF r.status = "failed" THEN "failed"
    ELSE IF r.status = "closed" THEN "closed"
    ELSE IF \E p \in Members(r) : IsCritical(p) /\ r.parts[p].state = "failed" THEN "failed"
    ELSE IF "connected" \in StatesOf(r) THEN "connected"
    ELSE IF StatesOf(r) \cap {"new", "connecting", "closed"} # {} THEN "connecting"
    ELSE IF StatesOf(r) # {} THEN "disconnected" ELSE "new"

\* NoCriticalTrackFailure of any room.
AgentTracksRun(r) ==
    Terminal(r.status) \/ \A p \in Members(r) : IsCritical(p) => r.parts[p].track # "failed"

\* What roomMediaState returns for such a room.
MediaWhenDetermined(r) ==
    IF r.status = "failed" THEN "failed"
    ELSE IF r.status = "closed" THEN "ended"
    ELSE IF "active" \in TracksOf(r) THEN "active"
    ELSE IF TracksOf(r) = {} \/ "pending" \in TracksOf(r) THEN "pending"
    ELSE IF "failed" \in TracksOf(r) THEN "failed" ELSE "ended"

\* What roomMediaState may return.
MediaOf(r) ==
    IF AgentTracksRun(r) THEN {MediaWhenDetermined(r)}
    ELSE {"failed"} \cup (TracksOf(r) \cap {"active"})

\* The verdicts are states of connections and tracks.
LEMMA VerdictTypes ==
    ASSUME NEW r
    PROVE  ConnectionOf(r) \in ConnectionStates /\ MediaOf(r) \subseteq TrackStates
<1>1. ConnectionOf(r) \in ConnectionStates
  BY DEF ConnectionOf, ConnectionStates
<1>2. MediaWhenDetermined(r) \in TrackStates
  BY DEF MediaWhenDetermined, TrackStates
<1> QED BY <1>1, <1>2 DEF MediaOf, TrackStates

\* The results of a finished evaluation.
LEMMA ResultMeans ==
    ASSUME ScanInvariant
    PROVE  /\ Returned("connection") => result = ConnectionOf(room)
           /\ Returned("media") => result \in MediaOf(room)
<1>1. Returned("connection") => result = ConnectionOf(room)
  BY DEF ScanInvariant, ConnectionStateIsDetermined, ConnectionOf, States, StatesOf
<1>2. NoCriticalTrackFailure <=> AgentTracksRun(room)
  BY DEF NoCriticalTrackFailure, AgentTracksRun
<1>3. Tracks = TracksOf(room)
  BY DEF Tracks, TracksOf
<1>4. CASE NoCriticalTrackFailure
  BY <1>1, <1>2, <1>3, <1>4
  DEF ScanInvariant, MediaStateIsDetermined, MediaOf, MediaWhenDetermined
<1>5. CASE ~NoCriticalTrackFailure
  BY <1>1, <1>2, <1>3, <1>5 DEF ScanInvariant, FailedAgentTrackShows, MediaOf
<1> QED BY <1>4, <1>5

\* The next evaluation starts.
LEMMA CallStarts ==
    ASSUME NEW r, WellFormed(r), NEW f \in {"connection", "media"}, Call(f, r)
    PROVE  ScanInvariant' /\ room' = r /\ which' = f
<1> USE DEF Call
<1>1. room' = r /\ which' = f /\ left' = Members(r) /\ has' = {} /\ result' = Null
  OBVIOUS
<1>2. \A p \in Members(r) : r.parts[p].state \in ConnectionStates
  BY DEF WellFormed, Members, ParticipantStates
<1>3. ArgumentOK'
  BY <1>1, <1>2 DEF ArgumentOK, WellFormed, Members
<1> QED
  BY <1>1, <1>3 DEF ScanInvariant, ConnectionScan, MediaScan, Members,
     ConnectionStateIsDetermined, MediaStateIsDetermined, FailedAgentTrackShows, Returned

-----------------------------------------------------------------------------

\* The answer of the query for a room with a connection and a media state.
AnswerFor(r, media) == Response(Decoded(Payload(LiveState(r, ConnectionOf(r), media))))

\* The last event has a time exactly if there is one.
EventOK == event \in Nat /\ (event = 0 => history = <<>>) /\ history \in {<<>>, <<1>>}

\* What is read back from the payload is what was stored.
LEMMA AnswerShows ==
    ASSUME NEW r, NEW media, EventOK
    PROVE  LET shown == AnswerFor(r, media)
           IN /\ shown.session = r.session /\ shown.status = r.status
              /\ shown.connection = ConnectionOf(r) /\ shown.media = media
              /\ shown.participants = Cardinality(Members(r))
              /\ shown.views = ParticipantViews(r) /\ shown.event = OptionalTime(event)
              /\ shown.event = {} => shown.history = <<>>
<1> DEFINE With(at, times) ==
               [session |-> r.session, status |-> r.status, connection |-> ConnectionOf(r),
                media |-> media, participants |-> Cardinality(Members(r)),
                views |-> ParticipantViews(r), event |-> at, history |-> times]
<1>1. LiveState(r, ConnectionOf(r), media) = With(event, history)
  BY DEF LiveState
<1>2. Payload(With(event, history)) = With(event, EventPayloads(history))
  BY DEF Payload
<1>3. Events(EventPayloads(history)) = history
  BY DEF Events, EventPayloads, EventOK
<1>4. Decoded(With(event, EventPayloads(history))) = With(event, history)
  BY <1>3 DEF Decoded
<1>5. Response(With(event, history)) = With(OptionalTime(event), EventResponses(history))
  <2>1. [With(event, history) EXCEPT !.event = OptionalTime(event)]
            = With(OptionalTime(event), history)
    OBVIOUS
  <2>2. [With(OptionalTime(event), history) EXCEPT !.history = EventResponses(history)]
            = With(OptionalTime(event), EventResponses(history))
    OBVIOUS
  <2>3. With(event, history).event = event /\ With(event, history).history = history
    OBVIOUS
  <2> HIDE DEF With
  <2>4. Response(With(event, history))
            = [[With(event, history) EXCEPT !.event = OptionalTime(event)]
                    EXCEPT !.history = EventResponses(history)]
    BY <2>3 DEF Response
  <2> QED BY <2>1, <2>2, <2>4
<1>6. AnswerFor(r, media) = With(OptionalTime(event), EventResponses(history))
  BY <1>1, <1>2, <1>4, <1>5 DEF AnswerFor
<1>7. OptionalTime(event) = {} => event = 0
  BY DEF OptionalTime
<1>8. EventResponses(<<>>) = <<>>
  BY DEF EventResponses
<1> QED BY <1>6, <1>7, <1>8 DEF EventOK

\* The answer shows the subject as one of its evaluations saw it.
AnswerOK == \E media \in MediaOf(subject) : answer = AnswerFor(subject, media)

\* Such an answer does not contradict itself.
LEMMA AnswerConsistent ==
    ASSUME AnswerOK, WellFormed(subject), EventOK
    PROVE  AnswerIsConsistent
<1> DEFINE r == subject
           n == Cardinality(Members(r))
           views == answer.views
<1>1. PICK media \in MediaOf(r) : answer = AnswerFor(r, media)
  BY DEF AnswerOK
<1>2. /\ answer.connection = ConnectionOf(r) /\ answer.media = media
      /\ answer.participants = n /\ answer.views = ParticipantViews(r)
      /\ answer.event = {} => answer.history = <<>>
  BY <1>1, AnswerShows
<1>3. /\ views \in [1..n -> ViewSet(r)] /\ n \in Nat
      /\ \A i, j \in 1..n : i < j => Rank[views[i].id] < Rank[views[j].id]
      /\ \A i \in 1..n : views[i].id \in Members(r)
                      /\ views[i] = ParticipantView(r, views[i].id)
      /\ \A p \in Members(r) : \E i \in 1..n : views[i].id = p
  BY <1>2, ViewsInOrder
<1>4. DOMAIN views = 1..n /\ Len(views) = n
  BY <1>3
<1>5. \A i \in 1..n : /\ views[i].state = r.parts[views[i].id].state
                      /\ views[i].tracks = TrackCount(r, views[i].id)
  <2>1. \A p : /\ ParticipantView(r, p).state = r.parts[p].state
               /\ ParticipantView(r, p).tracks = TrackCount(r, p)
    BY DEF ParticipantView
  <2> QED BY <1>3, <2>1
<1> DEFINE shown == {views[i].state : i \in DOMAIN views}
<1>6. shown = StatesOf(r)
  BY <1>3, <1>4, <1>5 DEF StatesOf
<1>7. \A p \in Members(r) : r.parts[p].state \in ConnectionStates
  BY DEF WellFormed, Members, ParticipantStates
<1>8. ConnectionOf(r) = "connected" => "connected" \in StatesOf(r)
  BY DEF ConnectionOf
<1>9. ConnectionOf(r) = "disconnected" =>
         StatesOf(r) # {} /\ StatesOf(r) \subseteq {"disconnected", "failed"}
  BY <1>7 DEF ConnectionOf, StatesOf, ConnectionStates
<1>10. media = "active" => \E p \in Members(r) : r.parts[p].track = "active"
  BY <1>1 DEF MediaOf, MediaWhenDetermined, TracksOf
<1>11. media = "active" => \E i \in DOMAIN views : views[i].tracks = 1
  BY <1>3, <1>4, <1>5, <1>10 DEF TrackCount
<1>12. {views[i].id : i \in DOMAIN views} = Members(r)
  BY <1>3, <1>4
<1>13. \A i, j \in DOMAIN views : i < j => Rank[views[i].id] < Rank[views[j].id]
  BY <1>3, <1>4
<1>14. \A i \in DOMAIN views : views[i].state = r.parts[views[i].id].state
  BY <1>4, <1>5
<1>15. ConnectionOf(r) = "connected" => "connected" \in shown
  BY <1>6, <1>8
<1>16. ConnectionOf(r) = "disconnected" => shown # {} /\ shown \subseteq {"disconnected", "failed"}
  BY <1>6, <1>9
<1> HIDE DEF n
<1> QED
  BY <1>2, <1>4, <1>11, <1>12, <1>13, <1>14, <1>15, <1>16 DEF AnswerIsConsistent

-----------------------------------------------------------------------------
(* The stats.                                                              *)

\* A sum is a number.
LEMMA SumType ==
    ASSUME NEW f, Numbered(f), IsFiniteSet(DOMAIN f)
    PROVE  Sum(f) \in Nat
  BY SumCountsUnits, UnitsFinite, FS_CardinalityType

\* The total of a field of the details.
TotalOf(details, field) == Sum([d \in details |-> d[field]])

\* The total grows by what a new detail contributes.
LEMMA TotalAdds ==
    ASSUME NEW S, IsFiniteSet(S), NEW x, x \notin S, NEW field,
           \A d \in S \cup {x} : d[field] \in Nat
    PROVE  TotalOf(S \cup {x}, field) = TotalOf(S, field) + x[field]
<1> DEFINE f == [d \in S \cup {x} |-> d[field]]
           g == [d \in S |-> d[field]]
<1>1. /\ DOMAIN f = S \cup {x} /\ DOMAIN g = DOMAIN f \ {x} /\ Numbered(f)
      /\ \A y \in DOMAIN g : g[y] = f[y]
      /\ f[x] = x[field]
  BY DEF Numbered
<1>2. IsFiniteSet(S \cup {x})
  BY FS_AddElement
<1> HIDE DEF f, g
<1>3. Sum(f) = Sum(g) + f[x]
  BY <1>1, <1>2, SumSplits
<1> QED BY <1>1, <1>3 DEF f, g, TotalOf

\* Every participant has one role, and a user one mode.
WithRole(r, x) == {p \in Members(r) : RoleOf(p) = x}
WithMode(r, m) == {p \in Members(r) : AudioMode(r, p) = m}

\* The numbers of one room add up.
LEMMA Breakdown ==
    ASSUME NEW r
    PROVE  /\ \A x : /\ Cardinality(WithRole(r, x)) \in Nat
                     /\ Cardinality(WithMode(r, x)) \in Nat
           /\ Cardinality(Members(r)) \in Nat
           /\ Cardinality(Members(r))
                = Cardinality(WithRole(r, "agent")) + Cardinality(WithRole(r, "user"))
           /\ Cardinality(WithRole(r, "user"))
                = Cardinality(WithMode(r, "publisher")) + Cardinality(WithMode(r, "listener"))
           /\ Publishers(r) = WithMode(r, "publisher") /\ Listeners(r) = WithMode(r, "listener")
           /\ CountTracks(r) \in Nat
<1>1. \A x : /\ WithRole(r, x) \in SUBSET Members(r) /\ WithMode(r, x) \in SUBSET Members(r)
             /\ IsFiniteSet(WithRole(r, x)) /\ IsFiniteSet(WithMode(r, x))
             /\ Cardinality(WithRole(r, x)) \in Nat /\ Cardinality(WithMode(r, x)) \in Nat
  <2>1. \A x : WithRole(r, x) \in SUBSET Members(r) /\ WithMode(r, x) \in SUBSET Members(r)
    BY DEF WithRole, WithMode
  <2> QED BY <2>1, MembersFinite
<1>2. ASSUME NEW S, NEW T, IsFiniteSet(S), IsFiniteSet(T), S \cap T = {},
             Cardinality(S) \in Nat, Cardinality(T) \in Nat
      PROVE  Cardinality(S \cup T) = Cardinality(S) + Cardinality(T)
  <2>1. Cardinality(S \cup T) = Cardinality(S) + Cardinality(T) - Cardinality(S \cap T)
    BY <1>2, FS_Union
  <2>2. Cardinality(S \cap T) = 0
    BY <1>2, FS_EmptySet
  <2>3. Cardinality(S) \in Nat /\ Cardinality(T) \in Nat
    BY <1>2
  <2> QED BY <2>1, <2>2, <2>3
<1>3. /\ Members(r) = WithRole(r, "agent") \cup WithRole(r, "user")
      /\ WithRole(r, "agent") \cap WithRole(r, "user") = {}
  BY DEF WithRole, RoleOf
<1>4. /\ WithRole(r, "user") = WithMode(r, "publisher") \cup WithMode(r, "listener")
      /\ WithMode(r, "publisher") \cap WithMode(r, "listener") = {}
  BY DEF WithRole, WithMode, RoleOf, AudioMode
<1>5. CountTracks(r) \in Nat
  <2> DEFINE f == [p \in Members(r) |-> TrackCount(r, p)]
  <2>1. Numbered(f) /\ IsFiniteSet(DOMAIN f)
    BY MembersFinite DEF Numbered, TrackCount
  <2> HIDE DEF f
  <2>2. Sum(f) \in Nat
    BY <2>1, SumType
  <2> QED BY <2>2 DEF f, CountTracks
<1>6. Publishers(r) = WithMode(r, "publisher") /\ Listeners(r) = WithMode(r, "listener")
  BY DEF Publishers, Listeners, WithMode
<1>7. Cardinality(Members(r)) \in Nat
  BY MembersFinite
<1>8. Cardinality(Members(r))
        = Cardinality(WithRole(r, "agent")) + Cardinality(WithRole(r, "user"))
  BY <1>1, <1>2, <1>3
<1>9. Cardinality(WithRole(r, "user"))
        = Cardinality(WithMode(r, "publisher")) + Cardinality(WithMode(r, "listener"))
  BY <1>1, <1>2, <1>4
<1> QED BY <1>1, <1>5, <1>6, <1>7, <1>8, <1>9

\* The details of a set of rooms, with every media state and last event they may
\* show.
DetailsOf(rooms) ==
    UNION {{Detail(r, ConnectionOf(r), m, at) : m \in MediaOf(r), at \in Nat} : r \in rooms}

\* The type of the stats with some of these details.
StatsOver(details) ==
    [rooms : Nat, participants : Nat, tracks : Nat,
     byStatus : [RoomStatuses -> Nat], byConnection : [ConnectionStates -> Nat],
     byMedia : [TrackStates -> Nat],
     byRole : [Roles -> Nat], byAudioMode : [AudioModes -> Nat],
     byRuntimeEvent : Nat, details : SUBSET details]

WithEvent(details) == {d \in details : d.event # {}}

\* Details are told apart by their session.
SessionsOf(rooms) == {r.session : r \in rooms}

\* The stats of the rooms that have been counted.
Counted(s, rooms) ==
    /\ s \in StatsOver(DetailsOf(rooms)) /\ IsFiniteSet(s.details)
    /\ Sum(s.byStatus) = Cardinality(rooms)
    /\ Sum(s.byConnection) = Cardinality(rooms) /\ Sum(s.byMedia) = Cardinality(rooms)
    /\ s.participants = s.byRole["agent"] + s.byRole["user"]
    /\ s.byRole["user"] = s.byAudioMode["publisher"] + s.byAudioMode["listener"]
    /\ s.participants = TotalOf(s.details, "participants")
    /\ s.tracks = TotalOf(s.details, "tracks")
    /\ s.byAudioMode["publisher"] = TotalOf(s.details, "publishers")
    /\ s.byAudioMode["listener"] = TotalOf(s.details, "listeners")
    /\ s.byRuntimeEvent = Cardinality(WithEvent(s.details))
    /\ {d.session : d \in s.details} = SessionsOf(rooms)

\* The keys of the maps are finitely many.
LEMMA FewStates ==
    IsFiniteSet(RoomStatuses) /\ IsFiniteSet(ConnectionStates) /\ IsFiniteSet(TrackStates)
<1>1. \A S, x : IsFiniteSet(S) => IsFiniteSet(S \cup {x})
  BY FS_AddElement
<1>2. IsFiniteSet({})
  BY FS_EmptySet
<1>3. RoomStatuses = ((({} \cup {"created"}) \cup {"active"}) \cup {"closed"}) \cup {"failed"}
  BY DEF RoomStatuses
<1>4. TrackStates = ((({} \cup {"pending"}) \cup {"active"}) \cup {"ended"}) \cup {"failed"}
  BY DEF TrackStates
<1>5. ConnectionStates = ((((({} \cup {"new"}) \cup {"connecting"}) \cup {"connected"})
                            \cup {"disconnected"}) \cup {"failed"}) \cup {"closed"}
  BY DEF ConnectionStates
<1>6. IsFiniteSet(((({} \cup {"created"}) \cup {"active"}) \cup {"closed"}) \cup {"failed"})
  BY <1>1, <1>2, Zenon
<1>7. IsFiniteSet(((({} \cup {"pending"}) \cup {"active"}) \cup {"ended"}) \cup {"failed"})
  BY <1>1, <1>2, Zenon
<1>8. IsFiniteSet((((({} \cup {"new"}) \cup {"connecting"}) \cup {"connected"})
                            \cup {"disconnected"}) \cup {"failed"})
  BY <1>1, <1>2, Zenon
<1>9. IsFiniteSet((((((({} \cup {"new"}) \cup {"connecting"}) \cup {"connected"})
                            \cup {"disconnected"}) \cup {"failed"}) \cup {"closed"}))
  BY <1>1, <1>8, Zenon
<1> QED BY <1>3, <1>4, <1>5, <1>6, <1>7, <1>9

\* Before the first room.
LEMMA NothingCounted ==
    ASSUME NEW rooms, IsFiniteSet(rooms)
    PROVE  Counted(NoStats(rooms), {})
<1> DEFINE s == NoStats(rooms)
<1>1. Cardinality(rooms) \in Nat /\ IsFiniteSet({}) /\ Cardinality({}) = 0
  BY FS_CardinalityType, FS_EmptySet
<1>2. s \in StatsOver(DetailsOf({}))
  BY <1>1 DEF NoStats, StatsOver
<1>3. /\ s.byStatus = [x \in RoomStatuses |-> 0]
      /\ s.byConnection = [x \in ConnectionStates |-> 0]
      /\ s.byMedia = [x \in TrackStates |-> 0] /\ s.details = {} /\ s.byRuntimeEvent = 0
      /\ s.participants = 0 /\ s.tracks = 0
      /\ s.byRole["agent"] = 0 /\ s.byRole["user"] = 0
      /\ s.byAudioMode["publisher"] = 0 /\ s.byAudioMode["listener"] = 0
  BY DEF NoStats, Roles, AudioModes
<1>4. \A S : IsFiniteSet(S) => Sum([x \in S |-> 0]) = 0
  BY SumOfNothing
<1>5. \A field : TotalOf({}, field) = 0
  BY <1>1, SumOfNothing DEF TotalOf
<1> HIDE DEF s
<1>6. Sum(s.byStatus) = 0 /\ Sum(s.byConnection) = 0 /\ Sum(s.byMedia) = 0
  BY <1>3, <1>4, FewStates
<1>7. {d.session : d \in s.details} = SessionsOf({}) /\ WithEvent(s.details) = {}
  BY <1>3 DEF SessionsOf, WithEvent
<1> QED BY <1>1, <1>2, <1>3, <1>5, <1>6, <1>7 DEF Counted, s

\* What one turn of the loop makes of the counters.
LEMMA CountFields ==
    ASSUME NEW D, NEW s \in StatsOver(D), NEW r, r.status \in RoomStatuses,
           NEW c \in ConnectionStates, NEW m \in TrackStates, NEW at \in Nat
    PROVE  LET n == Count(s, r, c, m, at)
           IN /\ n \in StatsOver(D \cup {Detail(r, c, m, at)})
              /\ n.rooms = s.rooms
              /\ n.participants = s.participants + Cardinality(Members(r))
              /\ n.tracks = s.tracks + CountTracks(r)
              /\ n.byStatus = [s.byStatus EXCEPT ![r.status] = @ + 1]
              /\ n.byConnection = [s.byConnection EXCEPT ![c] = @ + 1]
              /\ n.byMedia = [s.byMedia EXCEPT ![m] = @ + 1]
              /\ \A x \in Roles :
                    n.byRole[x] = s.byRole[x] + Cardinality(WithRole(r, x))
              /\ \A x \in AudioModes :
                    n.byAudioMode[x] = s.byAudioMode[x] + Cardinality(WithMode(r, x))
              /\ n.byRuntimeEvent = s.byRuntimeEvent + (IF at = 0 THEN 0 ELSE 1)
              /\ n.details = s.details \cup {Detail(r, c, m, at)}
<1> DEFINE n == Count(s, r, c, m, at)
           statuses == [s.byStatus EXCEPT ![r.status] = @ + 1]
           connections == [s.byConnection EXCEPT ![c] = @ + 1]
           medias == [s.byMedia EXCEPT ![m] = @ + 1]
           roles == [x \in Roles |-> s.byRole[x] + Cardinality(WithRole(r, x))]
           modes == [x \in AudioModes |-> s.byAudioMode[x] + Cardinality(WithMode(r, x))]
           events == IF at = 0 THEN s.byRuntimeEvent ELSE s.byRuntimeEvent + 1
<1>1. n = [s EXCEPT !.participants = s.participants + Cardinality(Members(r)),
                    !.tracks = s.tracks + CountTracks(r),
                    !.byStatus = statuses, !.byConnection = connections, !.byMedia = medias,
                    !.byRole = roles, !.byAudioMode = modes, !.byRuntimeEvent = events,
                    !.details = s.details \cup {Detail(r, c, m, at)}]
  BY DEF Count, WithRole, WithMode
<1>2. /\ Cardinality(Members(r)) \in Nat /\ CountTracks(r) \in Nat
      /\ \A x : Cardinality(WithRole(r, x)) \in Nat /\ Cardinality(WithMode(r, x)) \in Nat
  BY Breakdown
<1>3. /\ s.byStatus \in [RoomStatuses -> Nat] /\ s.byConnection \in [ConnectionStates -> Nat]
      /\ s.byMedia \in [TrackStates -> Nat] /\ s.byRole \in [Roles -> Nat]
      /\ s.byAudioMode \in [AudioModes -> Nat] /\ s.details \in SUBSET D
      /\ s.participants \in Nat /\ s.tracks \in Nat /\ s.byRuntimeEvent \in Nat
  BY DEF StatsOver
<1>4. /\ roles \in [Roles -> Nat] /\ modes \in [AudioModes -> Nat] /\ events \in Nat
      /\ events = s.byRuntimeEvent + (IF at = 0 THEN 0 ELSE 1)
  BY <1>2, <1>3
<1>5. /\ statuses \in [RoomStatuses -> Nat] /\ connections \in [ConnectionStates -> Nat]
      /\ medias \in [TrackStates -> Nat]
  BY <1>3
<1>6. /\ s.participants + Cardinality(Members(r)) \in Nat
      /\ s.tracks + CountTracks(r) \in Nat
      /\ s.details \cup {Detail(r, c, m, at)} \in SUBSET (D \cup {Detail(r, c, m, at)})
  BY <1>2, <1>3
<1>7. /\ \A x \in Roles : roles[x] = s.byRole[x] + Cardinality(WithRole(r, x))
      /\ \A x \in AudioModes : modes[x] = s.byAudioMode[x] + Cardinality(WithMode(r, x))
  OBVIOUS
<1> HIDE DEF n, statuses, connections, medias, roles, modes, events
<1>8. /\ n.rooms = s.rooms /\ n.participants = s.participants + Cardinality(Members(r))
      /\ n.tracks = s.tracks + CountTracks(r)
      /\ n.byStatus = statuses /\ n.byConnection = connections /\ n.byMedia = medias
      /\ n.byRole = roles /\ n.byAudioMode = modes /\ n.byRuntimeEvent = events
      /\ n.details = s.details \cup {Detail(r, c, m, at)}
  BY <1>1 DEF StatsOver
<1>9. n \in StatsOver(D \cup {Detail(r, c, m, at)})
  BY <1>1, <1>4, <1>5, <1>6 DEF StatsOver
<1>10. /\ \A x \in Roles : n.byRole[x] = s.byRole[x] + Cardinality(WithRole(r, x))
       /\ \A x \in AudioModes :
             n.byAudioMode[x] = s.byAudioMode[x] + Cardinality(WithMode(r, x))
  BY <1>7, <1>8
<1> QED BY <1>4, <1>8, <1>9, <1>10 DEF n, statuses, connections, medias

\* One more room has been counted.
LEMMA CountKeeps ==
    ASSUME NEW rooms, IsFiniteSet(rooms), NEW s, Counted(s, rooms),
           NEW r, r.status \in RoomStatuses, r.session \notin SessionsOf(rooms),
           NEW m \in MediaOf(r), NEW at \in Nat
    PROVE  /\ Counted(Count(s, r, ConnectionOf(r), m, at), rooms \cup {r})
           /\ Count(s, r, ConnectionOf(r), m, at).rooms = s.rooms
           /\ Count(s, r, ConnectionOf(r), m, at).details
                = s.details \cup {Detail(r, ConnectionOf(r), m, at)}
<1> DEFINE c == ConnectionOf(r)
           n == Count(s, r, c, m, at)
           x == Detail(r, c, m, at)
           D == DetailsOf(rooms)
           k == Cardinality(rooms)
<1>1. c \in ConnectionStates /\ m \in TrackStates
  BY VerdictTypes
<1>2. s \in StatsOver(D) /\ IsFiniteSet(s.details)
  BY DEF Counted
<1>3. /\ n \in StatsOver(D \cup {x})
      /\ n.rooms = s.rooms
      /\ n.participants = s.participants + Cardinality(Members(r))
      /\ n.tracks = s.tracks + CountTracks(r)
      /\ n.byStatus = [s.byStatus EXCEPT ![r.status] = @ + 1]
      /\ n.byConnection = [s.byConnection EXCEPT ![c] = @ + 1]
      /\ n.byMedia = [s.byMedia EXCEPT ![m] = @ + 1]
      /\ \A y \in Roles : n.byRole[y] = s.byRole[y] + Cardinality(WithRole(r, y))
      /\ \A y \in AudioModes :
            n.byAudioMode[y] = s.byAudioMode[y] + Cardinality(WithMode(r, y))
      /\ n.byRuntimeEvent = s.byRuntimeEvent + (IF at = 0 THEN 0 ELSE 1)
      /\ n.details = s.details \cup {x}
  <2> HIDE DEF c, D
  <2>1. c \in ConnectionStates /\ m \in TrackStates /\ s \in StatsOver(D)
    BY <1>1, <1>2
  <2> QED BY <2>1, CountFields
<1>4. /\ x.session = r.session
      /\ x.participants = Cardinality(Members(r)) /\ x.tracks = CountTracks(r)
      /\ x.publishers = Cardinality(WithMode(r, "publisher"))
      /\ x.listeners = Cardinality(WithMode(r, "listener"))
      /\ x.event # {} <=> at # 0
  BY Breakdown DEF Detail, OptionalTime
<1>5. r \notin rooms /\ x \notin s.details
  <2>1. {d.session : d \in s.details} = SessionsOf(rooms)
    BY DEF Counted
  <2>2. x.session \notin {d.session : d \in s.details}
    BY <1>4, <2>1
  <2> HIDE DEF x
  <2> QED BY <2>2 DEF SessionsOf
<1>6. Cardinality(rooms \cup {r}) = k + 1 /\ k \in Nat
  BY <1>5, FS_AddElement, FS_CardinalityType
<1>7. /\ Sum(n.byStatus) = k + 1 /\ Sum(n.byConnection) = k + 1 /\ Sum(n.byMedia) = k + 1
  <2>1. /\ s.byStatus \in [RoomStatuses -> Nat] /\ s.byConnection \in [ConnectionStates -> Nat]
        /\ s.byMedia \in [TrackStates -> Nat]
    BY <1>2 DEF StatsOver
  <2>2. Sum(s.byStatus) = k /\ Sum(s.byConnection) = k /\ Sum(s.byMedia) = k
    BY DEF Counted
  <2>3. Sum([s.byStatus EXCEPT ![r.status] = @ + 1]) = Sum(s.byStatus) + 1
    BY <2>1, FewStates, SumIncrement
  <2>4. Sum([s.byConnection EXCEPT ![c] = @ + 1]) = Sum(s.byConnection) + 1
    BY <1>1, <2>1, FewStates, SumIncrement
  <2>5. Sum([s.byMedia EXCEPT ![m] = @ + 1]) = Sum(s.byMedia) + 1
    BY <1>1, <2>1, FewStates, SumIncrement
  <2> QED BY <1>3, <2>2, <2>3, <2>4, <2>5
<1>8. D \cup {x} \subseteq DetailsOf(rooms \cup {r})
  BY DEF DetailsOf
<1>9. n \in StatsOver(DetailsOf(rooms \cup {r})) /\ IsFiniteSet(n.details)
  <2> HIDE DEF n, x, D
  <2>1. \A e, f : e \subseteq f => StatsOver(e) \subseteq StatsOver(f)
    BY DEF StatsOver
  <2>2. IsFiniteSet(s.details \cup {x})
    BY <1>2, FS_AddElement
  <2> QED BY <1>3, <1>8, <2>1, <2>2
<1>10. \A d \in DetailsOf(rooms \cup {r}) :
          /\ d.participants \in Nat /\ d.tracks \in Nat
          /\ d.publishers \in Nat /\ d.listeners \in Nat
  BY Breakdown DEF DetailsOf, Detail
<1>11. \A d \in s.details \cup {x} :
          /\ d.participants \in Nat /\ d.tracks \in Nat
          /\ d.publishers \in Nat /\ d.listeners \in Nat
  <2>1. n.details \subseteq DetailsOf(rooms \cup {r})
    <3> HIDE DEF n
    <3> QED BY <1>9 DEF StatsOver
  <2> HIDE DEF n, x
  <2> QED BY <1>3, <1>10, <2>1
<1> DEFINE Old(field) == TotalOf(s.details, field)
           New(field) == TotalOf(n.details, field)
<1>12. /\ New("participants") = Old("participants") + x.participants
       /\ New("tracks") = Old("tracks") + x.tracks
       /\ New("publishers") = Old("publishers") + x.publishers
       /\ New("listeners") = Old("listeners") + x.listeners
  <2> HIDE DEF n, x
  <2>1. \A field : (\A d \in s.details \cup {x} : d[field] \in Nat) =>
              TotalOf(s.details \cup {x}, field) = TotalOf(s.details, field) + x[field]
    BY <1>2, <1>5, TotalAdds
  <2>2. \A field : (\A d \in s.details \cup {x} : d[field] \in Nat) =>
              New(field) = Old(field) + x[field]
    BY <1>3, <2>1
  <2> HIDE DEF New, Old
  <2> QED BY <1>11, <2>2
<1>13. /\ s.participants = s.byRole["agent"] + s.byRole["user"]
       /\ s.byRole["user"] = s.byAudioMode["publisher"] + s.byAudioMode["listener"]
       /\ s.participants = Old("participants") /\ s.tracks = Old("tracks")
       /\ s.byAudioMode["publisher"] = Old("publishers")
       /\ s.byAudioMode["listener"] = Old("listeners")
       /\ {d.session : d \in s.details} = SessionsOf(rooms)
  BY DEF Counted
<1>14. /\ s.byRole["agent"] \in Nat /\ s.byRole["user"] \in Nat
       /\ s.byAudioMode["publisher"] \in Nat /\ s.byAudioMode["listener"] \in Nat
       /\ s.tracks \in Nat
  BY <1>2 DEF StatsOver, Roles, AudioModes
<1>15. /\ n.byRole["agent"] = s.byRole["agent"] + Cardinality(WithRole(r, "agent"))
       /\ n.byRole["user"] = s.byRole["user"] + Cardinality(WithRole(r, "user"))
       /\ n.byAudioMode["publisher"]
            = s.byAudioMode["publisher"] + Cardinality(WithMode(r, "publisher"))
       /\ n.byAudioMode["listener"]
            = s.byAudioMode["listener"] + Cardinality(WithMode(r, "listener"))
  BY <1>3 DEF Roles, AudioModes
<1>16. /\ Cardinality(Members(r))
            = Cardinality(WithRole(r, "agent")) + Cardinality(WithRole(r, "user"))
       /\ Cardinality(WithRole(r, "user"))
            = Cardinality(WithMode(r, "publisher")) + Cardinality(WithMode(r, "listener"))
       /\ \A y : Cardinality(WithRole(r, y)) \in Nat /\ Cardinality(WithMode(r, y)) \in Nat
  BY Breakdown
<1>17. {d.session : d \in n.details} = SessionsOf(rooms \cup {r})
  <2> HIDE DEF n, x
  <2>1. {d.session : d \in s.details \cup {x}} = SessionsOf(rooms) \cup {r.session}
    BY <1>4, <1>13
  <2>2. SessionsOf(rooms \cup {r}) = SessionsOf(rooms) \cup {r.session}
    BY DEF SessionsOf
  <2> QED BY <1>3, <2>1, <2>2
<1>18. n.byRuntimeEvent = Cardinality(WithEvent(n.details))
  <2> HIDE DEF n, x
  <2>1. /\ s.byRuntimeEvent = Cardinality(WithEvent(s.details))
        /\ IsFiniteSet(WithEvent(s.details)) /\ x \notin WithEvent(s.details)
    BY <1>2, <1>5, FS_Subset DEF Counted, WithEvent
  <2>2. Cardinality(WithEvent(s.details)) \in Nat
    BY <2>1, FS_CardinalityType
  <2>3. CASE at = 0
    <3>1. WithEvent(n.details) = WithEvent(s.details)
      BY <1>3, <1>4, <2>3 DEF WithEvent
    <3> QED BY <1>3, <2>1, <2>2, <2>3, <3>1
  <2>4. CASE at # 0
    <3>1. WithEvent(n.details) = WithEvent(s.details) \cup {x}
      BY <1>3, <1>4, <2>4 DEF WithEvent
    <3>2. Cardinality(WithEvent(s.details) \cup {x}) = Cardinality(WithEvent(s.details)) + 1
      BY <2>1, FS_AddElement
    <3> QED BY <1>3, <2>1, <2>4, <3>1, <3>2
  <2> QED BY <2>3, <2>4
<1> HIDE DEF n, x, Old, New, c, D
<1>19. /\ n.participants = n.byRole["agent"] + n.byRole["user"]
       /\ n.byRole["user"] = n.byAudioMode["publisher"] + n.byAudioMode["listener"]
  BY <1>3, <1>13, <1>14, <1>15, <1>16
<1>20. /\ n.participants = New("participants") /\ n.tracks = New("tracks")
       /\ n.byAudioMode["publisher"] = New("publishers")
       /\ n.byAudioMode["listener"] = New("listeners")
  BY <1>3, <1>4, <1>12, <1>13, <1>15
<1>21. Counted(n, rooms \cup {r})
  BY <1>6, <1>7, <1>9, <1>17, <1>18, <1>19, <1>20 DEF Counted, New
<1> QED BY <1>3, <1>21 DEF n, c, x

-----------------------------------------------------------------------------
(* The end of the count.                                                   *)

\* The rooms that Build is given.
AllRooms == Companions \cup {subject}

\* The room of the status request, as a repository holds it.
SubjectOK == WellFormed(subject) /\ subject.session \in Sessions

\* There is one room of each session among them.
LEMMA RoomsApart ==
    ASSUME SubjectOK
    PROVE  /\ IsFiniteSet(AllRooms) /\ Cardinality(AllRooms) \in Nat
           /\ \A r \in AllRooms : WellFormed(r)
           /\ \A q, r \in AllRooms : q.session = r.session => q = r
<1>1. IsFiniteSet(Companions)
  BY CompanionsAssumption
<1>2. IsFiniteSet(AllRooms)
  BY <1>1, FS_AddElement DEF AllRooms
<1>3. Cardinality(AllRooms) \in Nat
  BY <1>2, FS_CardinalityType
<1>4. \A r \in AllRooms : WellFormed(r)
  BY CompanionsAssumption DEF SubjectOK, AllRooms
<1>5. \A q, r \in AllRooms : q.session = r.session => q = r
  BY CompanionsAssumption DEF SubjectOK, AllRooms
<1> QED BY <1>2, <1>3, <1>4, <1>5

\* All rooms have been counted.
LEMMA CountedAddsUp ==
    ASSUME SubjectOK, Counted(stats, AllRooms), stats.rooms = Cardinality(AllRooms)
    PROVE  StatsAddUp
<1>1. /\ stats.byRole \in [Roles -> Nat] /\ stats.byAudioMode \in [AudioModes -> Nat]
  BY DEF Counted, StatsOver
<1>2. Sum(stats.byRole) = stats.byRole["agent"] + stats.byRole["user"]
  BY <1>1, SumOfTwo DEF Roles
<1>3. Sum(stats.byAudioMode) = stats.byAudioMode["publisher"] + stats.byAudioMode["listener"]
  BY <1>1, SumOfTwo DEF AudioModes
<1>4. Cardinality(SessionsOf(AllRooms)) = Cardinality(AllRooms)
  <2> DEFINE f == [r \in AllRooms |-> r.session]
  <2>1. /\ f \in [AllRooms -> SessionsOf(AllRooms)]
        /\ \A z \in SessionsOf(AllRooms) : \E r \in AllRooms : f[r] = z
    BY DEF SessionsOf
  <2>2. \A q, r \in AllRooms : f[q] = f[r] => q = r
    BY RoomsApart
  <2>3. IsFiniteSet(AllRooms)
    BY RoomsApart
  <2> HIDE DEF f
  <2> QED BY <2>1, <2>2, <2>3, SameSize
<1>5. /\ ServerLoad.rooms = stats.rooms /\ ServerLoad.sessions = stats.rooms
      /\ ServerLoad.participants = stats.participants /\ ServerLoad.tracks = stats.tracks
  BY DEF ServerLoad
<1>6. /\ stats.participants = TotalOf(stats.details, "participants")
      /\ stats.tracks = TotalOf(stats.details, "tracks")
      /\ stats.byAudioMode["publisher"] = TotalOf(stats.details, "publishers")
      /\ stats.byAudioMode["listener"] = TotalOf(stats.details, "listeners")
      /\ stats.byRuntimeEvent = Cardinality(WithEvent(stats.details))
      /\ {d.session : d \in stats.details} = SessionsOf(AllRooms)
      /\ stats.participants = stats.byRole["agent"] + stats.byRole["user"]
      /\ stats.byRole["user"] = stats.byAudioMode["publisher"] + stats.byAudioMode["listener"]
      /\ Sum(stats.byStatus) = Cardinality(AllRooms)
      /\ Sum(stats.byConnection) = Cardinality(AllRooms)
      /\ Sum(stats.byMedia) = Cardinality(AllRooms)
  BY DEF Counted
<1> QED
  BY <1>2, <1>3, <1>4, <1>5, <1>6 DEF StatsAddUp, TotalOf, WithEvent

\* The numbers of the answer's list are those of the room.
LEMMA ViewsCount ==
    ASSUME NEW r
    PROVE  LET views == ParticipantViews(r)
           IN /\ \A m : Cardinality({i \in DOMAIN views : views[i].mode = m})
                          = Cardinality(WithMode(r, m))
              /\ Sum([i \in DOMAIN views |-> views[i].tracks]) = CountTracks(r)
<1> DEFINE views == ParticipantViews(r)
           n == Cardinality(Members(r))
           D == DOMAIN views
<1>1. /\ views \in [1..n -> ViewSet(r)] /\ n \in Nat
      /\ \A i \in 1..n : views[i].id \in Members(r)
                      /\ views[i] = ParticipantView(r, views[i].id)
      /\ \A i, j \in 1..n : views[i].id = views[j].id => i = j
      /\ \A p \in Members(r) : \E i \in 1..n : views[i].id = p
  BY ViewsInOrder
<1>2. D = 1..n
  BY <1>1
<1> HIDE DEF views, n, D
<1>3. IsFiniteSet(D)
  BY <1>1, <1>2, FS_Interval
<1>4. \A i \in D : /\ views[i].mode = AudioMode(r, views[i].id)
                   /\ views[i].tracks = TrackCount(r, views[i].id)
  <2>1. \A p : /\ ParticipantView(r, p).mode = AudioMode(r, p)
               /\ ParticipantView(r, p).tracks = TrackCount(r, p)
    BY DEF ParticipantView
  <2> QED BY <1>1, <1>2, <2>1
<1>5. ASSUME NEW m
      PROVE  Cardinality({i \in D : views[i].mode = m}) = Cardinality(WithMode(r, m))
  <2> DEFINE S == {i \in D : views[i].mode = m}
             f == [i \in S |-> views[i].id]
  <2>1. f \in [S -> WithMode(r, m)]
    BY <1>1, <1>2, <1>4 DEF WithMode
  <2>2. \A i, j \in S : f[i] = f[j] => i = j
    BY <1>1, <1>2
  <2>3. \A p \in WithMode(r, m) : \E i \in S : f[i] = p
    BY <1>1, <1>2, <1>4 DEF WithMode
  <2>4. IsFiniteSet(S)
    BY <1>3, FS_Subset
  <2> HIDE DEF S, f
  <2>5. Cardinality(S) = Cardinality(WithMode(r, m))
    BY <2>1, <2>2, <2>3, <2>4, SameSize
  <2> QED BY <2>5 DEF S
<1>6. Sum([i \in D |-> views[i].tracks]) = CountTracks(r)
  <2> DEFINE f == [i \in D |-> views[i].tracks]
             g == [p \in Members(r) |-> TrackCount(r, p)]
             b == [i \in D |-> views[i].id]
  <2>1. DOMAIN f = D /\ DOMAIN g = Members(r) /\ b \in [D -> Members(r)]
    BY <1>1, <1>2
  <2>2. Numbered(f) /\ Numbered(g)
    BY <1>4 DEF Numbered, TrackCount
  <2>3. \A i, j \in D : b[i] = b[j] => i = j
    BY <1>1, <1>2
  <2>4. \A p \in Members(r) : \E i \in D : b[i] = p
    BY <1>1, <1>2
  <2>5. \A i \in D : f[i] = g[b[i]]
    BY <1>1, <1>2, <1>4
  <2> HIDE DEF f, g, b
  <2>6. Sum(f) = Sum(g)
    BY <1>3, <2>1, <2>2, <2>3, <2>4, <2>5, SumRenamed
  <2> QED BY <2>6 DEF f, g, CountTracks
<1> QED BY <1>5, <1>6 DEF views, D

\* The last event of the room the answer is about was counted.
EventCounted ==
    \A d \in stats.details : d.session = subject.session => d.event = OptionalTime(event)

\* A detail is that of the room the answer is about if it has its session.
LEMMA CountedAgrees ==
    ASSUME SubjectOK, Counted(stats, AllRooms), AnswerOK, EventOK, EventCounted
    PROVE  StatsAgreeWithAnswer
<1> DEFINE r == subject
           views == ParticipantViews(r)
<1>1. PICK media \in MediaOf(r) : answer = AnswerFor(r, media)
  BY DEF AnswerOK
<1>2. /\ answer.session = r.session /\ answer.status = r.status
      /\ answer.connection = ConnectionOf(r) /\ answer.media = media
      /\ answer.participants = Cardinality(Members(r)) /\ answer.views = views
      /\ answer.event = OptionalTime(event)
  BY <1>1, AnswerShows
<1>3. ASSUME NEW d \in stats.details, d.session = answer.session
      PROVE  \E m \in MediaOf(r), at \in Nat : d = Detail(r, ConnectionOf(r), m, at)
  <2>1. d \in DetailsOf(AllRooms)
    BY DEF Counted, StatsOver
  <2>2. PICK q \in AllRooms :
            \E m \in MediaOf(q), at \in Nat : d = Detail(q, ConnectionOf(q), m, at)
    BY <2>1 DEF DetailsOf
  <2>3. d.session = q.session
    BY <2>2 DEF Detail
  <2>4. q = r
    BY <1>2, <1>3, <2>3, RoomsApart DEF AllRooms
  <2> QED BY <2>2, <2>4
<1>4. /\ \A m : Cardinality({i \in DOMAIN views : views[i].mode = m})
                 = Cardinality(WithMode(r, m))
      /\ Sum([i \in DOMAIN views |-> views[i].tracks]) = CountTracks(r)
  BY ViewsCount
<1>5. (\A p \in Members(r) : IsCritical(p) => r.parts[p].track # "failed") => AgentTracksRun(r)
  BY DEF AgentTracksRun
<1>6. AgentTracksRun(r) => \A m, k \in MediaOf(r) : m = k
  BY DEF MediaOf
<1>7. ASSUME NEW d \in stats.details, d.session = answer.session
      PROVE  /\ d.status = answer.status /\ d.connection = answer.connection
             /\ d.participants = answer.participants /\ d.event = answer.event
             /\ d.publishers
                  = Cardinality({i \in DOMAIN answer.views :
                                    answer.views[i].mode = "publisher"})
             /\ d.listeners
                  = Cardinality({i \in DOMAIN answer.views :
                                    answer.views[i].mode = "listener"})
             /\ d.tracks = Sum([i \in DOMAIN answer.views |-> answer.views[i].tracks])
             /\ (\A p \in Members(r) : IsCritical(p) => r.parts[p].track # "failed")
                => d.media = answer.media
  <2>1. PICK m \in MediaOf(r), at \in Nat : d = Detail(r, ConnectionOf(r), m, at)
    BY <1>3, <1>7
  <2>2. /\ d.status = r.status /\ d.connection = ConnectionOf(r) /\ d.media = m
        /\ d.participants = Cardinality(Members(r))
        /\ d.publishers = Cardinality(WithMode(r, "publisher"))
        /\ d.listeners = Cardinality(WithMode(r, "listener"))
        /\ d.tracks = CountTracks(r)
    BY <2>1, Breakdown DEF Detail
  <2>3. d.event = answer.event
    BY <1>2, <1>7 DEF EventCounted
  <2> HIDE DEF views
  <2> QED BY <1>1, <1>2, <1>4, <1>5, <1>6, <2>2, <2>3
<1> QED BY <1>7 DEF StatsAgreeWithAnswer

-----------------------------------------------------------------------------
(* The reports.                                                            *)

\* What has been counted of the rooms that Build was given.
Visited == {r \in AllRooms \ uncounted : ~(task = "counting" /\ r = room)}

\* The stats are those of the rooms visited so far.
CountingOK ==
    task \in {"listed", "counting", "reported"} =>
        /\ uncounted \subseteq AllRooms /\ stats.rooms = Cardinality(AllRooms)
        /\ task = "counting" => room \in AllRooms \ uncounted
        /\ task = "reported" => uncounted = {}
        /\ Counted(stats, Visited) /\ EventCounted

\* There is an answer once the status request is over.
AnsweringOK ==
    /\ task \in {"projecting", "asked", "listed", "counting", "reported"}
    /\ task = "projecting" => room = subject /\ answer = Null
    /\ task # "projecting" => AnswerOK

\* The connection state is in hand while the media state is evaluated.
FoundOK ==
    /\ which = "media" => found = ConnectionOf(room)
    /\ which = "connection" => task \in {"projecting", "counting"}

\* The inductive invariant of the reports.
ReportsInvariant ==
    ScanInvariant /\ SubjectOK /\ EventOK /\ FoundOK /\ AnsweringOK /\ CountingOK

\* The invariant holds at the start.
LEMMA ReportsStart == ReportsInit => ReportsInvariant
<1> SUFFICES ASSUME ReportsInit PROVE ReportsInvariant
  OBVIOUS
<1> USE DEF ReportsInit
<1>1. ScanInvariant
  BY ScanInit
<1>2. SubjectOK
  BY DEF Init, SubjectOK, WellFormed
<1>3. EventOK /\ FoundOK /\ AnsweringOK /\ CountingOK
  BY DEF EventOK, FoundOK, AnsweringOK, CountingOK
<1> QED BY <1>1, <1>2, <1>3 DEF ReportsInvariant

\* A step of an evaluation.
LEMMA EvaluateKeeps == ReportsInvariant /\ Evaluate => ReportsInvariant'
<1> SUFFICES ASSUME ReportsInvariant, Evaluate PROVE ReportsInvariant'
  OBVIOUS
<1>1. UNCHANGED <<room, which, task, subject, event, history, found, answer, uncounted, stats>>
  BY DEF Evaluate, Next, EarlyReturn, Visit, LoopEnds
<1>2. ScanInvariant'
  BY ScanStep DEF ReportsInvariant, Evaluate
<1>3. (SubjectOK /\ EventOK /\ FoundOK)'
  BY <1>1 DEF ReportsInvariant, SubjectOK, EventOK, FoundOK
<1>4. AnsweringOK'
  BY <1>1 DEF ReportsInvariant, AnsweringOK, AnswerOK, AnswerFor, LiveState
<1>5. CountingOK'
  BY <1>1 DEF ReportsInvariant, CountingOK, EventCounted, Visited, AllRooms
<1> QED BY <1>2, <1>3, <1>4, <1>5 DEF ReportsInvariant

\* The rooms that are evaluated are well formed.
LEMMA EvaluatedRoom ==
    ASSUME ReportsInvariant, task \in {"projecting", "counting"}
    PROVE  WellFormed(room)
<1>1. room = subject \/ room \in AllRooms
  BY DEF ReportsInvariant, AnsweringOK, CountingOK
<1> QED BY <1>1, RoomsApart DEF ReportsInvariant, SubjectOK

\* From the connection state to the media state.
LEMMA ConnectionReturnsKeeps == ReportsInvariant /\ ConnectionReturns => ReportsInvariant'
<1> SUFFICES ASSUME ReportsInvariant, ConnectionReturns PROVE ReportsInvariant'
  OBVIOUS
<1>1. WellFormed(room) /\ Call("media", room)
  BY EvaluatedRoom DEF ConnectionReturns, ReportsInvariant, FoundOK
<1>2. ScanInvariant' /\ room' = room /\ which' = "media"
  BY <1>1, CallStarts
<1>3. found' = ConnectionOf(room)
  BY ResultMeans DEF ReportsInvariant, ConnectionReturns, Returned
<1>4. UNCHANGED <<room, task, subject, event, history, answer, uncounted, stats>>
  BY <1>2 DEF ConnectionReturns
<1>5. (SubjectOK /\ EventOK /\ FoundOK)'
  BY <1>2, <1>3, <1>4 DEF ReportsInvariant, SubjectOK, EventOK, FoundOK
<1>6. AnsweringOK'
  BY <1>4 DEF ReportsInvariant, AnsweringOK, AnswerOK, AnswerFor, LiveState
<1>7. CountingOK'
  BY <1>4 DEF ReportsInvariant, CountingOK, EventCounted, Visited, AllRooms
<1> QED BY <1>2, <1>5, <1>6, <1>7 DEF ReportsInvariant

\* The status request is answered.
LEMMA GetSessionStatusKeeps == ReportsInvariant /\ GetSessionStatus => ReportsInvariant'
<1> SUFFICES ASSUME ReportsInvariant, GetSessionStatus PROVE ReportsInvariant'
  OBVIOUS
<1>1. /\ UNCHANGED <<vars, subject, event, history, found, uncounted, stats>>
      /\ task = "projecting" /\ task' = "asked" /\ which = "media" /\ result # Null
      /\ answer' = Response(Decoded(Payload(LiveState(room, found, result))))
  BY DEF GetSessionStatus
<1>2. room = subject /\ found = ConnectionOf(subject)
  BY <1>1 DEF ReportsInvariant, AnsweringOK, FoundOK
<1>3. result \in MediaOf(subject)
  BY <1>1, <1>2, ResultMeans DEF ReportsInvariant, Returned
<1>4. answer' = AnswerFor(subject, result)
  BY <1>1, <1>2 DEF AnswerFor
<1>5. AnswerOK'
  BY <1>1, <1>3, <1>4 DEF AnswerOK, AnswerFor, LiveState
<1>6. ScanInvariant'
  BY <1>1, ScanStep DEF ReportsInvariant
<1> QED
  BY <1>1, <1>5, <1>6 DEF ReportsInvariant, SubjectOK, EventOK, FoundOK, AnsweringOK,
     CountingOK, vars

\* What another value of the other variables leaves as it is.
LEMMA AnswerKept ==
    ASSUME AnswerOK, UNCHANGED <<subject, event, history, answer>>
    PROVE  AnswerOK'
  BY DEF AnswerOK, AnswerFor, LiveState

\* Build starts, with nothing counted.
LEMMA GetRuntimeStatsKeeps == ReportsInvariant /\ GetRuntimeStats => ReportsInvariant'
<1> SUFFICES ASSUME ReportsInvariant, GetRuntimeStats PROVE ReportsInvariant'
  OBVIOUS
<1>1. /\ UNCHANGED <<vars, subject, event, history, found, answer>>
      /\ task = "asked" /\ task' = "listed"
      /\ uncounted' = AllRooms /\ stats' = NoStats(AllRooms)
  BY DEF GetRuntimeStats, AllRooms
<1>2. ScanInvariant'
  BY <1>1, ScanStep DEF ReportsInvariant
<1>3. AnswerOK'
  BY <1>1, AnswerKept DEF ReportsInvariant, AnsweringOK
<1>4. IsFiniteSet(AllRooms) /\ AllRooms' = AllRooms
  BY <1>1, RoomsApart DEF ReportsInvariant, AllRooms
<1>5. Counted(stats', {}) /\ stats'.rooms = Cardinality(AllRooms)
  <2>1. NoStats(AllRooms).rooms = Cardinality(AllRooms)
    BY DEF NoStats
  <2> QED BY <1>1, <1>4, <2>1, NothingCounted
<1>6. Visited' = {}
  BY <1>1, <1>4 DEF Visited
<1>7. CountingOK'
  <2>1. uncounted' \subseteq AllRooms' /\ stats'.rooms = Cardinality(AllRooms')
    BY <1>1, <1>4, <1>5
  <2>2. Counted(stats', Visited')
    BY <1>5, <1>6
  <2>3. EventCounted'
    BY <1>1 DEF EventCounted, NoStats
  <2> QED BY <1>1, <2>1, <2>2, <2>3 DEF CountingOK
<1> QED
  BY <1>1, <1>2, <1>3, <1>7 DEF ReportsInvariant, SubjectOK, EventOK, FoundOK, AnsweringOK, vars

\* The room in evaluation is not among those visited.
LEMMA NextRoomKeeps == ReportsInvariant /\ NextRoom => ReportsInvariant'
<1> SUFFICES ASSUME ReportsInvariant, NextRoom PROVE ReportsInvariant'
  OBVIOUS
<1>1. PICK r \in uncounted : Call("connection", r) /\ uncounted' = uncounted \ {r}
  BY DEF NextRoom
<1>2. /\ UNCHANGED <<subject, event, history, found, answer, stats>>
      /\ task = "listed" /\ task' = "counting"
  BY DEF NextRoom
<1>3. uncounted \subseteq AllRooms /\ stats.rooms = Cardinality(AllRooms)
      /\ Counted(stats, Visited) /\ EventCounted
  BY <1>2 DEF ReportsInvariant, CountingOK
<1>4. AllRooms' = AllRooms
  BY <1>2 DEF AllRooms
<1>5. WellFormed(r)
  BY <1>3, RoomsApart DEF ReportsInvariant
<1>6. ScanInvariant' /\ room' = r /\ which' = "connection"
  BY <1>1, <1>5, CallStarts
<1>7. Visited' = Visited
  BY <1>1, <1>2, <1>3, <1>4, <1>6 DEF Visited
<1>8. room' \in AllRooms' \ uncounted' /\ uncounted' \subseteq AllRooms'
  BY <1>1, <1>3, <1>4, <1>6
<1>9. stats'.rooms = Cardinality(AllRooms') /\ Counted(stats', Visited') /\ EventCounted'
  BY <1>2, <1>3, <1>4, <1>7 DEF EventCounted
<1>10. CountingOK'
  BY <1>2, <1>8, <1>9 DEF CountingOK
<1>11. AnswerOK'
  BY <1>2, AnswerKept DEF ReportsInvariant, AnsweringOK
<1> QED
  BY <1>2, <1>6, <1>10, <1>11 DEF ReportsInvariant, SubjectOK, EventOK, FoundOK, AnsweringOK

\* The room that was evaluated has now been visited.
LEMMA CountRoomKeeps == ReportsInvariant /\ CountRoom => ReportsInvariant'
<1> SUFFICES ASSUME ReportsInvariant, CountRoom PROVE ReportsInvariant'
  OBVIOUS
<1>1. /\ UNCHANGED <<vars, subject, event, history, found, answer, uncounted>>
      /\ task = "counting" /\ which = "media" /\ result # Null
      /\ stats' = Count(stats, room, found, result, LastEvent(room))
      /\ task' = IF uncounted = {} THEN "reported" ELSE "listed"
  BY DEF CountRoom
<1>2. ScanInvariant'
  BY <1>1, ScanStep DEF ReportsInvariant
<1>3. AnswerOK'
  BY <1>1, AnswerKept DEF ReportsInvariant, AnsweringOK
<1>4. /\ uncounted \subseteq AllRooms /\ stats.rooms = Cardinality(AllRooms)
      /\ room \in AllRooms \ uncounted /\ Counted(stats, Visited) /\ EventCounted
  BY <1>1 DEF ReportsInvariant, CountingOK
<1>5. found = ConnectionOf(room) /\ result \in MediaOf(room)
  BY <1>1, ResultMeans DEF ReportsInvariant, FoundOK, Returned
<1>6. IsFiniteSet(Visited)
  BY FS_Subset, RoomsApart DEF Visited, ReportsInvariant
<1>7. room.status \in RoomStatuses /\ room.session \notin SessionsOf(Visited)
  BY <1>1, <1>4, RoomsApart DEF ReportsInvariant, Visited, SessionsOf, WellFormed
<1> DEFINE at == LastEvent(room)
           detail == Detail(room, ConnectionOf(room), result, at)
<1>8. /\ Counted(Count(stats, room, ConnectionOf(room), result, at), Visited \cup {room})
      /\ Count(stats, room, ConnectionOf(room), result, at).rooms = stats.rooms
      /\ Count(stats, room, ConnectionOf(room), result, at).details = stats.details \cup {detail}
  <2>1. at \in Nat
    BY DEF LastEvent, EventOK, ReportsInvariant
  <2> HIDE DEF at
  <2> QED BY <1>4, <1>5, <1>6, <1>7, <2>1, CountKeeps
<1>9. AllRooms' = AllRooms /\ Visited' = Visited \cup {room}
  BY <1>1, <1>4 DEF Visited, AllRooms, vars
<1>10. stats'.rooms = Cardinality(AllRooms') /\ Counted(stats', Visited')
  BY <1>1, <1>4, <1>5, <1>8, <1>9
<1>11. EventCounted'
  <2>1. stats'.details = stats.details \cup {detail}
    BY <1>1, <1>5, <1>8
  <2>2. detail.session = room.session /\ detail.event = OptionalTime(at)
    BY DEF Detail
  <2>3. room.session = subject.session => at = event
    BY <1>4, RoomsApart DEF ReportsInvariant, AllRooms, LastEvent
  <2>4. subject' = subject /\ event' = event
    BY <1>1
  <2> HIDE DEF detail, at
  <2>5. \A d \in stats'.details : d.session = subject.session => d.event = OptionalTime(event)
    BY <1>4, <2>1, <2>2, <2>3 DEF EventCounted
  <2> QED BY <2>4, <2>5 DEF EventCounted
<1>12. uncounted' \subseteq AllRooms' /\ (task' = "reported" => uncounted' = {})
       /\ task' \in {"reported", "listed"}
  BY <1>1, <1>4, <1>9
<1>13. CountingOK'
  BY <1>10, <1>11, <1>12 DEF CountingOK
<1> QED
  BY <1>1, <1>2, <1>3, <1>12, <1>13
  DEF ReportsInvariant, SubjectOK, EventOK, FoundOK, AnsweringOK, vars

\* Every step of the reports keeps the invariant.
LEMMA ReportsStep == ReportsInvariant /\ [ReportsNext]_reportVars => ReportsInvariant'
<1> SUFFICES ASSUME ReportsInvariant, [ReportsNext]_reportVars PROVE ReportsInvariant'
  OBVIOUS
<1>1. CASE UNCHANGED reportVars
  <2>1. UNCHANGED <<room, which, task, subject, event, history, found, answer, uncounted, stats>>
        /\ UNCHANGED vars
    BY <1>1 DEF reportVars, vars
  <2>2. ScanInvariant'
    BY <2>1, ScanStep DEF ReportsInvariant
  <2>3. (SubjectOK /\ EventOK /\ FoundOK)'
    BY <2>1 DEF ReportsInvariant, SubjectOK, EventOK, FoundOK
  <2>4. AnsweringOK'
    BY <2>1, AnswerKept DEF ReportsInvariant, AnsweringOK
  <2>5. CountingOK'
    BY <2>1 DEF ReportsInvariant, CountingOK, EventCounted, Visited, AllRooms
  <2> QED BY <2>2, <2>3, <2>4, <2>5 DEF ReportsInvariant
<1>2. CASE ReportsNext
  BY <1>2, EvaluateKeeps, ConnectionReturnsKeeps, GetSessionStatusKeeps,
     GetRuntimeStatsKeeps, NextRoomKeeps, CountRoomKeeps DEF ReportsNext
<1> QED BY <1>1, <1>2

\* At the end all rooms have been visited.
LEMMA ReportsShow ==
    ReportsInvariant => AnswerIsConsistent /\ StatsAddUp /\ StatsAgreeWithAnswer
<1> SUFFICES ASSUME ReportsInvariant
             PROVE  AnswerIsConsistent /\ StatsAddUp /\ StatsAgreeWithAnswer
  OBVIOUS
<1>1. AnswerIsConsistent
  <2>1. CASE answer = Null
    BY <2>1 DEF AnswerIsConsistent
  <2>2. CASE answer # Null
    BY <2>2, AnswerConsistent DEF ReportsInvariant, AnsweringOK, SubjectOK
  <2> QED BY <2>1, <2>2
<1>2. CASE task = "reported"
  <2>1. Visited = AllRooms
    BY <1>2 DEF ReportsInvariant, CountingOK, Visited
  <2>2. Counted(stats, AllRooms) /\ stats.rooms = Cardinality(AllRooms) /\ EventCounted
    BY <1>2, <2>1 DEF ReportsInvariant, CountingOK
  <2>3. StatsAddUp
    BY <2>2, CountedAddsUp DEF ReportsInvariant
  <2>4. StatsAgreeWithAnswer
    BY <1>2, <2>2, CountedAgrees DEF ReportsInvariant, AnsweringOK
  <2> QED BY <1>1, <2>3, <2>4
<1>3. CASE task # "reported"
  BY <1>1, <1>3 DEF StatsAddUp, StatsAgreeWithAnswer
<1> QED BY <1>2, <1>3

\* The projections of the rooms that are shown and counted are determined as
\* far as those of any room.
THEOREM ReportedProjectionsTheorem ==
    ReportsSpec =>
        [](ConnectionStateIsDetermined /\ MediaStateIsDetermined /\ FailedAgentTrackShows)
<1>1. ReportsInvariant =>
        ConnectionStateIsDetermined /\ MediaStateIsDetermined /\ FailedAgentTrackShows
  BY DEF ReportsInvariant, ScanInvariant
<1> QED
  BY ReportsStart, ReportsStep, <1>1, PTL DEF ReportsSpec

\* The answer to a status request lists every participant once, in order, and
\* its summary does not contradict the list, for any set of participants.
THEOREM AnswerTheorem == ReportsSpec => []AnswerIsConsistent
  BY ReportsStart, ReportsStep, ReportsShow, PTL DEF ReportsSpec

\* The load of the heartbeat adds up, for any rooms in any order.
THEOREM StatsTotalsTheorem == ReportsSpec => []StatsAddUp
  BY ReportsStart, ReportsStep, ReportsShow, PTL DEF ReportsSpec

\* The status request and the stats agree on the room they both read.
THEOREM StatsAgreeTheorem == ReportsSpec => []StatsAgreeWithAnswer
  BY ReportsStart, ReportsStep, ReportsShow, PTL DEF ReportsSpec
=============================================================================
