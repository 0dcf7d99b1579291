------------------------ MODULE ServerProcessProofs ------------------------
(***************************************************************************)
(* Proofs about ServerProcess, for any clients, interval, life of an entry *)
(* and number of failing reports.                                          *)
(***************************************************************************)
EXTENDS ServerProcess, ServerHeartbeatProofs

\* The steps of the process are steps of the heartbeat, or do not touch it.
LEMMA ProcessStepIsHeartbeatStep == [ProcessNext]_processVars => [Next]_vars
<1> SUFFICES ASSUME [ProcessNext]_processVars PROVE [Next]_vars
  OBVIOUS
<1>1. CASE UNCHANGED processVars
  BY <1>1 DEF processVars
<1>2. CASE StartProcess \/ StartHeartbeat \/ StopHeartbeat \/ FinishHeartbeat
  BY <1>2 DEF StartProcess, StartHeartbeat, StopHeartbeat, FinishHeartbeat, Next
<1>3. CASE StartHTTP \/ Stop \/ FlushSentry \/ FinishSweep \/ CancelEvents
  BY <1>3 DEF StartHTTP, Stop, FlushSentry, FinishSweep, CancelEvents
<1>4. CASE StopTimesOut \/ CrashProcess
  BY <1>4 DEF StopTimesOut, CrashProcess, Exit, Next
<1>5. CASE /\ TickDue \/ SaveReport \/ LoopExits \/ Expire \/ TimePasses
           /\ UNCHANGED <<stage, httpVars>>
  BY <1>5 DEF Next
<1>6. CASE UNCHANGED <<stage, vars>>
  BY <1>6
<1> QED
  BY <1>1, <1>2, <1>3, <1>4, <1>5, <1>6 DEF ProcessNext

\* The process, with its requests, its hooks in their order, its deadline and
\* its crashes, uses the registry as ServerHeartbeat says.
THEOREM ProcessImplementsHeartbeat == ProcessSpec => Spec
<1>1. ProcessInit => Init
  BY DEF ProcessInit
<1> QED
  BY <1>1, ProcessStepIsHeartbeatStep, PTL DEF ProcessSpec, Spec

\* So what is proved of the heartbeat holds in the process.
THEOREM ProcessUpIsKnown == ProcessSpec => []UpIsKnown
  BY ProcessImplementsHeartbeat, UpIsKnownTheorem, PTL

-----------------------------------------------------------------------------

\* What a request that is not hijacked has got on its way: nothing before the
\* handler answers, one answer after it, and after an error a second one.
Sound(r) ==
    /\ r.step \in {"offer", "mode", "reply"} => r.hijacked
    /\ r.route = "join" /\ r.step \in {"decode", "verify", "call"} => r.hijacked
    /\ ~r.hijacked =>
         /\ r.step \notin {"error", "panic", "served", "aborted"} =>
              r.sent = 0 /\ r.bodies = 0 /\ ~r.torn
         /\ r.step = "error" => r.sent # 0 /\ r.torn
         /\ r.step = "panic" /\ r.sent = 0 => r.bodies = 0 /\ ~r.torn
         /\ r.step = "panic" /\ ~r.torn =>
              /\ r.bodies <= 1
              /\ r.sent # 0 /\ "logger" \in recorders => r.recorded = r.sent
         /\ r.step = "served" => /\ r.sent # 0 /\ (r.bodies > 1 => r.torn)
                                 /\ ~r.torn /\ "logger" \in recorders => r.recorded = r.sent

RequestInvariant ==
    /\ request \in [Conns -> Requests \cup {NoRequest}]
    /\ \A c \in Conns : request[c] # NoRequest => Sound(request[c])

\* Nothing is served by a server that is off or closed, and the later hooks
\* are stopped only then.
StopInvariant ==
    /\ server \in {"off", "listening", "refused", "draining", "closed"}
    /\ server \in {"listening", "refused", "draining"} => phase = "up"
    /\ server \in {"off", "closed"} => Busy = {}
    /\ phase = "stopping" => stage = "reporting"
    /\ stage = "reporting" => server = "closed"
    /\ stage \in {"sweeping", "cancelling"} => server \in {"off", "closed"} /\ Halted
    /\ stage = "starting" => server = "off"
    /\ stage = "off" => server = "off" /\ Halted

\* A response is added to what the client and the log have got.
LEMMA WrittenFields ==
  ASSUME NEW r \in Requests, NEW status \in Statuses \ {0}, NEW body \in 0..1
  PROVE  LET w == Written(r, status, body)
         IN /\ w \in Requests
            /\ w.route = r.route /\ w.step = r.step /\ w.outcome = r.outcome
            /\ w.torn = r.torn /\ w.hijacked = r.hijacked
            /\ ~r.hijacked => /\ w.sent = (IF r.sent = 0 THEN status ELSE r.sent)
                              /\ w.sent # 0 /\ w.bodies = r.bodies + body
            /\ "logger" \in recorders => w.recorded = status
<1> DEFINE w == Written(r, status, body)
           sent == IF r.sent = 0 /\ ~r.hijacked THEN status ELSE r.sent
           bodies == IF r.hijacked THEN r.bodies ELSE r.bodies + body
           recorded == IF "logger" \in recorders THEN status ELSE r.recorded
<1>1. sent \in Statuses /\ bodies \in Nat /\ recorded \in Statuses
  BY DEF Requests
<1>2. w = [r EXCEPT !.sent = sent, !.bodies = bodies, !.recorded = recorded]
  BY DEF Written
<1> HIDE DEF sent, bodies, recorded
<1>3. /\ w \in Requests /\ w.route = r.route /\ w.step = r.step /\ w.outcome = r.outcome
      /\ w.torn = r.torn /\ w.hijacked = r.hijacked
      /\ w.sent = sent /\ w.bodies = bodies /\ w.recorded = recorded
  <2> HIDE DEF w
  <2> QED
    BY <1>1, <1>2 DEF Requests
<1> QED
  BY <1>3 DEF sent, bodies, recorded

\* A request goes on to another step, with an outcome, torn or not.
LEMMA StepFields ==
  ASSUME NEW r \in Requests, NEW step \in Steps
  PROVE  LET s == [r EXCEPT !.step = step]
         IN /\ s \in Requests /\ s.step = step
            /\ s.route = r.route /\ s.torn = r.torn /\ s.hijacked = r.hijacked
            /\ s.sent = r.sent /\ s.bodies = r.bodies /\ s.recorded = r.recorded
  BY DEF Requests

LEMMA OutcomeFields ==
  ASSUME NEW r \in Requests, NEW step \in Steps, NEW outcome \in Outcomes
  PROVE  LET s == [r EXCEPT !.step = step, !.outcome = outcome]
         IN /\ s \in Requests /\ s.step = step
            /\ s.route = r.route /\ s.torn = r.torn /\ s.hijacked = r.hijacked
            /\ s.sent = r.sent /\ s.bodies = r.bodies /\ s.recorded = r.recorded
  BY DEF Requests

LEMMA TornFields ==
  ASSUME NEW r \in Requests, NEW step \in Steps, NEW torn \in BOOLEAN
  PROVE  LET s == [r EXCEPT !.step = step, !.torn = torn]
         IN /\ s \in Requests /\ s.step = step
            /\ s.route = r.route /\ s.torn = torn /\ s.hijacked = r.hijacked
            /\ s.sent = r.sent /\ s.bodies = r.bodies /\ s.recorded = r.recorded
  BY DEF Requests

LEMMA HijackedFields ==
  ASSUME NEW r \in Requests, NEW step \in Steps, NEW hijacked \in BOOLEAN
  PROVE  LET s == [r EXCEPT !.step = step, !.hijacked = hijacked]
         IN s \in Requests /\ s.hijacked = hijacked
  BY DEF Requests

\* A step of one request keeps it sound and, unless it is its first one, does
\* not take a hijacked connection back.
GoodStep(c) ==
    \E r \in Requests :
        /\ Update(c, r) /\ Sound(r)
        /\ \/ server = "listening"
           \/ ~Over(request[c]) /\ (request[c].hijacked => r.hijacked)

LEMMA AcceptIsGood ==
  ASSUME RequestInvariant, NEW c \in Conns, Accept(c) PROVE GoodStep(c)
<1>1. PICK route \in Asks[c] :
        Update(c, CASE route = "preflight" -> Written(NewRequest(route, "served"), 204, 0)
                    [] route = "unknown" -> Written(NewRequest(route, "served"), 404, 1)
                    [] OTHER -> NewRequest(route, FirstStep(route)))
  BY DEF Accept
<1>2. route \in Routes /\ server = "listening"
  BY HTTPAssumption DEF Accept
<1>3. ASSUME NEW step \in Steps
      PROVE  LET n == NewRequest(route, step)
             IN /\ n \in Requests /\ n.route = route /\ n.step = step /\ n.sent = 0
                /\ n.bodies = 0 /\ n.torn = FALSE /\ n.hijacked = FALSE
  BY <1>2 DEF NewRequest, Requests, Outcomes, Statuses
<1>4. CASE route \in {"preflight", "unknown"}
  <2> DEFINE n == NewRequest(route, "served")
             status == IF route = "preflight" THEN 204 ELSE 404
             body == IF route = "preflight" THEN 0 ELSE 1
             w == Written(n, status, body)
  <2>1. n \in Requests /\ n.step = "served" /\ n.sent = 0 /\ n.bodies = 0 /\ n.torn = FALSE
        /\ n.hijacked = FALSE /\ n.route = route
    BY <1>3 DEF Steps
  <2>2. status \in Statuses \ {0} /\ body \in 0..1
    BY DEF Statuses
  <2>3. Update(c, w)
    BY <1>1, <1>4
  <2> HIDE DEF n, status, body
  <2>4. /\ w \in Requests /\ w.step = "served" /\ w.route = route /\ w.torn = FALSE
        /\ w.hijacked = FALSE /\ w.sent = status /\ w.sent # 0 /\ w.bodies = body
        /\ "logger" \in recorders => w.recorded = status
    BY <2>1, <2>2, WrittenFields
  <2> HIDE DEF w
  <2>5. Sound(w)
    BY <2>2, <2>4 DEF Sound
  <2> QED
    BY <1>2, <2>3, <2>4, <2>5 DEF GoodStep
<1>5. CASE route \notin {"preflight", "unknown"}
  <2> DEFINE n == NewRequest(route, FirstStep(route))
  <2>1. Update(c, n)
    BY <1>1, <1>5
  <2>2. /\ FirstStep(route) \in {"decode", "call", "upgrade", "verify"}
        /\ route = "join" => FirstStep(route) = "upgrade"
    BY DEF FirstStep
  <2>3. n \in Requests /\ n.step = FirstStep(route) /\ n.sent = 0 /\ n.bodies = 0
        /\ n.torn = FALSE /\ n.route = route
    <3>1. FirstStep(route) \in Steps
      BY <2>2 DEF Steps
    <3> QED
      BY <1>3, <3>1
  <2> HIDE DEF n
  <2>4. Sound(n)
    BY <2>2, <2>3 DEF Sound
  <2> QED
    BY <1>2, <2>1, <2>3, <2>4 DEF GoodStep
<1> QED
  BY <1>4, <1>5

\* A request that goes to a step without getting anything.
LEMMA GotoIsGood ==
  ASSUME RequestInvariant, NEW c \in Conns, NEW step \in Steps, Goto(c, step),
         request[c] # NoRequest, ~Over(request[c]),
         LET r == request[c]
         IN \/ r.hijacked
            \/ step = "call" /\ r.step \in {"decode", "verify"} /\ r.route # "join"
            \/ step = "panic" /\ r.step \in {"decode", "verify", "upgrade", "call", "error"}
            \/ r.step = "panic" /\ (step = "aborted" \/ (step = "served" /\ r.sent # 0))
  PROVE  GoodStep(c)
<1> DEFINE r == request[c]
           s == [r EXCEPT !.step = step]
<1>1. r \in Requests /\ Sound(r)
  BY DEF RequestInvariant
<1>2. Update(c, s)
  BY DEF Goto
<1>3. /\ s \in Requests /\ s.step = step /\ s.route = r.route /\ s.torn = r.torn
      /\ s.hijacked = r.hijacked /\ s.sent = r.sent /\ s.bodies = r.bodies
      /\ s.recorded = r.recorded
  BY <1>1, StepFields
<1> HIDE DEF s
<1>4. Sound(s)
  <2>1. CASE r.hijacked
    BY <1>3, <2>1 DEF Sound
  <2>2. CASE step = "call" /\ r.step \in {"decode", "verify"} /\ r.route # "join"
    BY <1>1, <1>3, <2>2 DEF Sound
  <2>3. CASE step = "panic" /\ r.step \in {"decode", "verify", "upgrade", "call", "error"}
    <3>1. r.bodies \in Nat
      BY <1>1 DEF Requests
    <3> QED
      BY <1>1, <1>3, <2>3, <3>1 DEF Sound
  <2>4. CASE r.step = "panic" /\ (step = "aborted" \/ (step = "served" /\ r.sent # 0))
    <3>1. r.bodies \in Nat
      BY <1>1 DEF Requests
    <3> QED
      BY <1>1, <1>3, <2>4, <3>1 DEF Sound
  <2> QED
    BY <2>1, <2>2, <2>3, <2>4
<1> QED
  BY <1>2, <1>3, <1>4 DEF GoodStep

\* The error handler and Recover: the answer ends the request.
LEMMA HandleErrorIsGood ==
  ASSUME RequestInvariant, NEW c \in Conns, NEW status \in Statuses \ {0},
         HandleError(c, status), request[c] # NoRequest, ~Over(request[c]),
         request[c].step # "panic" \/ request[c].sent = 0
  PROVE  GoodStep(c)
<1> DEFINE r == request[c]
           w == Written(r, status, 1)
           s == [w EXCEPT !.step = "served"]
<1>1. r \in Requests /\ Sound(r) /\ "served" \in Steps /\ 1 \in 0..1
  BY DEF RequestInvariant, Steps
<1>2. Update(c, s)
  BY DEF HandleError
<1>3. /\ w \in Requests /\ w.route = r.route /\ w.torn = r.torn /\ w.hijacked = r.hijacked
      /\ ~r.hijacked => /\ w.sent = (IF r.sent = 0 THEN status ELSE r.sent)
                        /\ w.sent # 0 /\ w.bodies = r.bodies + 1
      /\ "logger" \in recorders => w.recorded = status
  BY <1>1, WrittenFields
<1> HIDE DEF w
<1>4. /\ s \in Requests /\ s.step = "served" /\ s.route = w.route /\ s.torn = w.torn
      /\ s.hijacked = w.hijacked /\ s.sent = w.sent /\ s.bodies = w.bodies
      /\ s.recorded = w.recorded
  BY <1>1, <1>3, StepFields
<1> HIDE DEF s
<1>5. Sound(s)
  <2>1. CASE r.hijacked
    BY <1>3, <1>4, <2>1 DEF Sound
  <2>2. CASE ~r.hijacked /\ r.step = "error"
    BY <1>1, <1>3, <1>4, <2>2 DEF Sound
  <2>3. CASE ~r.hijacked /\ r.step # "error"
    <3>1. r.sent = 0 /\ r.bodies = 0
      BY <1>1, <2>3 DEF Sound, Over
    <3>2. s.bodies = 1 /\ s.sent = status /\ s.sent # 0
          /\ ("logger" \in recorders => s.recorded = status)
      BY <1>3, <1>4, <2>3, <3>1
    <3> QED
      BY <1>4, <3>2 DEF Sound
  <2> QED
    BY <2>1, <2>2, <2>3
<1> QED
  BY <1>2, <1>3, <1>4, <1>5 DEF GoodStep

\* Whatever becomes of a request on a hijacked connection.
LEMMA HijackedIsGood ==
  ASSUME RequestInvariant, NEW c \in Conns, NEW s \in Requests, Update(c, s),
         ~Over(request[c]), s.hijacked = TRUE
  PROVE  GoodStep(c)
  BY DEF Sound, GoodStep

\* Decode and Verify of a request on HTTP, the two checks of a handler.
LEMMA CheckIsGood ==
  ASSUME RequestInvariant, NEW c \in Conns, Decode(c) \/ Verify(c)
  PROVE  GoodStep(c)
<1> DEFINE r == request[c]
<1>1. /\ r # NoRequest /\ ~Over(r) /\ r \in Requests /\ Sound(r)
      /\ r.step \in {"decode", "verify"}
  BY DEF Decode, Verify, At, Over, RequestInvariant
<1>2. {400, 401} \subseteq Statuses \ {0} /\ {"call", "mode", "reply"} \subseteq Steps /\ "invalid" \in Outcomes
  BY DEF Statuses, Steps, Outcomes
<1>3. CASE HandleError(c, 400) \/ HandleError(c, 401)
  BY <1>1, <1>2, <1>3, HandleErrorIsGood
<1>4. CASE Goto(c, "call") /\ r.route # "join"
  BY <1>1, <1>2, <1>4, GotoIsGood
<1>5. CASE (Goto(c, "call") \/ Goto(c, "mode")) /\ r.route = "join"
  <2>1. r.hijacked
    BY <1>1, <1>5 DEF Sound
  <2> QED
    BY <1>1, <1>2, <1>5, <2>1, GotoIsGood
<1>6. CASE /\ Update(c, [r EXCEPT !.step = "reply", !.outcome = "invalid"])
           /\ Verify(c) /\ r.route = "join"
  <2> DEFINE s == [r EXCEPT !.step = "reply", !.outcome = "invalid"]
  <2>1. r.hijacked = TRUE
    BY <1>1, <1>6 DEF Sound, Verify, At, Requests
  <2>2. s \in Requests /\ s.hijacked = TRUE
    <3>1. r \in Requests /\ "reply" \in Steps /\ "invalid" \in Outcomes
      BY <1>1, <1>2
    <3> HIDE DEF r
    <3> QED
      BY <2>1, <3>1, OutcomeFields
  <2> QED
    BY <1>1, <1>6, <2>2, HijackedIsGood
<1> QED
  BY <1>3, <1>4, <1>5, <1>6 DEF Decode, Verify

\* The handshake: refused, after an answer, or the connection is hijacked.
LEMMA UpgradeIsGood ==
  ASSUME RequestInvariant, NEW c \in Conns, Upgrade(c) PROVE GoodStep(c)
<1> DEFINE r == request[c]
<1>1. /\ r # NoRequest /\ ~Over(r) /\ r \in Requests /\ Sound(r) /\ r.step = "upgrade"
  BY DEF Upgrade, At, Over, RequestInvariant
<1>2. /\ {400, 500} \subseteq Statuses \ {0} /\ "error" \in Steps /\ "offer" \in Steps
      /\ 1 \in 0..1 /\ TRUE \in BOOLEAN
  BY DEF Statuses, Steps
<1>3. ASSUME NEW status \in {400, 500}, Refuse(c, status)
      PROVE  GoodStep(c)
  <2> DEFINE w == Written(r, status, 1)
             s == [w EXCEPT !.step = "error", !.torn = TRUE]
  <2>1. status \in Statuses \ {0} /\ 1 \in 0..1 /\ "error" \in Steps /\ TRUE \in BOOLEAN
    BY <1>2
  <2>2. /\ w \in Requests /\ w.route = r.route /\ w.torn = r.torn /\ w.hijacked = r.hijacked
        /\ ~r.hijacked => /\ w.sent = (IF r.sent = 0 THEN status ELSE r.sent)
                          /\ w.sent # 0 /\ w.bodies = r.bodies + 1
        /\ "logger" \in recorders => w.recorded = status
    BY <1>1, <2>1, WrittenFields
  <2>3. Update(c, s)
    BY <1>3 DEF Refuse
  <2> HIDE DEF w
  <2>4. s = [w EXCEPT !.step = "error", !.torn = TRUE]
    OBVIOUS
  <2> HIDE DEF s
  <2>5. /\ s \in Requests /\ s.step = "error"
        /\ s.route = w.route /\ s.torn = TRUE /\ s.hijacked = w.hijacked
        /\ s.sent = w.sent /\ s.bodies = w.bodies /\ s.recorded = w.recorded
    <3>1. w \in Requests /\ "error" \in Steps /\ TRUE \in BOOLEAN
      BY <2>1, <2>2
    <3> QED
      BY <2>4, <3>1 DEF Requests
  <2>6. Sound(s)
    BY <2>2, <2>5 DEF Sound
  <2> QED
    BY <1>1, <2>2, <2>3, <2>5, <2>6 DEF GoodStep
<1>4. CASE Update(c, [r EXCEPT !.step = "offer", !.hijacked = TRUE])
  <2> DEFINE s == [r EXCEPT !.step = "offer", !.hijacked = TRUE]
  <2>1. s \in Requests /\ s.hijacked = TRUE
    <3>1. r \in Requests /\ "offer" \in Steps /\ TRUE \in BOOLEAN
      BY <1>1, <1>2
    <3> HIDE DEF r
    <3> QED
      BY <3>1, HijackedFields
  <2> QED
    BY <1>1, <1>4, <2>1, HijackedIsGood
<1> QED
  BY <1>3, <1>4 DEF Upgrade

\* What a join does on its WebSocket.
LEMMA JoinIsGood ==
  ASSUME RequestInvariant, NEW c \in Conns, ReadOffer(c) \/ ParseMode(c) \/ Reply(c)
  PROVE  GoodStep(c)
<1> DEFINE r == request[c]
<1>1. /\ r # NoRequest /\ ~Over(r) /\ r \in Requests /\ r.hijacked = TRUE
  BY DEF ReadOffer, ParseMode, Reply, At, Over, RequestInvariant, Sound, Requests
<1>2. "invalid" \in Outcomes /\ {"verify", "call", "served", "reply", "error"} \subseteq Steps
  BY DEF Outcomes, Steps
<1>3. CASE Goto(c, "verify") \/ Goto(c, "call") \/ Goto(c, "served")
  BY <1>1, <1>2, <1>3, GotoIsGood
<1>4. CASE Update(c, [r EXCEPT !.step = "reply", !.outcome = "invalid"])
  <2> DEFINE s == [r EXCEPT !.step = "reply", !.outcome = "invalid"]
  <2>1. s \in Requests /\ s.hijacked = TRUE
    <3>1. r \in Requests /\ r.hijacked = TRUE /\ "reply" \in Steps /\ "invalid" \in Outcomes
      BY <1>1, <1>2
    <3> HIDE DEF r
    <3> QED
      BY <3>1, OutcomeFields
  <2> QED
    BY <1>1, <1>4, <2>1, HijackedIsGood
<1>5. CASE Update(c, [r EXCEPT !.step = "error", !.torn = TRUE])
  <2> DEFINE s == [r EXCEPT !.step = "error", !.torn = TRUE]
  <2>1. s \in Requests /\ s.hijacked = TRUE
    <3>1. r \in Requests /\ r.hijacked = TRUE /\ "error" \in Steps /\ TRUE \in BOOLEAN
      BY <1>1, <1>2
    <3> HIDE DEF r
    <3> QED
      BY <3>1, TornFields
  <2> QED
    BY <1>1, <1>5, <2>1, HijackedIsGood
<1> QED
  BY <1>3, <1>4, <1>5 DEF ReadOffer, ParseMode, Reply

\* The call of the service.
LEMMA CallIsGood ==
  ASSUME RequestInvariant, NEW c \in Conns, Call(c) PROVE GoodStep(c)
<1> DEFINE r == request[c]
           step == IF r.route = "join" THEN "reply" ELSE "answer"
<1>1. /\ r # NoRequest /\ ~Over(r) /\ r \in Requests /\ Sound(r) /\ r.step = "call"
  BY DEF Call, At, Over, RequestInvariant
<1>2. PICK outcome \in CallOutcomes(r.route) :
        Update(c, [r EXCEPT !.outcome = outcome, !.step = step])
  BY DEF Call
<1>3. outcome \in Outcomes /\ step \in Steps
  BY DEF CallOutcomes, Check, Outcomes, Steps
<1> DEFINE s == [r EXCEPT !.outcome = outcome, !.step = step]
<1>4. Update(c, s)
  BY <1>2
<1> HIDE DEF step
<1>5. s = [r EXCEPT !.outcome = outcome, !.step = step]
  OBVIOUS
<1> HIDE DEF s
<1>6. /\ s \in Requests /\ s.step = step
      /\ s.route = r.route /\ s.torn = r.torn /\ s.hijacked = r.hijacked
      /\ s.sent = r.sent /\ s.bodies = r.bodies /\ s.recorded = r.recorded
  BY <1>1, <1>3, <1>5 DEF Requests
<1>7. Sound(s)
  BY <1>1, <1>6 DEF Sound, step
<1> QED
  BY <1>1, <1>4, <1>6, <1>7 DEF GoodStep

\* The answer: it ends the request, or the handler fails or panics after it.
LEMMA AnswerIsGood ==
  ASSUME RequestInvariant, NEW c \in Conns, Answer(c) PROVE GoodStep(c)
<1> DEFINE r == request[c]
           status == AnswerStatus(r)
           w == Written(r, status, 1)
<1>1. /\ r # NoRequest /\ ~Over(r) /\ r \in Requests /\ Sound(r) /\ r.step = "answer"
  BY DEF Answer, At, Over, RequestInvariant
<1>2. status \in Statuses \ {0} /\ 1 \in 0..1
  BY DEF AnswerStatus, Statuses
<1>3. PICK step \in {"served", "error", "panic"} :
        \/ step = "served" /\ Update(c, [w EXCEPT !.step = step])
        \/ step # "served" /\ Update(c, [w EXCEPT !.step = step, !.torn = step = "error"])
  BY DEF Answer
<1> HIDE DEF status
<1>4. /\ w \in Requests /\ w.route = r.route /\ w.step = r.step /\ w.outcome = r.outcome
      /\ w.torn = r.torn /\ w.hijacked = r.hijacked
      /\ ~r.hijacked => /\ w.sent = (IF r.sent = 0 THEN status ELSE r.sent)
                        /\ w.sent # 0 /\ w.bodies = r.bodies + 1
      /\ "logger" \in recorders => w.recorded = status
  BY <1>1, <1>2, WrittenFields
<1> HIDE DEF w
<1>5. step \in Steps
  BY DEF Steps
<1>6. ASSUME NEW s \in Requests, Update(c, s), s.step = step, s.route = w.route,
             s.hijacked = w.hijacked, s.sent = w.sent, s.bodies = w.bodies,
             s.recorded = w.recorded,
             IF step = "error" THEN s.torn = TRUE ELSE s.torn = FALSE \/ s.torn = r.torn
      PROVE  GoodStep(c)
  <2>1. CASE r.hijacked
    <3>1. Sound(s)
      BY <1>4, <1>6, <2>1 DEF Sound
    <3> QED
      BY <1>1, <1>4, <1>6, <3>1 DEF GoodStep
  <2>2. CASE ~r.hijacked
    <3>1. ~r.torn /\ r.sent = 0 /\ r.bodies = 0
      BY <1>1, <2>2 DEF Sound
    <3>2. s.sent = status /\ s.sent # 0 /\ s.bodies = 1 /\ (step # "error" => ~s.torn)
      BY <1>4, <1>6, <2>2, <3>1
    <3>3. Sound(s)
      BY <1>4, <1>6, <2>2, <3>2 DEF Sound
    <3> QED
      BY <1>1, <1>4, <1>6, <2>2, <3>3 DEF GoodStep
  <2> QED
    BY <2>1, <2>2
<1>7. CASE Update(c, [w EXCEPT !.step = step]) /\ step = "served"
  <2> DEFINE s == [w EXCEPT !.step = step]
  <2>1. /\ s \in Requests /\ s.step = step
        /\ s.route = w.route /\ s.torn = w.torn /\ s.hijacked = w.hijacked
        /\ s.sent = w.sent /\ s.bodies = w.bodies /\ s.recorded = w.recorded
    BY <1>4, <1>5, StepFields
  <2> HIDE DEF s
  <2> QED
    BY <1>4, <1>6, <1>7, <2>1 DEF s
<1>8. CASE step # "served" /\ Update(c, [w EXCEPT !.step = step, !.torn = step = "error"])
  <2> DEFINE torn == step = "error"
             s == [w EXCEPT !.step = step, !.torn = torn]
  <2>1. Update(c, s) /\ torn \in BOOLEAN
    BY <1>8
  <2> HIDE DEF torn
  <2>2. s = [w EXCEPT !.step = step, !.torn = torn]
    OBVIOUS
  <2> HIDE DEF s
  <2>3. /\ s \in Requests /\ s.step = step
        /\ s.route = w.route /\ s.torn = torn /\ s.hijacked = w.hijacked
        /\ s.sent = w.sent /\ s.bodies = w.bodies /\ s.recorded = w.recorded
    BY <1>4, <1>5, <2>1, <2>2 DEF Requests
  <2> QED
    BY <1>6, <2>1, <2>3 DEF torn
<1> QED
  BY <1>3, <1>7, <1>8

\* The ways out after an error or a panic.
LEMMA EndIsGood ==
  ASSUME RequestInvariant, NEW c \in Conns, AnswerError(c) \/ Panic(c) \/ Recover(c)
  PROVE  GoodStep(c)
<1> DEFINE r == request[c]
<1>1. /\ r # NoRequest /\ r \in Requests /\ Sound(r) /\ ~Over(r)
  BY DEF AnswerError, Panic, Recover, At, Over, RequestInvariant
<1>2. 500 \in Statuses \ {0} /\ {"panic", "served", "aborted"} \subseteq Steps
  BY DEF Statuses, Steps
<1>3. CASE AnswerError(c)
  BY <1>1, <1>2, <1>3, HandleErrorIsGood DEF AnswerError, At
<1>4. CASE Panic(c)
  <2>1. /\ Goto(c, "panic")
        /\ r.step \in {"decode", "verify", "upgrade", "offer", "mode", "call", "reply", "error"}
    BY <1>4 DEF Panic
  <2>2. r.hijacked \/ r.step \in {"decode", "verify", "upgrade", "call", "error"}
    BY <1>1, <2>1 DEF Sound
  <2> QED
    BY <1>1, <1>2, <2>1, <2>2, GotoIsGood
<1>5. CASE Recover(c)
  <2>1. CASE HandleError(c, 500) /\ r.sent = 0
    BY <1>1, <1>2, <2>1, HandleErrorIsGood
  <2>2. CASE Goto(c, "served") /\ r.sent # 0 /\ r.step = "panic"
    BY <1>1, <1>2, <2>2, GotoIsGood
  <2>3. CASE Goto(c, "aborted") /\ r.step = "panic"
    BY <1>1, <1>2, <2>3, GotoIsGood
  <2> QED
    BY <1>5, <2>1, <2>2, <2>3 DEF Recover, At, NothingWritten
<1> QED
  BY <1>3, <1>4, <1>5

\* Every step of a request.
LEMMA ServeIsGood ==
  ASSUME RequestInvariant, NEW c \in Conns, Serve(c) PROVE GoodStep(c)
  BY AcceptIsGood, CheckIsGood, UpgradeIsGood, JoinIsGood, CallIsGood, AnswerIsGood, EndIsGood
     DEF Serve

\* So requests stay sound, and when the server accepts no more, no idle
\* connection becomes busy.
LEMMA ServeKeeps ==
  ASSUME RequestInvariant, NEW c \in Conns, Serve(c)
  PROVE  /\ RequestInvariant' /\ server' = server
         /\ server # "listening" /\ Busy = {} => Busy' = {}
<1>1. PICK r \in Requests :
        /\ Update(c, r) /\ Sound(r)
        /\ \/ server = "listening"
           \/ ~Over(request[c]) /\ (request[c].hijacked => r.hijacked)
  BY ServeIsGood DEF GoodStep
<1>2. /\ request' = [request EXCEPT ![c] = r]
      /\ recorders' = recorders /\ server' = server
  BY <1>1 DEF Update
<1>3. /\ request' \in [Conns -> Requests \cup {NoRequest}] /\ request'[c] = r
      /\ \A d \in Conns \ {c} : request'[d] = request[d]
  BY <1>2 DEF RequestInvariant
<1>4. RequestInvariant'
  BY <1>1, <1>2, <1>3 DEF RequestInvariant, Sound
<1>5. ASSUME server # "listening", Busy = {} PROVE Busy' = {}
  <2>1. ~Over(request[c]) /\ (request[c].hijacked => r.hijacked)
    BY <1>1, <1>5
  <2>2. \A d \in Conns : ~Running(request[d])
    BY <1>5 DEF Busy
  <2>3. r.hijacked
    BY <2>1, <2>2 DEF Running
  <2>4. \A d \in Conns : ~Running(request'[d])
    BY <1>3, <2>2, <2>3 DEF Running
  <2> QED
    BY <2>4 DEF Busy, Running, Over
<1> QED
  BY <1>2, <1>4, <1>5

\* No step of the heartbeat, of the hooks or of the exit disturbs a request.
LEMMA HooksKeepRequests ==
  ASSUME RequestInvariant, UNCHANGED <<recorders, request>> \/ Vanish
  PROVE  RequestInvariant'
<1>1. CASE UNCHANGED <<recorders, request>>
  BY <1>1 DEF RequestInvariant, Sound
<1>2. CASE Vanish
  BY <1>2 DEF Vanish, RequestInvariant
<1> QED
  BY <1>1, <1>2

LEMMA ProcessInitInvariant == ProcessInit => RequestInvariant /\ StopInvariant
<1> SUFFICES ASSUME ProcessInit PROVE RequestInvariant /\ StopInvariant
  OBVIOUS
<1>1. server = "off" /\ stage = "off" /\ phase = "down" /\ request = [c \in Conns |-> NoRequest]
  BY DEF ProcessInit, HTTPInit, Init
<1>2. RequestInvariant
  BY <1>1 DEF RequestInvariant
<1>3. Busy = {}
  BY <1>1 DEF Busy, Running, Over
<1> QED
  BY <1>1, <1>2, <1>3 DEF StopInvariant, Halted

\* Every step of the process keeps the order of the stop.
LEMMA ProcessNextInvariant ==
  RequestInvariant /\ StopInvariant /\ [ProcessNext]_processVars
    => RequestInvariant' /\ StopInvariant'
<1> SUFFICES ASSUME RequestInvariant, StopInvariant, [ProcessNext]_processVars
             PROVE  RequestInvariant' /\ StopInvariant'
  OBVIOUS
<1>1. CASE UNCHANGED processVars
  BY <1>1, HooksKeepRequests
     DEF processVars, httpVars, vars, StopInvariant, Busy, Running, Over, Halted
<1>2. CASE StartProcess
  BY <1>2, HooksKeepRequests
     DEF StartProcess, Start, httpVars, StopInvariant, Busy, Running, Over, Halted
<1>3. CASE StartHeartbeat
  <2>1. /\ UNCHANGED <<recorders, request, server>> /\ stage = "starting"
        /\ phase' \in {"up", "down"} /\ stage' = (IF phase' = "up" THEN "starting" ELSE "sweeping")
    BY <1>3 DEF StartHeartbeat, FirstReport, httpVars
  <2>2. Busy' = Busy
    BY <2>1 DEF Busy, Running, Over
  <2> QED
    BY <2>1, <2>2, HooksKeepRequests DEF StopInvariant, Halted
<1>4. CASE StartHTTP
  BY <1>4, HooksKeepRequests DEF StartHTTP, Listen, vars, StopInvariant, Halted
<1>5. CASE Stop
  BY <1>5, HooksKeepRequests DEF Stop, BeginShutdown, vars, StopInvariant, Halted
<1>6. CASE FlushSentry \/ StopHeartbeat \/ FinishHeartbeat \/ FinishSweep
  <2>1. /\ UNCHANGED <<recorders, request, server>>
        /\ \/ /\ stage = "stopping" /\ stage' = "reporting"
              /\ server = "closed" /\ phase' = phase
           \/ stage = "reporting" /\ stage' = stage /\ phase' = "stopping"
           \/ /\ stage = "reporting" /\ stage' = "sweeping"
              /\ phase = "stopping" /\ phase' = "down"
           \/ stage = "sweeping" /\ stage' = "cancelling" /\ phase' = phase
    BY <1>6 DEF FlushSentry, StopHeartbeat, FinishHeartbeat, FinishSweep,
                BeginStop, ReportOffline, httpVars, vars
  <2>2. Busy' = Busy
    BY <2>1 DEF Busy, Running, Over
  <2> QED
    BY <2>1, <2>2, HooksKeepRequests DEF StopInvariant, Halted
<1>7. CASE CancelEvents \/ StopTimesOut \/ CrashProcess
  <2>1. Vanish /\ stage' = "off" /\ phase' \in {"down", "dead"}
    BY <1>7 DEF CancelEvents, StopTimesOut, CrashProcess, Exit, Crash, Halted, vars, StopInvariant
  <2>2. server' = "off" /\ Busy' = {}
    BY <2>1 DEF Vanish, Busy, Running, Over
  <2> QED
    BY <2>1, <2>2, HooksKeepRequests DEF StopInvariant, Halted
<1>8. CASE FinishShutdown /\ stage = "stopping" /\ UNCHANGED <<stage, vars>>
  <2>1. /\ UNCHANGED <<recorders, request, stage, phase>> /\ server' = "closed"
        /\ Busy = {} /\ stage = "stopping"
    BY <1>8 DEF FinishShutdown, vars
  <2>2. Busy' = {}
    BY <2>1 DEF Busy, Running, Over
  <2> QED
    BY <2>1, <2>2, HooksKeepRequests DEF StopInvariant, Halted
<1>9. CASE \E c \in Conns : Serve(c) /\ UNCHANGED <<stage, vars>>
  BY <1>9, ServeKeeps DEF vars, StopInvariant, Halted
<1>10. CASE /\ TickDue \/ SaveReport \/ LoopExits \/ Expire \/ TimePasses
            /\ UNCHANGED <<stage, httpVars>>
  <2>1. UNCHANGED <<recorders, request, server, stage, phase>>
    BY <1>10 DEF TickDue, SaveReport, LoopExits, Expire, TimePasses, httpVars
  <2>2. Busy' = Busy
    BY <2>1 DEF Busy, Running, Over
  <2> QED
    BY <2>1, <2>2, HooksKeepRequests DEF StopInvariant, Halted
<1> QED
  BY <1>1, <1>2, <1>3, <1>4, <1>5, <1>6, <1>7, <1>8, <1>9, <1>10 DEF ProcessNext

\* No request runs in the later hooks, whatever the clients and the faults.
THEOREM SweepIsAloneTheorem == ProcessSpec => []SweepIsAlone
<1>1. StopInvariant => SweepIsAlone
  BY DEF StopInvariant, SweepIsAlone
<1> QED
  BY <1>1, ProcessInitInvariant, ProcessNextInvariant, PTL DEF ProcessSpec

\* Every request gets one answer, and a second one only after an error.
THEOREM AnswerTheorem == ProcessSpec => []AnswerIsWhole
<1>1. RequestInvariant => AnswerIsWhole
  BY DEF RequestInvariant, AnswerIsWhole, Sound
<1> QED
  BY <1>1, ProcessInitInvariant, ProcessNextInvariant, PTL DEF ProcessSpec

\* The request log tells what the clients got.
THEOREM LogTheorem == ProcessSpec => []LoggedStatusIsSent
<1>1. RequestInvariant => LoggedStatusIsSent
  BY DEF RequestInvariant, LoggedStatusIsSent, Sound
<1> QED
  BY <1>1, ProcessInitInvariant, ProcessNextInvariant, PTL DEF ProcessSpec

\* A server that works on a request is up, so it is in the registry.
THEOREM ServesTheorem == ProcessSpec => []ServesWhileListed
<1>1. StopInvariant /\ UpIsKnown => ServesWhileListed
  BY DEF StopInvariant, UpIsKnown, ServesWhileListed
<1> QED
  BY <1>1, ProcessInitInvariant, ProcessNextInvariant, ProcessUpIsKnown, PTL DEF ProcessSpec
=============================================================================
