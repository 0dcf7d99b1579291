----------------------------- MODULE HTTPServer -----------------------------
(***************************************************************************)
(* A request on its way through cmd/api/http.go: RequestLogger, CORS,      *)
(* Recover, the routes, a handler of internal/adapter/in/http and the      *)
(* error handler, then back out.  RequestLogger and Recover put recorders  *)
(* of their own, statusRecorder and recoverRecorder, around the response   *)
(* writer; NewHTTPHandler leaves out the one that is nil.  Sentry is       *)
(* disabled, which makes it a pass-through.                                *)
(*                                                                         *)
(* What the handlers ask of the session service is in SessionService; here *)
(* a call has an outcome.  Of a body only its presence is kept.            *)
(***************************************************************************)
EXTENDS Naturals

CONSTANTS
    Conns,         \* connections of clients, each with a request at a time
    Asks,          \* Asks[c]: the routes that the client of c asks for
    Chains,        \* the sets of recorders that NewHTTPHandler may be given
    NoRequest      \* no request

VARIABLES
    recorders, \* those of recover and logger that are put in; never changes
    server,    \* http.Server: off, listening, refused (ListenAndServe has
               \* failed), draining (Shutdown), closed
    request    \* what is served on each connection

httpVars == <<recorders, server, request>>

\* visit: the path of a join without a WebSocket handshake.
Routes == {"preflight", "unknown", "health", "create", "status", "leave", "end",
           "join", "visit"}
Tokens == {"missing", "unknown", "incomplete", "foreign", "valid"}
Outcomes == {"none", "done", "degraded", "not_found", "invalid", "failed"}
Statuses == {0, 200, 201, 204, 400, 401, 404, 500, 503}
Steps == {"decode", "verify", "upgrade", "offer", "mode", "call", "answer", "reply", "error",
          "panic", "served", "aborted"}

\* sent: the status that the client gets (0: none yet); bodies: how many
\* bodies; recorded: the status in statusRecorder; torn: the handler has
\* returned an error although it had answered; hijacked: net/http has let go of it.
Requests == [route : Routes, step : Steps, outcome : Outcomes, sent : Statuses,
             bodies : Nat, recorded : Statuses, torn : BOOLEAN, hijacked : BOOLEAN]

ASSUME HTTPAssumption ==
    /\ NoRequest \notin Requests
    /\ Asks \in [Conns -> SUBSET Routes] /\ Chains \subseteq SUBSET {"recover", "logger"}

HTTPInit ==
    /\ recorders \in Chains
    /\ server = "off" /\ request = [c \in Conns |-> NoRequest]

-----------------------------------------------------------------------------

Over(r) == r # NoRequest => r.step \in {"served", "aborted"}

At(c, step) == request[c] # NoRequest /\ request[c].step = step

Update(c, r) == request' = [request EXCEPT ![c] = r] /\ UNCHANGED <<recorders, server>>

Goto(c, step) == Update(c, [request[c] EXCEPT !.step = step])

\* WriteHeader, and a body: the first status goes to the client, the last one
\* stays in statusRecorder; a hijacked connection takes neither.
Written(r, status, body) ==
    [r EXCEPT !.sent = IF @ = 0 /\ ~r.hijacked THEN status ELSE @,
              !.bodies = IF r.hijacked THEN @ ELSE @ + body,
              !.recorded = IF "logger" \in recorders THEN status ELSE @]

FirstStep(route) ==
    CASE route = "create" -> "decode"
      [] route = "health" -> "call"
      [] route \in {"join", "visit"} -> "upgrade"
      [] OTHER -> "verify"

NewRequest(route, step) ==
    [route |-> route, step |-> step, outcome |-> "none", sent |-> 0, bodies |-> 0,
     recorded |-> 200, torn |-> FALSE, hijacked |-> FALSE]

\* The way in: CORS answers a preflight, outside of Recover, and the two
\* ServeMux an unknown path.
Accept(c) ==
    /\ server = "listening" /\ Over(request[c])
    /\ \E route \in Asks[c] :
         Update(c, CASE route = "preflight" -> Written(NewRequest(route, "served"), 204, 0)
                     [] route = "unknown" -> Written(NewRequest(route, "served"), 404, 1)
                     [] OTHER -> NewRequest(route, FirstStep(route)))

\* The handler returns the error that NewHTTPErrorHandler answers with status.
HandleError(c, status) ==
    Update(c, [Written(request[c], status, 1) EXCEPT !.step = "served"])

\* Create: bind.JSON.
Decode(c) ==
    /\ At(c, "decode")
    /\ Goto(c, "call") \/ HandleError(c, 400)

\* Verifier.Verify, and the comparison with the session of the path.
Verified(token) == token \notin {"missing", "unknown", "incomplete"}
Matches(token) == Verified(token) /\ token # "foreign"

Verify(c) ==
    /\ At(c, "verify")
    /\ \E token \in Tokens :
         IF request[c].route = "join"
         THEN IF Matches(token) THEN Goto(c, "mode")
              ELSE Update(c, [request[c] EXCEPT !.step = "reply", !.outcome = "invalid"])
         ELSE IF Matches(token) THEN Goto(c, "call") ELSE HandleError(c, 401)

\* External: Upgrader.Upgrade answers a bad handshake itself, and needs a
\* response writer that can be hijacked, which neither recorder is.  Its
\* error goes to the error handler.
Refuse(c, status) ==
    Update(c, [Written(request[c], status, 1) EXCEPT !.step = "error", !.torn = TRUE])

Upgrade(c) ==
    /\ At(c, "upgrade")
    /\ CASE request[c].route = "visit" -> Refuse(c, 400)
         [] request[c].route = "join" /\ recorders # {} -> Refuse(c, 500)
         [] OTHER -> Update(c, [request[c] EXCEPT !.step = "offer", !.hijacked = TRUE])

\* Join: the offer is read and its type and SDP are looked at.
ReadOffer(c) ==
    /\ At(c, "offer")
    /\ \/ Goto(c, "verify")
       \/ Update(c, [request[c] EXCEPT !.step = "reply", !.outcome = "invalid"])

\* Join: to publish, which is the default, or to listen.
Modes == {"publisher", "listener", "other"}
KnownMode(mode) == mode # "other"

ParseMode(c) ==
    /\ At(c, "mode")
    /\ \E mode \in Modes :
         IF KnownMode(mode) THEN Goto(c, "call")
         ELSE Update(c, [request[c] EXCEPT !.step = "reply", !.outcome = "invalid"])

Dependencies == {"postgres", "redis"}

\* The health check: both answer, or the service is degraded.
Check(up) == IF \A d \in Dependencies : up[d] THEN "done" ELSE "degraded"

CallOutcomes(route) ==
    CASE route = "health" -> {Check(up) : up \in [Dependencies -> BOOLEAN]}
      [] route = "status" -> {"done", "not_found", "failed"}
      [] route = "join" -> {"done", "invalid", "failed"}
      [] OTHER -> {"done", "failed"}

\* The use case, the query or the health check.
Call(c) ==
    /\ At(c, "call")
    /\ \E outcome \in CallOutcomes(request[c].route) :
         Update(c, [request[c] EXCEPT
                      !.outcome = outcome,
                      !.step = IF request[c].route = "join" THEN "reply" ELSE "answer"])

AnswerStatus(r) ==
    CASE r.outcome = "done" -> IF r.route = "create" THEN 201 ELSE 200
      [] r.outcome = "degraded" -> 503
      [] r.outcome = "not_found" -> 404
      [] OTHER -> 500

\* response.WriteJSON, by the handler or by the error handler.  The header is
\* written first; what the handler returns when encoding fails is an error.
Answer(c) ==
    /\ At(c, "answer")
    /\ LET r == Written(request[c], AnswerStatus(request[c]), 1)
       IN \/ Update(c, [r EXCEPT !.step = "served"])
          \/ /\ request[c].outcome \in {"done", "degraded"}
             /\ \E step \in {"error", "panic"} :
                  Update(c, [r EXCEPT !.step = step, !.torn = step = "error"])

\* Join: the answer or an error message on the WebSocket, then conn.Close.
Reply(c) ==
    /\ At(c, "reply")
    /\ Goto(c, "served") \/ Update(c, [request[c] EXCEPT !.step = "error", !.torn = TRUE])

\* WithErrorHandler, for an error that is no AppError.
AnswerError(c) == At(c, "error") /\ HandleError(c, 500)

\* A handler, and the error handler around it, may panic wherever they run.
Panic(c) ==
    /\ request[c] # NoRequest
    /\ request[c].step \in {"decode", "verify", "upgrade", "offer", "mode", "call", "reply",
                            "error"}
    /\ Goto(c, "panic")

\* Mutant: Recover answers whether an answer has begun or not.
AnswerAlways(r) == TRUE

\* recoverRecorder.wroteHeader is not set.
NothingWritten(r) == r.sent = 0

\* Recover; without it, the panic leaves the pipeline unlogged and net/http
\* drops the connection.
Recover(c) ==
    /\ At(c, "panic")
    /\ IF "recover" \in recorders
       THEN IF NothingWritten(request[c]) THEN HandleError(c, 500) ELSE Goto(c, "served")
       ELSE Goto(c, "aborted")

Serve(c) ==
    \/ Accept(c) \/ Decode(c) \/ Verify(c) \/ Upgrade(c)
    \/ ReadOffer(c) \/ ParseMode(c) \/ Call(c) \/ Answer(c) \/ Reply(c) \/ AnswerError(c)
    \/ Panic(c) \/ Recover(c)

-----------------------------------------------------------------------------

\* A request that net/http still holds: Shutdown waits for it.
Running(r) == ~Over(r) /\ ~r.hijacked

\* The connections of which Shutdown sees that they are busy.
Busy == {c \in Conns : Running(request[c])}

\* The goroutine of OnStart: an error of ListenAndServe is logged, no more.
Listen ==
    /\ server = "off"
    /\ server' \in {"listening", "refused"}
    /\ UNCHANGED <<recorders, request>>

\* http.Server.Shutdown closes the listener ...
BeginShutdown ==
    /\ server \in {"listening", "refused"}
    /\ server' = "draining"
    /\ UNCHANGED <<recorders, request>>

\* Mutant: Close, which waits for nobody.
ShutdownAtOnce ==
    /\ server = "draining" /\ server' = "closed"
    /\ UNCHANGED <<recorders, request>>

\* ... and returns when no connection is busy; hijacked ones do not count.
FinishShutdown ==
    /\ server = "draining" /\ Busy = {}
    /\ server' = "closed"
    /\ UNCHANGED <<recorders, request>>

\* The process ends, and every connection with it.
Vanish ==
    /\ server' = "off" /\ request' = [c \in Conns |-> NoRequest]
    /\ UNCHANGED recorders

=============================================================================
