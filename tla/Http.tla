-------------------------------- MODULE Http --------------------------------
(***************************************************************************)
(* A request in the HTTP servers of both starters: the hooks of the global *)
(* middleware and of the auth plugins in the order Elysia (external) runs  *)
(* them, the health probes, the tracing wrapper around an operation, and   *)
(* the error boundary.  Requests are served concurrently; a hook without   *)
(* an await is a step.  Feature routes are what the starters are made for: *)
(* a handler that awaits one traced operation.                             *)
(***************************************************************************)
EXTENDS Naturals, FiniteSets

CONSTANTS
  Requests,    \* bound: requests in flight
  Starters     \* the starters: TRUE is the clean one, FALSE the Mongo one

ASSUME StartersAssumption == Starters \subseteq BOOLEAN

VARIABLES
  clean,       \* whose server this is
  req          \* the requests

vars == <<clean, req>>

Pools == {"write", "read"}     \* the Mongo starter has one, "write"
Probes == {"health", "ready", "live"}
Access == {"public", "private", "cms"}
Routes == Probes \cup Access \cup {"unmatched"}

NoId == <<"none">>
Unknown == <<"unknown">>
Own(r) == <<"id", r>>          \* from the request's header, or generated for it

\* A slot for a request; `ctx' is what AsyncLocalStorage holds for it, `lines'
\* what was logged, `answers' the pools that answered it, even late.
Fresh ==
  [phase |-> "idle", route |-> "live", given |-> FALSE, ctx |-> NoId,
   user |-> "nobody", lines |-> {},
   ping |-> [p \in Pools |-> "none"], answers |-> {},
   runs |-> 0, ok |-> FALSE,
   err |-> "none", status |-> 0, id |-> NoId]

Init == clean \in Starters /\ req = [r \in Requests |-> Fresh]

\* Request r goes on, with some fields changed.
At(r, phase) == req[r].phase = phase
To(r, new) == req' = [req EXCEPT ![r] = new] /\ UNCHANGED clean
Goes(r, phase) == To(r, [req[r] EXCEPT !.phase = phase])
Throws(r, code) == To(r, [req[r] EXCEPT !.phase = "error", !.err = code])

\* The Mongo starter mounts its probes before the global hooks, which skip them.
Hooked(r) == clean \/ req[r].route \notin Probes

-----------------------------------------------------------------------------
(* The hooks *)

\* `given': it brings an id.  Only the Mongo starter's error boundary asks again.
Arrives(r) ==
  /\ req[r].phase \in {"idle", "done"}
  /\ \E route \in IF clean THEN Routes ELSE Routes \ {"live"},
        given \in IF clean THEN {FALSE} ELSE BOOLEAN :
       To(r, [Fresh EXCEPT !.phase = "request", !.route = route, !.given = given])

\* onRequest: the clean starter's body limit, before routing
OnRequest(r) ==
  /\ At(r, "request")
  /\ \/ clean /\ Throws(r, "PAYLOAD_TOO_LARGE")
     \/ IF req[r].route = "unmatched" THEN Throws(r, "NOT_FOUND") ELSE Goes(r, "parse")

\* onParse, where the Mongo starter's body limit is, and the parser
OnParse(r) ==
  /\ At(r, "parse")
  /\ \/ req[r].route \in Access /\ Throws(r, "PARSE")
     \/ req[r].route \in Access /\ ~clean /\ Throws(r, "PAYLOAD_TOO_LARGE")
     \/ Goes(r, IF Hooked(r) THEN "derive" ELSE "handler")

\* Mutant: the context is one variable of the module.
SetContextOfAll(r) ==
  req' = [q \in Requests |->
           [req[q] EXCEPT !.ctx = Own(r), !.phase = IF q = r THEN "auth" ELSE @]]

\* setRequestContext(): enterWith() reaches this request's async calls only.
SetContext(r) ==
  req' = [req EXCEPT ![r].ctx = Own(r), ![r].phase = "auth"]

Derive(r) == At(r, "derive") /\ SetContext(r) /\ UNCHANGED clean

\* requireAuth, after jwt.verify(): the token is verified, in date, and has an
\* id and a UserType
RequireAuth(r) ==
  /\ At(r, "auth")
  /\ IF req[r].route \in {"private", "cms"}
       THEN \/ Throws(r, "UNAUTHORIZED")
            \/ \E user \in {"customer", "cms"} :
                 To(r, [req[r] EXCEPT !.phase = "cms", !.user = user])
       ELSE Goes(r, "validate")

\* requireCMS
RequireCMS(r) ==
  /\ At(r, "cms")
  /\ IF req[r].route = "cms" /\ req[r].user # "cms"
       THEN Throws(r, "FORBIDDEN")
       ELSE Goes(r, "validate")

Validate(r) ==
  /\ At(r, "validate")
  /\ \/ req[r].route \in Access /\ Throws(r, "VALIDATION")
     \/ Goes(r, "before")

\* The logger's mixin adds the context's id to every line.
Logged(r, line) == req[r].lines \cup {<<line, req[r].ctx>>}

BeforeHandle(r) ==
  /\ At(r, "before")
  /\ To(r, [req[r] EXCEPT !.phase = "handler", !.lines = Logged(r, "started")])

\* onAfterHandle, which has the id from derive
AfterHandle(r) ==
  /\ At(r, "after")
  /\ To(r, IF Hooked(r)
             THEN [req[r] EXCEPT !.phase = "done", !.id = Own(r),
                                 !.lines = Logged(r, "completed")]
             ELSE [req[r] EXCEPT !.phase = "done"])

\* errorStatusMap, and the statuses of what is not an AppError
errorStatusMap ==
  [INVALID_INPUT |-> 400, UNAUTHORIZED |-> 401, FORBIDDEN |-> 403, NOT_FOUND |-> 404,
   DUPLICATE_KEY |-> 409, CONFLICT |-> 409, PAYLOAD_TOO_LARGE |-> 413, VALIDATION |-> 400]

Status(code) ==
  IF code = "ZodError" /\ ~clean THEN 400
  ELSE IF code \in DOMAIN errorStatusMap THEN errorStatusMap[code] ELSE 500

\* The clean starter's onError hooks: a line, and an answer with the context's id
OnError(r) ==
  /\ At(r, "error") /\ clean
  /\ To(r, [req[r] EXCEPT !.phase = "done", !.status = Status(req[r].err),
                          !.lines = Logged(r, "failed"),
                          !.id = IF req[r].ctx = NoId THEN Unknown ELSE req[r].ctx])

\* The Mongo starter's: the id is the header's
MongoOnError(r) ==
  /\ At(r, "error") /\ ~clean
  /\ To(r, [req[r] EXCEPT !.phase = "done", !.status = Status(req[r].err),
                          !.id = IF req[r].given THEN Own(r) ELSE Unknown])

-----------------------------------------------------------------------------
(* The health probes *)

Live(r) ==
  /\ At(r, "handler") /\ req[r].route = "live"
  /\ To(r, [req[r] EXCEPT !.phase = "after", !.status = 200])

\* Both pings begin at once; the Mongo starter sends none unless it is connected.
Pinged == IF clean THEN Pools ELSE {"write"}

Pings(r) ==
  /\ At(r, "handler") /\ req[r].route \in {"health", "ready"}
  /\ \E asked \in IF clean THEN {Pools} ELSE {{}, {"write"}} :
       To(r, [req[r] EXCEPT !.phase = "pinging",
                !.ping = [p \in Pools |-> IF p \in asked THEN "pending" ELSE "down"]])

\* Pool p answers; too late, if the ping has been settled.
Answers(r, p) ==
  /\ At(r, "pinging") /\ p \notin req[r].answers
  /\ req[r].ping[p] = "pending" \/ (clean /\ req[r].ping[p] = "late")
  /\ To(r, [req[r] EXCEPT !.answers = @ \cup {p},
                          !.ping[p] = IF @ = "pending" THEN "up" ELSE @])

PingRejects(r, p) ==
  /\ At(r, "pinging") /\ req[r].ping[p] = "pending"
  /\ To(r, [req[r] EXCEPT !.ping[p] = "down"])

\* Mutant: a ping is awaited, however long it takes.
PingTimesOutNever(r, p) == FALSE

\* pingDb(): the timer wins the race.
PingTimesOut(r, p) ==
  /\ clean /\ At(r, "pinging") /\ req[r].ping[p] = "pending"
  /\ To(r, [req[r] EXCEPT !.ping[p] = "late"])

\* Mutant: one pool is enough.
DatabaseUpIfAny(r) == \E p \in Pinged : req[r].ping[p] = "up"

DatabaseUp(r) == \A p \in Pinged : req[r].ping[p] = "up"

\* Redis and RabbitMQ degrade the verdict in the body, not the status; the
\* Mongo starter's status is 200 whatever the verdict.
Verdict(r) ==
  /\ At(r, "pinging") /\ \A p \in Pinged : req[r].ping[p] # "pending"
  /\ To(r, [req[r] EXCEPT !.phase = "after", !.ok = DatabaseUp(r),
                          !.status = IF DatabaseUp(r) \/ ~clean THEN 200 ELSE 503])

-----------------------------------------------------------------------------
(* A feature handler, and traceOperation() around what it awaits *)

\* startActiveSpan() calls back, or throws: then the clean starter runs the
\* operation untraced, and the Mongo one fails.
StartSpan(r) ==
  /\ At(r, "handler") /\ req[r].route \in Access
  /\ \/ Goes(r, "traced")
     \/ IF clean THEN Goes(r, "untraced") ELSE Throws(r, "Error")

\* What the operation may throw
Failures == {IF clean THEN "DUPLICATE_KEY" ELSE "CONFLICT", "ZodError", "Error"}

\* fn() settles.
Operation(r) ==
  /\ At(r, "traced") \/ At(r, "untraced")
  /\ \E err \in Failures \cup {"none"} :
       To(r, [req[r] EXCEPT !.runs = @ + 1, !.ok = (err = "none"), !.err = err,
                            !.phase = IF At(r, "traced") THEN "span" ELSE "settled"])

\* Mutant: the catches around the span's bookkeeping are gone from the success path.
SpanEndsUnguarded(r) ==
  /\ At(r, "span") /\ clean
  /\ \/ Goes(r, "settled")
     \/ req[r].err = "none" /\ Goes(r, "untraced")

\* The span's status is set and it is ended, or the attempt is swallowed.
SpanEnds(r) == At(r, "span") /\ clean /\ Goes(r, "settled")

\* In the Mongo starter an error in the bookkeeping of the span, or of the
\* metrics, is the operation's.
MongoSpanEnds(r) ==
  /\ At(r, "span") /\ ~clean
  /\ \/ Goes(r, "settled")
     \/ To(r, [req[r] EXCEPT !.phase = "settled", !.err = "Error"])

\* The handler returns, or lets the error through.
Returns(r) ==
  /\ At(r, "settled")
  /\ IF req[r].err = "none"
       THEN To(r, [req[r] EXCEPT !.phase = "after", !.status = 200])
       ELSE Goes(r, "error")

-----------------------------------------------------------------------------
Hooks(r) ==
  \/ OnRequest(r) \/ OnParse(r) \/ Derive(r) \/ RequireAuth(r) \/ RequireCMS(r)
  \/ Validate(r) \/ BeforeHandle(r) \/ AfterHandle(r) \/ OnError(r) \/ MongoOnError(r)

Probing(r) == Live(r) \/ Pings(r) \/ Verdict(r)

Handling(r) ==
  StartSpan(r) \/ Operation(r) \/ SpanEnds(r) \/ MongoSpanEnds(r) \/ Returns(r)

Database(r, p) == Answers(r, p) \/ PingRejects(r, p)

Next ==
  \E r \in Requests :
    \/ Arrives(r) \/ Hooks(r) \/ Probing(r) \/ Handling(r)
    \/ \E p \in Pools : Database(r, p) \/ PingTimesOut(r, p)

Spec == Init /\ [][Next]_vars

(* The event loop goes on and timers fire.  A pool may never answer. *)
Fairness ==
  \A r \in Requests :
    /\ WF_vars(Hooks(r) \/ Probing(r))
    /\ \A p \in Pools : WF_vars(PingTimesOut(r, p))

FairSpec == Spec /\ Fairness

-----------------------------------------------------------------------------
(* Properties *)

Done(r) == At(r, "done")
Closing(r) == {l \in req[r].lines : l[1] \in {"completed", "failed"}}

\* Whatever is answered can be traced: no line and no answer carries another
\* request's id.  In the clean starter a request that was logged as started is
\* answered with its id, and every request, "health included", leaves one
\* closing line; in the Mongo starter an id that came with the request goes
\* back with the answer, its probes excepted.
Correlated ==
  \A r \in Requests : Done(r) =>
    /\ \A l \in req[r].lines : l[2] \in {Own(r), NoId}
    /\ req[r].id \in {Own(r), Unknown, NoId}
    /\ clean =>
         /\ <<"started", Own(r)>> \in req[r].lines => req[r].id = Own(r)
         /\ Cardinality(Closing(r)) = 1
    /\ ~clean /\ req[r].given /\ Hooked(r) => req[r].id = Own(r)

\* "Telemetry must never block real work": whether the tracer fails before the
\* operation or in its bookkeeping afterwards, a traced operation runs once and the client is told its outcome.  In the Mongo
\* starter it runs once at most, and success is not told of a failure.
RunsOnce ==
  \A r \in Requests : req[r].route \in Access =>
    /\ req[r].runs <= 1
    /\ Done(r) /\ req[r].status = 200 => req[r].runs = 1 /\ req[r].ok
    /\ clean /\ Done(r) /\ req[r].ok => req[r].status = 200

\* A probe says 200 only after every pool has answered it, and 503 only if one
\* refused or was late; dependencies that are optional, or late answers, do not
\* change that.
ProbeIsTrue ==
  \A r \in Requests :
    Done(r) /\ req[r].route \in {"health", "ready"} /\ req[r].err = "none" =>
    /\ clean => req[r].status = IF req[r].ok THEN 200 ELSE 503
    /\ req[r].ok => Pinged \subseteq req[r].answers
    /\ ~req[r].ok => \E p \in Pinged : req[r].ping[p] \in {"down", "late"}

\* "A hung dependency must read as down, not hang the probe": every probe of
\* the clean starter is answered, though no pool ever answers.
ProbesAnswer ==
  \A r \in Requests :
    clean /\ req[r].route \in Probes /\ At(r, "request") ~> Done(r)
=============================================================================
