------------------------------ MODULE Http_proofs ------------------------------
(***************************************************************************)
(* The safety properties of Http, for any number of concurrent requests in *)
(* either starter.  A step changes one request, so the invariant is a      *)
(* conjunction over the requests of what is known of one of them.          *)
(***************************************************************************)
EXTENDS Http, FiniteSetTheorems, TLAPS

Phases ==
  {"idle", "request", "parse", "derive", "auth", "cms", "validate", "before", "handler",
   "pinging", "traced", "untraced", "span", "settled", "after", "error", "done"}

Errors ==
  {"none", "PAYLOAD_TOO_LARGE", "NOT_FOUND", "PARSE", "UNAUTHORIZED", "FORBIDDEN",
   "VALIDATION", "DUPLICATE_KEY", "CONFLICT", "ZodError", "Error"}

Lines(r) == {"started", "completed", "failed"} \X {NoId, Own(r)}

\* What a slot for request r may hold: ids of its own, or none.
Slot(r) ==
  [phase : Phases, route : Routes, given : BOOLEAN, ctx : {NoId, Own(r)},
   user : {"nobody", "customer", "cms"}, lines : SUBSET Lines(r),
   ping : [Pools -> {"none", "pending", "up", "down", "late"}], answers : SUBSET Pools,
   runs : {0, 1}, ok : BOOLEAN,
   err : Errors, status : Nat, id : {NoId, Unknown, Own(r)}]

SlotsTyped ==
  /\ clean \in BOOLEAN
  /\ req = [r \in Requests |-> req[r]]
  /\ \A r \in Requests : req[r] \in Slot(r)

-----------------------------------------------------------------------------
(* What is known of slot q of request r, beside its type *)

\* The hooks from auth to the start line, and what follows them
Hooking == {"auth", "cms", "validate", "before"}
Working == {"handler", "pinging", "traced", "untraced", "span", "settled", "after"}

\* The context is this request's own from derive on, a start line carries it,
\* and there is no closing line before the end and one then.
Contexts(q, r) ==
  /\ q.phase \in Hooking => q.ctx = Own(r)
  /\ q.phase \in Working /\ (clean \/ q.route \notin Probes) => q.ctx = Own(r)
  /\ \A l \in q.lines : l[1] = "started" => q.ctx = Own(r) /\ l = <<"started", Own(r)>>
  /\ q.phase # "done" => \A l \in q.lines : l[1] = "started"

Ending(q) == {l \in q.lines : l[1] \in {"completed", "failed"}}

Answered(q, r) ==
  q.phase = "done" =>
    /\ clean => \E l \in Lines(r) : Ending(q) = {l}
    /\ clean /\ <<"started", Own(r)>> \in q.lines => q.id = Own(r)
    /\ ~clean /\ q.given /\ q.route \notin Probes => q.id = Own(r)

\* A feature's operation has not run before it is called, and has run once
\* when its span ends; `ok' is its outcome.
Ran(q) ==
  q.route \in Access =>
    /\ q.phase \notin {"span", "settled", "after", "error", "done"} => q.runs = 0 /\ ~q.ok
    /\ q.phase \in {"span", "settled"} =>
         q.runs = 1 /\ (q.err = "none" => q.ok) /\ (clean /\ q.ok => q.err = "none")
    /\ q.phase = "after" => q.runs = 1 /\ q.ok /\ q.status = 200
    /\ q.phase = "error" /\ clean => ~q.ok
    /\ q.phase = "done" =>
         (q.status = 200 => q.runs = 1 /\ q.ok) /\ (clean /\ q.ok => q.status = 200)

\* Which routes get where, and that an error is one.
Routed(q) ==
  /\ q.phase = "pinging" => q.route \in {"health", "ready"}
  /\ q.phase \in {"traced", "untraced", "span", "settled"} => q.route \in Access
  /\ q.phase = "error" => q.err # "none"

\* A ping that reads as up was answered; a verdict is the pings'.
Verdicts(q) ==
  /\ \A p \in Pools : q.ping[p] = "up" => p \in q.answers
  /\ q.phase = "pinging" => \A p \in Pinged : q.ping[p] # "none"
  /\ q.phase \in {"after", "done"} /\ q.route \in {"health", "ready"} /\ q.err = "none" =>
       /\ clean => q.status = IF q.ok THEN 200 ELSE 503
       /\ q.ok => Pinged \subseteq q.answers
       /\ ~q.ok => \E p \in Pinged : q.ping[p] \in {"down", "late"}

SlotOK(q, r) == Contexts(q, r) /\ Answered(q, r) /\ Ran(q) /\ Routed(q) /\ Verdicts(q)

IInv == SlotsTyped /\ \A r \in Requests : SlotOK(req[r], r)

-----------------------------------------------------------------------------
(* Lemmas *)

\* The ids that a line or an answer may carry are told apart.
LEMMA Ids == ASSUME NEW r PROVE NoId # Own(r) /\ Unknown # Own(r) /\ NoId # Unknown
  <1>1. NoId[1] = "none" /\ Unknown[1] = "unknown" /\ Own(r)[1] = "id"
    BY DEF NoId, Unknown, Own
  <1>. QED BY <1>1

\* An error is answered with a status, and never with 200.
LEMMA Statuses == ASSUME NEW code PROVE Status(code) \in Nat /\ Status(code) # 200
  BY DEF Status, errorStatusMap

\* A step that leaves request r in a good slot is a good step.
LEMMA Step ==
  ASSUME IInv, NEW r \in Requests, NEW new \in Slot(r), To(r, new), SlotOK(new, r)
  PROVE  IInv'
  <1>1. /\ clean' = clean
        /\ req' = [s \in Requests |-> IF s = r THEN new ELSE req[s]]
    BY DEF To, IInv, SlotsTyped
  <1>2. SlotsTyped'
    BY <1>1 DEF IInv, SlotsTyped, Slot, Lines, Own, NoId, Unknown
  <1>3. ASSUME NEW s \in Requests PROVE SlotOK(req[s], s)'
    <2>1. /\ SlotOK(req'[s], s)
      BY <1>1 DEF IInv
    <2>. QED
      BY <1>1, <2>1
      DEF SlotOK, Contexts, Answered, Ran, Routed, Verdicts, Pinged, Ending, Lines, NoId, Own
  <1>. QED BY <1>2, <1>3 DEF IInv

LEMMA FreshOK == ASSUME NEW r PROVE Fresh \in Slot(r) /\ SlotOK(Fresh, r)
  <1>1. Fresh \in Slot(r)
    BY DEF Fresh, Slot, Phases, Routes, Probes, Access, Errors, Pools
  <1>2. SlotOK(Fresh, r)
    BY DEF SlotOK, Contexts, Answered, Ran, Routed, Verdicts, Fresh, Hooking, Working,
           Pools, Probes, Access
  <1>. QED BY <1>1, <1>2

\* Before the operation has run, any hook may throw an error.
LEMMA ThrowsOK ==
  ASSUME IInv, NEW r \in Requests, NEW code \in Errors \ {"none"}, Throws(r, code),
         req[r].phase \in {"request", "parse", "auth", "cms", "validate", "handler"}
  PROVE  IInv'
  <1>. DEFINE new == [req[r] EXCEPT !.phase = "error", !.err = code]
  <1>1. req[r] \in Slot(r) /\ SlotOK(req[r], r)
    BY DEF IInv, SlotsTyped
  <1>2. new \in Slot(r)
    BY <1>1 DEF Slot, Phases, Errors
  <1>3. SlotOK(new, r)
    BY <1>1 DEF SlotOK, Slot, Contexts, Answered, Ran, Routed, Verdicts, Hooking, Working
  <1>. QED BY <1>2, <1>3, Step DEF Throws

\* A hook that lets the request through changes its phase only.
LEMMA GoesOK ==
  ASSUME IInv, NEW r \in Requests, NEW phase \in Phases, Goes(r, phase),
         SlotOK([req[r] EXCEPT !.phase = phase], r)
  PROVE  IInv'
  <1>1. [req[r] EXCEPT !.phase = phase] \in Slot(r)
    BY DEF IInv, SlotsTyped, Slot
  <1>. QED BY <1>1, Step DEF Goes

-----------------------------------------------------------------------------
(* The hooks *)

LEMMA ArrivesOK == ASSUME IInv, NEW r \in Requests, Arrives(r) PROVE IInv'
  <1>1. PICK route \in Routes, given \in BOOLEAN :
          To(r, [Fresh EXCEPT !.phase = "request", !.route = route, !.given = given])
    BY Zenon DEF Arrives
  <1>. DEFINE new == [Fresh EXCEPT !.phase = "request", !.route = route, !.given = given]
  <1>2. new \in Slot(r)
    BY FreshOK DEF Slot, Phases
  <1>3. SlotOK(new, r)
    BY DEF SlotOK, Contexts, Answered, Ran, Routed, Verdicts, Fresh, Hooking, Working, Pools
  <1>. QED BY <1>1, <1>2, <1>3, Step

LEMMA OnRequestOK == ASSUME IInv, NEW r \in Requests, OnRequest(r) PROVE IInv'
  <1>1. req[r] \in Slot(r) /\ SlotOK(req[r], r) /\ req[r].phase = "request"
    BY DEF IInv, SlotsTyped, OnRequest, At
  <1>2. CASE \E code \in {"PAYLOAD_TOO_LARGE", "NOT_FOUND"} : Throws(r, code)
    BY <1>1, <1>2, ThrowsOK DEF Errors
  <1>3. CASE Goes(r, "parse")
    <2>1. SlotOK([req[r] EXCEPT !.phase = "parse"], r)
      BY <1>1 DEF SlotOK, Slot, Contexts, Answered, Ran, Routed, Verdicts, Hooking, Working
    <2>. QED BY <1>3, <2>1, GoesOK DEF Phases
  <1>. QED BY <1>2, <1>3 DEF OnRequest

\* A probe of the Mongo starter has no context in its handler.
LEMMA OnParseOK == ASSUME IInv, NEW r \in Requests, OnParse(r) PROVE IInv'
  <1>1. req[r] \in Slot(r) /\ SlotOK(req[r], r) /\ req[r].phase = "parse"
    BY DEF IInv, SlotsTyped, OnParse, At
  <1>2. CASE \E code \in {"PARSE", "PAYLOAD_TOO_LARGE"} : Throws(r, code)
    BY <1>1, <1>2, ThrowsOK DEF Errors
  <1>3. CASE Hooked(r) /\ Goes(r, "derive")
    <2>1. SlotOK([req[r] EXCEPT !.phase = "derive"], r)
      BY <1>1 DEF SlotOK, Slot, Contexts, Answered, Ran, Routed, Verdicts, Hooking, Working
    <2>. QED BY <1>3, <2>1, GoesOK DEF Phases
  <1>4. CASE ~Hooked(r) /\ Goes(r, "handler")
    <2>1. SlotOK([req[r] EXCEPT !.phase = "handler"], r)
      BY <1>1, <1>4
      DEF Hooked, SlotOK, Slot, Contexts, Answered, Ran, Routed, Verdicts, Hooking, Working
    <2>. QED BY <1>4, <2>1, GoesOK DEF Phases
  <1>. QED BY <1>2, <1>3, <1>4 DEF OnParse

LEMMA DeriveOK == ASSUME IInv, NEW r \in Requests, Derive(r) PROVE IInv'
  <1>. DEFINE new == [req[r] EXCEPT !.ctx = Own(r), !.phase = "auth"]
  <1>1. req[r] \in Slot(r) /\ SlotOK(req[r], r) /\ req[r].phase = "derive"
    BY DEF IInv, SlotsTyped, Derive, At
  <1>2. To(r, new)
    BY <1>1 DEF Derive, SetContext, To, Slot, IInv, SlotsTyped
  <1>3. new \in Slot(r)
    BY <1>1 DEF Slot, Phases
  <1>4. SlotOK(new, r)
    BY <1>1 DEF SlotOK, Slot, Contexts, Answered, Ran, Routed, Verdicts, Hooking, Working
  <1>. QED BY <1>2, <1>3, <1>4, Step

LEMMA RequireAuthOK == ASSUME IInv, NEW r \in Requests, RequireAuth(r) PROVE IInv'
  <1>1. req[r] \in Slot(r) /\ SlotOK(req[r], r) /\ req[r].phase = "auth"
    BY DEF IInv, SlotsTyped, RequireAuth, At
  <1>2. CASE Throws(r, "UNAUTHORIZED")
    BY <1>1, <1>2, ThrowsOK DEF Errors
  <1>3. ASSUME NEW user \in {"customer", "cms"},
               To(r, [req[r] EXCEPT !.phase = "cms", !.user = user])
        PROVE  IInv'
    <2>. DEFINE new == [req[r] EXCEPT !.phase = "cms", !.user = user]
    <2>1. new \in Slot(r)
      BY <1>1 DEF Slot, Phases
    <2>2. SlotOK(new, r)
      BY <1>1 DEF SlotOK, Slot, Contexts, Answered, Ran, Routed, Verdicts, Hooking, Working
    <2>. QED BY <1>3, <2>1, <2>2, Step
  <1>4. CASE Goes(r, "validate")
    <2>1. SlotOK([req[r] EXCEPT !.phase = "validate"], r)
      BY <1>1 DEF SlotOK, Slot, Contexts, Answered, Ran, Routed, Verdicts, Hooking, Working
    <2>. QED BY <1>4, <2>1, GoesOK DEF Phases
  <1>. QED BY <1>2, <1>3, <1>4 DEF RequireAuth

LEMMA RequireCMSOK == ASSUME IInv, NEW r \in Requests, RequireCMS(r) PROVE IInv'
  <1>1. req[r] \in Slot(r) /\ SlotOK(req[r], r) /\ req[r].phase = "cms"
    BY DEF IInv, SlotsTyped, RequireCMS, At
  <1>2. CASE Throws(r, "FORBIDDEN")
    BY <1>1, <1>2, ThrowsOK DEF Errors
  <1>3. CASE Goes(r, "validate")
    <2>1. SlotOK([req[r] EXCEPT !.phase = "validate"], r)
      BY <1>1 DEF SlotOK, Slot, Contexts, Answered, Ran, Routed, Verdicts, Hooking, Working
    <2>. QED BY <1>3, <2>1, GoesOK DEF Phases
  <1>. QED BY <1>2, <1>3 DEF RequireCMS

LEMMA ValidateOK == ASSUME IInv, NEW r \in Requests, Validate(r) PROVE IInv'
  <1>1. req[r] \in Slot(r) /\ SlotOK(req[r], r) /\ req[r].phase = "validate"
    BY DEF IInv, SlotsTyped, Validate, At
  <1>2. CASE Throws(r, "VALIDATION")
    BY <1>1, <1>2, ThrowsOK DEF Errors
  <1>3. CASE Goes(r, "before")
    <2>1. SlotOK([req[r] EXCEPT !.phase = "before"], r)
      BY <1>1 DEF SlotOK, Slot, Contexts, Answered, Ran, Routed, Verdicts, Hooking, Working
    <2>. QED BY <1>3, <2>1, GoesOK DEF Phases
  <1>. QED BY <1>2, <1>3 DEF Validate

\* The context is set by now, so the start line has the request's id.
LEMMA BeforeHandleOK == ASSUME IInv, NEW r \in Requests, BeforeHandle(r) PROVE IInv'
  <1>. DEFINE new == [req[r] EXCEPT !.phase = "handler", !.lines = Logged(r, "started")]
  <1>1. req[r] \in Slot(r) /\ SlotOK(req[r], r) /\ req[r].phase = "before"
    BY DEF IInv, SlotsTyped, BeforeHandle, At
  <1>2. Logged(r, "started") = req[r].lines \cup {<<"started", Own(r)>>}
    BY <1>1 DEF Logged, SlotOK, Contexts, Hooking
  <1>3. new \in Slot(r)
    <2>1. req[r].lines \cup {<<"started", Own(r)>>} \in SUBSET Lines(r)
      BY <1>1 DEF Slot, Lines
    <2>. QED BY <1>1, <1>2, <2>1 DEF Slot, Phases
  <1>4. SlotOK(new, r)
    BY <1>1, <1>2 DEF SlotOK, Slot, Contexts, Answered, Ran, Routed, Verdicts, Hooking, Working
  <1>. QED BY <1>3, <1>4, Step DEF BeforeHandle

\* A closing line is the first and only one of its request.
LEMMA AfterHandleOK == ASSUME IInv, NEW r \in Requests, AfterHandle(r) PROVE IInv'
  <1>1. req[r] \in Slot(r) /\ SlotOK(req[r], r) /\ req[r].phase = "after"
    BY DEF IInv, SlotsTyped, AfterHandle, At
  <1>2. CASE Hooked(r)
    <2>. DEFINE new == [req[r] EXCEPT !.phase = "done", !.id = Own(r),
                                      !.lines = Logged(r, "completed")]
    <2>1. To(r, new) /\ req[r].ctx = Own(r)
      BY <1>1, <1>2 DEF AfterHandle, SlotOK, Contexts, Working, Hooked
    <2>2. new.lines = req[r].lines \cup {<<"completed", Own(r)>>}
      BY <1>1, <2>1 DEF Logged, Slot
    <2>3. /\ <<"completed", Own(r)>> \in Lines(r) /\ new.lines \in SUBSET Lines(r)
          /\ Ending(new) = {<<"completed", Own(r)>>}
          /\ \A l \in new.lines : l[1] = "started" => l \in req[r].lines
      <3>. DEFINE lines == req[r].lines \cup {<<"completed", Own(r)>>}
      <3>1. /\ <<"completed", Own(r)>> \in Lines(r) /\ lines \in SUBSET Lines(r)
            /\ {l \in lines : l[1] \in {"completed", "failed"}} = {<<"completed", Own(r)>>}
            /\ \A l \in lines : l[1] = "started" => l \in req[r].lines
        BY <1>1, <2>1 DEF Slot, SlotOK, Contexts, Lines
      <3>. QED BY <2>2, <3>1 DEF Ending
    <2>4. new \in Slot(r)
      BY <1>1, <2>3 DEF Slot, Phases
    <2>5. Contexts(new, r) /\ Answered(new, r)
      BY <1>1, <2>1, <2>3 DEF SlotOK, Slot, Contexts, Answered, Hooking, Working
    <2>6. Ran(new) /\ Routed(new) /\ Verdicts(new)
      BY <1>1 DEF SlotOK, Slot, Ran, Routed, Verdicts
    <2>. QED BY <2>1, <2>4, <2>5, <2>6, Step DEF SlotOK
  <1>3. CASE ~Hooked(r)
    <2>. DEFINE new == [req[r] EXCEPT !.phase = "done"]
    <2>1. To(r, new) /\ ~clean /\ req[r].route \in Probes
      BY <1>3 DEF AfterHandle, Hooked
    <2>2. new \in Slot(r)
      BY <1>1 DEF Slot, Phases
    <2>3. SlotOK(new, r)
      BY <1>1, <2>1
      DEF SlotOK, Slot, Contexts, Answered, Ran, Routed, Verdicts, Hooking, Working, Probes, Access
    <2>. QED BY <2>1, <2>2, <2>3, Step
  <1>. QED BY <1>2, <1>3

\* A start line shows that the context is set, so that the answer has its id.
LEMMA OnErrorOK == ASSUME IInv, NEW r \in Requests, OnError(r) PROVE IInv'
  <1>. DEFINE new == [req[r] EXCEPT !.phase = "done", !.status = Status(req[r].err),
                        !.lines = Logged(r, "failed"),
                        !.id = IF req[r].ctx = NoId THEN Unknown ELSE req[r].ctx]
  <1>1. /\ req[r] \in Slot(r) /\ SlotOK(req[r], r) /\ req[r].phase = "error"
        /\ clean /\ To(r, new)
    BY DEF IInv, SlotsTyped, OnError, At
  <1>2. req[r].ctx \in {NoId, Own(r)} /\ new.lines = req[r].lines \cup {<<"failed", req[r].ctx>>}
    BY <1>1 DEF Logged, Slot
  <1>3. /\ <<"failed", req[r].ctx>> \in Lines(r) /\ new.lines \in SUBSET Lines(r)
        /\ Ending(new) = {<<"failed", req[r].ctx>>}
        /\ \A l \in new.lines : l[1] = "started" => l \in req[r].lines
    <2>. DEFINE lines == req[r].lines \cup {<<"failed", req[r].ctx>>}
    <2>1. /\ <<"failed", req[r].ctx>> \in Lines(r) /\ lines \in SUBSET Lines(r)
          /\ {l \in lines : l[1] \in {"completed", "failed"}} = {<<"failed", req[r].ctx>>}
          /\ \A l \in lines : l[1] = "started" => l \in req[r].lines
      BY <1>1, <1>2 DEF Slot, SlotOK, Contexts, Lines
    <2>. QED BY <1>2, <2>1 DEF Ending
  <1>4. new \in Slot(r)
    BY <1>1, <1>2, <1>3, Statuses DEF Slot, Phases
  <1>5. Contexts(new, r)
    BY <1>1, <1>3 DEF SlotOK, Slot, Contexts, Hooking, Working
  <1>6. Answered(new, r)
    BY <1>1, <1>3, Ids DEF SlotOK, Slot, Contexts, Answered
  <1>7. Ran(new) /\ Routed(new) /\ Verdicts(new)
    BY <1>1, Statuses DEF SlotOK, Slot, Ran, Routed, Verdicts
  <1>. QED BY <1>1, <1>4, <1>5, <1>6, <1>7, Step DEF SlotOK

LEMMA MongoOnErrorOK == ASSUME IInv, NEW r \in Requests, MongoOnError(r) PROVE IInv'
  <1>. DEFINE new == [req[r] EXCEPT !.phase = "done", !.status = Status(req[r].err),
                        !.id = IF req[r].given THEN Own(r) ELSE Unknown]
  <1>1. /\ req[r] \in Slot(r) /\ SlotOK(req[r], r) /\ req[r].phase = "error"
        /\ ~clean /\ To(r, new)
    BY DEF IInv, SlotsTyped, MongoOnError, At
  <1>2. new \in Slot(r)
    BY <1>1, Statuses DEF Slot, Phases
  <1>3. Contexts(new, r) /\ Answered(new, r)
    BY <1>1 DEF SlotOK, Slot, Contexts, Answered, Hooking, Working
  <1>4. Ran(new) /\ Routed(new) /\ Verdicts(new)
    BY <1>1, Statuses DEF SlotOK, Slot, Ran, Routed, Verdicts
  <1>. QED BY <1>1, <1>2, <1>3, <1>4, Step DEF SlotOK

-----------------------------------------------------------------------------
(* The health probes *)

LEMMA LiveOK == ASSUME IInv, NEW r \in Requests, Live(r) PROVE IInv'
  <1>. DEFINE new == [req[r] EXCEPT !.phase = "after", !.status = 200]
  <1>1. /\ req[r] \in Slot(r) /\ SlotOK(req[r], r) /\ req[r].phase = "handler"
        /\ req[r].route = "live" /\ To(r, new)
    BY DEF IInv, SlotsTyped, Live, At
  <1>2. new \in Slot(r)
    BY <1>1 DEF Slot, Phases
  <1>3. SlotOK(new, r)
    BY <1>1
    DEF SlotOK, Slot, Contexts, Answered, Ran, Routed, Verdicts, Hooking, Working, Access
  <1>. QED BY <1>1, <1>2, <1>3, Step

LEMMA PingsOK == ASSUME IInv, NEW r \in Requests, Pings(r) PROVE IInv'
  <1>1. PICK asked \in SUBSET Pools :
          To(r, [req[r] EXCEPT !.phase = "pinging",
                   !.ping = [p \in Pools |-> IF p \in asked THEN "pending" ELSE "down"]])
    BY DEF Pings, Pools
  <1>. DEFINE ping == [p \in Pools |-> IF p \in asked THEN "pending" ELSE "down"]
              new == [req[r] EXCEPT !.phase = "pinging", !.ping = ping]
  <1>2. /\ req[r] \in Slot(r) /\ SlotOK(req[r], r) /\ req[r].phase = "handler"
        /\ req[r].route \in {"health", "ready"}
    BY DEF IInv, SlotsTyped, Pings, At
  <1>3. /\ ping \in [Pools -> {"none", "pending", "up", "down", "late"}]
        /\ \A p \in Pools : ping[p] \in {"pending", "down"}
    OBVIOUS
  <1>. HIDE DEF ping
  <1>4. new \in Slot(r)
    BY <1>2, <1>3 DEF Slot, Phases
  <1>5. SlotOK(new, r)
    BY <1>2, <1>3
    DEF SlotOK, Slot, Contexts, Answered, Ran, Routed, Verdicts, Hooking, Working, Pinged, Pools
  <1>. QED BY <1>1, <1>4, <1>5, Step DEF ping

\* While the pings are awaited, nothing is said yet of what they answered.
LEMMA PingOK ==
  ASSUME IInv, NEW r \in Requests, At(r, "pinging"),
         NEW ping \in [Pools -> {"none", "pending", "up", "down", "late"}],
         NEW answers \in SUBSET Pools,
         \A p \in Pools : ping[p] = "up" => p \in answers,
         \A p \in Pools : req[r].ping[p] # "none" => ping[p] # "none",
         To(r, [req[r] EXCEPT !.ping = ping, !.answers = answers])
  PROVE  IInv'
  <1>. DEFINE new == [req[r] EXCEPT !.ping = ping, !.answers = answers]
  <1>1. req[r] \in Slot(r) /\ SlotOK(req[r], r) /\ req[r].phase = "pinging"
    BY DEF IInv, SlotsTyped, At
  <1>2. new \in Slot(r)
    BY <1>1 DEF Slot
  <1>3. SlotOK(new, r)
    BY <1>1
    DEF SlotOK, Slot, Contexts, Answered, Ran, Routed, Verdicts, Hooking, Working, Pinged, Pools
  <1>. QED BY <1>2, <1>3, Step

LEMMA AnswersOK ==
  ASSUME IInv, NEW r \in Requests, NEW p \in Pools, Answers(r, p) PROVE IInv'
  <1>. DEFINE ping == [req[r].ping EXCEPT ![p] = IF @ = "pending" THEN "up" ELSE @]
              answers == req[r].answers \cup {p}
  <1>1. req[r] \in Slot(r) /\ SlotOK(req[r], r) /\ At(r, "pinging")
    BY DEF IInv, SlotsTyped, Answers
  <1>2. /\ ping \in [Pools -> {"none", "pending", "up", "down", "late"}]
        /\ answers \in SUBSET Pools
    BY <1>1 DEF Slot
  <1>3. /\ \A s \in Pools : ping[s] = "up" => s \in answers
        /\ \A s \in Pools : req[r].ping[s] # "none" => ping[s] # "none"
    BY <1>1 DEF Slot, SlotOK, Verdicts
  <1>4. To(r, [req[r] EXCEPT !.ping = ping, !.answers = answers])
    BY <1>1 DEF Answers, Slot
  <1>. HIDE DEF ping, answers
  <1>. QED BY <1>1, <1>2, <1>3, <1>4, PingOK

\* A ping that is settled otherwise is not up.
LEMMA SettlesOK ==
  ASSUME IInv, NEW r \in Requests, At(r, "pinging"), NEW p \in Pools,
         NEW how \in {"down", "late"}, To(r, [req[r] EXCEPT !.ping[p] = how])
  PROVE  IInv'
  <1>. DEFINE ping == [req[r].ping EXCEPT ![p] = how]
  <1>1. req[r] \in Slot(r) /\ SlotOK(req[r], r)
    BY DEF IInv, SlotsTyped
  <1>2. ping \in [Pools -> {"none", "pending", "up", "down", "late"}]
    BY <1>1 DEF Slot
  <1>3. /\ \A s \in Pools : ping[s] = "up" => s \in req[r].answers
        /\ \A s \in Pools : req[r].ping[s] # "none" => ping[s] # "none"
    BY <1>1 DEF Slot, SlotOK, Verdicts
  <1>4. /\ req[r].answers \in SUBSET Pools
        /\ To(r, [req[r] EXCEPT !.ping = ping, !.answers = req[r].answers])
    BY <1>1 DEF Slot
  <1>. QED BY <1>1, <1>2, <1>3, <1>4, PingOK

\* Late answers are not counted, so the verdict is that of the pings.
LEMMA VerdictOK == ASSUME IInv, NEW r \in Requests, Verdict(r) PROVE IInv'
  <1>. DEFINE ok == DatabaseUp(r)
              status == IF ok \/ ~clean THEN 200 ELSE 503
              new == [req[r] EXCEPT !.phase = "after", !.ok = ok, !.status = status]
  <1>1. /\ req[r] \in Slot(r) /\ SlotOK(req[r], r) /\ req[r].phase = "pinging"
        /\ To(r, new) /\ \A p \in Pinged : req[r].ping[p] # "pending"
    BY DEF IInv, SlotsTyped, Verdict, At
  <1>2. ok \in BOOLEAN /\ status \in Nat /\ Pinged \subseteq Pools
    BY DEF DatabaseUp, Pinged, Pools
  <1>3. req[r].route \in {"health", "ready"} /\ req[r].route \notin Access
    BY <1>1 DEF SlotOK, Routed, Access
  <1>4. ok => Pinged \subseteq req[r].answers
    BY <1>1, <1>2 DEF DatabaseUp, SlotOK, Verdicts
  <1>5. ~ok => \E p \in Pinged : req[r].ping[p] \in {"down", "late"}
    BY <1>1, <1>2 DEF DatabaseUp, SlotOK, Verdicts, Slot
  <1>6. clean => status = IF ok THEN 200 ELSE 503
    OBVIOUS
  <1>. HIDE DEF ok, status
  <1>7. new \in Slot(r)
    BY <1>1, <1>2 DEF Slot, Phases
  <1>8. Contexts(new, r) /\ Answered(new, r) /\ Ran(new) /\ Routed(new)
    BY <1>1, <1>3 DEF SlotOK, Slot, Contexts, Answered, Ran, Routed, Hooking, Working
  <1>9. Verdicts(new)
    BY <1>1, <1>2, <1>4, <1>5, <1>6 DEF SlotOK, Slot, Verdicts
  <1>. QED BY <1>1, <1>7, <1>8, <1>9, Step DEF SlotOK

-----------------------------------------------------------------------------
(* A feature handler *)

LEMMA StartSpanOK == ASSUME IInv, NEW r \in Requests, StartSpan(r) PROVE IInv'
  <1>1. /\ req[r] \in Slot(r) /\ SlotOK(req[r], r) /\ req[r].phase = "handler"
        /\ req[r].route \in Access
    BY DEF IInv, SlotsTyped, StartSpan, At
  <1>2. CASE Throws(r, "Error")
    BY <1>1, <1>2, ThrowsOK DEF Errors
  <1>3. ASSUME NEW phase \in {"traced", "untraced"}, Goes(r, phase) PROVE IInv'
    <2>1. SlotOK([req[r] EXCEPT !.phase = phase], r)
      BY <1>1 DEF SlotOK, Slot, Contexts, Answered, Ran, Routed, Verdicts, Hooking, Working
    <2>. QED BY <1>3, <2>1, GoesOK DEF Phases
  <1>. QED BY <1>2, <1>3 DEF StartSpan

\* The operation has not run before: this is its one run.
LEMMA OperationOK == ASSUME IInv, NEW r \in Requests, Operation(r) PROVE IInv'
  <1>1. /\ req[r] \in Slot(r) /\ SlotOK(req[r], r) /\ req[r].phase \in {"traced", "untraced"}
        /\ req[r].route \in Access /\ req[r].runs = 0
    BY DEF IInv, SlotsTyped, Operation, At, SlotOK, Routed, Ran
  <1>2. PICK err \in Errors, phase \in {"span", "settled"} :
          To(r, [req[r] EXCEPT !.runs = @ + 1, !.ok = (err = "none"), !.err = err,
                               !.phase = phase])
    BY <1>1 DEF Operation, Failures, Errors
  <1>. DEFINE ok == (err = "none")
              new == [req[r] EXCEPT !.runs = 1, !.ok = ok, !.err = err, !.phase = phase]
  <1>3. ok \in BOOLEAN /\ (ok <=> err = "none") /\ To(r, new)
    <2>1. req[r].runs + 1 = 1
      BY <1>1
    <2>. QED BY <1>2, <2>1
  <1>. HIDE DEF ok
  <1>4. new \in Slot(r)
    BY <1>1, <1>3 DEF Slot, Phases
  <1>5. SlotOK(new, r)
    BY <1>1, <1>3
    DEF SlotOK, Slot, Contexts, Answered, Ran, Routed, Verdicts, Hooking, Working
  <1>. QED BY <1>3, <1>4, <1>5, Step

LEMMA SpanEndsOK == ASSUME IInv, NEW r \in Requests, SpanEnds(r) PROVE IInv'
  <1>1. req[r] \in Slot(r) /\ SlotOK(req[r], r) /\ req[r].phase = "span" /\ Goes(r, "settled")
    BY DEF IInv, SlotsTyped, SpanEnds, At
  <1>2. SlotOK([req[r] EXCEPT !.phase = "settled"], r)
    BY <1>1 DEF SlotOK, Slot, Contexts, Answered, Ran, Routed, Verdicts, Hooking, Working
  <1>. QED BY <1>1, <1>2, GoesOK DEF Phases

\* Here the operation's success may become an error.
LEMMA MongoSpanEndsOK == ASSUME IInv, NEW r \in Requests, MongoSpanEnds(r) PROVE IInv'
  <1>1. req[r] \in Slot(r) /\ SlotOK(req[r], r) /\ req[r].phase = "span" /\ ~clean
    BY DEF IInv, SlotsTyped, MongoSpanEnds, At
  <1>2. CASE Goes(r, "settled")
    <2>1. SlotOK([req[r] EXCEPT !.phase = "settled"], r)
      BY <1>1 DEF SlotOK, Slot, Contexts, Answered, Ran, Routed, Verdicts, Hooking, Working
    <2>. QED BY <1>2, <2>1, GoesOK DEF Phases
  <1>3. CASE To(r, [req[r] EXCEPT !.phase = "settled", !.err = "Error"])
    <2>. DEFINE new == [req[r] EXCEPT !.phase = "settled", !.err = "Error"]
    <2>1. new \in Slot(r)
      BY <1>1 DEF Slot, Phases, Errors
    <2>2. SlotOK(new, r)
      BY <1>1 DEF SlotOK, Slot, Contexts, Answered, Ran, Routed, Verdicts, Hooking, Working
    <2>. QED BY <1>3, <2>1, <2>2, Step
  <1>. QED BY <1>2, <1>3 DEF MongoSpanEnds

LEMMA ReturnsOK == ASSUME IInv, NEW r \in Requests, Returns(r) PROVE IInv'
  <1>1. /\ req[r] \in Slot(r) /\ SlotOK(req[r], r) /\ req[r].phase = "settled"
        /\ req[r].route \in Access
    BY DEF IInv, SlotsTyped, Returns, At, SlotOK, Routed
  <1>2. CASE req[r].err = "none"
    <2>. DEFINE new == [req[r] EXCEPT !.phase = "after", !.status = 200]
    <2>1. new \in Slot(r) /\ To(r, new)
      BY <1>1, <1>2 DEF Slot, Phases, Returns
    <2>2. SlotOK(new, r)
      BY <1>1, <1>2
      DEF SlotOK, Slot, Contexts, Answered, Ran, Routed, Verdicts, Hooking, Working, Access
    <2>. QED BY <2>1, <2>2, Step
  <1>3. CASE req[r].err # "none" /\ Goes(r, "error")
    <2>1. SlotOK([req[r] EXCEPT !.phase = "error"], r)
      BY <1>1, <1>3 DEF SlotOK, Slot, Contexts, Answered, Ran, Routed, Verdicts, Hooking, Working
    <2>. QED BY <1>3, <2>1, GoesOK DEF Phases
  <1>. QED BY <1>2, <1>3 DEF Returns

-----------------------------------------------------------------------------
(* The invariant *)

LEMMA InitIInv == Init => IInv
  <1>. SUFFICES ASSUME Init PROVE IInv
    OBVIOUS
  <1>1. /\ clean \in BOOLEAN /\ req = [r \in Requests |-> req[r]]
        /\ \A r \in Requests : req[r] = Fresh
    BY StartersAssumption DEF Init
  <1>. QED BY <1>1, FreshOK DEF IInv, SlotsTyped

LEMMA NextIInv == IInv /\ [Next]_vars => IInv'
  <1>. SUFFICES ASSUME IInv, [Next]_vars PROVE IInv'
    OBVIOUS
  <1>1. CASE UNCHANGED vars
    BY <1>1
    DEF vars, IInv, SlotsTyped, SlotOK, Contexts, Answered, Ran, Routed, Verdicts, Pinged
  <1>2. ASSUME NEW r \in Requests, Arrives(r) \/ Hooks(r) PROVE IInv'
    BY <1>2, ArrivesOK, OnRequestOK, OnParseOK, DeriveOK, RequireAuthOK, RequireCMSOK,
       ValidateOK, BeforeHandleOK, AfterHandleOK, OnErrorOK, MongoOnErrorOK
    DEF Hooks
  <1>3. ASSUME NEW r \in Requests, Probing(r) \/ Handling(r) PROVE IInv'
    BY <1>3, LiveOK, PingsOK, VerdictOK, StartSpanOK, OperationOK, SpanEndsOK,
       MongoSpanEndsOK, ReturnsOK
    DEF Probing, Handling
  <1>4. ASSUME NEW r \in Requests, NEW p \in Pools, Database(r, p) \/ PingTimesOut(r, p)
        PROVE  IInv'
    BY <1>4, AnswersOK, SettlesOK DEF Database, PingRejects, PingTimesOut
  <1>. QED BY <1>1, <1>2, <1>3, <1>4 DEF Next

\* IInv holds in every state of every behaviour of the two servers.
THEOREM Inductive == Spec => []IInv
  <1>. QED BY InitIInv, NextIInv, PTL DEF Spec

\* No line and no answer of any of the concurrent requests has an id of
\* another's, and every request of the clean starter leaves one closing line.
THEOREM NoCrossTalk == Spec => []Correlated
  <1>1. IInv => Correlated
    <2>. SUFFICES ASSUME IInv, NEW r \in Requests, Done(r)
         PROVE  /\ \A l \in req[r].lines : l[2] \in {Own(r), NoId}
                /\ req[r].id \in {Own(r), Unknown, NoId}
                /\ clean =>
                     /\ <<"started", Own(r)>> \in req[r].lines => req[r].id = Own(r)
                     /\ Cardinality(Closing(r)) = 1
                /\ ~clean /\ req[r].given /\ Hooked(r) => req[r].id = Own(r)
      BY Zenon DEF Correlated
    <2>1. req[r] \in Slot(r) /\ SlotOK(req[r], r) /\ req[r].phase = "done"
      BY DEF IInv, SlotsTyped, Done, At
    <2>2. \A l \in req[r].lines : l[2] \in {Own(r), NoId}
      BY <2>1 DEF Slot, Lines
    <2>3. req[r].id \in {Own(r), Unknown, NoId}
      BY <2>1 DEF Slot
    <2>4. ASSUME clean PROVE Cardinality(Closing(r)) = 1
      <3>1. PICK l : Closing(r) = {l}
        BY <2>1, <2>4 DEF SlotOK, Answered, Closing, Ending
      <3>. QED BY <3>1, FS_Singleton
    <2>5. clean /\ <<"started", Own(r)>> \in req[r].lines => req[r].id = Own(r)
      BY <2>1 DEF SlotOK, Answered
    <2>6. ~clean /\ req[r].given /\ Hooked(r) => req[r].id = Own(r)
      BY <2>1 DEF SlotOK, Answered, Hooked
    <2>. QED BY <2>2, <2>3, <2>4, <2>5, <2>6
  <1>. QED BY <1>1, Inductive, PTL

\* Whether the tracer fails before or after it, no feature's operation runs twice,
\* and a 200 is said of an operation that ran once and succeeded; in the clean starter of
\* every such operation.
THEOREM OnceAndTold == Spec => []RunsOnce
  <1>1. IInv => RunsOnce
    <2>. SUFFICES ASSUME IInv, NEW r \in Requests, req[r].route \in Access
         PROVE  /\ req[r].runs <= 1
                /\ Done(r) /\ req[r].status = 200 => req[r].runs = 1 /\ req[r].ok
                /\ clean /\ Done(r) /\ req[r].ok => req[r].status = 200
      BY DEF RunsOnce
    <2>1. req[r] \in Slot(r) /\ SlotOK(req[r], r)
      BY DEF IInv, SlotsTyped
    <2>. QED BY <2>1 DEF SlotOK, Ran, Slot, Done, At
  <1>. QED BY <1>1, Inductive, PTL

\* However the answers of the pools race the timers of the pings, a probe's
\* verdict is true when it is given.
THEOREM TrueVerdict == Spec => []ProbeIsTrue
  <1>1. IInv => ProbeIsTrue
    <2>. SUFFICES ASSUME IInv, NEW r \in Requests, Done(r),
                         req[r].route \in {"health", "ready"}, req[r].err = "none"
         PROVE  /\ clean => req[r].status = IF req[r].ok THEN 200 ELSE 503
                /\ req[r].ok => Pinged \subseteq req[r].answers
                /\ ~req[r].ok => \E p \in Pinged : req[r].ping[p] \in {"down", "late"}
      BY DEF ProbeIsTrue
    <2>. QED BY DEF IInv, SlotOK, Verdicts, Done, At
  <1>. QED BY <1>1, Inductive, PTL
-----------------------------------------------------------------------------
(* Every request gets ahead: what ProbesAnswer rests on, beside fairness.  *)

\* The phases that may still come
Ahead ==
  [idle |-> 13, request |-> 12, parse |-> 11, derive |-> 10, auth |-> 9, cms |-> 8,
   validate |-> 7, before |-> 6, handler |-> 5, pinging |-> 4, traced |-> 4,
   untraced |-> 4, span |-> 3, settled |-> 2, after |-> 1, error |-> 1, done |-> 0]

Pending(q) == {p \in Pools : q.ping[p] = "pending"}

\* Slot q becomes new: a later phase, or the same one with a ping settled or one
\* answer more.
Nearer(q, new) ==
  \/ Ahead[new.phase] < Ahead[q.phase]
  \/ /\ new.phase = q.phase
     /\ Pending(new) \subseteq Pending(q) /\ q.answers \subseteq new.answers
     /\ Pending(new) # Pending(q) \/ q.answers # new.answers

InFlight(r) == req[r].phase \notin {"idle", "done"}

\* A step changes the slot of one request at most.
Others(r) == \A s \in Requests \ {r} : req'[s] = req[s]

GetsAhead == \A r \in Requests : InFlight(r) => req'[r] = req[r] \/ Nearer(req[r], req'[r])

LEMMA AheadIs ==
  /\ Ahead["request"] = 12 /\ Ahead["parse"] = 11 /\ Ahead["derive"] = 10
  /\ Ahead["auth"] = 9 /\ Ahead["cms"] = 8 /\ Ahead["validate"] = 7
  /\ Ahead["before"] = 6 /\ Ahead["handler"] = 5 /\ Ahead["pinging"] = 4
  /\ Ahead["traced"] = 4 /\ Ahead["untraced"] = 4 /\ Ahead["span"] = 3
  /\ Ahead["settled"] = 2 /\ Ahead["after"] = 1 /\ Ahead["error"] = 1
  /\ Ahead["done"] = 0
BY DEF Ahead

LEMMA HooksForward ==
  ASSUME IInv, NEW r \in Requests, Hooks(r)
  PROVE  Others(r) /\ Nearer(req[r], req'[r])
  <1>1. req[r] \in Slot(r) /\ req = [s \in Requests |-> req[s]]
    BY DEF IInv, SlotsTyped
  <1>2. CASE OnRequest(r)
    <2>1. req[r].phase = "request" /\ req'[r].phase \in {"parse", "error"} /\ Others(r)
      BY <1>1, <1>2 DEF OnRequest, To, Goes, Throws, At, Others, Slot
    <2>. QED BY <2>1, AheadIs DEF Nearer
  <1>3. CASE OnParse(r)
    <2>1. req[r].phase = "parse" /\ req'[r].phase \in {"derive", "handler", "error"} /\ Others(r)
      BY <1>1, <1>3 DEF OnParse, To, Goes, Throws, At, Others, Slot
    <2>. QED BY <2>1, AheadIs DEF Nearer
  <1>4. CASE Derive(r)
    <2>1. req[r].phase = "derive" /\ req'[r].phase = "auth" /\ Others(r)
      BY <1>1, <1>4 DEF Derive, SetContext, To, Goes, Throws, At, Others, Slot
    <2>. QED BY <2>1, AheadIs DEF Nearer
  <1>5. CASE RequireAuth(r)
    <2>1. req[r].phase = "auth" /\ req'[r].phase \in {"cms", "validate", "error"} /\ Others(r)
      <3>1. At(r, "auth")
        BY <1>5 DEF RequireAuth
      <3>2. CASE Throws(r, "UNAUTHORIZED") \/ Goes(r, "validate")
        BY <1>1, <3>1, <3>2 DEF To, Goes, Throws, At, Others, Slot
      <3>3. ASSUME NEW user, To(r, [req[r] EXCEPT !.phase = "cms", !.user = user])
            PROVE  req'[r].phase = "cms" /\ Others(r)
        BY <1>1, <3>3 DEF To, Others, Slot
      <3>. QED BY <1>5, <3>1, <3>2, <3>3 DEF RequireAuth, At
    <2>. QED BY <2>1, AheadIs DEF Nearer
  <1>6. CASE RequireCMS(r)
    <2>1. req[r].phase = "cms" /\ req'[r].phase \in {"validate", "error"} /\ Others(r)
      BY <1>1, <1>6 DEF RequireCMS, To, Goes, Throws, At, Others, Slot
    <2>. QED BY <2>1, AheadIs DEF Nearer
  <1>7. CASE Validate(r)
    <2>1. req[r].phase = "validate" /\ req'[r].phase \in {"before", "error"} /\ Others(r)
      BY <1>1, <1>7 DEF Validate, To, Goes, Throws, At, Others, Slot
    <2>. QED BY <2>1, AheadIs DEF Nearer
  <1>8. CASE BeforeHandle(r)
    <2>1. req[r].phase = "before" /\ req'[r].phase = "handler" /\ Others(r)
      BY <1>1, <1>8 DEF BeforeHandle, To, Goes, Throws, At, Others, Slot
    <2>. QED BY <2>1, AheadIs DEF Nearer
  <1>9. CASE AfterHandle(r)
    <2>1. req[r].phase = "after" /\ req'[r].phase = "done" /\ Others(r)
      BY <1>1, <1>9 DEF AfterHandle, To, Goes, Throws, At, Others, Slot
    <2>. QED BY <2>1, AheadIs DEF Nearer
  <1>10. CASE OnError(r) \/ MongoOnError(r)
    <2>1. req[r].phase = "error" /\ req'[r].phase = "done" /\ Others(r)
      <3>1. CASE OnError(r)
        BY <1>1, <3>1 DEF OnError, To, At, Others, Slot
      <3>2. CASE MongoOnError(r)
        BY <1>1, <3>2 DEF MongoOnError, To, At, Others, Slot
      <3>. QED BY <1>10, <3>1, <3>2
    <2>. QED BY <2>1, AheadIs DEF Nearer
  <1>. QED
    BY <1>2, <1>3, <1>4, <1>5, <1>6, <1>7, <1>8, <1>9, <1>10 DEF Hooks

LEMMA HandlersForward ==
  ASSUME IInv, NEW r \in Requests, Probing(r) \/ Handling(r)
  PROVE  Others(r) /\ Nearer(req[r], req'[r])
  <1>1. req[r] \in Slot(r) /\ req = [s \in Requests |-> req[s]]
    BY DEF IInv, SlotsTyped
  <1>2. CASE Live(r)
    <2>1. req[r].phase = "handler" /\ req'[r].phase = "after" /\ Others(r)
      BY <1>1, <1>2 DEF Live, To, Goes, Throws, At, Others, Slot
    <2>. QED BY <2>1, AheadIs DEF Nearer
  <1>3. CASE Pings(r)
    <2>1. req[r].phase = "handler" /\ req'[r].phase = "pinging" /\ Others(r)
      BY <1>1, <1>3 DEF Pings, To, Goes, Throws, At, Others, Slot
    <2>. QED BY <2>1, AheadIs DEF Nearer
  <1>4. CASE Verdict(r)
    <2>1. req[r].phase = "pinging" /\ req'[r].phase = "after" /\ Others(r)
      BY <1>1, <1>4 DEF Verdict, To, Goes, Throws, At, Others, Slot
    <2>. QED BY <2>1, AheadIs DEF Nearer
  <1>5. CASE StartSpan(r)
    <2>1. req[r].phase = "handler" /\ req'[r].phase \in {"traced", "untraced", "error"} /\ Others(r)
      BY <1>1, <1>5 DEF StartSpan, To, Goes, Throws, At, Others, Slot
    <2>. QED BY <2>1, AheadIs DEF Nearer
  <1>6. CASE Operation(r)
    <2>1. req[r].phase \in {"traced", "untraced"} /\ req'[r].phase \in {"span", "settled"} /\ Others(r)
      <3>1. PICK err \in Failures \cup {"none"} :
              To(r, [req[r] EXCEPT !.runs = @ + 1, !.ok = (err = "none"), !.err = err,
                       !.phase = IF At(r, "traced") THEN "span" ELSE "settled"])
        BY <1>6 DEF Operation
      <3>2. /\ Others(r)
            /\ req'[r].phase = IF At(r, "traced") THEN "span" ELSE "settled"
        BY <1>1, <3>1 DEF To, Others, Slot
      <3>. QED BY <1>6, <3>2 DEF Operation, At
    <2>. QED BY <2>1, AheadIs DEF Nearer
  <1>7. CASE SpanEnds(r) \/ MongoSpanEnds(r)
    <2>1. req[r].phase = "span" /\ req'[r].phase = "settled" /\ Others(r)
      BY <1>1, <1>7 DEF SpanEnds, MongoSpanEnds, To, Goes, Throws, At, Others, Slot
    <2>. QED BY <2>1, AheadIs DEF Nearer
  <1>8. CASE Returns(r)
    <2>1. req[r].phase = "settled" /\ req'[r].phase \in {"after", "error"} /\ Others(r)
      <3>1. CASE req[r].err = "none"
        BY <1>1, <1>8, <3>1 DEF Returns, To, At, Others, Slot
      <3>2. CASE req[r].err # "none"
        BY <1>1, <1>8, <3>2 DEF Returns, To, Goes, At, Others, Slot
      <3>. QED BY <3>1, <3>2
    <2>. QED BY <2>1, AheadIs DEF Nearer
  <1>. QED BY <1>2, <1>3, <1>4, <1>5, <1>6, <1>7, <1>8 DEF Probing, Handling

LEMMA PingsForward ==
  ASSUME IInv, NEW r \in Requests, NEW p \in Pools, Database(r, p) \/ PingTimesOut(r, p)
  PROVE  Others(r) /\ Nearer(req[r], req'[r])
  <1>1. req[r] \in Slot(r) /\ req = [s \in Requests |-> req[s]]
    BY DEF IInv, SlotsTyped
  <1>2. req[r].ping \in [Pools -> {"none", "pending", "up", "down", "late"}]
    BY <1>1 DEF Slot
  <1>3. CASE Answers(r, p)
    <2>1. /\ Others(r) /\ req'[r].phase = req[r].phase
          /\ req'[r].answers = req[r].answers \cup {p} /\ p \notin req[r].answers
          /\ req'[r].ping =
               [req[r].ping EXCEPT ![p] = IF @ = "pending" THEN "up" ELSE @]
      BY <1>1, <1>3 DEF Answers, To, Others, Slot
    <2>2. Pending(req'[r]) \subseteq Pending(req[r])
      BY <1>2, <2>1 DEF Pending
    <2>. QED BY <2>1, <2>2 DEF Nearer
  <1>4. ASSUME NEW end \in {"down", "late"}, req[r].ping[p] = "pending",
               To(r, [req[r] EXCEPT !.ping[p] = end])
        PROVE  Others(r) /\ Nearer(req[r], req'[r])
    <2>1. /\ Others(r) /\ req'[r].phase = req[r].phase
          /\ req'[r].answers = req[r].answers
          /\ req'[r].ping = [req[r].ping EXCEPT ![p] = end]
      BY <1>1, <1>4 DEF To, Others, Slot
    <2>2. Pending(req'[r]) = Pending(req[r]) \ {p} /\ p \in Pending(req[r])
      BY <1>2, <1>4, <2>1 DEF Pending
    <2>. QED BY <2>1, <2>2 DEF Nearer
  <1>. QED BY <1>3, <1>4 DEF Database, PingRejects, PingTimesOut

\* Between its arrival and its answer a request never returns to a phase it has
\* left, whatever throws or answers late: a step of its own brings it nearer to
\* its answer, and a step of another leaves it alone.
THEOREM OnlyForward == Spec => [][GetsAhead]_vars
  <1>1. IInv /\ [Next]_vars => [GetsAhead]_vars
    <2>. SUFFICES ASSUME IInv, Next PROVE GetsAhead
      BY DEF vars
    <2>1. PICK r \in Requests :
            \/ Arrives(r) \/ Hooks(r) \/ Probing(r) \/ Handling(r)
            \/ \E p \in Pools : Database(r, p) \/ PingTimesOut(r, p)
      BY DEF Next
    <2>2. CASE Arrives(r)
      <3>1. Others(r) /\ ~InFlight(r)
        BY <2>2 DEF Arrives, To, Others, InFlight, IInv, SlotsTyped
      <3>. QED BY <3>1 DEF GetsAhead, Others
    <2>3. CASE ~Arrives(r)
      <3>1. Others(r) /\ Nearer(req[r], req'[r])
        BY <2>1, <2>3, HooksForward, HandlersForward, PingsForward
      <3>. QED BY <3>1 DEF GetsAhead, Others
    <2>. QED BY <2>2, <2>3
  <1>. QED BY <1>1, Inductive, PTL DEF Spec
=============================================================================
