------------------------------- MODULE Service -------------------------------
(***************************************************************************)
(* The clean starter as a process, from its first import to its exit:      *)
(* index.ts, config/env.ts, instrumentation.ts, startServer of main.ts and *)
(* what it awaits, then setupGracefulShutdown with startServer's five      *)
(* disposables, in time: a second is one Tick.                             *)
(***************************************************************************)
EXTENDS Shutdown

CONSTANTS
  Deadline,     \* timeoutMs of the shutdown
  FlushLimit    \* the timer that shutdownTelemetry is raced with

ASSUME StarterAssumption == NDisposables = 5
ASSUME TimeAssumption ==
  Deadline \in Nat /\ FlushLimit \in Nat /\ FlushLimit < Deadline

\* startServer's disposables: rabbitmq, redis, database, telemetry, and
\* startMemorySnapshot's timer
Telemetry == 4
MemorySnapshot == 5

VARIABLES
  boot,         \* where index.ts and startServer are
  raw,          \* the environment variables, one of each kind
  prod,         \* NODE_ENV is production
  otel,         \* OTEL_ENABLED
  broken,       \* OpenTelemetry packages that cannot be loaded
  provider,     \* createTelemetryPlugin registered a tracer provider
  awaited,      \* promises of the current Promise.all that are pending
  ready,        \* what has been connected, or migrated
  elapsed,      \* seconds since the shutdown began
  flushSince    \* when the telemetry flush began

bootVars == <<boot, raw, prod, otel, broken, provider, awaited, ready>>
serviceVars == <<vars, bootVars, elapsed, flushSince>>

\* envSchema's kinds of variables, and what a string can be for them:
\* "extreme" is a number outside the range of a t.Numeric.
Kinds == {"required", "defaulted", "optional"}
Raw == [Kinds -> {"absent", "good", "malformed", "extreme"}]

Packages == {"@opentelemetry/api", "@elysiajs/opentelemetry", "sdk"}

\* What lib/tracing.ts and lib/logger.ts, hence main.ts, import statically.
Imported == {"@opentelemetry/api", "@elysiajs/opentelemetry"}

\* The promises of each stage of startServer.
Promises ==
  [database |-> {"writeDb", "readDb"}, migrations |-> {"schema"},
   redis |-> {"redisRead", "redisWrite"}, rabbitmq |-> {"rabbitmq"}]

Stages == DOMAIN Promises
Dependencies == UNION {Promises[s] : s \in Stages \ {"migrations"}}

ServiceTypeOK ==
  /\ boot \in {"import", "telemetry", "main", "wired", "serving"} \cup Stages
  /\ raw \in Raw /\ prod \in BOOLEAN /\ otel \in BOOLEAN
  /\ broken \subseteq Packages
  /\ provider \in BOOLEAN
  /\ awaited \subseteq IF boot \in Stages THEN Promises[boot] ELSE {}
  /\ boot \in Stages => awaited # {}
  /\ ready \subseteq Dependencies \cup {"schema"}
  /\ elapsed \in 0..Deadline /\ flushSince \in 0..elapsed

ServiceInit ==
  /\ shuttingDown = FALSE /\ calls = <<>> /\ begun = [i \in Disposables |-> 0]
  /\ accepting = FALSE /\ requests = 0 /\ reasons = <<>> /\ exited = Running
  /\ boot = "import"
  /\ raw \in Raw /\ prod \in BOOLEAN /\ otel \in BOOLEAN
  /\ broken \in SUBSET Packages
  /\ provider = FALSE
  /\ awaited = {} /\ ready = {}
  /\ elapsed = 0 /\ flushSince = 0

-----------------------------------------------------------------------------
(* The environment *)

Default(vals) == [k \in Kinds |->
  IF k = "defaulted" /\ vals[k] = "absent" THEN "good" ELSE vals[k]]

Check(vals) == vals["required"] # "absent" /\ \A k \in Kinds : vals[k] # "malformed"

Decodes(vals) == \A k \in Kinds : vals[k] # "extreme"

\* Defaults, then Check; Decode finds the numbers out of range.
parseEnv(vals) ==
  LET full == Default(vals)
  IN [success |-> Check(full) /\ Decodes(full), data |-> full]

\* checkEnv() runs when config/env.ts is imported first: it exits, or env is
\* what the process runs with.
checkEnv ==
  IF parseEnv(raw).success
    THEN raw' = parseEnv(raw).data /\ UNCHANGED exited
    ELSE exited' = 1 /\ UNCHANGED raw

-----------------------------------------------------------------------------
(* index.ts and startServer.  Nothing of the shutdown exists yet. *)

Booting == boot # "serving" /\ exited = Running

NothingToStop ==
  UNCHANGED <<shuttingDown, calls, begun, requests, reasons, elapsed, flushSince>>

Config == <<prod, otel, broken>>

\* import("./instrumentation"), which imports @opentelemetry/api, then the
\* environment.  A rejection is caught; process.exit() is not.
ImportInstrumentation ==
  /\ Booting /\ boot = "import"
  /\ IF "@opentelemetry/api" \in broken
       THEN boot' = "main" /\ UNCHANGED <<raw, exited>>
       ELSE /\ checkEnv
            /\ boot' = IF otel THEN "telemetry" ELSE "main"
  /\ UNCHANGED <<Config, provider, awaited, ready, accepting>>
  /\ NothingToStop

\* Whatever fails in it, createTelemetryPlugin() resolves.
CreateTelemetryPlugin ==
  /\ Booting /\ boot = "telemetry"
  /\ provider' \in BOOLEAN /\ (provider' => broken = {})
  /\ boot' = "main"
  /\ UNCHANGED <<raw, Config, awaited, ready, accepting, exited>>
  /\ NothingToStop

\* startServer goes on to stage s, which awaits all its promises.
Enter(s) == boot' = s /\ awaited' = IF s \in Stages THEN Promises[s] ELSE {}

\* import("./main") is outside index.ts's try: what main.ts imports must load.
\* Then startServer calls connectDb().
ImportMain ==
  /\ Booting /\ boot = "main"
  /\ IF broken \cap Imported # {}
       THEN exited' = 1 /\ UNCHANGED <<boot, awaited>>
       ELSE Enter("database") /\ UNCHANGED exited
  /\ UNCHANGED <<raw, Config, provider, ready, accepting>>
  /\ NothingToStop

\* applyMigrations() returns at once outside production.
After(s) ==
  CASE s = "database"   -> IF prod THEN "migrations" ELSE "redis"
    [] s = "migrations" -> "redis"
    [] s = "redis"      -> "rabbitmq"
    [] s = "rabbitmq"   -> "wired"

\* Mutant: Promise.race for Promise.all.
ResolvesFirst(p) ==
  /\ Booting /\ p \in awaited
  /\ ready' = ready \cup {p}
  /\ Enter(After(boot))
  /\ UNCHANGED <<raw, Config, provider, accepting, exited>>
  /\ NothingToStop

\* One of the promises of a stage resolves: a pool answers its ping, a client
\* has connected, the migrations' transaction has committed.
Resolves(p) ==
  /\ Booting /\ p \in awaited
  /\ ready' = ready \cup {p}
  /\ IF awaited = {p}
       THEN Enter(After(boot))
       ELSE awaited' = awaited \ {p} /\ UNCHANGED boot
  /\ UNCHANGED <<raw, Config, provider, accepting, exited>>
  /\ NothingToStop

\* index.ts's guard around startServer: whatever rejects, log and exit 1.
StartupGuard ==
  /\ exited' = 1
  /\ UNCHANGED <<bootVars, accepting>>
  /\ NothingToStop

\* A ping, a connect or the migrations' transaction fails: fail fast, whatever
\* else is pending.
Rejects(p) == Booting /\ p \in awaited /\ StartupGuard

ListenFails == Booting /\ boot = "wired" /\ StartupGuard

\* Before startServer has installed its handlers a signal, an uncaught error
\* or a stray rejection ends the process at once, with a code of its own.
Killed ==
  /\ Booting
  /\ exited' = 1
  /\ UNCHANGED <<bootVars, accepting>>
  /\ NothingToStop

\* compose(), startConsumers(), the disposables, createServer(), listen() and
\* setupGracefulShutdown(), without an await.
Serve ==
  /\ Booting /\ boot = "wired"
  /\ boot' = "serving" /\ accepting' = TRUE
  /\ UNCHANGED <<raw, Config, provider, awaited, ready, exited>>
  /\ NothingToStop

-----------------------------------------------------------------------------
(* setupGracefulShutdown in time.  Before "serving" it has no handlers. *)

\* Mutant: the handlers are installed before startServer is done.
HandlingEarly == boot \in {"wired", "serving"}

Handling == boot = "serving"

\* Shutdown's own steps take no time.
Instantly == UNCHANGED <<bootVars, elapsed, flushSince>>

ServiceRequests == Handling /\ (RequestArrives \/ RequestEnds) /\ Instantly

ServiceShutdown(code) == Handling /\ shutdown(code) /\ Instantly

ServiceStops(k) == Handling /\ (StopResolves(k) \/ StopRejects(k)) /\ Instantly

\* A dispose() settles; the next one may be the telemetry's, whose time counts.
ServiceDisposes(k) ==
  /\ Handling /\ DisposeSettles(k)
  /\ flushSince' = IF calls'[k].at = Telemetry /\ calls[k].at < Telemetry
                     THEN elapsed ELSE flushSince
  /\ UNCHANGED <<bootVars, elapsed>>

\* Mutant: the flush is awaited without its timer.
DueUnraced(k) ==
  \/ calls[k].at = MemorySnapshot
  \/ calls[k].at = Telemetry /\ ~provider

\* dispose() settles before any time passes: the snapshot's clears a timer,
\* the telemetry's has nothing to flush or its timer has fired.
Due(k) ==
  \/ calls[k].at = MemorySnapshot
  \/ calls[k].at = Telemetry /\ (provider => elapsed >= flushSince + FlushLimit)

Tick ==
  /\ Handling /\ shuttingDown /\ exited = Running /\ elapsed < Deadline
  /\ \A k \in Calls : ~Due(k)
  /\ elapsed' = elapsed + 1
  /\ UNCHANGED <<vars, bootVars, flushSince>>

ForceExit(k) == Handling /\ elapsed = Deadline /\ KillTimer(k) /\ Instantly

-----------------------------------------------------------------------------
Boot ==
  \/ ImportInstrumentation \/ CreateTelemetryPlugin \/ ImportMain
  \/ \E p \in awaited : Resolves(p) \/ Rejects(p)
  \/ Serve \/ ListenFails \/ Killed

Stop == \E k \in Calls : ServiceStops(k) \/ ServiceDisposes(k) \/ ForceExit(k)

ServiceNext ==
  \/ Boot
  \/ ServiceRequests \/ \E code \in {0, 1} : ServiceShutdown(code)
  \/ Stop \/ Tick

ServiceSpec == ServiceInit /\ [][ServiceNext]_serviceVars

(* Time passes and the runtime's timers fire.  A drain or a dispose() that  *)
(* is not due need never settle, and a boot need never end.                *)
ServiceFairness ==
  /\ WF_serviceVars(Tick)
  /\ WF_serviceVars(\E k \in Calls : ForceExit(k))
  /\ WF_serviceVars(\E k \in Calls : Due(k) /\ ServiceDisposes(k))

ServiceFairSpec == ServiceSpec /\ ServiceFairness

-----------------------------------------------------------------------------
(* Properties *)

\* "Connect every required dependency BEFORE serving traffic", "the service
\* never serves traffic against a half-migrated schema": a process that has
\* ever accepted requests runs with a complete environment, has connected both
\* pools, both Redis clients and RabbitMQ and, in production, has migrated.
ServesOnlyWhenReady ==
  Handling => /\ raw["required"] = "good" /\ raw["defaulted"] = "good"
              /\ Dependencies \subseteq ready
              /\ prod => "schema" \in ready

\* "A down trace collector must not hold shutdown hostage": a shutdown that
\* has closed the other resources with FlushLimit to spare ends with its own
\* exit code, not by force, whether the collector answers or not.
TelemetryIsTimeBoxed ==
  \A k \in Calls :
    calls[k].at >= Telemetry /\ flushSince + FlushLimit < Deadline
      => exited \in {Running, calls[k].code}

\* What lib/shutdown.ts promises for any server and any disposables, it does
\* in this process: before "serving" the boot is a stutter of Shutdown.
Abstract == INSTANCE Shutdown WITH
  accepting <- accepting \/ boot # "serving",
  exited <- IF boot = "serving" THEN exited ELSE Running

ImplementsShutdown == Abstract!Spec
=============================================================================
