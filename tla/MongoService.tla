----------------------------- MODULE MongoService -----------------------------
(***************************************************************************)
(* The Mongo starter as a process: index.ts, config/env.ts,                *)
(* instrumentation.ts and startApp of main.ts, with the clients and the    *)
(* HTTP and gRPC servers it opens, and shutdown(), which every signal      *)
(* starts once more, with no guard and no deadline.                        *)
(***************************************************************************)
EXTENDS Integers, Sequences

CONSTANTS
  MaxRequests,   \* bound: HTTP requests, and gRPC calls, in flight
  MaxSignals     \* bound: signals after the boot

ASSUME BoundsAssumption == MaxRequests \in Nat /\ MaxSignals \in Nat

VARIABLES
  boot,        \* where index.ts and startApp are
  conf,        \* what matters of the environment
  providers,   \* the OpenTelemetry providers that createTelemetryPlugin made
  awaited,     \* promises of the current stage that are pending
  up,          \* clients that are open and servers that accept
  requests,    \* HTTP requests in flight
  rpcs,        \* gRPC calls in flight
  runs,        \* runs of shutdown(): the step of Teardown each one awaits
  flushing,    \* the run whose metrics flush is under way, or NoRun
  flushed,     \* the metrics were exported
  failed,      \* steps of a teardown that threw
  exited       \* the code the process exited with, or Running

bootVars == <<boot, conf, providers, awaited>>
load == <<requests, rpcs>>
stopVars == <<runs, flushing, flushed, failed>>
vars == <<bootVars, up, load, stopVars, exited>>

Running == 2
NoRun == 0

Conf == [valid : BOOLEAN, production : BOOLEAN, otel : BOOLEAN, headers : BOOLEAN,
         rabbitmq : BOOLEAN]

\* What startApp awaits, stage by stage; "ping" is checkMongoHealth().
Promises ==
  [mongo |-> {"mongo"}, health |-> {"ping"}, redis |-> {"redisRead", "redisWrite"},
   rabbitmq |-> {"rabbitmq"}, grpc |-> {"grpc"}]
Stages == DOMAIN Promises

Databases == {"mongo", "redisRead", "redisWrite"}
Servers == {"http", "grpc"}

\* What shutdown() awaits, in its order; shutdownTelemetry() awaits two things.
Teardown == <<"app", "grpc", "rabbitmq", "redis", "mongo", "tracer", "meter", "logger">>
Steps == DOMAIN Teardown

TypeOK ==
  /\ boot \in {"import", "telemetry", "main", "wired", "serving", "failed"} \cup Stages
  /\ conf \in Conf /\ providers \subseteq {"tracer", "meter"}
  /\ awaited \subseteq IF boot \in Stages THEN Promises[boot] ELSE {}
  /\ up \subseteq Databases \cup Servers \cup {"rabbitmq"}
  /\ requests \in 0..MaxRequests /\ rpcs \in 0..MaxRequests
  /\ runs \in Seq(Steps)
  /\ flushing \in Nat /\ flushed \in BOOLEAN
  /\ failed \subseteq {"mongo", "tracer", "meter"}
  /\ exited \in {0, 1, Running}

Init ==
  /\ boot = "import"
  /\ conf \in Conf
  /\ providers = {} /\ awaited = {} /\ up = {}
  /\ requests = 0 /\ rpcs = 0
  /\ runs = <<>> /\ flushing = NoRun /\ flushed = FALSE /\ failed = {}
  /\ exited = Running

Runs == DOMAIN runs
Booting == boot # "serving" /\ exited = Running

-----------------------------------------------------------------------------
(* index.ts and startApp *)

\* checkEnv(): the schema, then what production requires.
checkEnv == conf.valid /\ (conf.production /\ conf.otel => conf.headers)

ImportEnv ==
  /\ Booting /\ boot = "import"
  /\ IF checkEnv
       THEN boot' = (IF conf.otel THEN "telemetry" ELSE "main") /\ UNCHANGED exited
       ELSE exited' = 1 /\ UNCHANGED boot
  /\ UNCHANGED <<conf, providers, awaited, up, load, stopVars>>

\* createTelemetryPlugin() resolves, though it fail half way: the meter
\* provider, if there is to be one, is made before the tracer.
CreateTelemetryPlugin ==
  /\ Booting /\ boot = "telemetry"
  /\ providers' \in SUBSET {"tracer", "meter"}
  /\ boot' = "main"
  /\ UNCHANGED <<conf, awaited, up, load, stopVars, exited>>

Enter(s) == boot' = s /\ awaited' = IF s \in Stages THEN Promises[s] ELSE {}

StartApp ==
  /\ Booting /\ boot = "main"
  /\ Enter("mongo")
  /\ UNCHANGED <<conf, providers, up, load, stopVars, exited>>

\* Mutant: the gRPC server is started before RabbitMQ and Redis.
GrpcFirst ==
  [mongo |-> "health", health |-> "grpc", grpc |-> "redis",
   redis |-> "rabbitmq", rabbitmq |-> "wired"]

\* RabbitMQ only if RABBITMQ_URL is set.
After ==
  [mongo |-> "health", health |-> "redis",
   redis |-> IF conf.rabbitmq THEN "rabbitmq" ELSE "grpc",
   rabbitmq |-> "grpc", grpc |-> "wired"]

\* A promise of the stage resolves: connected, pinged, bound.
Resolves(p) ==
  /\ Booting /\ p \in awaited
  /\ up' = up \cup ({p} \ {"ping"})
  /\ IF awaited = {p}
       THEN Enter(After[boot])
       ELSE awaited' = awaited \ {p} /\ UNCHANGED boot
  /\ UNCHANGED <<conf, providers, load, stopVars, exited>>

\* It rejects, or the ping fails: startApp() rejects.  main.ts has installed a
\* handler for unhandled rejections and a timer, so whether the process ends is
\* the runtime's choice.
Rejects(p) ==
  /\ Booting /\ p \in awaited
  /\ boot' = "failed" /\ awaited' = {}
  /\ exited' \in {1, Running}
  /\ UNCHANGED <<conf, providers, up, load, stopVars>>

\* createServer(), listen() and the signal handlers, without an await.
Serve ==
  /\ Booting /\ boot = "wired"
  /\ boot' = "serving" /\ up' = up \cup {"http"}
  /\ UNCHANGED <<conf, providers, awaited, load, stopVars, exited>>

\* listen() throws.
ListenFails ==
  /\ Booting /\ boot = "wired"
  /\ boot' = "failed" /\ exited' \in {1, Running}
  /\ UNCHANGED <<conf, providers, awaited, up, load, stopVars>>

\* A signal before the handlers are there, or an uncaught exception at any time.
Killed ==
  /\ exited = Running
  /\ exited' = 1
  /\ UNCHANGED <<bootVars, up, load, stopVars>>

-----------------------------------------------------------------------------
(* The servers *)

RequestArrives ==
  /\ exited = Running /\ "http" \in up /\ requests < MaxRequests
  /\ requests' = requests + 1
  /\ UNCHANGED <<bootVars, up, rpcs, stopVars, exited>>

RequestEnds ==
  /\ exited = Running /\ requests > 0
  /\ requests' = requests - 1
  /\ UNCHANGED <<bootVars, up, rpcs, stopVars, exited>>

\* The gRPC server has its calls from the moment it is bound.
RpcArrives ==
  /\ exited = Running /\ "grpc" \in up /\ rpcs < MaxRequests
  /\ rpcs' = rpcs + 1
  /\ UNCHANGED <<bootVars, up, requests, stopVars, exited>>

RpcEnds ==
  /\ exited = Running /\ rpcs > 0
  /\ rpcs' = rpcs - 1
  /\ UNCHANGED <<bootVars, up, requests, stopVars, exited>>

-----------------------------------------------------------------------------
(* shutdown() *)

\* Mutant: the Redis clients are not closed.
ClosesAllButRedis(s) ==
  CASE s = "app" -> {"http"} [] s = "grpc" -> {"grpc"} [] OTHER -> {}

\* What a step closes as it begins.  closeRabbitMQClient() finds no instance:
\* startApp made its client with createRabbitMQClient().
Closes(s) ==
  CASE s = "app"   -> {"http"}
    [] s = "grpc"  -> {"grpc"}
    [] s = "redis" -> {"redisRead", "redisWrite"}
    [] OTHER       -> {}

\* SIGTERM or SIGINT
Shutdown ==
  /\ boot = "serving" /\ exited = Running /\ Len(runs) < MaxSignals
  /\ runs' = Append(runs, 1)
  /\ up' = up \ Closes("app")
  /\ UNCHANGED <<bootVars, load, flushing, flushed, failed, exited>>

\* app.stop() rejects: the catch exits 1.
StopRejects(k) ==
  /\ exited = Running /\ Teardown[runs[k]] = "app"
  /\ exited' = 1
  /\ UNCHANGED <<bootVars, up, load, stopVars>>

\* app.stop() and tryShutdown() settle when nothing is in flight.
Drained(k) ==
  CASE Teardown[runs[k]] = "app"  -> requests = 0
    [] Teardown[runs[k]] = "grpc" -> rpcs = 0
    [] OTHER                      -> TRUE

\* Mutant: no process.exit(0) at the end.
GoOnWithoutExit(k, i, closed) ==
  /\ runs' = IF i \in Steps THEN [runs EXCEPT ![k] = i] ELSE runs
  /\ up' = up \ (closed \cup IF i \in Steps THEN Closes(Teardown[i]) ELSE {})
  /\ UNCHANGED exited

\* Run k goes on to step i, closing more; or past the last: process.exit(0).
GoOn(k, i, closed) ==
  IF i \in Steps
    THEN /\ runs' = [runs EXCEPT ![k] = i]
         /\ up' = up \ (closed \cup Closes(Teardown[i]))
         /\ UNCHANGED exited
    ELSE /\ exited' = 0
         /\ up' = up \ closed
         /\ UNCHANGED runs

\* Steps that cannot fail, or whose failure is of no consequence.
StepSettles(k) ==
  /\ exited = Running /\ Teardown[runs[k]] \notin {"mongo", "tracer", "meter"}
  /\ Drained(k)
  /\ GoOn(k, runs[k] + 1, {})
  /\ UNCHANGED <<bootVars, load, flushing, flushed, failed>>

\* closeMongo() swallows the error of mongoose.disconnect().
MongoCloses(k) ==
  /\ exited = Running /\ Teardown[runs[k]] = "mongo"
  /\ \/ GoOn(k, runs[k] + 1, {"mongo"}) /\ UNCHANGED failed
     \/ GoOn(k, runs[k] + 1, {}) /\ failed' = failed \cup {"mongo"}
  /\ UNCHANGED <<bootVars, load, flushing, flushed>>

\* The tracer provider is shut down; if that throws, shutdownTelemetry() is over
\* and the metrics are not flushed.
TracerStops(k) ==
  /\ exited = Running /\ Teardown[runs[k]] = "tracer"
  /\ \/ /\ GoOn(k, runs[k] + 1, {})
        /\ flushing' = IF "meter" \in providers /\ flushing = NoRun THEN k ELSE flushing
        /\ UNCHANGED failed
     \/ /\ "tracer" \in providers
        /\ GoOn(k, runs[k] + 2, {})
        /\ failed' = failed \cup {"tracer"}
        /\ UNCHANGED flushing
  /\ UNCHANGED <<bootVars, load, flushed>>

\* The meter provider exports its metrics for the run that shuts it down first;
\* for another, or when there is none, the step is over at once.
MeterStops(k) ==
  /\ exited = Running /\ Teardown[runs[k]] = "meter"
  /\ GoOn(k, runs[k] + 1, {})
  /\ IF flushing = k
       THEN \/ flushed' = TRUE /\ UNCHANGED failed
            \/ failed' = failed \cup {"meter"} /\ UNCHANGED flushed
       ELSE UNCHANGED <<flushed, failed>>
  /\ UNCHANGED <<bootVars, load, flushing>>

-----------------------------------------------------------------------------
Boot ==
  \/ ImportEnv \/ CreateTelemetryPlugin \/ StartApp
  \/ \E p \in awaited : Resolves(p) \/ Rejects(p)
  \/ Serve \/ ListenFails

Load == RequestArrives \/ RequestEnds \/ RpcArrives \/ RpcEnds

Settles(k) ==
  StopRejects(k) \/ StepSettles(k) \/ MongoCloses(k) \/ TracerStops(k) \/ MeterStops(k)

Next == Boot \/ Killed \/ Load \/ Shutdown \/ \E k \in Runs : Settles(k)

Spec == Init /\ [][Next]_vars

(* No deadline ends a shutdown here, so it ends only if what it awaits does: *)
(* every request and call ends, and every close and flush settles.          *)
Fairness ==
  /\ WF_vars(RequestEnds) /\ WF_vars(RpcEnds)
  /\ \A k \in 1..MaxSignals : WF_vars(k \in Runs /\ Settles(k))

FairSpec == Spec /\ Fairness

-----------------------------------------------------------------------------
(* Properties *)

\* Whoever is being served, over HTTP or gRPC, has its databases: they are
\* connected before a server is started, and closed after both are drained,
\* though several shutdown()s interleave.
DatabasesOutliveRequests ==
  requests > 0 \/ rpcs > 0 \/ up \cap Servers # {} => Databases \subseteq up

\* Exit code 0 means that nothing was cut off and everything shutdown() can
\* close is closed, MongoDB unless its disconnect failed; and "buffered data is
\* exported before the process exits", unless the export failed or a second
\* signal overtook it.
ExitZeroIsComplete ==
  exited = 0 =>
    /\ requests = 0 /\ rpcs = 0
    /\ up \subseteq {"mongo", "rabbitmq"}
    /\ "mongo" \in up => "mongo" \in failed
    /\ "meter" \in providers /\ Len(runs) = 1
         => flushed \/ failed \cap {"tracer", "meter"} # {}

\* A signalled process ends, however often it is signalled.
ShutdownEnds == runs # <<>> ~> exited # Running
=============================================================================
