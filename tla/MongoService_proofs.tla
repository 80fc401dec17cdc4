------------------------- MODULE MongoService_proofs -------------------------
(***************************************************************************)
(* Proofs about the Mongo starter's process, for any number of requests,   *)
(* calls and signals.                                                      *)
(***************************************************************************)
EXTENDS MongoService, TLAPS

(* How far the boot is says what is open.                                  *)
Staged ==
  /\ boot # "serving" => "http" \notin up /\ requests = 0 /\ runs = <<>>
  /\ boot = "health" => "mongo" \in up
  /\ boot = "redis" => "mongo" \in up /\ {"redisRead", "redisWrite"} \ awaited \subseteq up
  /\ boot \in {"rabbitmq", "grpc", "wired"} => Databases \subseteq up
  /\ boot \notin {"wired", "serving", "failed"} => up \cap Servers = {} /\ rpcs = 0

(* How far a run of shutdown() is says what is closed.                     *)
Drained1(k) ==
  /\ "http" \notin up
  /\ runs[k] > 1 => requests = 0
  /\ runs[k] > 1 => "grpc" \notin up
  /\ runs[k] > 2 => rpcs = 0
  /\ runs[k] > 3 => "redisRead" \notin up /\ "redisWrite" \notin up
  /\ runs[k] > 5 => "mongo" \notin up \/ "mongo" \in failed

Drains == \A k \in Runs : Drained1(k)

(* Only a run that is past the tracer flushes the metrics, and a run that  *)
(* is alone does, if the tracer let it.                                    *)
Flushes ==
  /\ flushing # NoRun => flushing \in Runs /\ runs[flushing] >= 7
  /\ Len(runs) = 1 /\ "meter" \in providers =>
       /\ runs[1] = 7 => flushing = 1
       /\ runs[1] = 8 => flushed \/ failed \cap {"tracer", "meter"} # {}

IInv ==
  /\ TypeOK /\ Staged /\ Drains /\ Flushes
  /\ DatabasesOutliveRequests /\ ExitZeroIsComplete

-----------------------------------------------------------------------------
(* The constant sequences and functions, position by position              *)

LEMMA TeardownIs ==
  /\ Steps = 1..8
  /\ Teardown[1] = "app" /\ Teardown[2] = "grpc" /\ Teardown[3] = "rabbitmq"
  /\ Teardown[4] = "redis" /\ Teardown[5] = "mongo" /\ Teardown[6] = "tracer"
  /\ Teardown[7] = "meter" /\ Teardown[8] = "logger"
BY DEF Steps, Teardown

LEMMA StagesAre ==
  /\ Stages = {"mongo", "health", "redis", "rabbitmq", "grpc"}
  /\ Promises["mongo"] = {"mongo"} /\ Promises["health"] = {"ping"}
  /\ Promises["redis"] = {"redisRead", "redisWrite"}
  /\ Promises["rabbitmq"] = {"rabbitmq"} /\ Promises["grpc"] = {"grpc"}
BY DEF Stages, Promises

LEMMA AfterIs ==
  /\ After["mongo"] = "health" /\ After["health"] = "redis"
  /\ After["redis"] = "rabbitmq" \/ After["redis"] = "grpc"
  /\ After["rabbitmq"] = "grpc" /\ After["grpc"] = "wired"
BY DEF After

(* The step a run is at, by its name                                       *)
LEMMA StepNames ==
  ASSUME NEW n \in Steps
  PROVE  /\ n \in 1..8
         /\ Teardown[n] = "app" <=> n = 1
         /\ Teardown[n] = "mongo" <=> n = 5
         /\ Teardown[n] = "tracer" <=> n = 6
         /\ Teardown[n] = "meter" <=> n = 7
<1>1. n = 1 \/ n = 2 \/ n = 3 \/ n = 4 \/ n = 5 \/ n = 6 \/ n = 7 \/ n = 8
  BY TeardownIs
<1> QED BY <1>1, TeardownIs

LEMMA StepCloses ==
  /\ Closes(Teardown[1]) = {"http"} /\ Closes(Teardown[2]) = {"grpc"}
  /\ Closes(Teardown[4]) = {"redisRead", "redisWrite"}
  /\ \A n \in {3, 5, 6, 7, 8} : Closes(Teardown[n]) = {}
BY TeardownIs DEF Closes

(* What GoOn does to the runs, short of the last step                      *)
LEMMA RunsGoOn ==
  ASSUME runs \in Seq(Steps), NEW k \in Runs, NEW i \in Steps, NEW closed,
         GoOn(k, i, closed)
  PROVE  /\ runs' \in Seq(Steps) /\ Runs' = Runs /\ Len(runs') = Len(runs)
         /\ runs'[k] = i
         /\ \A j \in Runs : j # k => runs'[j] = runs[j]
         /\ up' = up \ (closed \cup Closes(Teardown[i]))
         /\ exited' = exited
<1>1. runs' = [runs EXCEPT ![k] = i]
  BY DEF GoOn
<1>2. runs' \in Seq(Steps) /\ Len(runs') = Len(runs) /\ DOMAIN runs' = DOMAIN runs
  BY <1>1 DEF Runs
<1> QED BY <1>1, <1>2 DEF GoOn, Runs

(* ... and past it                                                         *)
LEMMA LastGoOn ==
  ASSUME NEW k, NEW i \in Nat \ Steps, NEW closed, GoOn(k, i, closed)
  PROVE  runs' = runs /\ up' = up \ closed /\ exited' = 0
BY DEF GoOn

LEMMA RunsAppend ==
  ASSUME runs \in Seq(Steps), Shutdown
  PROVE  /\ runs' \in Seq(Steps) /\ Len(runs') = Len(runs) + 1
         /\ Runs' = 1..(Len(runs) + 1) /\ Runs = 1..Len(runs)
         /\ \A j \in Runs : runs'[j] = runs[j]
         /\ runs'[Len(runs) + 1] = 1
<1>1. runs' = Append(runs, 1) /\ 1 \in Steps
  BY TeardownIs DEF Shutdown
<1> QED BY <1>1 DEF Runs

LEMMA RunsTyped ==
  ASSUME runs \in Seq(Steps)
  PROVE  Runs = 1..Len(runs) /\ \A k \in Runs : runs[k] \in Steps /\ runs[k] \in 1..8
BY TeardownIs DEF Runs

-----------------------------------------------------------------------------
(* A step of a run of shutdown(), in numbers: the run goes on to step n    *)

Advance(k, n) ==
  /\ runs' \in Seq(Steps) /\ Runs' = Runs /\ Len(runs') = Len(runs)
  /\ runs'[k] = n
  /\ \A j \in Runs : j # k => runs'[j] = runs[j]
  /\ exited' = exited

Closing(k, n) ==
  /\ n = runs[k] + 1 \/ (runs[k] = 6 /\ n = 8)
  /\ n = 2 => requests = 0 /\ up' = up \ {"grpc"}
  /\ n = 3 => rpcs = 0
  /\ n = 4 => up' = up \ {"redisRead", "redisWrite"}
  /\ n = 6 => up' = up \ {"mongo"} \/ (up' = up /\ "mongo" \in failed')
  /\ n \notin {2, 4, 6} => up' = up

Flushing(k, n) ==
  /\ n = 7 => flushing' = IF "meter" \in providers /\ flushing = NoRun THEN k ELSE flushing
  /\ n # 7 => flushing' = flushing
  /\ n = 8 => \/ "tracer" \in failed'
              \/ runs[k] = 7 /\ (flushing = k => flushed' \/ "meter" \in failed')

Kept ==
  /\ failed \subseteq failed' /\ failed' \subseteq {"mongo", "tracer", "meter"}
  /\ flushed => flushed'
  /\ flushed' \in BOOLEAN

Moves(k) ==
  \/ exited' = 1 /\ UNCHANGED <<up, stopVars>>
  \/ runs[k] = 8 /\ exited' = 0 /\ UNCHANGED <<up, stopVars>>
  \/ \E n \in Steps : Advance(k, n) /\ Closing(k, n) /\ Flushing(k, n) /\ Kept

LEMMA SettlesMoves ==
  ASSUME TypeOK, NEW k \in Runs, Settles(k)
  PROVE  /\ exited = Running /\ UNCHANGED <<bootVars, load>>
         /\ Moves(k)
<1> DEFINE r == runs[k]
<1>1. /\ runs \in Seq(Steps) /\ failed \subseteq {"mongo", "tracer", "meter"}
      /\ flushed \in BOOLEAN
  BY DEF TypeOK
<1>2. /\ r \in Steps /\ r \in 1..8 /\ Steps = 1..8
      /\ Teardown[r] = "app" <=> r = 1
      /\ Teardown[r] = "mongo" <=> r = 5
      /\ Teardown[r] = "tracer" <=> r = 6
      /\ Teardown[r] = "meter" <=> r = 7
  BY <1>1, RunsTyped, StepNames, TeardownIs
<1>3. CASE StopRejects(k)
  BY <1>3 DEF StopRejects, Moves, load
<1>4. CASE StepSettles(k)
  <2>1. /\ r \in {1, 2, 3, 4, 8} /\ Drained(k) /\ GoOn(k, r + 1, {})
        /\ UNCHANGED <<flushing, flushed, failed>>
        /\ exited = Running /\ UNCHANGED <<bootVars, load>>
    BY <1>2, <1>4 DEF StepSettles
  <2>2. CASE r = 8
    BY <1>2, <2>1, <2>2, LastGoOn DEF Moves, stopVars
  <2>3. CASE r # 8
    <3>1. r + 1 \in Steps /\ r \in {1, 2, 3, 4}
      BY <1>2, <2>1, <2>3
    <3>2. /\ Advance(k, r + 1)
          /\ up' = up \ ({} \cup Closes(Teardown[r + 1]))
      BY <1>1, <2>1, <3>1, RunsGoOn DEF Advance
    <3>3. /\ r = 1 => requests = 0
          /\ r = 2 => rpcs = 0
      BY <2>1, TeardownIs, Zenon DEF Drained
    <3>4. Closing(k, r + 1)
      BY <3>1, <3>2, <3>3, StepCloses DEF Closing
    <3>5. Flushing(k, r + 1) /\ Kept
      BY <1>1, <2>1, <3>1 DEF Flushing, Kept
    <3> QED BY <2>1, <3>1, <3>2, <3>4, <3>5 DEF Moves
  <2> QED BY <2>1, <2>2, <2>3
<1>5. CASE MongoCloses(k)
  <2>1. /\ r = 5 /\ UNCHANGED <<flushing, flushed>>
        /\ exited = Running /\ UNCHANGED <<bootVars, load>>
        /\ \/ GoOn(k, r + 1, {"mongo"}) /\ failed' = failed
           \/ GoOn(k, r + 1, {}) /\ failed' = failed \cup {"mongo"}
    BY <1>2, <1>5 DEF MongoCloses
  <2>2. 6 \in Steps /\ r + 1 = 6
    BY <1>2, <2>1
  <2>3. /\ Advance(k, 6)
        /\ \/ up' = up \ ({"mongo"} \cup Closes(Teardown[6])) /\ failed' = failed
           \/ up' = up \ ({} \cup Closes(Teardown[6])) /\ failed' = failed \cup {"mongo"}
    BY <1>1, <2>1, <2>2, RunsGoOn DEF Advance
  <2>4. Closing(k, 6)
    BY <2>1, <2>3, StepCloses DEF Closing
  <2>5. Flushing(k, 6) /\ Kept
    <3>1. flushing' = flushing /\ flushed' = flushed
      BY <2>1
    <3>2. failed' = failed \/ failed' = failed \cup {"mongo"}
      BY <2>1, Zenon
    <3>3. Flushing(k, 6)
      BY <3>1 DEF Flushing
    <3> QED BY <1>1, <3>1, <3>2, <3>3 DEF Kept
  <2>6. Moves(k)
    BY <2>2, <2>3, <2>4, <2>5 DEF Moves
  <2> QED BY <2>1, <2>6
<1>6. CASE TracerStops(k)
  <2>1. r = 6 /\ exited = Running /\ UNCHANGED <<bootVars, load, flushed>>
    BY <1>2, <1>6 DEF TracerStops
  <2>2. 7 \in Steps /\ 8 \in Steps /\ r + 1 = 7 /\ r + 2 = 8
    BY <1>2, <2>1
  <2>3. CASE /\ GoOn(k, r + 1, {})
             /\ flushing' = IF "meter" \in providers /\ flushing = NoRun THEN k ELSE flushing
             /\ UNCHANGED failed
    <3>1. Advance(k, 7) /\ up' = up \ ({} \cup Closes(Teardown[7]))
      BY <1>1, <2>2, <2>3, RunsGoOn DEF Advance
    <3>2. Closing(k, 7)
      BY <2>1, <3>1, StepCloses DEF Closing
    <3>3. Flushing(k, 7) /\ Kept
      BY <1>1, <2>1, <2>3 DEF Flushing, Kept
    <3> QED BY <2>1, <2>2, <3>1, <3>2, <3>3 DEF Moves
  <2>4. CASE /\ "tracer" \in providers
             /\ GoOn(k, r + 2, {})
             /\ failed' = failed \cup {"tracer"}
             /\ UNCHANGED flushing
    <3>1. Advance(k, 8) /\ up' = up \ ({} \cup Closes(Teardown[8]))
      BY <1>1, <2>2, <2>4, RunsGoOn DEF Advance
    <3>2. Closing(k, 8)
      BY <2>1, <3>1, StepCloses DEF Closing
    <3>3. Flushing(k, 8) /\ Kept
      BY <1>1, <2>1, <2>4 DEF Flushing, Kept
    <3> QED BY <2>1, <2>2, <3>1, <3>2, <3>3 DEF Moves
  <2> QED BY <1>6, <2>3, <2>4 DEF TracerStops
<1>7. CASE MeterStops(k)
  <2>1. /\ r = 7 /\ GoOn(k, r + 1, {}) /\ UNCHANGED flushing
        /\ exited = Running /\ UNCHANGED <<bootVars, load>>
    BY <1>2, <1>7 DEF MeterStops
  <2>2. 8 \in Steps /\ r + 1 = 8
    BY <1>2, <2>1
  <2>3. Advance(k, 8) /\ up' = up \ ({} \cup Closes(Teardown[8]))
    BY <1>1, <2>1, <2>2, RunsGoOn DEF Advance
  <2>4. Closing(k, 8)
    BY <2>1, <2>3, StepCloses DEF Closing
  <2>5. /\ Kept
        /\ flushing = k => flushed' \/ "meter" \in failed'
    BY <1>1, <1>7 DEF MeterStops, Kept
  <2>6. Flushing(k, 8)
    BY <2>1, <2>5 DEF Flushing
  <2> QED BY <2>1, <2>2, <2>3, <2>4, <2>5, <2>6 DEF Moves
<1> QED BY <1>3, <1>4, <1>5, <1>6, <1>7 DEF Settles

-----------------------------------------------------------------------------
(* Every step keeps the invariant.  First the steps of the boot.           *)

LEMMA BootFrame ==
  ASSUME IInv, Boot
  PROVE  /\ exited = Running /\ boot # "serving"
         /\ UNCHANGED <<load, stopVars>>
         /\ runs = <<>> /\ Runs = {} /\ Len(runs) = 0
         /\ exited' \in {0, 1, Running} /\ exited' # 0
<1>1. exited = Running /\ boot # "serving" /\ UNCHANGED <<load, stopVars>>
  BY DEF Boot, ImportEnv, CreateTelemetryPlugin, StartApp, Resolves, Rejects, Serve,
         ListenFails, Booting
<1>2. exited' \in {1, Running}
  BY <1>1 DEF Boot, ImportEnv, CreateTelemetryPlugin, StartApp, Resolves, Rejects, Serve,
              ListenFails
<1>3. runs = <<>>
  BY <1>1 DEF IInv, Staged
<1> QED BY <1>1, <1>2, <1>3 DEF Runs, Running

LEMMA BootStages ==
  ASSUME IInv, Boot
  PROVE  /\ boot' \in {"import", "telemetry", "main", "wired", "serving", "failed"} \cup Stages
         /\ conf' \in Conf /\ providers' \subseteq {"tracer", "meter"}
         /\ awaited' \subseteq IF boot' \in Stages THEN Promises[boot'] ELSE {}
         /\ up' \subseteq Databases \cup Servers \cup {"rabbitmq"}
         /\ Staged' /\ DatabasesOutliveRequests'
<1> DEFINE Goal ==
         /\ boot' \in {"import", "telemetry", "main", "wired", "serving", "failed"} \cup Stages
         /\ conf' \in Conf /\ providers' \subseteq {"tracer", "meter"}
         /\ awaited' \subseteq IF boot' \in Stages THEN Promises[boot'] ELSE {}
         /\ up' \subseteq Databases \cup Servers \cup {"rabbitmq"}
         /\ Staged' /\ DatabasesOutliveRequests'
<1>1. /\ boot \in {"import", "telemetry", "main", "wired", "serving", "failed"} \cup Stages
      /\ conf \in Conf /\ providers \subseteq {"tracer", "meter"}
      /\ awaited \subseteq IF boot \in Stages THEN Promises[boot] ELSE {}
      /\ up \subseteq Databases \cup Servers \cup {"rabbitmq"}
  BY DEF IInv, TypeOK
<1>2. /\ boot # "serving" /\ "http" \notin up /\ requests = 0 /\ runs = <<>>
      /\ requests' = requests /\ rpcs' = rpcs /\ runs' = runs
  BY BootFrame DEF IInv, Staged, load, stopVars
<1>3. /\ boot = "health" => "mongo" \in up
      /\ boot = "redis" => "mongo" \in up /\ {"redisRead", "redisWrite"} \ awaited \subseteq up
      /\ boot \in {"rabbitmq", "grpc", "wired"} => Databases \subseteq up
      /\ boot \notin {"wired", "serving", "failed"} => up \cap Servers = {} /\ rpcs = 0
      /\ DatabasesOutliveRequests
  BY DEF IInv, Staged
<1>4. CASE ImportEnv
  BY <1>1, <1>2, <1>3, <1>4, StagesAre
     DEF ImportEnv, Staged, DatabasesOutliveRequests, Databases, Servers
<1>5. CASE CreateTelemetryPlugin
  <2>1. /\ boot = "telemetry" /\ boot' = "main" /\ UNCHANGED <<conf, awaited, up>>
        /\ providers' \subseteq {"tracer", "meter"}
    BY <1>5 DEF CreateTelemetryPlugin
  <2> QED BY <1>1, <1>2, <1>3, <2>1, StagesAre
          DEF Staged, DatabasesOutliveRequests, Databases, Servers
<1>6. CASE StartApp
  BY <1>1, <1>2, <1>3, <1>6, StagesAre
     DEF StartApp, Enter, Staged, DatabasesOutliveRequests, Databases, Servers
<1>7. ASSUME NEW p \in awaited, Resolves(p) PROVE Goal
  <2>1. /\ boot \in Stages /\ p \in Promises[boot] /\ awaited \subseteq Promises[boot]
        /\ up' = up \cup ({p} \ {"ping"})
        /\ UNCHANGED <<conf, providers>>
    BY <1>1, <1>7 DEF Resolves
  <2>2. up' \subseteq Databases \cup Servers \cup {"rabbitmq"}
    BY <1>1, <2>1, StagesAre DEF Databases, Servers
  <2>3. CASE awaited = {p}
    <3>1. boot' = After[boot]
          /\ awaited' = IF boot' \in Stages THEN Promises[boot'] ELSE {}
      BY <1>7, <2>3 DEF Resolves, Enter
    <3>2. CASE boot = "mongo"
      BY <1>1, <1>2, <1>3, <2>1, <2>2, <3>1, <3>2, StagesAre, AfterIs
         DEF Staged, DatabasesOutliveRequests, Databases, Servers
    <3>3. CASE boot = "health"
      BY <1>1, <1>2, <1>3, <2>1, <2>2, <3>1, <3>3, StagesAre, AfterIs
         DEF Staged, DatabasesOutliveRequests, Databases, Servers
    <3>4. CASE boot = "redis"
      <4>1. Databases \subseteq up'
        BY <1>3, <2>1, <2>3, <3>4, StagesAre DEF Databases
      <4> QED BY <1>1, <1>2, <1>3, <2>1, <2>2, <3>1, <3>4, <4>1, StagesAre, AfterIs
              DEF Staged, DatabasesOutliveRequests, Databases, Servers
    <3>5. CASE boot = "rabbitmq"
      BY <1>1, <1>2, <1>3, <2>1, <2>2, <3>1, <3>5, StagesAre, AfterIs
         DEF Staged, DatabasesOutliveRequests, Databases, Servers
    <3>6. CASE boot = "grpc"
      BY <1>1, <1>2, <1>3, <2>1, <2>2, <3>1, <3>6, StagesAre, AfterIs
         DEF Staged, DatabasesOutliveRequests, Databases, Servers
    <3> QED BY <2>1, <3>2, <3>3, <3>4, <3>5, <3>6, StagesAre
  <2>4. CASE awaited # {p}
    <3>1. boot' = boot /\ awaited' = awaited \ {p}
      BY <1>7, <2>4 DEF Resolves
    <3>2. boot = "redis"
      BY <1>7, <2>1, <2>4, StagesAre
    <3> QED BY <1>1, <1>2, <1>3, <2>1, <2>2, <3>1, <3>2, StagesAre
            DEF Staged, DatabasesOutliveRequests, Databases, Servers
  <2> QED BY <2>3, <2>4
<1>8. ASSUME NEW p \in awaited, Rejects(p) PROVE Goal
  BY <1>1, <1>2, <1>3, <1>8, StagesAre
     DEF Rejects, Staged, DatabasesOutliveRequests, Databases, Servers
<1>9. CASE Serve
  BY <1>1, <1>2, <1>3, <1>9, StagesAre
     DEF Serve, Staged, DatabasesOutliveRequests, Databases, Servers
<1>10. CASE ListenFails
  BY <1>1, <1>2, <1>3, <1>10, StagesAre
     DEF ListenFails, Staged, DatabasesOutliveRequests, Databases, Servers
<1> QED BY <1>4, <1>5, <1>6, <1>7, <1>8, <1>9, <1>10 DEF Boot

LEMMA BootKeeps == IInv /\ Boot => IInv'
<1> SUFFICES ASSUME IInv, Boot PROVE IInv'
  OBVIOUS
<1>1. /\ exited = Running /\ UNCHANGED <<load, stopVars>>
      /\ Runs = {} /\ Len(runs) = 0
      /\ exited' \in {0, 1, Running} /\ exited' # 0
  BY BootFrame
<1>2. /\ requests \in 0..MaxRequests /\ rpcs \in 0..MaxRequests
      /\ runs \in Seq(Steps)
      /\ flushing \in Nat /\ flushed \in BOOLEAN
      /\ failed \subseteq {"mongo", "tracer", "meter"}
  BY DEF IInv, TypeOK
<1>3. TypeOK'
  BY <1>1, <1>2, BootStages DEF TypeOK, load, stopVars
<1>4. Drains'
  BY <1>1 DEF Drains, Runs, stopVars
<1>5. Flushes'
  <2>1. flushing = NoRun
    BY <1>1 DEF IInv, Flushes
  <2> QED BY <1>1, <2>1 DEF Flushes, stopVars
<1>6. ExitZeroIsComplete'
  BY <1>1 DEF ExitZeroIsComplete
<1> QED BY <1>3, <1>4, <1>5, <1>6, BootStages DEF IInv

-----------------------------------------------------------------------------
(* Kills, requests and signals                                             *)

LEMMA KilledKeeps == IInv /\ Killed => IInv'
<1> SUFFICES ASSUME IInv, Killed PROVE IInv'
  OBVIOUS
<1>1. exited' = 1 /\ UNCHANGED <<bootVars, up, load, stopVars>>
  BY DEF Killed
<1>2. /\ UNCHANGED <<boot, conf, providers, awaited, up, requests, rpcs>>
      /\ UNCHANGED <<runs, flushing, flushed, failed>>
  BY <1>1 DEF bootVars, load, stopVars
<1>3. TypeOK'
  BY <1>1, <1>2 DEF IInv, TypeOK
<1>4. Staged' /\ DatabasesOutliveRequests'
  BY <1>2 DEF IInv, Staged, DatabasesOutliveRequests
<1>5. Drains'
  BY <1>2 DEF IInv, Drains, Drained1, Runs
<1>6. Flushes'
  BY <1>2 DEF IInv, Flushes, Runs
<1>7. ExitZeroIsComplete'
  BY <1>1 DEF ExitZeroIsComplete
<1> QED BY <1>3, <1>4, <1>5, <1>6, <1>7 DEF IInv

LEMMA LoadKeeps == IInv /\ Load => IInv'
<1> SUFFICES ASSUME IInv, Load PROVE IInv'
  OBVIOUS
<1>1. /\ exited = Running
      /\ UNCHANGED <<boot, conf, providers, awaited, up, runs, flushing, flushed, failed, exited>>
  BY DEF Load, RequestArrives, RequestEnds, RpcArrives, RpcEnds, bootVars, stopVars
<1>2. requests \in 0..MaxRequests /\ rpcs \in 0..MaxRequests
  BY DEF IInv, TypeOK
<1>3. /\ requests' \in 0..MaxRequests /\ rpcs' \in 0..MaxRequests
      /\ requests' > 0 => requests > 0 \/ "http" \in up
      /\ rpcs' > 0 => rpcs > 0 \/ "grpc" \in up
  BY <1>2, BoundsAssumption DEF Load, RequestArrives, RequestEnds, RpcArrives, RpcEnds
<1>4. TypeOK'
  BY <1>1, <1>3 DEF IInv, TypeOK
<1>5. DatabasesOutliveRequests'
  BY <1>1, <1>3 DEF IInv, DatabasesOutliveRequests, Servers
<1>6. /\ requests = 0 /\ "http" \notin up => requests' = 0
      /\ rpcs = 0 /\ "grpc" \notin up => rpcs' = 0
  BY <1>3
<1>7. Staged'
  BY <1>1, <1>6 DEF IInv, Staged, Servers
<1>8. Drains'
  <2> SUFFICES ASSUME NEW k \in Runs PROVE Drained1(k)'
    BY <1>1 DEF Drains, Runs
  <2>1. Drained1(k) /\ runs[k] \in 1..8
    BY RunsTyped DEF IInv, Drains, TypeOK
  <2>2. runs[k] > 2 => runs[k] > 1
    BY <2>1
  <2> QED BY <1>1, <1>6, <2>1, <2>2 DEF Drained1
<1>9. Flushes'
  BY <1>1 DEF IInv, Flushes, Runs
<1>10. ExitZeroIsComplete'
  BY <1>1 DEF ExitZeroIsComplete, Running
<1> QED BY <1>4, <1>5, <1>7, <1>8, <1>9, <1>10 DEF IInv

LEMMA ShutdownKeeps == IInv /\ Shutdown => IInv'
<1> SUFFICES ASSUME IInv, Shutdown PROVE IInv'
  OBVIOUS
<1>1. /\ boot = "serving" /\ exited = Running
      /\ UNCHANGED <<boot, conf, providers, awaited, requests, rpcs, flushing, flushed, failed, exited>>
      /\ up' = up \ {"http"}
  BY TeardownIs, StepCloses DEF Shutdown, bootVars, load
<1>2. runs \in Seq(Steps)
  BY DEF IInv, TypeOK
<1>3. /\ runs' \in Seq(Steps) /\ Len(runs) \in Nat /\ Len(runs') = Len(runs) + 1
      /\ Runs' = 1..(Len(runs) + 1) /\ Runs = 1..Len(runs)
      /\ \A j \in Runs : runs'[j] = runs[j]
      /\ runs'[Len(runs) + 1] = 1
  BY <1>2, RunsAppend
<1>4. TypeOK'
  BY <1>1, <1>3 DEF IInv, TypeOK
<1>5. Staged' /\ DatabasesOutliveRequests'
  BY <1>1 DEF IInv, Staged, DatabasesOutliveRequests, Databases, Servers
<1>6. Drains'
  <2> SUFFICES ASSUME NEW k \in Runs' PROVE Drained1(k)'
    BY DEF Drains
  <2>1. CASE k \in Runs
    BY <1>1, <1>3, <2>1 DEF IInv, Drains, Drained1
  <2>2. CASE k \notin Runs
    BY <1>1, <1>3, <2>2 DEF Drained1
  <2> QED BY <2>1, <2>2
<1>7. Flushes'
  <2>1. flushing # NoRun => flushing \in Runs /\ runs[flushing] >= 7
    BY DEF IInv, Flushes
  <2>2. flushing' # NoRun => flushing' \in Runs' /\ runs'[flushing'] >= 7
    BY <1>1, <1>3, <2>1
  <2>3. Len(runs') = 1 => runs'[1] = 1
    BY <1>3
  <2> QED BY <2>2, <2>3 DEF Flushes
<1>8. ExitZeroIsComplete'
  BY <1>1 DEF ExitZeroIsComplete, Running
<1> QED BY <1>4, <1>5, <1>6, <1>7, <1>8 DEF IInv

-----------------------------------------------------------------------------
(* The steps of shutdown()                                                 *)

LEMMA AdvanceKeeps ==
  ASSUME IInv, NEW k \in Runs, NEW n \in Steps, exited = Running,
         UNCHANGED <<bootVars, load>>,
         Advance(k, n), Closing(k, n), Flushing(k, n), Kept
  PROVE  IInv'
<1>1. /\ boot' = boot /\ conf' = conf /\ providers' = providers /\ awaited' = awaited
      /\ requests' = requests /\ rpcs' = rpcs
  BY DEF bootVars, load
<1>2. /\ runs' \in Seq(Steps) /\ Runs' = Runs /\ Len(runs') = Len(runs)
      /\ runs'[k] = n /\ \A j \in Runs : j # k => runs'[j] = runs[j]
      /\ exited' = Running
  BY DEF Advance
<1>3. n \in 1..8 /\ runs[k] \in 1..8 /\ Runs = 1..Len(runs) /\ Len(runs) \in Nat
  BY TeardownIs, RunsTyped DEF IInv, TypeOK
<1>4. n = runs[k] + 1 \/ (runs[k] = 6 /\ n = 8)
  BY DEF Closing
<1>5. up' \subseteq up /\ failed \subseteq failed'
  BY DEF Closing, Kept
<1>6. flushing' \in Nat
  BY <1>3 DEF IInv, TypeOK, Flushing
<1>7. TypeOK'
  BY <1>1, <1>2, <1>5, <1>6 DEF IInv, TypeOK, Kept
<1>8. Drained1(k)
  BY DEF IInv, Drains
<1>9. boot = "serving"
  BY <1>3 DEF IInv, Staged
<1>10. Staged'
  BY <1>1, <1>9 DEF Staged
<1>11. Drained1(k)'
  <2>1. "http" \notin up' /\ (runs'[k] > 1 => requests' = 0)
    BY <1>1, <1>2, <1>3, <1>4, <1>5, <1>8 DEF Drained1, Closing
  <2>2. runs'[k] > 1 => "grpc" \notin up'
    BY <1>2, <1>3, <1>4, <1>5, <1>8 DEF Drained1, Closing
  <2>3. runs'[k] > 2 => rpcs' = 0
    BY <1>1, <1>2, <1>3, <1>4, <1>8 DEF Drained1, Closing
  <2>4. runs'[k] > 3 => "redisRead" \notin up' /\ "redisWrite" \notin up'
    BY <1>2, <1>3, <1>4, <1>5, <1>8 DEF Drained1, Closing
  <2>5. runs'[k] > 5 => "mongo" \notin up' \/ "mongo" \in failed'
    BY <1>2, <1>3, <1>4, <1>5, <1>8 DEF Drained1, Closing
  <2> QED BY <2>1, <2>2, <2>3, <2>4, <2>5 DEF Drained1
<1>12. Drains'
  <2> SUFFICES ASSUME NEW j \in Runs, j # k PROVE Drained1(j)'
    BY <1>2, <1>11 DEF Drains
  <2>1. Drained1(j) /\ runs'[j] = runs[j]
    BY <1>2 DEF IInv, Drains
  <2> QED BY <1>1, <1>5, <2>1 DEF Drained1
<1>13. DatabasesOutliveRequests'
  <2>1. CASE n \in {4, 6}
    <3>1. runs[k] > 2
      BY <1>3, <1>4, <2>1
    <3>2. requests' = 0 /\ rpcs' = 0 /\ "http" \notin up' /\ "grpc" \notin up'
      BY <1>1, <1>3, <1>5, <1>8, <3>1 DEF Drained1
    <3> QED BY <3>2 DEF DatabasesOutliveRequests, Servers
  <2>2. CASE n \notin {4, 6}
    <3>1. Databases \cap up' = Databases \cap up
      BY <2>2 DEF Closing, Databases
    <3> QED BY <1>1, <1>5, <3>1 DEF IInv, DatabasesOutliveRequests
  <2> QED BY <2>1, <2>2
<1>14. Flushes'
  <2>1. flushing # NoRun => flushing \in Runs /\ runs[flushing] >= 7
    BY DEF IInv, Flushes
  <2>2. flushing' # NoRun => flushing' \in Runs /\ runs'[flushing'] >= 7
    <3>1. CASE flushing' = flushing
      BY <1>2, <1>3, <1>4, <2>1, <3>1
    <3>2. CASE flushing' # flushing
      BY <1>2, <3>2 DEF Flushing
    <3> QED BY <3>1, <3>2
  <2>3. ASSUME Len(runs) = 1, "meter" \in providers
        PROVE  /\ n = 7 => flushing' = 1
               /\ n = 8 => flushed' \/ failed' \cap {"tracer", "meter"} # {}
    <3>1. k = 1
      BY <1>3, <2>3
    <3>2. n = 7 => flushing' = 1
      <4>1. n = 7 => flushing = NoRun
        BY <1>3, <1>4, <2>1, <2>3, <3>1
      <4> QED BY <2>3, <3>1, <4>1 DEF Flushing
    <3>3. n = 8 /\ runs[k] = 7 => flushing = k
      BY <2>3, <3>1 DEF IInv, Flushes
    <3>4. n = 8 => flushed' \/ failed' \cap {"tracer", "meter"} # {}
      BY <3>3 DEF Flushing
    <3> QED BY <3>2, <3>4
  <2>4. Len(runs') = 1 => runs'[1] = n
    BY <1>2, <1>3
  <2> QED BY <1>1, <1>2, <2>2, <2>3, <2>4 DEF Flushes
<1>15. ExitZeroIsComplete'
  BY <1>2 DEF ExitZeroIsComplete, Running
<1> QED BY <1>7, <1>10, <1>12, <1>13, <1>14, <1>15 DEF IInv

LEMMA SettlesKeeps ==
  ASSUME IInv, NEW k \in Runs, Settles(k)
  PROVE  IInv'
<1>1. exited = Running /\ UNCHANGED <<bootVars, load>> /\ Moves(k)
  BY SettlesMoves DEF IInv
<1>2. ASSUME exited' \in {0, 1}, UNCHANGED <<up, stopVars>>, ExitZeroIsComplete'
      PROVE  IInv'
  <2>1. /\ UNCHANGED <<boot, conf, providers, awaited, up, requests, rpcs>>
        /\ UNCHANGED <<runs, flushing, flushed, failed>>
    BY <1>1, <1>2 DEF bootVars, load, stopVars
  <2>2. TypeOK'
    BY <1>2, <2>1 DEF IInv, TypeOK
  <2>3. Staged' /\ DatabasesOutliveRequests'
    BY <2>1 DEF IInv, Staged, DatabasesOutliveRequests
  <2>4. Drains' /\ Flushes'
    BY <2>1 DEF IInv, Drains, Drained1, Flushes, Runs
  <2> QED BY <1>2, <2>2, <2>3, <2>4 DEF IInv
<1>3. CASE exited' = 1 /\ UNCHANGED <<up, stopVars>>
  BY <1>2, <1>3 DEF ExitZeroIsComplete
<1>4. CASE runs[k] = 8 /\ exited' = 0 /\ UNCHANGED <<up, stopVars>>
  <2>1. /\ UNCHANGED <<providers, up, requests, rpcs, runs, flushed, failed>>
    BY <1>1, <1>4 DEF bootVars, load, stopVars
  <2>2. Drained1(k) /\ up \subseteq Databases \cup Servers \cup {"rabbitmq"}
    BY DEF IInv, Drains, TypeOK
  <2>3. /\ requests = 0 /\ rpcs = 0
        /\ "http" \notin up /\ "grpc" \notin up
        /\ "redisRead" \notin up /\ "redisWrite" \notin up
        /\ "mongo" \notin up \/ "mongo" \in failed
    BY <1>4, <2>2 DEF Drained1
  <2>4. up \subseteq {"mongo", "rabbitmq"}
    BY <2>2, <2>3 DEF Databases, Servers
  <2>5. "meter" \in providers /\ Len(runs) = 1
          => flushed \/ failed \cap {"tracer", "meter"} # {}
    <3>1. Runs = 1..Len(runs)
      BY RunsTyped DEF IInv, TypeOK
    <3>2. Len(runs) = 1 => runs[1] = 8
      BY <1>4, <3>1
    <3> QED BY <3>2 DEF IInv, Flushes
  <2>6. ExitZeroIsComplete'
    BY <2>1, <2>3, <2>4, <2>5 DEF ExitZeroIsComplete
  <2> QED BY <1>2, <1>4, <2>6
<1>5. ASSUME NEW n \in Steps, Advance(k, n), Closing(k, n), Flushing(k, n), Kept
      PROVE  IInv'
  BY <1>1, <1>5, AdvanceKeeps
<1> QED BY <1>1, <1>3, <1>4, <1>5 DEF Moves

-----------------------------------------------------------------------------
THEOREM Inductive == Spec => []IInv
<1>1. Init => IInv
  <2> SUFFICES ASSUME Init PROVE IInv
    OBVIOUS
  <2>1. TypeOK
    <3>1. runs \in Seq(Steps) /\ flushing \in Nat
      BY DEF Init, NoRun
    <3>2. boot = "import" /\ conf \in Conf /\ flushed \in BOOLEAN
      BY DEF Init
    <3>3. /\ providers = {} /\ awaited = {} /\ up = {} /\ failed = {}
          /\ requests \in 0..MaxRequests /\ rpcs \in 0..MaxRequests
          /\ exited = Running
      BY BoundsAssumption DEF Init
    <3> QED BY <3>1, <3>2, <3>3 DEF TypeOK
  <2>2. Staged /\ DatabasesOutliveRequests
    BY DEF Init, Staged, DatabasesOutliveRequests, Servers
  <2>3. Drains /\ Flushes
    BY DEF Init, Drains, Flushes, Runs
  <2>4. ExitZeroIsComplete
    BY DEF Init, ExitZeroIsComplete, Running
  <2> QED BY <2>1, <2>2, <2>3, <2>4 DEF IInv
<1>2. IInv /\ [Next]_vars => IInv'
  <2>1. IInv /\ Next => IInv'
    BY BootKeeps, KilledKeeps, LoadKeeps, ShutdownKeeps, SettlesKeeps DEF Next
  <2>2. ASSUME IInv, UNCHANGED vars PROVE IInv'
    <3>1. /\ UNCHANGED <<boot, conf, providers, awaited, up, requests, rpcs, exited>>
          /\ UNCHANGED <<runs, flushing, flushed, failed>>
      BY <2>2 DEF vars, bootVars, load, stopVars
    <3>2. TypeOK'
      BY <2>2, <3>1 DEF IInv, TypeOK
    <3>3. Staged' /\ DatabasesOutliveRequests' /\ ExitZeroIsComplete'
      BY <2>2, <3>1 DEF IInv, Staged, DatabasesOutliveRequests, ExitZeroIsComplete
    <3>4. Drains' /\ Flushes'
      BY <2>2, <3>1 DEF IInv, Drains, Drained1, Flushes, Runs
    <3> QED BY <3>2, <3>3, <3>4 DEF IInv
  <2> QED BY <2>1, <2>2
<1> QED BY <1>1, <1>2, PTL DEF Spec

(* The variables of the Mongo starter's process have their types, however  *)
(* many requests, calls and signals there are.                             *)
THEOREM TypeCorrect == Spec => []TypeOK
<1>1. IInv => TypeOK
  BY DEF IInv
<1> QED BY <1>1, Inductive, PTL

(* MongoDB and Redis are open while a server of startApp() accepts or has  *)
(* work in flight, though any number of shutdown()s interleave.            *)
THEOREM DatabasesLast == Spec => []DatabasesOutliveRequests
<1>1. IInv => DatabasesOutliveRequests
  BY DEF IInv
<1> QED BY <1>1, Inductive, PTL

(* process.exit(0) is reached only by a shutdown() that has done all its   *)
(* steps.                                                                  *)
THEOREM ZeroIsComplete == Spec => []ExitZeroIsComplete
<1>1. IInv => ExitZeroIsComplete
  BY DEF IInv
<1> QED BY <1>1, Inductive, PTL
=============================================================================
