--------------------------- MODULE Service_proofs ---------------------------
(***************************************************************************)
(* The clean starter's process implements Shutdown, whatever its deadline, *)
(* its requests and its signals; what Shutdown_proofs shows of Shutdown is *)
(* carried over to it.  Its boot and its timing have invariants of their   *)
(* own.                                                                    *)
(***************************************************************************)
EXTENDS Service, TLAPS

P == INSTANCE Shutdown_proofs WITH
  accepting <- accepting \/ boot # "serving",
  exited <- IF boot = "serving" THEN exited ELSE Running

LEMMA AfterType == ASSUME NEW s \in Stages
                   PROVE  After(s) \in Stages \cup {"wired"}
BY DEF After, Stages, Promises

LEMMA PromisesType == ASSUME NEW s \in Stages
                      PROVE  /\ Promises[s] # {}
                             /\ Promises[s] \subseteq Dependencies \cup {"schema"}
BY DEF Stages, Dependencies, Promises

\* The boot's part of the type invariant.
BootTypeOK ==
  /\ boot \in {"import", "telemetry", "main", "wired", "serving"} \cup Stages
  /\ awaited \subseteq IF boot \in Stages THEN Promises[boot] ELSE {}
  /\ boot \in Stages => awaited # {}
  /\ ready \subseteq Dependencies \cup {"schema"}

ConfigTypeOK ==
  /\ raw \in Raw /\ prod \in BOOLEAN /\ otel \in BOOLEAN
  /\ broken \subseteq Packages /\ provider \in BOOLEAN

TimeTypeOK == elapsed \in 0..Deadline /\ flushSince \in 0..elapsed

LEMMA TypeSplit == ServiceTypeOK <=> BootTypeOK /\ ConfigTypeOK /\ TimeTypeOK
BY DEF ServiceTypeOK, BootTypeOK, ConfigTypeOK, TimeTypeOK

LEMMA EnterType ==
  ASSUME NEW s \in Stages \cup {"wired"}, Enter(s), BootTypeOK,
         ready' \subseteq Dependencies \cup {"schema"}
  PROVE  BootTypeOK'
<1>1. CASE s \in Stages
  BY <1>1, PromisesType DEF Enter, BootTypeOK
<1>2. CASE s \notin Stages
  BY <1>2 DEF Enter, BootTypeOK
<1> QED BY <1>1, <1>2

LEMMA BootType == ASSUME BootTypeOK, Boot PROVE BootTypeOK'
<1>0. /\ "database" \in Stages
      /\ Stages \cap {"import", "telemetry", "main", "wired", "serving"} = {}
  BY DEF Stages, Promises
<1>1. CASE ImportInstrumentation
  BY <1>0, <1>1 DEF ImportInstrumentation, BootTypeOK
<1>2. CASE CreateTelemetryPlugin
  BY <1>0, <1>2 DEF CreateTelemetryPlugin, BootTypeOK
<1>3. CASE ImportMain
  <2>1. CASE broken \cap Imported # {}
    BY <1>3, <2>1 DEF ImportMain, BootTypeOK
  <2>2. CASE broken \cap Imported = {}
    <3>1. Enter("database") /\ ready' = ready
      BY <1>3, <2>2 DEF ImportMain
    <3> QED BY <1>0, <3>1, EnterType DEF BootTypeOK
  <2> QED BY <2>1, <2>2
<1>4. ASSUME NEW p \in awaited, Resolves(p) PROVE BootTypeOK'
  <2>1. boot \in Stages /\ p \in Dependencies \cup {"schema"}
    BY <1>4, PromisesType DEF BootTypeOK
  <2>2. ready' \subseteq Dependencies \cup {"schema"}
    BY <1>4, <2>1 DEF Resolves, BootTypeOK
  <2>3. CASE awaited = {p}
    BY <1>4, <2>1, <2>2, <2>3, AfterType, EnterType DEF Resolves
  <2>4. CASE awaited # {p}
    BY <1>4, <2>1, <2>2, <2>4 DEF Resolves, BootTypeOK
  <2> QED BY <2>3, <2>4
<1>5. CASE Serve
  BY <1>0, <1>5 DEF Serve, Booting, BootTypeOK
<1>6. ASSUME NEW p \in awaited, Rejects(p) PROVE BootTypeOK'
  BY <1>6 DEF Rejects, StartupGuard, bootVars, BootTypeOK
<1>7. CASE ListenFails \/ Killed
  BY <1>7 DEF ListenFails, Killed, StartupGuard, bootVars, BootTypeOK
<1> QED
  BY <1>1, <1>2, <1>3, <1>4, <1>5, <1>6, <1>7 DEF Boot

\* parseEnv fills in defaults only.
LEMMA ParsedType == ASSUME raw \in Raw PROVE parseEnv(raw).data \in Raw
BY DEF parseEnv, Default, Raw

LEMMA ConfigType == ASSUME ConfigTypeOK, Boot PROVE ConfigTypeOK'
<1>1. CASE ImportInstrumentation
  BY <1>1, ParsedType DEF ImportInstrumentation, checkEnv, Config, ConfigTypeOK
<1>2. CASE CreateTelemetryPlugin
  BY <1>2 DEF CreateTelemetryPlugin, Config, ConfigTypeOK
<1>3. CASE ImportMain
  BY <1>3 DEF ImportMain, Config, ConfigTypeOK
<1>4. ASSUME NEW p \in awaited, Resolves(p) \/ Rejects(p) PROVE ConfigTypeOK'
  BY <1>4 DEF Resolves, Rejects, StartupGuard, bootVars, Config, ConfigTypeOK
<1>5. CASE Serve \/ ListenFails \/ Killed
  BY <1>5 DEF Serve, ListenFails, Killed, StartupGuard, bootVars, Config, ConfigTypeOK
<1> QED BY <1>1, <1>2, <1>3, <1>4, <1>5 DEF Boot

LEMMA BootTimeless == Boot => UNCHANGED <<elapsed, flushSince>>
BY DEF Boot, ImportInstrumentation, CreateTelemetryPlugin, ImportMain, Resolves,
       Rejects, Serve, ListenFails, Killed, StartupGuard, NothingToStop

LEMMA TimeType == ASSUME TimeTypeOK, [ServiceNext]_serviceVars PROVE TimeTypeOK'
<1> USE TimeAssumption
<1>1. CASE Boot
  BY <1>1, BootTimeless DEF TimeTypeOK
<1>2. CASE ServiceRequests \/ \E code \in {0, 1} : ServiceShutdown(code)
  BY <1>2 DEF ServiceRequests, ServiceShutdown, Instantly, TimeTypeOK
<1>3. ASSUME NEW k \in Calls, ServiceStops(k) \/ ForceExit(k) PROVE TimeTypeOK'
  BY <1>3 DEF ServiceStops, ForceExit, Instantly, TimeTypeOK
<1>4. ASSUME NEW k \in Calls, ServiceDisposes(k) PROVE TimeTypeOK'
  BY <1>4 DEF ServiceDisposes, TimeTypeOK
<1>5. CASE Tick
  BY <1>5 DEF Tick, TimeTypeOK
<1>6. CASE UNCHANGED serviceVars
  BY <1>6 DEF serviceVars, TimeTypeOK
<1> QED BY <1>1, <1>2, <1>3, <1>4, <1>5, <1>6 DEF ServiceNext, Stop

LEMMA AfterBoot == ServiceNext /\ ~Boot => UNCHANGED bootVars
BY DEF ServiceNext, ServiceRequests, ServiceShutdown, Stop, ServiceStops,
       ServiceDisposes, ForceExit, Tick, Instantly

LEMMA ServiceTypeInit == ServiceInit => ServiceTypeOK
<1> SUFFICES ASSUME ServiceInit PROVE ServiceTypeOK
  OBVIOUS
<1>1. BootTypeOK
  BY DEF ServiceInit, BootTypeOK, Stages, Promises
<1>2. ConfigTypeOK
  BY DEF ServiceInit, ConfigTypeOK
<1>3. TimeTypeOK
  BY TimeAssumption DEF ServiceInit, TimeTypeOK
<1> QED BY <1>1, <1>2, <1>3, TypeSplit

LEMMA ServiceTypeStep == ServiceTypeOK /\ [ServiceNext]_serviceVars => ServiceTypeOK'
<1> SUFFICES ASSUME ServiceTypeOK, [ServiceNext]_serviceVars PROVE ServiceTypeOK'
  OBVIOUS
<1>1. BootTypeOK /\ ConfigTypeOK /\ TimeTypeOK
  BY TypeSplit
<1>2. TimeTypeOK'
  BY <1>1, TimeType
<1>3. CASE Boot
  BY <1>1, <1>2, <1>3, BootType, ConfigType, TypeSplit
  DEF ServiceTypeOK, BootTypeOK, ConfigTypeOK, TimeTypeOK
<1>4. CASE ~Boot
  <2>1. UNCHANGED bootVars
    BY <1>4, AfterBoot DEF serviceVars
  <2> QED
    BY <1>2, <2>1 DEF bootVars, ServiceTypeOK, TimeTypeOK
<1> QED BY <1>3, <1>4

\* The boot passes through its stages and time stays within the deadline.
THEOREM ServiceTypeCorrect == ServiceSpec => []ServiceTypeOK
BY ServiceTypeInit, ServiceTypeStep, PTL DEF ServiceSpec

-----------------------------------------------------------------------------
(* The refinement *)

LEMMA AbstractInit == ServiceInit => Abstract!Init
BY DEF ServiceInit, Abstract!Init, Running, Abstract!Running,
       Disposables, Abstract!Disposables

\* A step of the boot is a stutter: of the variables that Shutdown sees it
\* changes accepting, as it starts to serve, and exited, which is not seen yet.
LEMMA BootStutters ==
  ASSUME boot # "serving", NothingToStop,
         boot' = "serving" => exited' = exited /\ exited = Running /\ accepting'
  PROVE  UNCHANGED Abstract!vars
BY DEF NothingToStop, Abstract!vars, Running

\* Once it serves, the process sees the variables as they are.
LEMMA ServingSteps ==
  ASSUME Handling, UNCHANGED boot
  PROVE  /\ RequestArrives => Abstract!RequestArrives
         /\ RequestEnds => Abstract!RequestEnds
         /\ \A code \in {0, 1} : shutdown(code) => Abstract!shutdown(code)
         /\ \A k \in Calls : /\ StopResolves(k) => Abstract!StopResolves(k)
                             /\ StopRejects(k) => Abstract!StopRejects(k)
                             /\ DisposeSettles(k) => Abstract!DisposeSettles(k)
                             /\ KillTimer(k) => Abstract!KillTimer(k)
<1> USE DEF Handling, Running, Abstract!Running, Disposables, Abstract!Disposables
<1>1. RequestArrives => Abstract!RequestArrives
  BY DEF RequestArrives, Abstract!RequestArrives
<1>2. RequestEnds => Abstract!RequestEnds
  BY DEF RequestEnds, Abstract!RequestEnds
<1>3. \A code \in {0, 1} : shutdown(code) => Abstract!shutdown(code)
  BY DEF shutdown, Abstract!shutdown
<1>4. ASSUME NEW k \in Calls
      PROVE  /\ StopResolves(k) => Abstract!StopResolves(k)
             /\ DisposeSettles(k) => Abstract!DisposeSettles(k)
  <2>1. \A i : GoOn(k, i) => Abstract!GoOn(k, i)
    BY DEF GoOn, Abstract!GoOn
  <2> QED
    BY <2>1 DEF StopResolves, Abstract!StopResolves,
                DisposeSettles, Abstract!DisposeSettles
<1>5. ASSUME NEW k \in Calls
      PROVE  /\ StopRejects(k) => Abstract!StopRejects(k)
             /\ KillTimer(k) => Abstract!KillTimer(k)
  BY DEF StopRejects, Abstract!StopRejects, KillTimer, Abstract!KillTimer
<1> QED BY <1>1, <1>2, <1>3, <1>4, <1>5

LEMMA AbstractNext ==
  ServiceTypeOK /\ [ServiceNext]_serviceVars => [Abstract!Next]_(Abstract!vars)
<1> SUFFICES ASSUME ServiceTypeOK, [ServiceNext]_serviceVars
             PROVE  [Abstract!Next]_(Abstract!vars)
  OBVIOUS
<1>1. CASE Boot
  <2>1. boot # "serving" /\ exited = Running /\ NothingToStop
    BY <1>1 DEF Boot, ImportInstrumentation, CreateTelemetryPlugin, ImportMain,
                Resolves, Rejects, Serve, ListenFails, Killed, StartupGuard, Booting
  <2>2. boot' = "serving" => exited' = exited /\ accepting'
    <3>1. "serving" \notin Stages
      BY DEF Stages, Promises
    <3>2. ASSUME NEW p \in awaited, Resolves(p) PROVE boot' # "serving"
      <4>1. boot \in Stages
        BY DEF ServiceTypeOK
      <4>2. After(boot) # "serving"
        BY <3>1, <4>1, AfterType
      <4> QED BY <2>1, <3>2, <4>2 DEF Resolves, Enter
    <3> QED
      BY <1>1, <2>1, <3>2
      DEF Boot, ImportInstrumentation, CreateTelemetryPlugin, ImportMain, Enter,
          Rejects, Serve, ListenFails, Killed, StartupGuard, bootVars
  <2> QED BY <2>1, <2>2, BootStutters
<1>2. CASE ServiceRequests
  BY <1>2, ServingSteps
  DEF ServiceRequests, Instantly, bootVars, Handling, Abstract!Next
<1>3. ASSUME NEW code \in {0, 1}, ServiceShutdown(code) PROVE Abstract!Next
  BY <1>3, ServingSteps
  DEF ServiceShutdown, Instantly, bootVars, Handling, Abstract!Next
<1>4. ASSUME NEW k \in Calls,
             ServiceStops(k) \/ ServiceDisposes(k) \/ ForceExit(k)
      PROVE  Abstract!Next
  <2>1. Handling /\ UNCHANGED boot
    BY <1>4 DEF ServiceStops, ServiceDisposes, ForceExit, Instantly, bootVars
  <2>2. \/ StopResolves(k) \/ StopRejects(k)
        \/ DisposeSettles(k) \/ KillTimer(k)
    BY <1>4 DEF ServiceStops, ServiceDisposes, ForceExit
  <2>3. k \in Abstract!Calls
    BY <1>4 DEF Calls, Abstract!Calls
  <2> QED BY <1>4, <2>1, <2>2, <2>3, ServingSteps DEF Abstract!Next
<1>5. CASE Tick
  BY <1>5 DEF Tick, vars, bootVars, Abstract!vars
<1>6. CASE UNCHANGED serviceVars
  BY <1>6 DEF serviceVars, vars, bootVars, Abstract!vars
<1> QED
  BY <1>1, <1>2, <1>3, <1>4, <1>5, <1>6 DEF ServiceNext, Stop

\* The process from its first import to its exit is a graceful shutdown of
\* lib/shutdown.ts, whatever the boot does and however long things take.
THEOREM Implements == ServiceSpec => ImplementsShutdown
BY AbstractInit, AbstractNext, ServiceTypeCorrect, PTL
DEF ServiceSpec, ImplementsShutdown, Abstract!Spec

-----------------------------------------------------------------------------
(* What Shutdown_proofs shows, of this process *)

LEMMA AbstractSpecs == Abstract!Spec => P!Spec
<1>1. Abstract!Init => P!Init
  BY DEF Abstract!Init, P!Init, Abstract!Running, P!Running,
         Abstract!Disposables, P!Disposables
<1>2. [Abstract!Next]_(Abstract!vars) => [P!Next]_(P!vars)
  BY DEF Abstract!Next, P!Next, Abstract!vars, P!vars, Abstract!Running, P!Running,
         Abstract!Disposables, P!Disposables, Abstract!Calls, P!Calls,
         Abstract!RequestArrives, P!RequestArrives, Abstract!RequestEnds,
         P!RequestEnds, Abstract!shutdown, P!shutdown, Abstract!StopResolves,
         P!StopResolves, Abstract!StopRejects, P!StopRejects,
         Abstract!DisposeSettles, P!DisposeSettles, Abstract!KillTimer,
         P!KillTimer, Abstract!GoOn, P!GoOn
<1> QED BY <1>1, <1>2, PTL DEF Abstract!Spec, P!Spec

LEMMA ShutdownInv == ServiceSpec => []P!IInv
<1>1. P!Spec => []P!IInv
  BY P!Inductive, DisposablesAssumption, BoundsAssumption
<1> QED BY <1>1, Implements, AbstractSpecs, PTL DEF ImplementsShutdown

\* A boot does not accept requests, and ends with exit code 1 if it ends.
BootInv == boot # "serving" => ~accepting /\ exited \in {1, Running}

LEMMA BootInvariant == ServiceSpec => []BootInv
<1>1. ServiceInit => BootInv
  BY DEF ServiceInit, BootInv
<1>2. BootInv /\ [ServiceNext]_serviceVars => BootInv'
  <2> SUFFICES ASSUME BootInv, [ServiceNext]_serviceVars, boot' # "serving"
               PROVE  ~accepting' /\ exited' \in {1, Running}
    BY DEF BootInv
  <2>1. CASE Boot
    <3> USE DEF Booting, BootInv
    <3>1. CASE ImportInstrumentation
      BY <3>1 DEF ImportInstrumentation, checkEnv
    <3>2. CASE CreateTelemetryPlugin \/ ImportMain
      <4>1. accepting' = accepting /\ exited' \in {1, exited}
        BY <3>2 DEF CreateTelemetryPlugin, ImportMain
      <4> QED BY <2>1, <4>1, <3>2 DEF CreateTelemetryPlugin, ImportMain
    <3>3. ASSUME NEW p \in awaited, Resolves(p) \/ Rejects(p)
          PROVE  ~accepting' /\ exited' \in {1, Running}
      BY <3>3 DEF Resolves, Rejects, StartupGuard
    <3>4. CASE Serve \/ ListenFails \/ Killed
      BY <3>4 DEF Serve, ListenFails, Killed, StartupGuard
    <3> QED BY <2>1, <3>1, <3>2, <3>3, <3>4 DEF Boot
  <2>2. CASE ServiceNext /\ ~Boot
    BY <2>2, AfterBoot
    DEF ServiceNext, ServiceRequests, ServiceShutdown, Stop, ServiceStops,
        ServiceDisposes, ForceExit, Tick, Handling, bootVars, vars, BootInv
  <2>3. CASE UNCHANGED serviceVars
    BY <2>3 DEF serviceVars, vars, bootVars, BootInv
  <2> QED BY <2>1, <2>2, <2>3
<1> QED BY <1>1, <1>2, PTL DEF ServiceSpec

LEMMA Carried == P!IInv /\ BootInv => ResourcesOutliveRequests /\ ExitZeroIsGraceful
<1> USE DEF Running, P!Running, Disposables, P!Disposables
<1> SUFFICES ASSUME P!IInv, BootInv PROVE ResourcesOutliveRequests /\ ExitZeroIsGraceful
  OBVIOUS
<1>1. ResourcesOutliveRequests
  <2> SUFFICES ASSUME NEW i \in Disposables, begun[i] > 0
               PROVE  requests = 0 /\ ~accepting
    BY DEF ResourcesOutliveRequests
  <2>1. calls # <<>>
    BY DEF P!IInv, P!Untouched
  <2>2. calls[1].at # 0
    BY <2>1 DEF P!IInv, P!OneCall
  <2> QED BY <2>1, <2>2 DEF P!IInv, P!OneCall
<1>2. ExitZeroIsGraceful
  <2> SUFFICES ASSUME exited = 0
               PROVE  /\ reasons[1] = 0 /\ requests = 0
                      /\ \A i \in Disposables : begun[i] = 1
    BY DEF ExitZeroIsGraceful
  <2>1. boot = "serving"
    BY DEF BootInv
  <2> QED BY <2>1 DEF P!IInv, P!OneCall, P!ZeroIsTheEnd
<1> QED BY <1>1, <1>2

\* No resource is closed under a request of this process.
THEOREM ServiceRequestsFirst == ServiceSpec => []ResourcesOutliveRequests
BY ShutdownInv, BootInvariant, Carried, PTL

\* However many signals this process gets, it closes its resources once each, in
\* startServer's order.
THEOREM ServiceOnceInOrder == ServiceSpec => []DisposedOnceInOrder
<1>1. P!Spec => []P!DisposedOnceInOrder
  BY P!OnceInOrder, DisposablesAssumption, BoundsAssumption
<1>2. P!DisposedOnceInOrder => DisposedOnceInOrder
  BY DEF P!DisposedOnceInOrder, DisposedOnceInOrder, P!Disposables, Disposables
<1> QED BY <1>1, <1>2, Implements, AbstractSpecs, PTL DEF ImplementsShutdown

\* Exit code 0 of this process, its boot included, is only ever the end of a
\* complete shutdown by a signal.
THEOREM ServiceZeroIsGraceful == ServiceSpec => []ExitZeroIsGraceful
BY ShutdownInv, BootInvariant, Carried, PTL

-----------------------------------------------------------------------------
(* The boot *)

EnvGood == raw["required"] = "good" /\ raw["defaulted"] = "good"

\* The environment was checked, unless checkEnv ended the process, or the boot
\* is about to fail on the import that kept checkEnv from running.
EnvInv ==
  boot # "import" =>
    \/ EnvGood
    \/ boot \in {"telemetry", "main"} /\ exited # Running
    \/ boot = "main" /\ "@opentelemetry/api" \in broken

\* A stage's promises are ready or awaited; those of the stages before, ready.
StageInv ==
  /\ boot \in Stages => Promises[boot] \subseteq ready \cup awaited
  /\ boot \in {"migrations", "redis", "rabbitmq", "wired", "serving"}
       => {"writeDb", "readDb"} \subseteq ready
  /\ boot \in {"redis", "rabbitmq", "wired", "serving"} /\ prod => "schema" \in ready
  /\ boot \in {"rabbitmq", "wired", "serving"}
       => {"redisRead", "redisWrite"} \subseteq ready
  /\ boot \in {"wired", "serving"} => "rabbitmq" \in ready

LEMMA ParsedGood == ASSUME raw \in Raw, parseEnv(raw).success
                    PROVE  /\ parseEnv(raw).data["required"] = "good"
                           /\ parseEnv(raw).data["defaulted"] = "good"
BY DEF parseEnv, Default, Check, Decodes, Raw, Kinds

LEMMA EnvStep == ASSUME ServiceTypeOK, EnvInv, Boot PROVE EnvInv'
<1>1. CASE ImportInstrumentation
  <2>1. CASE "@opentelemetry/api" \in broken
    BY <1>1, <2>1 DEF ImportInstrumentation, Config, EnvInv
  <2>2. CASE "@opentelemetry/api" \notin broken
    <3>1. checkEnv
      BY <1>1, <2>2 DEF ImportInstrumentation
    <3>2. CASE parseEnv(raw).success
      <4>1. raw' = parseEnv(raw).data
        BY <3>1, <3>2 DEF checkEnv
      <4>2. EnvGood'
        BY <3>2, <4>1, ParsedGood DEF ServiceTypeOK, EnvGood
      <4> QED BY <4>2 DEF EnvInv
    <3>3. CASE ~parseEnv(raw).success
      <4>1. exited' = 1 /\ boot' \in {"telemetry", "main"}
        BY <1>1, <2>2, <3>1, <3>3 DEF checkEnv, ImportInstrumentation
      <4> QED BY <4>1 DEF EnvInv, Running
    <3> QED BY <3>2, <3>3
  <2> QED BY <2>1, <2>2
<1>2. CASE CreateTelemetryPlugin
  <2>1. EnvGood
    BY <1>2 DEF CreateTelemetryPlugin, Booting, EnvInv
  <2> QED BY <1>2, <2>1 DEF CreateTelemetryPlugin, EnvInv, EnvGood
<1>3. CASE ImportMain
  <2>1. EnvGood \/ broken \cap Imported # {}
    BY <1>3 DEF ImportMain, Booting, EnvInv, Imported
  <2>2. raw' = raw /\ broken' = broken
    BY <1>3 DEF ImportMain, Config
  <2>3. CASE broken \cap Imported # {}
    <3>1. boot' = "main" /\ exited' = 1
      BY <1>3, <2>3 DEF ImportMain
    <3> QED BY <3>1 DEF EnvInv, Running
  <2>4. CASE broken \cap Imported = {}
    BY <2>1, <2>2, <2>4 DEF EnvInv, EnvGood
  <2> QED BY <2>3, <2>4
<1>4. ASSUME NEW p \in awaited, Resolves(p) \/ Rejects(p) PROVE EnvInv'
  <2>1. boot \in Stages
    BY DEF ServiceTypeOK
  <2>2. EnvGood /\ raw' = raw
    BY <1>4, <2>1
    DEF Resolves, Rejects, StartupGuard, bootVars, Stages, Promises, EnvInv
  <2> QED BY <2>2 DEF EnvInv, EnvGood
<1>5. CASE Serve \/ ListenFails
  <2>1. EnvGood /\ raw' = raw
    BY <1>5 DEF Serve, ListenFails, StartupGuard, bootVars, EnvInv
  <2> QED BY <2>1 DEF EnvInv, EnvGood
<1>6. CASE Killed
  <2>1. UNCHANGED <<boot, raw, broken>> /\ exited' # Running
    BY <1>6 DEF Killed, bootVars, Running
  <2> QED BY <2>1 DEF EnvInv, EnvGood
<1> QED BY <1>1, <1>2, <1>3, <1>4, <1>5, <1>6 DEF Boot

LEMMA StageStep == ASSUME ServiceTypeOK, StageInv, Boot PROVE StageInv'
<1>0. Stages = {"database", "migrations", "redis", "rabbitmq"}
  BY DEF Stages, Promises
<1>1. CASE ImportInstrumentation \/ CreateTelemetryPlugin
  BY <1>0, <1>1 DEF ImportInstrumentation, CreateTelemetryPlugin, StageInv
<1>2. CASE ImportMain
  BY <1>0, <1>2 DEF ImportMain, Enter, StageInv
<1>3. ASSUME NEW p \in awaited, Resolves(p) PROVE StageInv'
  <2>1. boot \in Stages /\ p \in Promises[boot]
    BY DEF ServiceTypeOK
  <2>2. CASE awaited = {p}
    <3>1. Promises[boot] \subseteq ready'
      BY <1>3, <2>1, <2>2 DEF Resolves, StageInv
    <3>2. Enter(After(boot)) /\ prod' = prod /\ ready \subseteq ready'
      BY <1>3, <2>2 DEF Resolves, Config
    <3>3. boot' = After(boot)
          /\ (boot' \in Stages => Promises[boot'] \subseteq ready' \cup awaited')
      BY <3>2 DEF Enter
    <3> QED
      BY <1>0, <2>1, <3>1, <3>2, <3>3 DEF After, Promises, StageInv
  <2>3. CASE awaited # {p}
    BY <1>3, <2>1, <2>3 DEF Resolves, Config, StageInv
  <2> QED BY <2>2, <2>3
<1>4. ASSUME NEW p \in awaited, Rejects(p) PROVE StageInv'
  BY <1>4 DEF Rejects, StartupGuard, bootVars, StageInv
<1>5. CASE Serve
  BY <1>0, <1>5 DEF Serve, Config, StageInv
<1>6. CASE ListenFails \/ Killed
  BY <1>6 DEF ListenFails, Killed, StartupGuard, bootVars, StageInv
<1> QED BY <1>1, <1>2, <1>3, <1>4, <1>5, <1>6 DEF Boot

\* No request is accepted before every dependency is connected and, in
\* production, the schema migrated, or with an incomplete environment.
THEOREM ReadyFirst == ServiceSpec => []ServesOnlyWhenReady
<1> DEFINE Inv == EnvInv /\ StageInv
<1>1. ServiceInit => Inv
  BY DEF ServiceInit, EnvInv, StageInv, Stages, Promises
<1>2. ServiceTypeOK /\ Inv /\ [ServiceNext]_serviceVars => Inv'
  <2> SUFFICES ASSUME ServiceTypeOK, Inv, [ServiceNext]_serviceVars PROVE Inv'
    OBVIOUS
  <2>1. CASE Boot
    BY <2>1, EnvStep, StageStep
  <2>2. CASE ~Boot
    <3>1. UNCHANGED bootVars
      BY <2>2, AfterBoot DEF serviceVars
    <3>2. boot # "serving" => exited' = exited
      BY <2>2
      DEF ServiceNext, ServiceRequests, ServiceShutdown, Stop, ServiceStops,
          ServiceDisposes, ForceExit, Tick, Handling, serviceVars, vars
    <3> QED BY <3>1, <3>2 DEF bootVars, EnvInv, EnvGood, StageInv
  <2> QED BY <2>1, <2>2
<1>3. Inv => ServesOnlyWhenReady
  BY DEF EnvInv, EnvGood, StageInv, ServesOnlyWhenReady, Handling, Dependencies,
         Stages, Promises
<1> QED BY <1>1, <1>2, <1>3, ServiceTypeCorrect, PTL DEF ServiceSpec

-----------------------------------------------------------------------------
(* Time *)

\* The one call's flush, and what follows it, is over FlushLimit seconds after
\* it began; an end by force came at the deadline.
FlushInv ==
  calls # <<>> /\ calls[1].at >= Telemetry =>
    /\ elapsed <= flushSince + FlushLimit
    /\ exited \in {Running, calls[1].code} \/ elapsed = Deadline

\* The calls of shutdown() are one at most.
LEMMA OneCallFacts ==
  ASSUME P!IInv, NEW k \in Calls
  PROVE  k = 1 /\ calls # <<>> /\ Len(calls) = 1 /\ calls[1].at \in 0..NDisposables
<1>1. calls \in Seq(P!Call) /\ calls # <<>>
  BY DEF P!IInv, P!TypeOK, Calls
<1>2. Len(calls) = 1
  BY <1>1 DEF P!IInv, P!OneCall
<1>3. k = 1 /\ calls[1] \in P!Call
  BY <1>1, <1>2 DEF Calls
<1> QED BY <1>1, <1>2, <1>3 DEF P!Call

LEMMA FlushStep ==
  P!IInv /\ ServiceTypeOK /\ FlushInv /\ [ServiceNext]_serviceVars => FlushInv'
<1> SUFFICES ASSUME P!IInv, ServiceTypeOK, FlushInv, [ServiceNext]_serviceVars
             PROVE  FlushInv'
  OBVIOUS
<1> USE TimeAssumption, StarterAssumption DEF Telemetry
<1>0. elapsed \in Nat /\ flushSince \in Nat
  BY DEF ServiceTypeOK
<1>1. CASE Boot
  <2>1. boot # "serving" /\ calls' = calls
    BY <1>1 DEF Boot, ImportInstrumentation, CreateTelemetryPlugin, ImportMain,
                Resolves, Rejects, Serve, ListenFails, Killed, StartupGuard,
                Booting, NothingToStop
  <2>2. calls = <<>>
    BY <2>1 DEF P!IInv, P!OneCall
  <2> QED BY <2>1, <2>2 DEF FlushInv
<1>2. CASE ServiceRequests
  BY <1>2 DEF ServiceRequests, RequestArrives, RequestEnds, Instantly, FlushInv
<1>3. ASSUME NEW code \in {0, 1}, ServiceShutdown(code) PROVE FlushInv'
  <2>1. CASE shuttingDown
    BY <1>3, <2>1 DEF ServiceShutdown, shutdown, Instantly, FlushInv
  <2>2. CASE ~shuttingDown
    <3>1. calls = <<>>
      BY <2>2 DEF P!IInv, P!OneCall
    <3>2. calls' = <<[code |-> code, at |-> 0]>>
      BY <1>3, <2>2, <3>1 DEF ServiceShutdown, shutdown
    <3> QED BY <3>2 DEF FlushInv
  <2> QED BY <2>1, <2>2
<1>4. ASSUME NEW k \in Calls, ServiceStops(k) PROVE FlushInv'
  <2>1. k = 1 /\ calls \in Seq(P!Call) /\ Len(calls) = 1 /\ calls[1].at = 0
    BY <1>4, OneCallFacts
    DEF ServiceStops, StopResolves, StopRejects, P!IInv, P!TypeOK
  <2>2. calls'[1].at \in {0, 1}
    <3>1. calls[1] \in P!Call
      BY <2>1
    <3>2. CASE calls' = calls
      BY <2>1, <3>2
    <3>3. CASE GoOn(1, 1)
      BY <2>1, <3>1, <3>3 DEF GoOn, P!Call
    <3> QED
      BY <1>4, <2>1, <3>2, <3>3 DEF ServiceStops, StopResolves, StopRejects
  <2> QED BY <2>2 DEF FlushInv
<1>5. ASSUME NEW k \in Calls, ServiceDisposes(k) PROVE FlushInv'
  <2>1. /\ k = 1 /\ calls # <<>> /\ calls \in Seq(P!Call) /\ Len(calls) = 1
        /\ calls[1].at \in 1..5 /\ calls[1] \in P!Call
    BY <1>5, OneCallFacts DEF ServiceDisposes, DisposeSettles, P!IInv, P!TypeOK
  <2>2. GoOn(1, calls[1].at + 1) /\ exited = Running /\ elapsed' = elapsed
    BY <1>5, <2>1 DEF ServiceDisposes, DisposeSettles
  <2>3. CASE calls[1].at + 1 \in Disposables
    <3>1. calls'[1].at = calls[1].at + 1 /\ exited' = Running
      BY <2>1, <2>2, <2>3 DEF GoOn, P!Call
    <3>2. CASE calls'[1].at = 4
      BY <1>0, <1>5, <2>1, <2>2, <3>1, <3>2 DEF ServiceDisposes, FlushInv
    <3>3. CASE calls'[1].at # 4
      <4>1. flushSince' = flushSince
        BY <1>5, <2>1, <3>3 DEF ServiceDisposes
      <4> QED BY <2>1, <2>2, <3>1, <3>3, <4>1 DEF FlushInv
    <3> QED BY <3>2, <3>3
  <2>4. CASE calls[1].at + 1 \notin Disposables
    <3>1. calls' = calls /\ exited' = calls[1].code /\ calls[1].at = 5
      BY <2>1, <2>2, <2>4 DEF GoOn, Disposables
    <3>2. flushSince' = flushSince
      BY <1>5, <2>1, <3>1 DEF ServiceDisposes
    <3> QED BY <2>1, <2>2, <3>1, <3>2 DEF FlushInv
  <2> QED BY <2>3, <2>4
<1>6. ASSUME NEW k \in Calls, ForceExit(k) PROVE FlushInv'
  BY <1>6 DEF ForceExit, KillTimer, Instantly, FlushInv
<1>7. CASE Tick
  <2>1. /\ calls' = calls /\ exited' = exited /\ exited = Running
        /\ elapsed' = elapsed + 1 /\ flushSince' = flushSince
    BY <1>7 DEF Tick, vars
  <2>2. ASSUME calls # <<>>, calls[1].at >= 4
        PROVE  elapsed + 1 <= flushSince + FlushLimit
    <3>1. 1 \in Calls /\ calls \in Seq(P!Call)
      BY <2>2 DEF Calls, P!IInv, P!TypeOK
    <3>2. calls[1].at \in {4, 5} /\ ~Due(1)
      BY <1>7, <2>2, <3>1, OneCallFacts DEF Tick
    <3> QED BY <1>0, <3>2 DEF Due, MemorySnapshot
  <2> QED BY <2>1, <2>2 DEF FlushInv
<1>8. CASE UNCHANGED serviceVars
  BY <1>8 DEF serviceVars, vars, FlushInv
<1> QED
  BY <1>1, <1>2, <1>3, <1>4, <1>5, <1>6, <1>7, <1>8 DEF ServiceNext, Stop

\* The flush of the traces never makes a shutdown miss its deadline, for any
\* deadline and any limit below it.
THEOREM TimeBoxed == ServiceSpec => []TelemetryIsTimeBoxed
<1>1. ServiceInit => FlushInv
  BY DEF ServiceInit, FlushInv
<1>2. P!IInv /\ ServiceTypeOK /\ FlushInv => TelemetryIsTimeBoxed
  <2> SUFFICES ASSUME P!IInv, ServiceTypeOK, FlushInv, NEW k \in Calls,
                      calls[k].at >= Telemetry, flushSince + FlushLimit < Deadline
               PROVE  exited \in {Running, calls[k].code}
    BY DEF TelemetryIsTimeBoxed
  <2>1. k = 1 /\ calls # <<>>
    BY OneCallFacts
  <2>2. elapsed \in Nat /\ flushSince \in Nat
    BY TimeAssumption DEF ServiceTypeOK
  <2> QED BY <2>1, <2>2, TimeAssumption DEF FlushInv
<1> QED
  BY <1>1, <1>2, FlushStep, ShutdownInv, ServiceTypeCorrect, PTL DEF ServiceSpec
=============================================================================
