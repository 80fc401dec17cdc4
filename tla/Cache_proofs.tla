----------------------------- MODULE Cache_proofs -----------------------------
(***************************************************************************)
(* Proofs about the connection and about the plain cache commands on it,   *)
(* with autoReconnect or without it, for any number of faults and for any  *)
(* keys and callers.                                                       *)
(***************************************************************************)
EXTENDS Cache, TLAPS

-----------------------------------------------------------------------------
(* The connection                                                          *)

\* close() is called on a client that was handed out; it has abandoned the
\* connection, and nothing opens it again.
Closed ==
  /\ closing => link \in {"abandoned", "closed"} /\ timer # "armed" /\ life = "ready"
  /\ link = "abandoned" => closing

\* The intervals start and end together, with the first connection and close().
Pair == monitors \in {0, 1} /\ keepalives = monitors

Running ==
  /\ link = "up" => monitors = 1 /\ timer # "armed"
  /\ closing => monitors = 0

\* A client is handed out with its connection up.
Due ==
  /\ ReconnectIsDue
  /\ link = "none" => life = "new"

IInv == TypeOK /\ Closed /\ Pair /\ Running /\ Due

LEMMA FaultType == ASSUME TypeOK, Fault PROVE faults' \in 0..MaxFaults
<1>1. faults \in 0..MaxFaults
  BY DEF TypeOK
<1> QED BY <1>1, FaultsAssumption DEF Fault

LEMMA InitIInv == Init => IInv
<1> SUFFICES ASSUME Init PROVE IInv
  OBVIOUS
<1>1. faults \in 0..MaxFaults
  BY FaultsAssumption DEF Init
<1>2. closing \in BOOLEAN /\ auto \in AutoReconnect
  BY DEF Init
<1>3. TypeOK
  BY <1>1, <1>2 DEF Init, TypeOK
<1>4. Closed /\ Pair /\ Running /\ Due
  BY DEF Init, Closed, Pair, Running, Due, ReconnectIsDue
<1> QED BY <1>3, <1>4 DEF IInv

LEMMA NextIInv == IInv /\ [Next]_vars => IInv'
<1> SUFFICES ASSUME IInv, [Next]_vars PROVE IInv'
  OBVIOUS
<1> USE DEF IInv, TypeOK, Closed, Pair, Running, Due, ReconnectIsDue
<1>1. CASE CreateBunClient
  BY <1>1 DEF CreateBunClient
<1>2. CASE Connects
  BY <1>2 DEF Connects, OnConnect
<1>3. CASE DialFails
  <2>1. faults' \in 0..MaxFaults
    BY <1>3, FaultType DEF DialFails
  <2> QED BY <1>3, <2>1 DEF DialFails, Rejected, Scheduled
<1>4. CASE Drops
  <2>1. faults' \in 0..MaxFaults
    BY <1>4, FaultType DEF Drops
  <2> QED BY <1>4, <2>1 DEF Drops, Scheduled
<1>5. CASE TimerFires
  BY <1>5 DEF TimerFires
<1>6. CASE Close
  BY <1>6 DEF Close
<1>7. CASE ClosedEvent
  BY <1>7 DEF ClosedEvent, Rejected, Scheduled
<1>8. CASE UNCHANGED vars
  BY <1>8 DEF vars
<1> QED BY <1>1, <1>2, <1>3, <1>4, <1>5, <1>6, <1>7, <1>8 DEF Next, Dial

LEMMA Inductive == Spec => []IInv
<1> QED BY InitIInv, NextIInv, PTL DEF Spec

\* The state has its types; createBunClient waits while its first dial does.
THEOREM TypeCorrect == Spec => []TypeOK
<1>1. IInv => TypeOK
  BY DEF IInv
<1> QED BY <1>1, Inductive, PTL

\* No timer of the client survives close(), with either setting.
THEOREM NothingLeft == Spec => []NothingOutlivesClose
<1>1. IInv => NothingOutlivesClose
  BY DEF IInv, Closed, Pair, Running, NothingOutlivesClose
<1> QED BY <1>1, Inductive, PTL

\* However often the connection is lost, one interval of each kind runs.
THEOREM OneEach == Spec => []OneIntervalEach
<1>1. IInv => OneIntervalEach
  BY DEF IInv, Pair, Running, OneIntervalEach
<1> QED BY <1>1, Inductive, PTL

\* No reconnect is due on a connection that is up, though Bun dials as well.
THEOREM NoRace == Spec => []NoReconnectWhileUp
<1>1. IInv => NoReconnectWhileUp
  BY DEF IInv, Running, NoReconnectWhileUp
<1> QED BY <1>1, Inductive, PTL

\* With either setting, a client whose connection is down is never left without
\* a dial under way or a reconnect due.
THEOREM AlwaysDue == Spec => []ReconnectIsDue
<1>1. IInv => ReconnectIsDue
  BY DEF IInv, Due
<1> QED BY <1>1, Inductive, PTL

\* Beside its cache a client is the client of RedisConnection: no command
\* touches the connection, and no event of the connection the data.
THEOREM CacheIsAClient == CacheSpec => Spec
<1>1. CacheInit => Init
  BY DEF CacheInit
<1>2. [CacheNext]_cacheVars => [Next]_vars
  BY DEF CacheNext, cacheVars
<1> QED BY <1>1, <1>2, PTL DEF CacheSpec, Spec

\* So what holds of the connection holds while the cache is used.
THEOREM ConnectionOfCache ==
  CacheSpec => /\ []NothingOutlivesClose /\ []OneIntervalEach
               /\ []NoReconnectWhileUp /\ []ReconnectIsDue
<1> QED BY CacheIsAClient, NothingLeft, OneEach, NoRace, AlwaysDue, PTL

-----------------------------------------------------------------------------
(* The commands                                                            *)

(* What a call holds depends on the step it is at.                         *)
CallOK(c) ==
  /\ call[c].step # "expire" => call[c].key = {}
  /\ call[c].stable \subseteq Present
  /\ call[c].step = "scan" => call[c].stable \subseteq call[c].found \cup call[c].todo
  /\ call[c].step = "listed" => call[c].stable \subseteq call[c].found

CallsOK == \A c \in Callers : CallOK(c)

CacheIInv == CacheTypeOK /\ CallsOK /\ ForeverOnlyIfCut

LEMMA IdleIsOK ==
  /\ Idle \in Calls
  /\ Idle.step = "idle" /\ Idle.key = {} /\ Idle.stable = {}
BY DEF Idle, Calls

LEMMA CallsTyped ==
  ASSUME CacheTypeOK, NEW c \in Callers
  PROVE  /\ call[c] \in Calls
         /\ call[c].key \subseteq Keys /\ call[c].todo \subseteq Keys
         /\ call[c].found \subseteq Keys /\ call[c].stable \subseteq Keys
BY DEF CacheTypeOK, Calls

LEMMA AutoKept == Next => auto' = auto
BY DEF Next, CreateBunClient, Dial, Connects, DialFails, Drops, TimerFires, Close, ClosedEvent

(* The invariant is about the data alone, and about auto.                  *)
LEMMA Frame == CacheIInv /\ UNCHANGED data /\ auto' = auto => CacheIInv'
<1> SUFFICES ASSUME CacheIInv, UNCHANGED data, auto' = auto PROVE CacheIInv'
  OBVIOUS
<1>1. store' = store /\ counter' = counter /\ call' = call /\ cut' = cut
  BY DEF data
<1>2. CacheTypeOK'
  BY <1>1 DEF CacheIInv, CacheTypeOK
<1>3. CallsOK'
  BY <1>1 DEF CacheIInv, CallsOK, CallOK, Present
<1>4. ForeverOnlyIfCut'
  BY <1>1 DEF CacheIInv, ForeverOnlyIfCut
<1> QED BY <1>2, <1>3, <1>4 DEF CacheIInv

(* One caller's call changes and keys only come, or stay.                  *)
LEMMA OneCall ==
  ASSUME CacheIInv, NEW c \in Callers, NEW new \in Calls,
         call' = [call EXCEPT ![c] = new], Present \subseteq Present',
         new.step # "expire" => new.key = {},
         new.stable \subseteq Present',
         new.step = "scan" => new.stable \subseteq new.found \cup new.todo,
         new.step = "listed" => new.stable \subseteq new.found
  PROVE  CallsOK' /\ call' \in [Callers -> Calls]
<1>1. call \in [Callers -> Calls]
  BY DEF CacheIInv, CacheTypeOK
<1>2. call'[c] = new /\ \A d \in Callers : d # c => call'[d] = call[d]
  BY <1>1
<1>3. ASSUME NEW d \in Callers PROVE CallOK(d)'
  <2>1. CASE d = c
    BY <1>2, <2>1 DEF CallOK
  <2>2. CASE d # c
    BY <1>2, <2>2 DEF CacheIInv, CallsOK, CallOK
  <2> QED BY <2>1, <2>2
<1> QED BY <1>1, <1>3 DEF CallsOK

(* Keys go missing: the calls forget them.                                 *)
LEMMA KeysGo ==
  ASSUME CacheIInv, NEW gone \in SUBSET Keys, NEW calls \in [Callers -> Calls],
         Removed(gone, calls),
         \A c \in Callers : calls[c] = call[c] \/ calls[c] = Idle
  PROVE  /\ CallsOK' /\ call' \in [Callers -> Calls]
         /\ store' \in [Keys -> {"missing", "lasting", "expiring"}]
         /\ \A k \in Keys : store'[k] = "lasting" => store[k] = "lasting"
         /\ \A c \in Callers : call'[c].key = calls[c].key
<1>1. store \in [Keys -> {"missing", "lasting", "expiring"}]
  BY DEF CacheIInv, CacheTypeOK
<1>2. /\ store' = [k \in Keys |-> IF k \in gone THEN "missing" ELSE store[k]]
      /\ call' = [c \in Callers |-> [calls[c] EXCEPT !.stable = @ \ gone]]
  BY DEF Removed
<1>3. Present' = Present \ gone
  BY <1>1, <1>2 DEF Present
<1>4. ASSUME NEW c \in Callers
      PROVE  /\ call'[c] \in Calls
             /\ call'[c].step = calls[c].step /\ call'[c].key = calls[c].key
             /\ call'[c].todo = calls[c].todo /\ call'[c].found = calls[c].found
             /\ call'[c].stable = calls[c].stable \ gone
  <2>1. call'[c] = [calls[c] EXCEPT !.stable = @ \ gone] /\ calls[c] \in Calls
    BY <1>2
  <2> QED BY <2>1 DEF Calls
<1>5. call' \in [Callers -> Calls]
  BY <1>2, <1>4
<1>6. ASSUME NEW c \in Callers PROVE CallOK(c)'
  <2>1. CallOK(c)
    BY DEF CacheIInv, CallsOK
  <2>2. CASE calls[c] = call[c]
    BY <1>3, <1>4, <2>1, <2>2 DEF CallOK
  <2>3. CASE calls[c] = Idle
    BY <1>4, <2>3, IdleIsOK DEF CallOK
  <2> QED BY <2>2, <2>3
<1> QED BY <1>1, <1>2, <1>4, <1>5, <1>6 DEF CallsOK

-----------------------------------------------------------------------------
LEMMA CommandsKeep == CacheIInv /\ Commands /\ UNCHANGED vars => CacheIInv'
<1> SUFFICES ASSUME CacheIInv, Commands, auto' = auto PROVE CacheIInv'
  BY DEF vars
<1>1. /\ store \in [Keys -> {"missing", "lasting", "expiring"}] /\ counter \in 0..Window
      /\ call \in [Callers -> Calls] /\ cut \subseteq Keys
      /\ CallsOK /\ ForeverOnlyIfCut
  BY DEF CacheIInv, CacheTypeOK
<1>2. CASE Incr \/ Tick
  <2>1. store' = store /\ call' = call /\ cut' = cut /\ counter' \in 0..Window
    BY <1>1, <1>2, WindowAssumption DEF Incr, Tick
  <2>2. CallsOK' /\ ForeverOnlyIfCut'
    BY <1>1, <2>1 DEF CallsOK, CallOK, Present, ForeverOnlyIfCut
  <2> QED BY <1>1, <2>1, <2>2 DEF CacheIInv, CacheTypeOK
<1>3. ASSUME NEW k \in Keys, Del(k) \/ KeyExpires(k) PROVE CacheIInv'
  <2>1. Removed({k}, call) /\ counter' = counter /\ cut' = cut
    BY <1>3 DEF Del, KeyExpires
  <2>2. /\ CallsOK' /\ call' \in [Callers -> Calls]
        /\ store' \in [Keys -> {"missing", "lasting", "expiring"}]
        /\ \A j \in Keys : store'[j] = "lasting" => store[j] = "lasting"
        /\ \A c \in Callers : call'[c].key = call[c].key
    BY <1>1, <2>1, KeysGo
  <2>3. ForeverOnlyIfCut'
    BY <1>1, <2>1, <2>2 DEF ForeverOnlyIfCut
  <2> QED BY <1>1, <2>1, <2>2, <2>3 DEF CacheIInv, CacheTypeOK
<1>4. ASSUME NEW k \in Keys, Expire(k) PROVE CacheIInv'
  <2>1. /\ store' = [store EXCEPT ![k] = "expiring"] /\ k \in Present
        /\ counter' = counter /\ call' = call /\ cut' = cut
    BY <1>4 DEF Expire
  <2>2. Present' = Present /\ store' \in [Keys -> {"missing", "lasting", "expiring"}]
    BY <1>1, <2>1 DEF Present
  <2>3. CallsOK'
    BY <1>1, <2>1, <2>2 DEF CallsOK, CallOK
  <2>4. ForeverOnlyIfCut'
    BY <1>1, <2>1 DEF ForeverOnlyIfCut
  <2> QED BY <1>1, <2>1, <2>2, <2>3, <2>4 DEF CacheIInv, CacheTypeOK
<1>5. ASSUME NEW c \in Callers, NEW k \in Keys, Set(c, k) PROVE CacheIInv'
  <2> DEFINE new == [Idle EXCEPT !.step = "expire", !.op = "set", !.key = {k}]
  <2>1. call[c] = Idle /\ counter' = counter /\ cut' = cut
    BY <1>5 DEF Set
  <2>2. CASE auto
    <3>1. store' = [store EXCEPT ![k] = "lasting"] /\ call' = [call EXCEPT ![c] = new]
      BY <1>5, <2>2 DEF Set
    <3>2. new \in Calls /\ new.step = "expire" /\ new.key = {k} /\ new.stable = {}
      BY DEF Idle, Calls
    <3>3. Present \subseteq Present' /\ store' \in [Keys -> {"missing", "lasting", "expiring"}]
      BY <1>1, <3>1 DEF Present
    <3>4. CallsOK' /\ call' \in [Callers -> Calls]
      <4> HIDE DEF new
      <4> QED BY <3>1, <3>2, <3>3, OneCall
    <3>5. ForeverOnlyIfCut'
      <4> HIDE DEF new
      <4> SUFFICES ASSUME NEW j \in Keys, store'[j] = "lasting"
                   PROVE  j \in cut \/ \E d \in Callers : j \in call'[d].key
        BY <2>1, <2>2 DEF ForeverOnlyIfCut
      <4>1. CASE j = k
        BY <1>1, <3>1, <3>2, <4>1
      <4>2. CASE j # k
        <5>1. j \in cut \/ \E d \in Callers : j \in call[d].key
          BY <1>1, <3>1, <4>2 DEF ForeverOnlyIfCut
        <5>2. \A d \in Callers : j \in call[d].key => j \in call'[d].key
          BY <1>1, <2>1, <3>1, IdleIsOK
        <5> QED BY <5>1, <5>2
      <4> QED BY <4>1, <4>2
    <3> QED BY <1>1, <2>1, <3>3, <3>4, <3>5 DEF CacheIInv, CacheTypeOK
  <2>3. CASE ~auto
    <3>1. store' = [store EXCEPT ![k] = "expiring"] /\ call' = call
      BY <1>5, <2>3 DEF Set
    <3>2. Present \subseteq Present' /\ store' \in [Keys -> {"missing", "lasting", "expiring"}]
      BY <1>1, <3>1 DEF Present
    <3>3. CallsOK'
      BY <1>1, <3>1, <3>2 DEF CallsOK, CallOK
    <3>4. ForeverOnlyIfCut'
      BY <1>1, <2>1, <3>1 DEF ForeverOnlyIfCut
    <3> QED BY <1>1, <2>1, <3>1, <3>2, <3>3, <3>4 DEF CacheIInv, CacheTypeOK
  <2> QED BY <2>2, <2>3
<1>6. ASSUME NEW c \in Callers, ExpireAfterSet(c) PROVE CacheIInv'
  <2>1. /\ store' = [k \in Keys |-> IF k \in Present \cap call[c].key THEN "expiring"
                                     ELSE store[k]]
        /\ call' = [call EXCEPT ![c] = Idle] /\ counter' = counter /\ cut' = cut
    BY <1>6 DEF ExpireAfterSet
  <2>2. Present' = Present /\ store' \in [Keys -> {"missing", "lasting", "expiring"}]
    BY <1>1, <2>1 DEF Present
  <2>3. CallsOK' /\ call' \in [Callers -> Calls]
    BY <2>1, <2>2, IdleIsOK, OneCall
  <2>4. ForeverOnlyIfCut'
    <3> SUFFICES ASSUME NEW k \in Keys, store'[k] = "lasting"
                 PROVE  auto /\ (k \in cut \/ \E d \in Callers : k \in call'[d].key)
      BY <1>1, <2>1 DEF ForeverOnlyIfCut
    <3>1. store[k] = "lasting" /\ k \notin call[c].key
      BY <1>1, <2>1 DEF Present
    <3>2. auto /\ (k \in cut \/ \E d \in Callers : k \in call[d].key)
      BY <1>1, <3>1 DEF ForeverOnlyIfCut
    <3>3. \A d \in Callers : d # c => call'[d] = call[d]
      BY <1>1, <2>1
    <3> QED BY <3>1, <3>2, <3>3
  <2> QED BY <1>1, <2>1, <2>2, <2>3, <2>4 DEF CacheIInv, CacheTypeOK
<1>7. ASSUME NEW c \in Callers, NEW new \in Calls,
             call' = [call EXCEPT ![c] = new], new.key = call[c].key,
             UNCHANGED <<store, counter, cut>>, CallsOK'
      PROVE  CacheIInv'
  <2>1. \A d \in Callers : call'[d].key = call[d].key
    BY <1>1, <1>7
  <2>2. ForeverOnlyIfCut'
    BY <1>1, <1>7, <2>1 DEF ForeverOnlyIfCut
  <2> QED BY <1>1, <1>7, <2>2 DEF CacheIInv, CacheTypeOK
<1>8. ASSUME NEW c \in Callers, NEW op \in {"keys", "flush"}, List(c, op) PROVE CacheIInv'
  <2> DEFINE new == IF auto THEN [Idle EXCEPT !.step = "listed", !.op = op,
                                              !.found = Present, !.stable = Present]
                            ELSE [Idle EXCEPT !.step = "scan", !.op = op,
                                              !.todo = Keys, !.stable = Present]
  <2>1. call[c] = Idle /\ call' = [call EXCEPT ![c] = new] /\ UNCHANGED <<store, counter, cut>>
    BY <1>8 DEF List
  <2>2. Present \subseteq Keys /\ Present' = Present
    BY <2>1 DEF Present
  <2>3. /\ new \in Calls /\ new.key = {} /\ new.stable = Present
        /\ new.step = "scan" => new.todo = Keys
        /\ new.step = "listed" => new.found = Present
    BY <2>2 DEF Idle, Calls
  <2> HIDE DEF new
  <2>4. CallsOK'
    BY <2>1, <2>2, <2>3, OneCall
  <2> QED BY <1>7, <2>1, <2>3, <2>4, IdleIsOK
<1>9. ASSUME NEW c \in Callers, NEW page \in SUBSET Keys, Scans(c, page) PROVE CacheIInv'
  <2> DEFINE new == [call[c] EXCEPT
                       !.todo = @ \ page, !.found = @ \cup (page \cap Present),
                       !.step = IF page = call[c].todo THEN "listed" ELSE @]
  <2>1. /\ call[c].step = "scan" /\ page \subseteq call[c].todo
        /\ UNCHANGED <<store, counter, cut>>
        /\ call' = [call EXCEPT ![c] = new]
    BY <1>1, <1>9 DEF Scans
  <2>2. call[c] \in Calls /\ CallOK(c)
    BY <1>1 DEF CallsOK
  <2>3. /\ new \in Calls /\ new.key = call[c].key /\ new.stable = call[c].stable
        /\ new.todo = call[c].todo \ page
        /\ new.found = call[c].found \cup (page \cap Present)
        /\ new.step = IF page = call[c].todo THEN "listed" ELSE "scan"
    BY <2>1, <2>2 DEF Calls
  <2> HIDE DEF new
  <2>4. call[c].key = {} /\ call[c].stable \subseteq Present
        /\ call[c].stable \subseteq call[c].found \cup call[c].todo
    BY <2>1, <2>2 DEF CallOK
  <2>5. Present' = Present
    BY <2>1 DEF Present
  <2>6. /\ new.stable \subseteq new.found \cup new.todo
        /\ new.step = "listed" => new.stable \subseteq new.found
    BY <2>1, <2>3, <2>4
  <2>7. CallsOK'
    BY <2>1, <2>3, <2>4, <2>5, <2>6, OneCall
  <2> QED BY <1>7, <2>1, <2>3, <2>7
<1>10. ASSUME NEW c \in Callers, KeysReturns(c) PROVE CacheIInv'
  <2>1. /\ call[c].step = "listed" /\ call' = [call EXCEPT ![c] = Idle]
        /\ UNCHANGED <<store, counter, cut>>
    BY <1>10 DEF KeysReturns
  <2>2. call[c].key = {} /\ Present' = Present
    BY <1>1, <2>1 DEF CallsOK, CallOK, Present
  <2>3. CallsOK'
    BY <2>1, <2>2, IdleIsOK, OneCall
  <2> QED BY <1>7, <2>1, <2>2, <2>3, IdleIsOK
<1>11. ASSUME NEW c \in Callers, FlushDeletes(c) PROVE CacheIInv'
  <2> DEFINE calls == [call EXCEPT ![c] = Idle]
  <2>1. /\ call[c].step = "listed" /\ Removed(call[c].found, calls)
        /\ counter' = counter /\ cut' = cut
    BY <1>11 DEF FlushDeletes
  <2>2. call[c].key = {} /\ call[c].found \in SUBSET Keys
    BY <1>1, <2>1, CallsTyped DEF CallsOK, CallOK, CacheIInv
  <2>3. /\ calls \in [Callers -> Calls]
        /\ \A d \in Callers : calls[d] = call[d] \/ calls[d] = Idle
        /\ \A d \in Callers : calls[d].key = call[d].key
    BY <1>1, <2>2, IdleIsOK
  <2> HIDE DEF calls
  <2>4. /\ CallsOK' /\ call' \in [Callers -> Calls]
        /\ store' \in [Keys -> {"missing", "lasting", "expiring"}]
        /\ \A k \in Keys : store'[k] = "lasting" => store[k] = "lasting"
        /\ \A d \in Callers : call'[d].key = calls[d].key
    BY <2>1, <2>2, <2>3, KeysGo
  <2>5. ForeverOnlyIfCut'
    BY <1>1, <2>1, <2>3, <2>4 DEF ForeverOnlyIfCut
  <2> QED BY <1>1, <2>1, <2>4, <2>5 DEF CacheIInv, CacheTypeOK
<1>12. ASSUME NEW c \in Callers, GivesUp(c) PROVE CacheIInv'
  <2>1. /\ call' = [call EXCEPT ![c] = Idle] /\ cut' = cut \cup call[c].key
        /\ store' = store /\ counter' = counter
    BY <1>12 DEF GivesUp
  <2>2. call[c].key \subseteq Keys /\ Present' = Present
    BY <2>1, CallsTyped DEF CacheIInv, Present
  <2>3. CallsOK' /\ call' \in [Callers -> Calls]
    BY <2>1, <2>2, IdleIsOK, OneCall
  <2>4. \A d \in Callers : d # c => call'[d] = call[d]
    BY <1>1, <2>1
  <2>5. ForeverOnlyIfCut'
    BY <1>1, <2>1, <2>4 DEF ForeverOnlyIfCut
  <2> QED BY <1>1, <2>1, <2>2, <2>3, <2>5 DEF CacheIInv, CacheTypeOK
<1> QED BY <1>2, <1>3, <1>4, <1>5, <1>6, <1>8, <1>9, <1>10, <1>11, <1>12 DEF Commands

-----------------------------------------------------------------------------
THEOREM CacheInductive == CacheSpec => []CacheIInv
<1>1. CacheInit => CacheIInv
  <2> SUFFICES ASSUME CacheInit PROVE CacheIInv
    OBVIOUS
  <2>1. /\ store = [k \in Keys |-> "missing"] /\ counter = 0
        /\ call = [c \in Callers |-> Idle] /\ cut = {}
    BY DEF CacheInit
  <2>2. CacheTypeOK
    BY <2>1, WindowAssumption, IdleIsOK DEF CacheTypeOK
  <2>3. CallsOK
    BY <2>1, IdleIsOK DEF CallsOK, CallOK
  <2>4. ForeverOnlyIfCut
    BY <2>1 DEF ForeverOnlyIfCut
  <2> QED BY <2>2, <2>3, <2>4 DEF CacheIInv
<1>2. CacheIInv /\ [CacheNext]_cacheVars => CacheIInv'
  <2> SUFFICES ASSUME CacheIInv, [CacheNext]_cacheVars PROVE CacheIInv'
    OBVIOUS
  <2>1. CASE Next /\ UNCHANGED data
    BY <2>1, AutoKept, Frame
  <2>2. CASE Commands /\ UNCHANGED vars
    BY <2>2, CommandsKeep
  <2>3. CASE UNCHANGED cacheVars
    BY <2>3, Frame DEF cacheVars, vars
  <2> QED BY <2>1, <2>2, <2>3 DEF CacheNext
<1> QED BY <1>1, <1>2, PTL DEF CacheSpec

(* The calls and the keys have their types, for any keys and callers.      *)
THEOREM CacheTypeCorrect == CacheSpec => []CacheTypeOK
<1>1. CacheIInv => CacheTypeOK
  BY DEF CacheIInv
<1> QED BY <1>1, CacheInductive, PTL

(* set() never leaves a key without a TTL in the clean starter, and in the *)
(* Mongo one only if it is cut off between SET and EXPIRE.                 *)
THEOREM ForeverIfCut == CacheSpec => []ForeverOnlyIfCut
<1>1. CacheIInv => ForeverOnlyIfCut
  BY DEF CacheIInv
<1> QED BY <1>1, CacheInductive, PTL

(* keys() and flushPattern() miss no key that was there throughout,        *)
(* however SCAN pages the keys.                                            *)
THEOREM NothingMissed == CacheSpec => []ListsAll
<1>1. CacheIInv => ListsAll
  BY DEF CacheIInv, CallsOK, CallOK, ListsAll
<1> QED BY <1>1, CacheInductive, PTL
=============================================================================
