--------------------------- MODULE RedisConnection ---------------------------
(***************************************************************************)
(* createBunClient of infrastructure/cache/redis-client.ts in both         *)
(* starters: the reconnect loop, the two intervals and close(), around     *)
(* Bun's RedisClient, which is external.  The starters differ in           *)
(* autoReconnect: with it Bun dials again by itself, beside the loop.      *)
(***************************************************************************)
EXTENDS Integers

CONSTANTS
  AutoReconnect,   \* the values of the option that the starters use
  MaxFaults        \* bound: failed dials and lost connections

ASSUME AutoReconnectAssumption == AutoReconnect \subseteq BOOLEAN
ASSUME FaultsAssumption == MaxFaults \in Nat

VARIABLES
  auto,        \* this client's autoReconnect
  link,        \* Bun's connection; "abandoned" once close() was called on it
  awaited,     \* who awaits client.connect()
  timer,       \* reconnectTimer: null, armed, or fired (its id is kept)
  monitors,    \* live monitor intervals; monitorInterval is null iff there is none
  keepalives,  \* live keepalive intervals; likewise
  closing,
  life,        \* of the call of createBunClient
  faults       \* faults so far

vars == <<auto, link, awaited, timer, monitors, keepalives, closing, life, faults>>

TypeOK ==
  /\ auto \in AutoReconnect
  /\ link \in {"none", "dialing", "up", "down", "abandoned", "closed"}
  /\ awaited \in {"nobody", "create", "timer"}
  /\ timer \in {"null", "armed", "fired"}
  /\ monitors \in Nat /\ keepalives \in Nat
  /\ closing \in BOOLEAN
  /\ life \in {"new", "creating", "ready", "failed"}
  /\ faults \in 0..MaxFaults
  /\ awaited = "create" <=> life = "creating"

Init ==
  /\ auto \in AutoReconnect
  /\ link = "none" /\ awaited = "nobody"
  /\ timer = "null" /\ monitors = 0 /\ keepalives = 0
  /\ closing = FALSE
  /\ life = "new"
  /\ faults = 0

Fault == faults < MaxFaults /\ faults' = faults + 1

-----------------------------------------------------------------------------
\* Mutant: close() does not keep a late handler from scheduling.
ScheduledAlways(t) == "armed"

\* scheduleReconnect(): an armed timer is replaced, so there is one at most.
Scheduled(t) == IF closing THEN t ELSE "armed"

\* new BunRedisClient and the first client.connect()
CreateBunClient ==
  /\ life = "new"
  /\ life' = "creating"
  /\ link' = "dialing" /\ awaited' = "create"
  /\ UNCHANGED <<auto, timer, monitors, keepalives, closing, faults>>

\* Mutant: every connect starts a pair of intervals.
OnConnectStartsAnew ==
  /\ timer' = "null"
  /\ monitors' = monitors + 1 /\ keepalives' = keepalives + 1

\* Mutant: a pending reconnect is left to fire on the connection that is up.
OnConnectKeepsTimer ==
  /\ monitors' = IF monitors = 0 THEN 1 ELSE monitors
  /\ keepalives' = IF keepalives = 0 THEN 1 ELSE keepalives
  /\ UNCHANGED timer

\* client.onconnect
OnConnect ==
  /\ timer' = "null"
  /\ monitors' = IF monitors = 0 THEN 1 ELSE monitors
  /\ keepalives' = IF keepalives = 0 THEN 1 ELSE keepalives

\* The dial succeeds; whoever awaits connect() goes on.
Connects ==
  /\ link = "dialing"
  /\ link' = "up" /\ awaited' = "nobody"
  /\ OnConnect
  /\ life' = IF awaited = "create" THEN "ready" ELSE life
  /\ UNCHANGED <<auto, closing, faults>>

\* Mutant: the timer's catch only logs.
RejectedOnlyLogs(t) == t

\* connect() rejects: the timer's catch schedules again; createBunClient throws.
Rejected(t) == IF awaited = "timer" THEN Scheduled(t) ELSE t

\* The dial fails, for good if Bun retries by itself.  Bun calls onclose when
\* nobody awaits the dial, and may when somebody does.
DialFails ==
  /\ link = "dialing"
  /\ Fault
  /\ link' = "down" /\ awaited' = "nobody"
  /\ \/ timer' = Rejected(Scheduled(timer))
     \/ awaited # "nobody" /\ timer' = Rejected(timer)
  /\ life' = IF awaited = "create" THEN "failed" ELSE life
  /\ UNCHANGED <<auto, monitors, keepalives, closing>>

\* The connection is lost.  Without autoReconnect onclose hears of it; with it
\* Bun dials again, and may or may not call onclose.
Drops ==
  /\ link = "up"
  /\ Fault
  /\ link' = IF auto THEN "dialing" ELSE "down"
  /\ \/ timer' = Scheduled(timer)
     \/ auto /\ UNCHANGED timer
  /\ UNCHANGED <<auto, awaited, monitors, keepalives, closing, life>>

\* The timer's callback: connect() joins a dial under way.
TimerFires ==
  /\ timer = "armed"
  /\ timer' = "fired"
  /\ IF closing \/ link = "up"
       THEN UNCHANGED <<link, awaited>>
       ELSE /\ link' = "dialing"
            /\ awaited' = IF awaited = "nobody" THEN "timer" ELSE awaited
  /\ UNCHANGED <<auto, monitors, keepalives, closing, life, faults>>

\* close(): stopMonitor(), then client.close(), which gives up a dial
Close ==
  /\ life = "ready" /\ ~closing
  /\ closing' = TRUE
  /\ monitors' = 0 /\ keepalives' = 0 /\ timer' = "null"
  /\ link' = "abandoned"
  /\ UNCHANGED <<auto, awaited, life, faults>>

\* After close(): onclose is called, and the dial given up rejects.
ClosedEvent ==
  /\ link = "abandoned"
  /\ link' = "closed" /\ awaited' = "nobody"
  /\ timer' = Rejected(Scheduled(timer))
  /\ UNCHANGED <<auto, monitors, keepalives, closing, life, faults>>

-----------------------------------------------------------------------------
Dial == Connects \/ DialFails

Next == CreateBunClient \/ Dial \/ Drops \/ TimerFires \/ Close \/ ClosedEvent

Spec == Init /\ [][Next]_vars

(* Bun settles every dial (connectionTimeout), by failing at most as often  *)
(* as MaxFaults lets it, and runs the timers.                              *)
Fairness == WF_vars(Dial) /\ WF_vars(TimerFires)

FairSpec == Spec /\ Fairness

-----------------------------------------------------------------------------
(* Properties *)

\* "Leak guards: every timer this client creates is cleared here": after
\* close() no interval runs and no reconnect is due, whatever events and
\* rejections arrive late.
NothingOutlivesClose == closing => monitors = 0 /\ keepalives = 0 /\ timer # "armed"

\* A connection that is up is kept alive and watched by one interval each,
\* however often it was lost ("Keepalive: prevents idle disconnection").
OneIntervalEach ==
  /\ link = "up" => monitors = 1 /\ keepalives = 1
  /\ monitors <= 1 /\ keepalives <= 1

\* The loop does not race a connection that Bun has brought back by itself:
\* no reconnect is due while the connection is up.
NoReconnectWhileUp == link = "up" => timer # "armed"

\* "ours retries forever" (safety): a client whose connection is down has a
\* dial under way or a reconnect due, whoever dialed last, Bun or the loop.
ReconnectIsDue ==
  life = "ready" /\ link # "up" /\ ~closing => link = "dialing" \/ timer = "armed"

\* "ours retries forever": a client that lost its connection gets it back,
\* unless it is being closed.
ComesBack == life = "ready" /\ link # "up" ~> link = "up" \/ closing
=============================================================================
