------------------------------ MODULE RabbitMQ ------------------------------
(***************************************************************************)
(* The RabbitMQ client of infrastructure/rmq/rabbitmq.ts in both starters: *)
(* connect(), the event handlers it installs, scheduleReconnect() and the  *)
(* client's close().  Every await is a step, so the broker may drop a      *)
(* connection or close a channel, and shutdown may begin, between any two  *)
(* of them.  Connections are numbered in the order the broker accepts them.*)
(* The starters differ in what a set-up that fails does, and in close():   *)
(* the Mongo starter's shutdown never gets to call its client's.           *)
(***************************************************************************)
EXTENDS Integers, Sequences

CONSTANTS
  Starters,    \* the starters: TRUE is the clean one, FALSE the Mongo one
  MaxFaults,   \* bound: refused dials, failed setups, drops, channel errors
  MaxRepeats   \* bound: repeated onConnect calls on one channel

ASSUME StartersAssumption == Starters \subseteq BOOLEAN
ASSUME FaultsAssumption == MaxFaults \in Nat
ASSUME RepeatsAssumption == MaxRepeats \in Nat

None == 0   \* null: no connection has this number

VARIABLES
  clean,       \* whose client this is
  \* the module's state object; a channel is named by its connection
  connection, channel, isConnecting, closing,
  timer,       \* reconnectTimer: null, armed, or fired (its id is kept)
  \* the connect() in progress
  dial,
  \* the broker's side
  up,          \* connections that are open
  open,        \* connections whose channel is open
  heard,       \* connections with listeners attached
  fed,         \* how often the consumer was set up on each connection's channel
  \* the application
  life,        \* startup, then the progress of close()
  callbacks,   \* how often connectCallbacks holds the consumer's callback
  again,       \* repeated onConnect calls on the client's channel
  faults       \* faults so far

state == <<connection, channel, isConnecting, closing, timer>>
broker == <<up, open, heard, fed>>
consumer == <<callbacks, again>>
vars == <<clean, state, dial, broker, life, consumer, faults>>

-----------------------------------------------------------------------------
Links == 1..Len(fed)
Steps == {"dialing", "opening", "setup", "aborting"}
NoDial == [step |-> "none", by |-> "nobody", link |-> None]
Dials == {NoDial} \cup
  [step : Steps, by : {"startup", "timer"}, link : Links \cup {None}]

TypeOK ==
  /\ clean \in Starters
  /\ fed \in Seq(Nat)
  /\ up \subseteq Links /\ open \subseteq up /\ heard \subseteq Links
  /\ connection \in Links \cup {None} /\ channel \in Links \cup {None}
  /\ closing \in BOOLEAN
  /\ isConnecting = (dial # NoDial)
  /\ timer \in {"null", "armed", "fired"}
  /\ dial \in Dials
  /\ life \in {"new", "ready", "failed",
               "closing channel", "closing connection", "closed"}
  /\ callbacks \in Nat /\ again \in 0..MaxRepeats
  /\ faults \in 0..MaxFaults

Init ==
  /\ clean \in Starters
  /\ connection = None /\ channel = None
  /\ isConnecting = FALSE /\ closing = FALSE
  /\ timer = "null"
  /\ dial = NoDial
  /\ up = {} /\ open = {} /\ heard = {} /\ fed = <<>>
  /\ life = "new"
  /\ callbacks = 0 /\ again = 0
  /\ faults = 0

Connected == connection # None /\ channel # None   \* isConnected()

Fault == faults < MaxFaults /\ faults' = faults + 1

-----------------------------------------------------------------------------
(* connect() and scheduleReconnect() *)

\* Mutant: the id of a timer that has fired counts as a pending timer.
ScheduledUnlessSet(t) == IF closing \/ t # "null" THEN t ELSE "armed"

\* scheduleReconnect(): an armed timer is replaced, so there is one at most.
Scheduled(t) == IF closing THEN t ELSE "armed"

\* connect() returns ok.  To createRabbitMQClient, which throws on false (and
\* startup fails); or to the timer's callback, which schedules on false.
Returned(by, ok, t) ==
  /\ life' = IF by # "startup" THEN life ELSE IF ok THEN "ready" ELSE "failed"
  /\ timer' = IF by = "timer" /\ ~ok THEN Scheduled(t) ELSE t

\* connect() up to its first await
connect(by, t) ==
  /\ IF isConnecting \/ Connected
       THEN /\ Returned(by, ~isConnecting, t)
            /\ UNCHANGED <<isConnecting, dial>>
       ELSE /\ isConnecting' = TRUE
            /\ dial' = [step |-> "dialing", by |-> by, link |-> None]
            /\ timer' = t
            /\ UNCHANGED life
  /\ UNCHANGED <<connection, channel, closing, broker, consumer, faults>>

GetClient == life = "new" /\ dial = NoDial /\ connect("startup", timer)

TimerFires == timer = "armed" /\ connect("timer", "fired")

Connects ==      \* amqp.connect() resolves
  /\ dial.step = "dialing"
  /\ fed' = Append(fed, 0)
  /\ up' = up \cup {Len(fed) + 1}
  /\ dial' = [dial EXCEPT !.step = "opening", !.link = Len(fed) + 1]
  /\ UNCHANGED <<state, open, heard, life, consumer, faults>>

OpensChannel ==  \* createChannel() resolves
  /\ dial.step = "opening" /\ dial.link \in up
  /\ open' = open \cup {dial.link}
  /\ dial' = [dial EXCEPT !.step = "setup"]
  /\ UNCHANGED <<state, up, heard, fed, life, consumer, faults>>

\* setupQueues() resolves: the state is set, the onConnect callbacks run and
\* the listeners are attached, all before anything else can happen.
SetsUp ==
  /\ dial.step = "setup" /\ dial.link \in open
  /\ connection' = dial.link /\ channel' = dial.link
  /\ isConnecting' = FALSE
  /\ fed' = [fed EXCEPT ![dial.link] = @ + callbacks]
  /\ again' = 0
  /\ heard' = heard \cup {dial.link}
  /\ Returned(dial.by, TRUE, timer)
  /\ dial' = NoDial
  /\ UNCHANGED <<closing, up, open, callbacks, faults>>

\* Mutant: the catch leaves isConnecting set.
GivesUpStillConnecting ==
  /\ connection' = None /\ channel' = None
  /\ Returned(dial.by, FALSE, timer)
  /\ dial' = NoDial
  /\ UNCHANGED isConnecting

\* The catch once there is nothing left to close.
GivesUp ==
  /\ isConnecting' = FALSE
  /\ connection' = None /\ channel' = None
  /\ Returned(dial.by, FALSE, timer)
  /\ dial' = NoDial

DialFails ==
  /\ dial.step = "dialing"
  /\ Fault
  /\ GivesUp
  /\ UNCHANGED <<closing, broker, consumer>>

\* createChannel() or setupQueues() rejects: because the connection is gone,
\* or because the broker refuses.
SetupFails ==
  /\ clean /\ dial.step \in {"opening", "setup"}
  /\ IF dial.link \in up THEN Fault ELSE UNCHANGED faults
  /\ dial' = [dial EXCEPT !.step = "aborting"]
  /\ UNCHANGED <<state, broker, life, consumer>>

\* Mutant: the catch does not close the half-open connection.
AbortLeaks ==
  /\ dial.step = "aborting"
  /\ GivesUp
  /\ UNCHANGED <<closing, broker, consumer, faults>>

\* The catch closes the half-open connection; nobody listens to it yet.
Aborts ==
  /\ dial.step = "aborting"
  /\ up' = up \ {dial.link} /\ open' = open \ {dial.link}
  /\ GivesUp
  /\ UNCHANGED <<closing, heard, fed, consumer, faults>>

\* In the Mongo starter the catch runs as soon as they reject, and forgets the
\* half-open connection.
SetupFailsOpen ==
  /\ ~clean /\ dial.step \in {"opening", "setup"}
  /\ IF dial.link \in up THEN Fault ELSE UNCHANGED faults
  /\ GivesUp
  /\ UNCHANGED <<closing, broker, consumer>>

-----------------------------------------------------------------------------
(* Events *)

\* Connection c ends.  Its "close" handler, if it is attached, clears the
\* state, whatever connection the state holds, and schedules a reconnect.
Ends(c) ==
  /\ up' = up \ {c} /\ open' = open \ {c}
  /\ IF c \in heard
       THEN /\ connection' = None /\ channel' = None
            /\ timer' = Scheduled(timer)
            /\ heard' = heard \ {c}      \* removeAllListeners()
       ELSE UNCHANGED <<connection, channel, timer, heard>>

ConnectionDrops(c) ==
  /\ c \in up
  /\ Fault
  /\ Ends(c)
  /\ UNCHANGED <<isConnecting, closing, dial, fed, life, consumer>>

\* Mutant: nothing listens to the channel.
ChannelDiesUnheard(c) ==
  /\ c \in open \cap heard
  /\ life # "closing channel" \/ c # channel
  /\ Fault
  /\ open' = open \ {c}
  /\ UNCHANGED <<state, dial, up, heard, fed, life, consumer>>

\* The broker closes a channel in use and keeps its connection.  A close that
\* crosses our own channel.close() is that close's success.
ChannelDies(c) ==
  /\ c \in open \cap heard
  /\ life # "closing channel" \/ c # channel
  /\ Fault
  /\ open' = open \ {c}
  /\ channel' = None
  /\ UNCHANGED <<connection, isConnecting, closing, timer, dial, up, heard, fed,
                 life, consumer>>

\* Mutant: the callback is pushed without asking whether it is there.
PushedAlways(n) == n + 1

\* connectCallbacks.push(cb), unless it includes cb
Pushed(n) == IF n = 0 THEN 1 ELSE n

\* onConnect(cb): remember the callback, and run it now if there is a channel,
\* though it may have run there before.
OnConnect ==
  /\ life = "ready"
  /\ callbacks' = Pushed(callbacks)
  /\ IF channel = None
       THEN UNCHANGED <<fed, again>>
       ELSE /\ fed' = [fed EXCEPT ![channel] = @ + 1]
            /\ again' = IF callbacks = 0 THEN again ELSE again + 1
            /\ again' <= MaxRepeats
  /\ UNCHANGED <<state, dial, up, open, heard, life, faults>>

-----------------------------------------------------------------------------
(* close(), from graceful shutdown *)

\* After channel.close(): the connection, if there still is one.
NextToClose == IF connection # None THEN "closing connection" ELSE "closed"

\* Mutant: the reconnect timer keeps running.
CloseKeepsTimer ==
  /\ clean /\ life = "ready"
  /\ closing' = TRUE
  /\ life' = IF channel # None THEN "closing channel" ELSE NextToClose
  /\ UNCHANGED <<connection, channel, isConnecting, timer, dial, broker,
                 consumer, faults>>

Close ==
  /\ clean /\ life = "ready"
  /\ closing' = TRUE
  /\ timer' = "null"
  /\ life' = IF channel # None THEN "closing channel" ELSE NextToClose
  /\ UNCHANGED <<connection, channel, isConnecting, dial, broker, consumer, faults>>

\* channel.close() resolves; its "close" event and the line after the await
\* both clear state.channel.
ChannelCloses ==
  /\ life = "closing channel" /\ channel # None
  /\ open' = open \ {channel}
  /\ channel' = None
  /\ life' = NextToClose
  /\ UNCHANGED <<connection, isConnecting, closing, timer, dial, up, heard, fed,
                 consumer, faults>>

ConnectionCloses ==
  /\ life = "closing connection" /\ connection # None
  /\ Ends(connection)
  /\ life' = "closed"
  /\ UNCHANGED <<isConnecting, closing, dial, fed, consumer, faults>>

\* What is being closed ended first: the close rejects and the catch swallows
\* the error.
CloseFails ==
  /\ \/ life = "closing channel" /\ channel = None
     \/ life = "closing connection" /\ connection = None
  /\ life' = "closed"
  /\ UNCHANGED <<state, dial, broker, consumer, faults>>

-----------------------------------------------------------------------------
Dial ==
  \/ Connects \/ OpensChannel \/ SetsUp
  \/ DialFails \/ SetupFails \/ Aborts \/ SetupFailsOpen

Events == \E c \in Links : ConnectionDrops(c) \/ ChannelDies(c)

Closing == Close \/ ChannelCloses \/ ConnectionCloses \/ CloseFails

Next ==
  /\ GetClient \/ TimerFires \/ Dial \/ Events \/ OnConnect \/ Closing
  /\ UNCHANGED clean

Spec == Init /\ [][Next]_vars

(* The timer fires; the broker answers each request, by refusing it at most *)
(* as often as MaxFaults lets it; a dead connection makes a request fail.   *)
Fairness == WF_vars((TimerFires \/ Dial) /\ UNCHANGED clean)

FairSpec == Spec /\ Fairness

-----------------------------------------------------------------------------
(* Properties *)

\* isConnected(), which the health route reports, speaks of an open channel
\* of an open connection.
HealthIsTrue == Connected => channel \in open /\ connection \in up

\* The leak guards: every open connection is the client's or the one that
\* connect() is setting up, however many attempts failed and whenever.  Of the
\* clean starter only: SetupFailsOpen leaks.
NoOrphanConnection == clean => up \subseteq {connection, dial.link}

\* "blocks the close-event reconnect": once shutdown has begun no reconnect is
\* scheduled, by whatever handler, callback or failure comes late.
NoReconnectScheduledAfterClose == closing => timer # "armed"

\* A consumer survives reconnects and does not multiply with them: on the
\* client's channel it was set up once, and once more for each onConnect call
\* repeated on that very channel, however often it was repeated before.
ConsumerOnEveryChannel ==
  callbacks # 0 /\ channel # None => fed[channel] = 1 + again

\* scheduleReconnect() is called wherever it must be: a client without a
\* connection always has its next attempt under way or due, whichever event,
\* refusal or failed set-up took the connection and in whatever order.
ReconnectIsDue ==
  life = "ready" /\ connection = None /\ ~closing => timer = "armed" \/ dial # NoDial

\* A client that lost its connection gets it back, unless it is being closed.
Reconnects == life = "ready" /\ connection = None ~> Connected \/ closing

\* "Channel close is handled by the connection close handler above": a client
\* whose channel was closed gets a channel back.
ChannelCloseIsHandled == life = "ready" /\ channel = None ~> Connected \/ closing

\* Graceful shutdown closes RabbitMQ first to "halt message flow": after
\* close() no consumer is on an open channel while Redis and the database go.
MessageFlowHalted == life = "closed" => \A c \in open : fed[c] = 0
=============================================================================
