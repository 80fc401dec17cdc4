--------------------------- MODULE RabbitMQ_proofs ---------------------------
(***************************************************************************)
(* The safety properties of RabbitMQ, for any number of faults and of       *)
(* repeated onConnect calls.                                               *)
(***************************************************************************)
EXTENDS RabbitMQ, TLAPS

\* The client's connection is up and listened to, and nothing is being
\* connected or about to be.
Settled ==
  connection # None =>
    /\ connection \in up /\ connection \in heard
    /\ dial = NoDial
    /\ timer # "armed"

\* A listener on an open connection is on the client's.
OnlyOwnIsHeard == up \cap heard \subseteq {connection}

ChannelOfConnection == channel # None => channel = connection /\ channel \in open

\* connect() has a link once the broker has accepted it, one that nobody has
\* heard of or fed yet, and no other attempt is due.
LinkOfDial ==
  /\ dial = NoDial \/ dial.step = "dialing" => dial.link = None
  /\ dial # NoDial => timer # "armed"
  /\ dial.link # None => dial.link \notin heard
  /\ dial # NoDial /\ dial.step # "dialing" => dial.link # None

\* Only the startup's connect() runs before there is a client.
FirstDial ==
  /\ life = "new" => connection = None /\ timer = "null" /\ callbacks = 0
  /\ dial.by = "startup" => life = "new"
  /\ dial.by = "timer" => life # "new"

\* The callback is remembered once at most; the consumer was set up on nobody
\* else's channel, and on the client's once, and again for each repeated call.
Fed ==
  /\ callbacks \in {0, 1}
  /\ callbacks = 0 => again = 0 /\ \A c \in Links : fed[c] = 0
  /\ dial.link # None => fed[dial.link] = 0
  /\ ConsumerOnEveryChannel

LinksInv ==
  /\ Settled /\ OnlyOwnIsHeard /\ ChannelOfConnection /\ LinkOfDial /\ FirstDial
  /\ NoOrphanConnection

IInv == TypeOK /\ LinksInv /\ Fed /\ ReconnectIsDue

-----------------------------------------------------------------------------
LEMMA FaultType == ASSUME TypeOK, Fault PROVE faults' \in 0..MaxFaults
<1>1. faults \in 0..MaxFaults
  BY DEF TypeOK
<1> QED BY <1>1, FaultsAssumption DEF Fault

LEMMA DialType ==
  ASSUME TypeOK
  PROVE  /\ dial # NoDial =>
              /\ dial = [step |-> dial.step, by |-> dial.by, link |-> dial.link]
              /\ dial.step \in Steps /\ dial.by \in {"startup", "timer"}
         /\ dial.link \in Links \cup {None}
<1>1. dial \in Dials
  BY DEF TypeOK
<1> QED BY <1>1 DEF Dials, NoDial

LEMMA DialIs ==
  ASSUME NEW s \in Steps, NEW by \in {"startup", "timer"},
         NEW link \in (Links \cup {None})',
         dial' = [step |-> s, by |-> by, link |-> link]
  PROVE  dial' \in Dials' /\ dial' # NoDial
BY DEF Dials, NoDial, Steps

\* A step that leaves the number of links alone.
LEMMA SameLinks ==
  ASSUME fed' = fed PROVE Links' = Links /\ Dials' = Dials
BY DEF Links, Dials

\* Feeding a channel keeps the links.
LEMMA FedType ==
  ASSUME TypeOK, NEW c \in Links, NEW n \in Nat, fed' = [fed EXCEPT ![c] = @ + n]
  PROVE  fed' \in Seq(Nat) /\ Links' = Links /\ Dials' = Dials
<1>1. fed \in Seq(Nat) /\ c \in 1..Len(fed)
  BY DEF TypeOK, Links
<1>2. fed[c] + n \in Nat
  BY <1>1
<1>3. fed' \in Seq(Nat) /\ Len(fed') = Len(fed)
  BY <1>1, <1>2
<1> QED BY <1>3 DEF Links, Dials

LEMMA TypeNext == TypeOK /\ [Next]_vars => TypeOK'
<1> SUFFICES ASSUME TypeOK, [Next]_vars PROVE TypeOK'
  OBVIOUS
<1>0. clean' = clean
  BY DEF Next, vars
<1> USE <1>0 DEF consumer
<1>1. ASSUME NEW by \in {"startup", "timer"}, NEW t \in {"null", "armed", "fired"},
             connect(by, t)
      PROVE  TypeOK'
  <2>1. Links' = Links /\ Dials' = Dials
    BY <1>1, SameLinks DEF connect, broker
  <2>2. CASE isConnecting \/ Connected
    BY <1>1, <2>1, <2>2 DEF connect, Returned, Scheduled, broker, TypeOK
  <2>3. CASE ~(isConnecting \/ Connected)
    <3>1. dial' \in Dials' /\ dial' # NoDial
      BY <1>1, <2>3, DialIs DEF connect, Steps, None
    <3> QED BY <1>1, <2>1, <2>3, <3>1 DEF connect, broker, TypeOK
  <2> QED BY <2>2, <2>3
<1>2. CASE GetClient
  BY <1>1, <1>2 DEF GetClient, TypeOK
<1>3. CASE TimerFires
  BY <1>1, <1>3 DEF TimerFires
<1>4. CASE Connects
  <2>1. fed' \in Seq(Nat) /\ Len(fed') = Len(fed) + 1
    <3>1. fed \in Seq(Nat) /\ fed' = Append(fed, 0)
      BY <1>4 DEF Connects, TypeOK
    <3> QED BY <3>1
  <2>2. Links \subseteq Links' /\ Len(fed) + 1 \in Links' /\ Len(fed) \in Nat
    <3>1. fed \in Seq(Nat)
      BY DEF TypeOK
    <3> QED BY <2>1, <3>1 DEF Links
  <2>3. dial # NoDial
    BY <1>4 DEF Connects, NoDial
  <2>4. dial' = [step |-> "opening", by |-> dial.by, link |-> Len(fed) + 1]
    BY <1>4, <2>3, DialType DEF Connects
  <2>5. dial' \in Dials' /\ dial' # NoDial
    BY <2>2, <2>3, <2>4, DialType, DialIs DEF Steps
  <2>6. up' \subseteq Links' /\ open' \subseteq up' /\ heard' \subseteq Links'
    BY <1>4, <2>2 DEF Connects, TypeOK
  <2> QED BY <1>4, <2>1, <2>2, <2>3, <2>5, <2>6 DEF Connects, state, TypeOK
<1>5. ASSUME OpensChannel \/ SetupFails PROVE TypeOK'
  <2>1. Links' = Links /\ Dials' = Dials
    BY <1>5, SameLinks DEF OpensChannel, SetupFails, broker
  <2>2. dial # NoDial
    BY <1>5 DEF OpensChannel, SetupFails, NoDial
  <2>3. PICK s \in Steps : dial' = [dial EXCEPT !.step = s]
    BY <1>5 DEF OpensChannel, SetupFails, Steps
  <2>4. dial' = [step |-> s, by |-> dial.by, link |-> dial.link]
    BY <2>2, <2>3, DialType
  <2>5. dial' \in Dials' /\ dial' # NoDial
    BY <2>1, <2>2, <2>4, DialType, DialIs
  <2>6. faults' \in 0..MaxFaults
    BY <1>5, FaultType DEF OpensChannel, SetupFails, TypeOK
  <2>7. up' = up /\ open' \subseteq up
    BY <1>5 DEF OpensChannel, SetupFails, broker, TypeOK
  <2> QED
    BY <1>5, <2>1, <2>2, <2>5, <2>6, <2>7
    DEF OpensChannel, SetupFails, state, broker, TypeOK
<1>6. CASE SetsUp
  <2>1. dial.link \in Links /\ dial # NoDial /\ NoDial \in Dials
    <3>1. dial.link \in open /\ open \subseteq up /\ up \subseteq Links
      BY <1>6 DEF SetsUp, TypeOK
    <3>2. dial # NoDial
      BY <1>6 DEF SetsUp, NoDial
    <3> QED BY <3>1, <3>2 DEF Dials
  <2>2. callbacks \in Nat /\ 0 \in 0..MaxRepeats
    <3>1. callbacks \in Nat
      BY DEF TypeOK
    <3> QED BY <3>1, RepeatsAssumption
  <2>3. fed' \in Seq(Nat) /\ Links' = Links /\ Dials' = Dials
    BY <2>1, <2>2, <1>6, FedType DEF SetsUp
  <2> QED
    BY <1>6, <2>1, <2>2, <2>3 DEF SetsUp, Returned, Scheduled, TypeOK
<1>7. ASSUME DialFails \/ Aborts \/ SetupFailsOpen PROVE TypeOK'
  <2>1. Links' = Links /\ Dials' = Dials /\ NoDial \in Dials
    BY <1>7, SameLinks DEF DialFails, Aborts, SetupFailsOpen, broker, Dials
  <2>2. faults' \in 0..MaxFaults
    BY <1>7, FaultType DEF DialFails, Aborts, SetupFailsOpen, TypeOK
  <2>3. up' \subseteq up /\ open' \subseteq up' /\ heard' = heard
    BY <1>7 DEF DialFails, Aborts, SetupFailsOpen, broker, TypeOK
  <2> QED
    BY <1>7, <2>1, <2>2, <2>3
    DEF DialFails, Aborts, SetupFailsOpen, GivesUp, Returned, Scheduled, broker, TypeOK
<1>8. ASSUME NEW c \in Links, ConnectionDrops(c) \/ ChannelDies(c) PROVE TypeOK'
  <2>1. Links' = Links /\ Dials' = Dials
    BY <1>8, SameLinks DEF ConnectionDrops, ChannelDies
  <2>2. faults' \in 0..MaxFaults
    BY <1>8, FaultType DEF ConnectionDrops, ChannelDies
  <2>3. up' \subseteq up /\ open' \subseteq up' /\ heard' \subseteq heard
    BY <1>8 DEF ConnectionDrops, ChannelDies, Ends, TypeOK
  <2> QED
    BY <1>8, <2>1, <2>2, <2>3
    DEF ConnectionDrops, ChannelDies, Ends, Scheduled, TypeOK
<1>9. CASE OnConnect
  <2>1. fed' \in Seq(Nat) /\ Links' = Links /\ Dials' = Dials
    <3>1. channel \in Links \cup {None}
      BY DEF TypeOK
    <3>2. CASE channel = None
      BY <1>9, <3>2, SameLinks DEF OnConnect, TypeOK
    <3>3. CASE channel # None
      BY <1>9, <3>1, <3>3, FedType DEF OnConnect
    <3> QED BY <3>2, <3>3
  <2>2. callbacks' \in Nat
    BY <1>9 DEF OnConnect, Pushed, TypeOK
  <2>3. again' \in 0..MaxRepeats
    <3>1. again \in 0..MaxRepeats
      BY DEF TypeOK
    <3> QED BY <1>9, <3>1, RepeatsAssumption DEF OnConnect
  <2> QED BY <1>9, <2>1, <2>2, <2>3 DEF OnConnect, state, TypeOK
<1>10. ASSUME Closing PROVE TypeOK'
  <2>1. Links' = Links /\ Dials' = Dials
    BY <1>10, SameLinks
    DEF Closing, Close, ChannelCloses, ConnectionCloses, CloseFails, broker
  <2>2. CASE Close \/ CloseFails
    BY <2>1, <2>2 DEF Close, CloseFails, NextToClose, state, broker, TypeOK
  <2>3. CASE ChannelCloses
    BY <2>1, <2>3 DEF ChannelCloses, NextToClose, TypeOK
  <2>4. CASE ConnectionCloses
    BY <2>1, <2>4 DEF ConnectionCloses, Ends, Scheduled, TypeOK
  <2> QED BY <1>10, <2>2, <2>3, <2>4 DEF Closing
<1>11. CASE UNCHANGED vars
  BY <1>11, SameLinks DEF vars, state, broker, TypeOK
<1> QED
  BY <1>2, <1>3, <1>4, <1>5, <1>6, <1>7, <1>8, <1>9, <1>10, <1>11
  DEF Next, Dial, Events

-----------------------------------------------------------------------------
LEMMA LinkFacts ==
  ASSUME TypeOK
  PROVE  /\ up \subseteq Links /\ open \subseteq up /\ heard \subseteq Links
         /\ connection \in Links \cup {None} /\ channel \in Links \cup {None}
         /\ Len(fed) \in Nat /\ None \notin Links /\ Len(fed) + 1 \notin Links
         /\ Len(fed) + 1 # None
<1>1. fed \in Seq(Nat)
  BY DEF TypeOK
<1>2. /\ up \subseteq Links /\ open \subseteq up /\ heard \subseteq Links
      /\ connection \in Links \cup {None} /\ channel \in Links \cup {None}
  BY DEF TypeOK
<1>3. Len(fed) \in Nat
  BY <1>1
<1> QED BY <1>2, <1>3 DEF Links, None

LEMMA LinksInit == Init => TypeOK /\ LinksInv
<1> SUFFICES ASSUME Init PROVE TypeOK /\ LinksInv
  OBVIOUS
<1>1. TypeOK
  <2>1. fed \in Seq(Nat) /\ NoDial \in Dials /\ clean \in Starters
    BY DEF Init, Dials
  <2>2. faults \in 0..MaxFaults /\ again \in 0..MaxRepeats /\ callbacks \in Nat
    BY FaultsAssumption, RepeatsAssumption DEF Init
  <2>3. isConnecting = (dial # NoDial)
    BY DEF Init
  <2>4. up \subseteq Links /\ open \subseteq up /\ heard \subseteq Links
    BY DEF Init
  <2> QED BY <2>1, <2>2, <2>3, <2>4 DEF Init, TypeOK
<1>2. LinksInv
  BY DEF Init, LinksInv, Settled, OnlyOwnIsHeard, ChannelOfConnection, LinkOfDial,
         FirstDial, NoOrphanConnection, NoDial, None
<1> QED BY <1>1, <1>2

LEMMA LinksNext == TypeOK /\ LinksInv /\ [Next]_vars => LinksInv'
<1> SUFFICES ASSUME TypeOK, LinksInv, [Next]_vars PROVE LinksInv'
  OBVIOUS
<1>0. clean' = clean
  BY DEF Next, vars
<1> USE <1>0, LinkFacts, DialType
    DEF LinksInv, Settled, OnlyOwnIsHeard, ChannelOfConnection, LinkOfDial,
        FirstDial, NoOrphanConnection, NoDial, state, broker, consumer
<1>1. CASE GetClient
  BY <1>1 DEF GetClient, connect, Connected, Returned, Scheduled
<1>2. CASE TimerFires
  BY <1>2 DEF TimerFires, connect, Connected, Returned, Scheduled
<1>3. CASE Connects
  <2>1. dial' = [step |-> "opening", by |-> dial.by, link |-> Len(fed) + 1]
    BY <1>3 DEF Connects
  <2>2. Len(fed) + 1 \notin heard
    OBVIOUS
  <2> QED BY <1>3, <2>1, <2>2 DEF Connects
<1>4. CASE OpensChannel
  BY <1>4 DEF OpensChannel
<1>5. CASE SetsUp
  BY <1>5 DEF SetsUp, Returned, Scheduled
<1>6. CASE SetupFails
  BY <1>6 DEF SetupFails
<1>7. CASE DialFails
  BY <1>7 DEF DialFails, GivesUp, Returned, Scheduled
<1>8. CASE Aborts
  BY <1>8 DEF Aborts, GivesUp, Returned, Scheduled
<1>9. ASSUME NEW c \in Links, ConnectionDrops(c) PROVE LinksInv'
  BY <1>9 DEF ConnectionDrops, Ends, Scheduled
<1>10. ASSUME NEW c \in Links, ChannelDies(c) PROVE LinksInv'
  BY <1>10 DEF ChannelDies
<1>11. CASE OnConnect
  BY <1>11 DEF OnConnect
<1>12. ASSUME Close \/ CloseFails PROVE LinksInv'
  <2>1. /\ UNCHANGED <<connection, channel, dial, broker, consumer>>
        /\ life # "new" /\ life' # "new" /\ timer' \in {timer, "null"}
    BY <1>12 DEF Close, CloseFails, NextToClose
  <2> QED BY <2>1
<1>13. CASE ChannelCloses
  BY <1>13 DEF ChannelCloses, NextToClose
<1>14. CASE ConnectionCloses
  BY <1>14 DEF ConnectionCloses, Ends, Scheduled
<1>15. CASE UNCHANGED vars
  BY <1>15 DEF vars
<1>16. CASE SetupFailsOpen
  BY <1>16 DEF SetupFailsOpen, GivesUp, Returned, Scheduled
<1> QED
  BY <1>1, <1>2, <1>3, <1>4, <1>5, <1>6, <1>7, <1>8, <1>9, <1>10, <1>11, <1>12,
     <1>13, <1>14, <1>15, <1>16
  DEF Next, Dial, Events, Closing

-----------------------------------------------------------------------------
\* n more set-ups of the consumer on link c.
LEMMA FedOnce ==
  ASSUME TypeOK, NEW c \in Links, NEW n \in Nat, fed' = [fed EXCEPT ![c] = @ + n]
  PROVE  /\ Links' = Links /\ fed'[c] = fed[c] + n /\ fed[c] \in Nat
         /\ \A d \in Links : d # c => fed'[d] = fed[d]
<1>1. fed \in Seq(Nat) /\ c \in 1..Len(fed)
  BY DEF TypeOK, Links
<1>2. Len(fed') = Len(fed)
  BY <1>1
<1> QED BY <1>1, <1>2 DEF Links

\* A step that feeds nobody.
LEMMA FedSame ==
  ASSUME Fed, UNCHANGED <<fed, consumer>>,
         channel' \in {channel, None}, dial'.link \in {dial.link, None}
  PROVE  Fed'
BY DEF Fed, Links, consumer, ConsumerOnEveryChannel

LEMMA FedNext == TypeOK /\ LinksInv /\ Fed /\ [Next]_vars => Fed'
<1> SUFFICES ASSUME TypeOK, LinksInv, Fed, [Next]_vars PROVE Fed'
  OBVIOUS
<1> USE LinkFacts DEF Fed, ConsumerOnEveryChannel, consumer
<1>1. CASE GetClient
  BY <1>1, FedSame DEF GetClient, connect, broker
<1>2. CASE TimerFires
  BY <1>2, FedSame DEF TimerFires, connect, broker
<1>3. CASE Connects
  <2>1. fed \in Seq(Nat) /\ fed' = Append(fed, 0)
    BY <1>3 DEF Connects, TypeOK
  <2>2. /\ Links' = Links \cup {Len(fed) + 1} /\ fed'[Len(fed) + 1] = 0
        /\ \A c \in Links : fed'[c] = fed[c]
    BY <2>1 DEF Links
  <2>3. dial'.link = Len(fed) + 1 /\ UNCHANGED <<consumer, channel>>
    BY <1>3, DialType DEF Connects, state, NoDial
  <2> QED BY <2>2, <2>3
<1>4. ASSUME OpensChannel \/ SetupFails PROVE Fed'
  <2>1. UNCHANGED <<fed, consumer, channel>> /\ dial'.link = dial.link
    BY <1>4, DialType DEF OpensChannel, SetupFails, state, broker, NoDial
  <2> QED BY <2>1 DEF Links
<1>5. CASE SetsUp
  <2>1. /\ dial.link \in Links /\ dial.link # None /\ fed[dial.link] = 0
        /\ channel' = dial.link /\ dial'.link = None /\ again' = 0
        /\ callbacks' = callbacks /\ callbacks \in {0, 1}
    BY <1>5 DEF SetsUp, NoDial
  <2>2. fed' = [fed EXCEPT ![dial.link] = @ + callbacks]
    BY <1>5 DEF SetsUp
  <2>3. /\ Links' = Links /\ fed'[dial.link] = callbacks
        /\ \A d \in Links : d # dial.link => fed'[d] = fed[d]
    <3>1. callbacks \in Nat /\ 0 + callbacks = callbacks
      BY <2>1
    <3> QED BY <2>1, <2>2, <3>1, FedOnce
  <2> QED BY <2>1, <2>3
<1>6. ASSUME DialFails \/ Aborts \/ SetupFailsOpen PROVE Fed'
  <2>1. UNCHANGED <<fed, consumer>> /\ channel' = None /\ dial'.link = None
    <3>1. GivesUp /\ consumer' = consumer
      BY <1>6 DEF DialFails, Aborts, SetupFailsOpen
    <3>2. channel' = None /\ dial'.link = None
      BY <3>1 DEF GivesUp, NoDial
    <3>3. fed' = fed
      BY <1>6 DEF DialFails, Aborts, SetupFailsOpen, broker
    <3> QED BY <3>1, <3>2, <3>3
  <2> QED BY <2>1, FedSame
<1>7. ASSUME NEW c \in Links, ConnectionDrops(c) \/ ChannelDies(c) PROVE Fed'
  <2>1. UNCHANGED <<fed, consumer, dial>> /\ channel' \in {channel, None}
    BY <1>7 DEF ConnectionDrops, ChannelDies, Ends
  <2> QED BY <2>1, FedSame
<1>8. CASE OnConnect
  <2>1. dial.link # None => dial.link # channel
    BY DEF LinksInv, ChannelOfConnection, Settled, LinkOfDial
  <2>2. CASE channel # None
    <3>1. /\ channel \in Links /\ fed' = [fed EXCEPT ![channel] = @ + 1]
          /\ callbacks' = 1 /\ channel' = channel /\ dial' = dial
          /\ again' = IF callbacks = 0 THEN again ELSE again + 1
      BY <1>8, <2>2 DEF OnConnect, Pushed, state
    <3>2. /\ Links' = Links /\ fed'[channel] = fed[channel] + 1
          /\ \A d \in Links : d # channel => fed'[d] = fed[d]
      BY <3>1, FedOnce
    <3>3. fed'[channel] = 1 + again'
      <4>1. again \in 0..MaxRepeats
        BY DEF TypeOK
      <4>2. again \in Nat
        BY <4>1, RepeatsAssumption
      <4> QED BY <2>2, <3>1, <3>2, <4>2
    <3>4. dial.link # None => dial.link \in Links
      BY DialType
    <3> QED BY <2>1, <3>1, <3>2, <3>3, <3>4
  <2>3. CASE channel = None
    BY <1>8, <2>3 DEF OnConnect, Pushed, state, Links
  <2> QED BY <2>2, <2>3
<1>9. ASSUME Closing PROVE Fed'
  <2>1. UNCHANGED <<fed, consumer, dial>> /\ channel' \in {channel, None}
    BY <1>9
    DEF Closing, Close, ChannelCloses, ConnectionCloses, CloseFails, Ends,
        state, broker
  <2> QED BY <2>1, FedSame
<1>10. CASE UNCHANGED vars
  BY <1>10, FedSame DEF vars, state, broker
<1> QED
  BY <1>1, <1>2, <1>3, <1>4, <1>5, <1>6, <1>7, <1>8, <1>9, <1>10
  DEF Next, Dial, Events

-----------------------------------------------------------------------------
(* A connect() of the timer ends with a connection or with the timer armed *)
(* again; an event that takes the connection arms it, too; and the startup *)
(* hands out a client only together with its connection.                   *)
LEMMA DueNext == TypeOK /\ LinksInv /\ ReconnectIsDue /\ [Next]_vars => ReconnectIsDue'
<1> SUFFICES ASSUME TypeOK, LinksInv, ReconnectIsDue, [Next]_vars
             PROVE  ReconnectIsDue'
  OBVIOUS
<1> USE DEF ReconnectIsDue, state
<1>1. CASE GetClient
  <2>1. ~isConnecting /\ connection = None
    BY <1>1 DEF GetClient, LinksInv, FirstDial, TypeOK
  <2>2. life' # "ready"
    BY <1>1, <2>1 DEF GetClient, connect, Connected
  <2> QED BY <2>2
<1>2. CASE TimerFires
  <2>1. ~isConnecting /\ dial = NoDial
    BY <1>2 DEF TimerFires, LinksInv, LinkOfDial, TypeOK
  <2>2. CASE Connected
    BY <1>2, <2>2 DEF TimerFires, connect, Connected
  <2>3. CASE ~Connected
    <3>1. dial'.step = "dialing"
      BY <1>2, <2>1, <2>3 DEF TimerFires, connect
    <3> QED BY <3>1 DEF NoDial
  <2> QED BY <2>2, <2>3
<1>3. ASSUME Connects \/ OpensChannel \/ SetupFails PROVE ReconnectIsDue'
  <2>1. dial # NoDial
    BY <1>3 DEF Connects, OpensChannel, SetupFails, NoDial
  <2>2. dial'.step \in {"opening", "setup", "aborting"}
    BY <1>3, <2>1, DialType DEF Connects, OpensChannel, SetupFails
  <2> QED BY <2>2 DEF NoDial
<1>4. CASE SetsUp
  <2>1. connection' # None
    BY <1>4, LinkFacts DEF SetsUp
  <2> QED BY <2>1
<1>5. ASSUME DialFails \/ Aborts \/ SetupFailsOpen PROVE ReconnectIsDue'
  <2>1. GivesUp /\ closing' = closing /\ dial # NoDial
    BY <1>5 DEF DialFails, Aborts, SetupFailsOpen, NoDial
  <2>2. CASE dial.by = "timer"
    BY <2>1, <2>2 DEF GivesUp, Returned, Scheduled
  <2>3. CASE dial.by = "startup"
    BY <2>1, <2>3 DEF GivesUp, Returned
  <2> QED BY <2>1, <2>2, <2>3, DialType
<1>6. ASSUME NEW c \in Links, ConnectionDrops(c) \/ ChannelDies(c) PROVE ReconnectIsDue'
  BY <1>6 DEF ConnectionDrops, ChannelDies, Ends, Scheduled
<1>7. ASSUME OnConnect \/ Closing PROVE ReconnectIsDue'
  BY <1>7
  DEF OnConnect, Closing, Close, ChannelCloses, ConnectionCloses, CloseFails,
      NextToClose
<1>8. CASE UNCHANGED vars
  BY <1>8 DEF vars
<1> QED
  BY <1>1, <1>2, <1>3, <1>4, <1>5, <1>6, <1>7, <1>8 DEF Next, Dial, Events

LEMMA Inductive == Spec => []IInv
<1>1. Init => IInv
  BY LinksInit DEF IInv, Init, Fed, Links, NoDial, ReconnectIsDue, ConsumerOnEveryChannel
<1>2. IInv /\ [Next]_vars => IInv'
  BY TypeNext, LinksNext, FedNext, DueNext DEF IInv
<1> QED BY <1>1, <1>2, PTL DEF Spec

-----------------------------------------------------------------------------
\* The state has its types; isConnecting tells whether a connect() is under way.
THEOREM TypeCorrect == Spec => []TypeOK
<1>1. IInv => TypeOK
  BY DEF IInv
<1> QED BY <1>1, Inductive, PTL

\* Health tells the truth however many connections and channels were lost.
THEOREM HealthTrue == Spec => []HealthIsTrue
<1>1. IInv => HealthIsTrue
  BY DEF IInv, LinksInv, Settled, ChannelOfConnection, HealthIsTrue, Connected
<1> QED BY <1>1, Inductive, PTL

\* However many attempts fail, at whatever await, no connection is leaked.
THEOREM NoLeak == Spec => []NoOrphanConnection
<1>1. IInv => NoOrphanConnection
  BY DEF IInv, LinksInv
<1> QED BY <1>1, Inductive, PTL

\* However connections come and go and onConnect calls are repeated, the consumer
\* is set up once on the channel of every connection, and once more for each call
\* repeated on that channel.
THEOREM ConsumerFollows == Spec => []ConsumerOnEveryChannel
<1>1. IInv => ConsumerOnEveryChannel
  BY DEF IInv, Fed, ConsumerOnEveryChannel
<1> QED BY <1>1, Inductive, PTL

\* However connections are lost and attempts fail, the client never stands
\* without a connection and without an attempt under way or due.
THEOREM AlwaysDue == Spec => []ReconnectIsDue
<1>1. IInv => ReconnectIsDue
  BY DEF IInv
<1> QED BY <1>1, Inductive, PTL

\* Once close() has begun, no path arms the reconnect timer.
THEOREM ClosedForGood == Spec => []NoReconnectScheduledAfterClose
<1> DEFINE I == NoReconnectScheduledAfterClose
<1>1. Init => I
  BY DEF Init, NoReconnectScheduledAfterClose
<1>2. I /\ [Next]_vars => I'
  <2> SUFFICES ASSUME I, [Next]_vars PROVE I'
    OBVIOUS
  <2> USE DEF NoReconnectScheduledAfterClose, state
  <2>1. ASSUME GetClient \/ TimerFires PROVE I'
    BY <2>1 DEF GetClient, TimerFires, connect, Returned, Scheduled
  <2>2. ASSUME Connects \/ OpensChannel \/ SetupFails \/ OnConnect \/ CloseFails PROVE I'
    BY <2>2 DEF Connects, OpensChannel, SetupFails, OnConnect, CloseFails
  <2>3. CASE SetsUp
    BY <2>3 DEF SetsUp, Returned, Scheduled
  <2>4. ASSUME DialFails \/ Aborts \/ SetupFailsOpen PROVE I'
    BY <2>4 DEF DialFails, Aborts, SetupFailsOpen, GivesUp, Returned, Scheduled
  <2>5. ASSUME NEW c \in Links, ConnectionDrops(c) \/ ChannelDies(c) PROVE I'
    BY <2>5 DEF ConnectionDrops, ChannelDies, Ends, Scheduled
  <2>6. ASSUME Close \/ ChannelCloses \/ ConnectionCloses PROVE I'
    BY <2>6 DEF Close, ChannelCloses, ConnectionCloses, Ends, Scheduled
  <2>7. CASE UNCHANGED vars
    BY <2>7 DEF vars
  <2> QED
    BY <2>1, <2>2, <2>3, <2>4, <2>5, <2>6, <2>7 DEF Next, Dial, Events, Closing
<1> QED BY <1>1, <1>2, PTL DEF Spec
=============================================================================
