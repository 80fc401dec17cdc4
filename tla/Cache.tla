-------------------------------- MODULE Cache --------------------------------
(***************************************************************************)
(* The plain cache commands of infrastructure/cache/redis-client.ts in     *)
(* both starters, on the connection of RedisConnection: set, del, expire,  *)
(* incr, keys and flushPattern.  A command is not sent unless the client   *)
(* is connected; one that is cut off is given up, and no caller hears of   *)
(* it.  The starter with autoReconnect, the Mongo one, sets a TTL with a   *)
(* second command and lists keys with KEYS; the clean one does neither.    *)
(* Callers give set() a positive TTL.  Counters have keys of their own, as *)
(* incr() is for rate limits; one stands for all of them.                  *)
(***************************************************************************)
EXTENDS RedisConnection, FiniteSets

CONSTANTS
  Keys,       \* the cache's keys, all of one pattern
  Callers,    \* calls that may be under way at a time
  Window      \* the TTL that incr() is given

ASSUME WindowAssumption == Window \in Nat \ {0}

VARIABLES
  store,      \* each key: missing, lasting (it has no TTL), or expiring
  counter,    \* the time the counter has left; 0 when it is missing
  call,       \* the call of several commands that each caller has under way
  cut         \* keys whose EXPIRE, due after a SET, was given up

data == <<store, counter, call, cut>>
cacheVars == <<vars, data>>

Idle == [step |-> "idle", key |-> {}, op |-> "none",
         todo |-> {}, found |-> {}, stable |-> {}]

(* `key' holds the key that a set() has to expire; a listing has seen the   *)
(* `found' keys and has the `todo' ones left, and the `stable' ones were    *)
(* there all the time.                                                      *)
Calls ==
  [step : {"idle", "expire", "scan", "listed"}, key : SUBSET Keys,
   op : {"none", "set", "keys", "flush"},
   todo : SUBSET Keys, found : SUBSET Keys, stable : SUBSET Keys]

CacheTypeOK ==
  /\ store \in [Keys -> {"missing", "lasting", "expiring"}]
  /\ counter \in 0..Window
  /\ call \in [Callers -> Calls]
  /\ cut \subseteq Keys

CacheInit ==
  /\ Init
  /\ store = [k \in Keys |-> "missing"]
  /\ counter = 0
  /\ call = [c \in Callers |-> Idle]
  /\ cut = {}

connected == link = "up"   \* client.connected
Present == {k \in Keys : store[k] # "missing"}

\* Keys go missing, also to the listings under way.
Removed(gone, calls) ==
  /\ store' = [k \in Keys |-> IF k \in gone THEN "missing" ELSE store[k]]
  /\ call' = [c \in Callers |-> [calls[c] EXCEPT !.stable = @ \ gone]]

-----------------------------------------------------------------------------
(* Commands of one step; Redis runs each at once *)

\* Mutant: the clean starter sets the TTL with a second command, too.
SetThenExpire(c, k) ==
  /\ connected /\ call[c] = Idle
  /\ store' = [store EXCEPT ![k] = "lasting"]
  /\ call' = [call EXCEPT ![c] = [Idle EXCEPT !.step = "expire", !.op = "set", !.key = {k}]]
  /\ UNCHANGED <<counter, cut>>

\* set(): SET with EX in one command, or a SET that drops the TTL, and an EXPIRE
\* to follow.
Set(c, k) ==
  /\ connected /\ call[c] = Idle
  /\ IF auto
       THEN /\ store' = [store EXCEPT ![k] = "lasting"]
            /\ call' = [call EXCEPT ![c] =
                          [Idle EXCEPT !.step = "expire", !.op = "set", !.key = {k}]]
       ELSE store' = [store EXCEPT ![k] = "expiring"] /\ UNCHANGED call
  /\ UNCHANGED <<counter, cut>>

Del(k) ==
  /\ connected
  /\ Removed({k}, call)
  /\ UNCHANGED <<counter, cut>>

Expire(k) ==
  /\ connected /\ k \in Present
  /\ store' = [store EXCEPT ![k] = "expiring"]
  /\ UNCHANGED <<counter, call, cut>>

\* Mutant: every call starts the window anew.
IncrSlides ==
  /\ connected /\ ~auto
  /\ counter' = Window
  /\ UNCHANGED <<store, call, cut>>

\* incr(), a script, of the clean starter: the first call sets the TTL.
Incr ==
  /\ connected /\ ~auto
  /\ counter' = IF counter = 0 THEN Window ELSE counter
  /\ UNCHANGED <<store, call, cut>>

-----------------------------------------------------------------------------
(* Calls of several commands *)

ExpireAfterSet(c) ==
  /\ connected /\ call[c].step = "expire"
  /\ store' = [k \in Keys |-> IF k \in Present \cap call[c].key THEN "expiring" ELSE store[k]]
  /\ call' = [call EXCEPT ![c] = Idle]
  /\ UNCHANGED <<counter, cut>>

\* keys() and flushPattern() begin: KEYS sees everything at once.
List(c, op) ==
  /\ connected /\ call[c] = Idle
  /\ call' = [call EXCEPT ![c] =
       IF auto THEN [Idle EXCEPT !.step = "listed", !.op = op,
                                 !.found = Present, !.stable = Present]
               ELSE [Idle EXCEPT !.step = "scan", !.op = op,
                                 !.todo = Keys, !.stable = Present]]
  /\ UNCHANGED <<store, counter, cut>>

\* Mutant: scanKeys() stops at an empty page.
ScansToEmptyPage(c, page) ==
  /\ connected /\ call[c].step = "scan"
  /\ page # {} /\ page \subseteq call[c].todo
  /\ call' = [call EXCEPT ![c].todo = @ \ page,
                          ![c].found = @ \cup (page \cap Present),
                          ![c].step = IF page \cap Present = {} THEN "listed" ELSE @]
  /\ UNCHANGED <<store, counter, cut>>

\* One round of scanKeys(): what the cursor passes, if it is there, is found;
\* the cursor is "0" again when it has passed everything.
Scans(c, page) ==
  /\ connected /\ call[c].step = "scan"
  /\ page # {} /\ page \subseteq call[c].todo
  /\ call' = [call EXCEPT ![c].todo = @ \ page,
                          ![c].found = @ \cup (page \cap Present),
                          ![c].step = IF page = call[c].todo THEN "listed" ELSE @]
  /\ UNCHANGED <<store, counter, cut>>

KeysReturns(c) ==
  /\ call[c].step = "listed" /\ call[c].op = "keys"
  /\ call' = [call EXCEPT ![c] = Idle]
  /\ UNCHANGED <<store, counter, cut>>

\* flushPattern() deletes what it listed, if anything.
FlushDeletes(c) ==
  /\ call[c].step = "listed" /\ call[c].op = "flush"
  /\ call[c].found # {} => connected
  /\ Removed(call[c].found, [call EXCEPT ![c] = Idle])
  /\ UNCHANGED <<counter, cut>>

\* A command in flight or queued is rejected, and the catch swallows it.
GivesUp(c) ==
  /\ ~connected /\ call[c] # Idle
  /\ call' = [call EXCEPT ![c] = Idle]
  /\ cut' = cut \cup call[c].key
  /\ UNCHANGED <<store, counter>>

-----------------------------------------------------------------------------
(* Redis *)

KeyExpires(k) ==
  /\ store[k] = "expiring"
  /\ Removed({k}, call)
  /\ UNCHANGED <<counter, cut>>

Tick ==
  /\ counter > 0
  /\ counter' = counter - 1
  /\ UNCHANGED <<store, call, cut>>

-----------------------------------------------------------------------------
Commands ==
  \/ Incr \/ Tick
  \/ \E k \in Keys : Del(k) \/ Expire(k) \/ KeyExpires(k)
  \/ \E c \in Callers :
       \/ \E k \in Keys : Set(c, k)
       \/ \E op \in {"keys", "flush"} : List(c, op)
       \/ \E page \in SUBSET Keys : Scans(c, page)
       \/ ExpireAfterSet(c) \/ KeysReturns(c) \/ FlushDeletes(c) \/ GivesUp(c)

CacheNext ==
  \/ Next /\ UNCHANGED data
  \/ Commands /\ UNCHANGED vars

CacheSpec == CacheInit /\ [][CacheNext]_cacheVars

(* The connection's fairness, and time passes in Redis. *)
CacheFairSpec ==
  /\ CacheSpec
  /\ WF_cacheVars(Dial /\ UNCHANGED data)
  /\ WF_cacheVars(TimerFires /\ UNCHANGED data)
  /\ WF_cacheVars(Tick /\ UNCHANGED vars)

-----------------------------------------------------------------------------
(* Properties *)

\* "Single atomic command": in the clean starter no key is ever cached forever.
\* In the Mongo starter one is only while its set() is under way, or after a
\* set() was cut off between its two commands.
ForeverOnlyIfCut ==
  \A k \in Keys : store[k] = "lasting" =>
    auto /\ (k \in cut \/ \E c \in Callers : k \in call[c].key)

\* keys() and flushPattern() list every key that is there from their first
\* command to the last, however the cursor pages and others write meanwhile.
ListsAll ==
  \A c \in Callers : call[c].step = "listed" => call[c].stable \subseteq call[c].found

\* "The window is fixed from t=0": a counter runs out though it is incremented
\* again and again.
WindowEnds == counter > 0 ~> counter = 0
=============================================================================
