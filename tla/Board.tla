------------------------------- MODULE Board -------------------------------
(***************************************************************************)
(* A leaderboard kept as a Redis sorted set in front of a database: the    *)
(* commands zRebuild, zIncrByIfExists, zAddNXIfExists and zRem of          *)
(* infrastructure/cache/redis-client.ts, each Redis command a step of its  *)
(* own.  The database and the callers are external: the comments in        *)
(* types.ts and redis-client.ts fix what they do (the database commits     *)
(* first, a board that reads as missing is rebuilt from the database).     *)
(***************************************************************************)
EXTENDS Integers, FiniteSets

CONSTANTS
  Rebuilders,   \* callers that may run zRebuild on this board
  Writers,      \* callers that change a standing and then the board
  Members,      \* members of the board
  Chunk,        \* ZREBUILD_CHUNK: members per ZADD
  MaxIncrements, \* bound: increments committed in a behaviour
  MaxAborts,    \* bound: rebuilds that stop half way
  SlowLink      \* TRUE: a chunk may reach Redis after the temp key's TTL

ASSUME ChunkAssumption == Chunk \in Nat \ {0}
ASSUME BoundsAssumption == MaxIncrements \in Nat /\ MaxAborts \in Nat
ASSUME SlowLinkAssumption == SlowLink \in BOOLEAN
ASSUME MembersAssumption == IsFiniteSet(Members)

VARIABLES
  db,       \* committed standings: a function from the members to scores
  board,    \* the key readers use
  temp,     \* the key `${key}:rebuild-tmp`
  pc,       \* the command each rebuilder sends next
  entries,  \* the standings each rebuilder was called with
  todo,     \* the members of entries no ZADD has carried yet
  change,   \* the committed change whose command a writer has yet to send
  increments, \* increments committed so far
  aborts    \* rebuilds stopped so far

vars == <<db, board, temp, pc, entries, todo, change, increments, aborts>>

-----------------------------------------------------------------------------
(* Sorted sets and keys.  A sorted set maps its members to scores; Redis   *)
(* deletes an empty one, so the empty function is the missing key.         *)

IsStandings(z) == DOMAIN z \subseteq Members /\ z \in [DOMAIN z -> Nat]
NoOne     == [m \in {} |-> 0]

Without(z, m)  == [n \in DOMAIN z \ {m} |-> z[n]]
With(z, m, s)  == [n \in DOMAIN z \cup {m} |-> IF n = m THEN s ELSE z[n]]
Score(z, m)    == IF m \in DOMAIN z THEN z[m] ELSE 0

\* A key's TTL: none, ZREBUILD_TEMP_TTL, or the caller's ttlSeconds.
Gone == [zset |-> NoOne, ttl |-> "none"]

Exists(key) == DOMAIN key.zset # {}

IsKey(key) ==
  /\ key = [zset |-> key.zset, ttl |-> key.ttl]
  /\ IsStandings(key.zset)
  /\ key.ttl \in {"none", "temp", "full"}
  /\ Exists(key) \/ key = Gone
Holding(z, ttl) == IF DOMAIN z = {} THEN Gone ELSE [zset |-> z, ttl |-> ttl]

\* ZADD key, the scores that z gives to the members S
ZAdd(key, z, S) ==
  [key EXCEPT !.zset = [m \in DOMAIN @ \cup S |-> IF m \in S THEN z[m] ELSE @[m]]]

\* EXPIRE key: nothing happens to a missing key
Expire(key, ttl) == IF Exists(key) THEN [key EXCEPT !.ttl = ttl] ELSE key

-----------------------------------------------------------------------------
NoChange == [op |-> "none"]
Changes  == {NoChange} \cup [op : {"incr", "join", "leave"}, member : Members]

TypeOK ==
  /\ IsStandings(db)
  /\ IsKey(board) /\ IsKey(temp)
  /\ pc \in [Rebuilders -> {"idle", "del", "zadd", "expire", "swap"}]
  /\ DOMAIN entries = Rebuilders /\ \A r \in Rebuilders : IsStandings(entries[r])
  /\ todo \in [Rebuilders -> SUBSET Members]
  /\ change \in [Writers -> Changes]
  /\ increments \in 0..MaxIncrements
  /\ aborts \in 0..MaxAborts

Init ==
  /\ db \in UNION {[S -> {0}] : S \in SUBSET Members}
  /\ board = Gone
  /\ temp = Gone
  /\ pc = [r \in Rebuilders |-> "idle"]
  /\ entries = [r \in Rebuilders |-> NoOne]
  /\ todo = [r \in Rebuilders |-> {}]
  /\ change = [w \in Writers |-> NoChange]
  /\ increments = 0
  /\ aborts = 0

-----------------------------------------------------------------------------
(* zRebuild.  The caller has read the standings; every await is a step.    *)

\* Mutant: a temp key means that somebody else is rebuilding.
CallZRebuildUnlessTemp(r) ==
  /\ pc[r] = "idle"
  /\ DOMAIN db # {} /\ ~Exists(temp)
  /\ entries' = [entries EXCEPT ![r] = db]
  /\ todo' = [todo EXCEPT ![r] = DOMAIN db]
  /\ pc' = [pc EXCEPT ![r] = "del"]
  /\ UNCHANGED <<db, board, temp, change, increments, aborts>>

CallZRebuild(r) ==
  /\ pc[r] = "idle"
  /\ DOMAIN db # {}                  \* entries.length === 0 returns false
  /\ entries' = [entries EXCEPT ![r] = db]
  /\ todo' = [todo EXCEPT ![r] = DOMAIN db]
  /\ pc' = [pc EXCEPT ![r] = "del"]
  /\ UNCHANGED <<db, board, temp, change, increments, aborts>>

\* Mutant: the temp key is not deleted first.
DelTempSkipped(r) ==
  /\ pc[r] = "del"
  /\ pc' = [pc EXCEPT ![r] = "zadd"]
  /\ UNCHANGED <<db, board, temp, entries, todo, change, increments, aborts>>

DelTemp(r) ==
  /\ pc[r] = "del"
  /\ temp' = Gone
  /\ pc' = [pc EXCEPT ![r] = "zadd"]
  /\ UNCHANGED <<db, board, entries, todo, change, increments, aborts>>

\* The caller fixes the order of the entries; any Chunk of them may be next.
IsChunk(S, rest) ==
  /\ S \subseteq rest
  /\ Cardinality(S) = IF Cardinality(rest) < Chunk THEN Cardinality(rest) ELSE Chunk

AddChunk(r) ==
  /\ pc[r] = "zadd"
  /\ \E S \in SUBSET todo[r] :
       /\ IsChunk(S, todo[r])
       /\ temp' = ZAdd(temp, entries[r], S)
       /\ todo' = [todo EXCEPT ![r] = @ \ S]
  /\ pc' = [pc EXCEPT ![r] = "expire"]
  /\ UNCHANGED <<db, board, entries, change, increments, aborts>>

\* Mutant: the loop over the chunks ends after the first.
ExpireTempEndsLoop(r) ==
  /\ pc[r] = "expire"
  /\ temp' = Expire(temp, "temp")
  /\ pc' = [pc EXCEPT ![r] = "swap"]
  /\ UNCHANGED <<db, board, entries, todo, change, increments, aborts>>

ExpireTemp(r) ==
  /\ pc[r] = "expire"
  /\ temp' = Expire(temp, "temp")
  /\ pc' = [pc EXCEPT ![r] = IF todo[r] = {} THEN "swap" ELSE "zadd"]
  /\ UNCHANGED <<db, board, entries, todo, change, increments, aborts>>

Return(r) ==
  /\ pc' = [pc EXCEPT ![r] = "idle"]
  /\ entries' = [entries EXCEPT ![r] = NoOne]
  /\ todo' = [todo EXCEPT ![r] = {}]

\* Mutant: RENAME without the EXPIRE, the board keeps the temp key's TTL.
SwapKeepsTempTTL(r) ==
  /\ pc[r] = "swap"
  /\ IF Exists(temp)
       THEN board' = temp /\ temp' = Gone
       ELSE UNCHANGED <<board, temp>>
  /\ Return(r)
  /\ UNCHANGED <<db, change, increments, aborts>>

\* One Lua script: RENAME temp key, EXPIRE key.  RENAME of a missing key is
\* an error, the script stops and zRebuild returns false.
Swap(r) ==
  /\ pc[r] = "swap"
  /\ IF Exists(temp)
       THEN board' = Expire(temp, "full") /\ temp' = Gone
       ELSE UNCHANGED <<board, temp>>
  /\ Return(r)
  /\ UNCHANGED <<db, change, increments, aborts>>

\* A command fails and the catch returns false, or the process dies.
Abort(r) ==
  /\ pc[r] # "idle"
  /\ aborts < MaxAborts
  /\ aborts' = aborts + 1
  /\ Return(r)
  /\ UNCHANGED <<db, board, temp, change, increments>>

-----------------------------------------------------------------------------
(* Redis drops a key whose TTL has passed.  A rebuild refreshes the temp   *)
(* key's TTL with every chunk, so only a chunk held back for a minute (the *)
(* offline queue of a lost connection) finds the key expired under it.     *)

TempExpires ==
  /\ temp.ttl = "temp"
  /\ SlowLink \/ \A r \in Rebuilders : pc[r] = "idle"
  /\ temp' = Gone
  /\ UNCHANGED <<db, board, pc, entries, todo, change, increments, aborts>>

BoardExpires ==
  /\ board.ttl # "none"
  /\ board' = Gone
  /\ UNCHANGED <<db, temp, pc, entries, todo, change, increments, aborts>>

-----------------------------------------------------------------------------
(* A writer commits to the database first, then sends one command.  Only   *)
(* increments are counted: members may join and leave, and so refresh the  *)
(* board's TTL, for ever.                                                  *)

Commit(w) ==
  /\ change[w] = NoChange
  /\ \E m \in Members :
       \/ /\ m \in DOMAIN db /\ increments < MaxIncrements
          /\ db' = With(db, m, db[m] + 1) /\ increments' = increments + 1
          /\ change' = [change EXCEPT ![w] = [op |-> "incr", member |-> m]]
       \/ /\ m \notin DOMAIN db
          /\ db' = With(db, m, 0) /\ UNCHANGED increments
          /\ change' = [change EXCEPT ![w] = [op |-> "join", member |-> m]]
       \/ /\ m \in DOMAIN db
          /\ db' = Without(db, m) /\ UNCHANGED increments
          /\ change' = [change EXCEPT ![w] = [op |-> "leave", member |-> m]]
  /\ UNCHANGED <<board, temp, pc, entries, todo, aborts>>

\* Mutant: a plain ZINCRBY, which creates a missing key.
ZIncrByUnguarded(w) ==
  /\ change[w].op = "incr"
  /\ LET m == change[w].member
     IN  board' = Holding(With(board.zset, m, Score(board.zset, m) + 1), "full")
  /\ change' = [change EXCEPT ![w] = NoChange]
  /\ UNCHANGED <<db, temp, pc, entries, todo, increments, aborts>>

\* Lua: if the key exists, ZINCRBY (which seats an absent member) and EXPIRE
ZIncrByIfExists(w) ==
  /\ change[w].op = "incr"
  /\ board' = IF Exists(board)
                THEN LET m == change[w].member
                     IN  Holding(With(board.zset, m, Score(board.zset, m) + 1), "full")
                ELSE board
  /\ change' = [change EXCEPT ![w] = NoChange]
  /\ UNCHANGED <<db, temp, pc, entries, todo, increments, aborts>>

\* Mutant: ZADD without NX overwrites the score the member already has.
ZAddOverwrites(w) ==
  /\ change[w].op = "join"
  /\ board' = IF Exists(board)
                THEN Holding(With(board.zset, change[w].member, 0), "full")
                ELSE board
  /\ change' = [change EXCEPT ![w] = NoChange]
  /\ UNCHANGED <<db, temp, pc, entries, todo, increments, aborts>>

\* Lua: if the key exists, ZADD NX with score 0 and EXPIRE
ZAddNXIfExists(w) ==
  /\ change[w].op = "join"
  /\ board' = IF Exists(board)
                THEN LET m == change[w].member
                     IN  Holding(With(board.zset, m, Score(board.zset, m)), "full")
                ELSE board
  /\ change' = [change EXCEPT ![w] = NoChange]
  /\ UNCHANGED <<db, temp, pc, entries, todo, increments, aborts>>

ZRem(w) ==
  /\ change[w].op = "leave"
  /\ board' = Holding(Without(board.zset, change[w].member), board.ttl)
  /\ change' = [change EXCEPT ![w] = NoChange]
  /\ UNCHANGED <<db, temp, pc, entries, todo, increments, aborts>>

\* The client is not connected, or the command fails: the error is swallowed.
Dropped(w) ==
  /\ change[w] # NoChange
  /\ change' = [change EXCEPT ![w] = NoChange]
  /\ UNCHANGED <<db, board, temp, pc, entries, todo, increments, aborts>>

-----------------------------------------------------------------------------
\* the commands of a rebuild under way
Carry(r) == DelTemp(r) \/ AddChunk(r) \/ ExpireTemp(r) \/ Swap(r)

Send(w) == ZIncrByIfExists(w) \/ ZAddNXIfExists(w) \/ ZRem(w) \/ Dropped(w)

Next ==
  \/ \E r \in Rebuilders : CallZRebuild(r) \/ Carry(r) \/ Abort(r)
  \/ \E w \in Writers : Commit(w) \/ Send(w)
  \/ TempExpires
  \/ BoardExpires

Spec == Init /\ [][Next]_vars

(* A writer does send its command, a rebuild runs to its end, and readers   *)
(* keep asking: a missing board is rebuilt.  (A reader whose read failed    *)
(* may rebuild a board that exists; nothing says that it does.)  Redis      *)
(* expires a board that is left alone; every guarded write and every swap   *)
(* puts the expiry off ("active boards never expire").                      *)
Quiet == \A w \in Writers : change[w] = NoChange
LeftAlone == Quiet /\ \A r \in Rebuilders : pc[r] = "idle"

CallForMissing(r) == ~Exists(board) /\ CallZRebuild(r)

Fairness ==
  /\ WF_vars(LeftAlone /\ BoardExpires)
  /\ \A r \in Rebuilders : WF_vars(CallForMissing(r)) /\ WF_vars(Carry(r))
  /\ \A w \in Writers : WF_vars(Send(w))

FairSpec == Spec /\ Fairness

-----------------------------------------------------------------------------
(* Properties *)

\* The step is the last of rebuild r.
Ends(r) == pc[r] = "swap" /\ pc'[r] = "idle"

\* Readers never meet a partial board: what a zRebuild swaps in is every
\* entry it was called with and nothing else ("readers see the old board or
\* the complete new one, never a partial state").
NeverPartial ==
  [][\A r \in Rebuilders :
       Ends(r) /\ board'.zset # board.zset => board'.zset = entries[r]]_vars

\* The guarded commands leave a missing board missing: only the swap at the
\* end of a rebuild makes a board readers can trust.
OnlySwapCreates ==
  [][~Exists(board) /\ Exists(board)' => \E r \in Rebuilders : Ends(r)]_vars

\* A join that reaches Redis late, after the member has scored, does not take
\* the score back: only a swap may lower a score readers have seen.
NoScoreRollBack ==
  [][(\E m \in DOMAIN board.zset \cap DOMAIN board'.zset : board'.zset[m] < board.zset[m])
       => \E r \in Rebuilders : Ends(r)]_vars

\* "Atomically replace a sorted set": to its readers a board is what Leaderboard
\* promises.  The rebuild that takes several commands takes effect in its last
\* one, with the standings that were committed when it was called.
Promise == INSTANCE Leaderboard WITH board <- board.zset, taken <- entries

ImplementsLeaderboard == Promise!Spec

\* Every board lives for the caller's TTL: it is never left without one (it
\* would be served for ever) nor with the temp key's short one.
BoardHasItsTTL == Exists(board) => board.ttl = "full"

\* Whatever was skipped, dropped or counted twice: once writes stop, the board
\* that readers see is again and again the committed standings.
\* (While they go on it need not: they keep a stale board from expiring.)
StaleBoardHeals == <>[]Quiet => []<>(board.zset = db)

\* The orphan guard: "if the process dies mid-build, the temp key expires on
\* its own instead of lingering forever".
OrphanExpires ==
  Exists(temp) /\ (\A r \in Rebuilders : pc[r] = "idle") => temp.ttl = "temp"
=============================================================================
