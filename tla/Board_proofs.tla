---------------------------- MODULE Board_proofs ----------------------------
(***************************************************************************)
(* What Board promises for any members, writers, chunk size and number of  *)
(* increments.  NeverPartial, and that a board is a Leaderboard, are proved   *)
(* for one rebuild at a time whose chunks arrive within the temp key's     *)
(* TTL, or whose board fits in one chunk; the run board_pair shows why two *)
(* rebuilds do not work.                                                   *)
(***************************************************************************)
EXTENDS Board, FiniteSetTheorems, TLAPS

-----------------------------------------------------------------------------
(* Lemmas about sorted sets and keys *)

LEMMA WithIs ==
  ASSUME NEW z, IsStandings(z), NEW m \in Members, NEW s \in Nat
  PROVE  /\ IsStandings(With(z, m, s))
         /\ DOMAIN With(z, m, s) = DOMAIN z \cup {m}
         /\ \A n \in DOMAIN z : With(z, m, s)[n] = IF n = m THEN s ELSE z[n]
BY DEF IsStandings, With

LEMMA WithoutIs ==
  ASSUME NEW z, IsStandings(z), NEW m
  PROVE  /\ IsStandings(Without(z, m))
         /\ DOMAIN Without(z, m) = DOMAIN z \ {m}
         /\ \A n \in DOMAIN z \ {m} : Without(z, m)[n] = z[n]
BY DEF IsStandings, Without

LEMMA ScoreIs ==
  ASSUME NEW z, IsStandings(z), NEW m
  PROVE  Score(z, m) \in Nat
BY DEF IsStandings, Score

LEMMA GoneIs == IsKey(Gone) /\ ~Exists(Gone) /\ Gone.zset = NoOne /\ Gone.ttl = "none"
BY DEF IsKey, IsStandings, Gone, NoOne, Exists

LEMMA HoldingIs ==
  ASSUME NEW z, IsStandings(z), NEW ttl \in {"none", "temp", "full"}
  PROVE  /\ IsKey(Holding(z, ttl))
         /\ Exists(Holding(z, ttl)) <=> DOMAIN z # {}
         /\ Exists(Holding(z, ttl)) => Holding(z, ttl) = [zset |-> z, ttl |-> ttl]
         /\ DOMAIN Holding(z, ttl).zset = DOMAIN z
         /\ \A m \in DOMAIN z : Holding(z, ttl).zset[m] = z[m]
<1>1. CASE DOMAIN z = {}
  BY <1>1, GoneIs DEF Holding, NoOne
<1>2. CASE DOMAIN z # {}
  BY <1>2 DEF Holding, IsKey, Exists
<1> QED BY <1>1, <1>2

LEMMA ExpireIs ==
  ASSUME NEW key, IsKey(key), NEW ttl \in {"temp", "full"}
  PROVE  /\ IsKey(Expire(key, ttl))
         /\ Expire(key, ttl).zset = key.zset
         /\ Exists(key) => Exists(Expire(key, ttl)) /\ Expire(key, ttl).ttl = ttl
<1>1. CASE ~Exists(key)
  BY <1>1 DEF Expire
<1>2. CASE Exists(key)
  <2>1. Expire(key, ttl) = [zset |-> key.zset, ttl |-> ttl]
    BY <1>2 DEF Expire, IsKey
  <2> QED BY <1>2, <2>1 DEF IsKey, Exists
<1> QED BY <1>1, <1>2

LEMMA ZAddIs ==
  ASSUME NEW key, IsKey(key), NEW z, IsStandings(z), NEW S \in SUBSET DOMAIN z
  PROVE  /\ IsKey(ZAdd(key, z, S))
         /\ DOMAIN ZAdd(key, z, S).zset = DOMAIN key.zset \cup S
         /\ \A m \in DOMAIN key.zset \cup S :
              ZAdd(key, z, S).zset[m] = IF m \in S THEN z[m] ELSE key.zset[m]
<1> DEFINE sum == [m \in DOMAIN key.zset \cup S |-> IF m \in S THEN z[m] ELSE key.zset[m]]
<1>1. ZAdd(key, z, S) = [zset |-> sum, ttl |-> key.ttl]
  BY DEF ZAdd, IsKey
<1>2. IsStandings(sum)
  BY DEF IsStandings, IsKey
<1>3. CASE DOMAIN sum = {}
  <2>1. key = Gone /\ sum = NoOne
    BY <1>3 DEF IsKey, Exists, NoOne
  <2> QED BY <1>1, <2>1, GoneIs DEF Gone
<1>4. CASE DOMAIN sum # {}
  BY <1>1, <1>2, <1>4 DEF IsKey, Exists
<1>5. IsKey(ZAdd(key, z, S))
  BY <1>3, <1>4
<1> QED BY <1>1, <1>5

-----------------------------------------------------------------------------
(* Types *)

\* What is left of a rebuild was in it.
TodoKnown == \A r \in Rebuilders : todo[r] \subseteq DOMAIN entries[r]

\* TypeOK without the sorted sets
TypeRest ==
  /\ pc \in [Rebuilders -> {"idle", "del", "zadd", "expire", "swap"}]
  /\ todo \in [Rebuilders -> SUBSET Members]
  /\ change \in [Writers -> Changes]
  /\ increments \in 0..MaxIncrements
  /\ aborts \in 0..MaxAborts

Standings ==
  /\ IsStandings(db)
  /\ DOMAIN entries = Rebuilders /\ \A r \in Rebuilders : IsStandings(entries[r])
  /\ TodoKnown

Keys == IsKey(board) /\ IsKey(temp)

TypeInv == TypeRest /\ Standings /\ Keys

LEMMA TypeInvIs == TypeInv <=> TypeOK /\ TodoKnown
BY DEF TypeInv, TypeRest, Standings, Keys, TypeOK

LEMMA TypeInit == Init => TypeInv
<1> SUFFICES ASSUME Init PROVE TypeInv
  OBVIOUS
<1>1. IsStandings(db) /\ IsStandings(NoOne)
  BY DEF Init, IsStandings, NoOne
<1>2. TypeRest
  BY BoundsAssumption DEF Init, TypeRest, Changes
<1>3. Standings
  BY <1>1 DEF Init, Standings, TodoKnown
<1> QED BY <1>2, <1>3, GoneIs DEF Init, TypeInv, Keys

LEMMA ChangeIs ==
  ASSUME TypeRest, NEW w \in Writers, change[w] # NoChange
  PROVE  change[w].member \in Members
<1>1. change[w] \in Changes
  BY DEF TypeRest
<1> QED BY <1>1 DEF Changes

LEMMA SendRest ==
  ASSUME TypeRest, NEW w \in Writers, change' = [change EXCEPT ![w] = NoChange],
         UNCHANGED <<pc, todo, increments, aborts>>
  PROVE  TypeRest'
BY DEF TypeRest, Changes

\* The commands of writers keep the board a key.
LEMMA SendKeys ==
  ASSUME TypeInv, NEW w \in Writers, Send(w)
  PROVE  TypeInv'
<1>1. /\ change' = [change EXCEPT ![w] = NoChange]
      /\ UNCHANGED <<db, temp, pc, entries, todo, increments, aborts>>
      /\ change[w] # NoChange
  BY DEF Send, ZIncrByIfExists, ZAddNXIfExists, ZRem, Dropped, NoChange
<1>2. TypeRest' /\ Standings'
  BY <1>1, SendRest DEF TypeInv, Standings, TodoKnown
<1>3. /\ change[w].member \in Members
      /\ IsStandings(board.zset) /\ board.ttl \in {"none", "temp", "full"}
  BY <1>1, ChangeIs DEF TypeInv, Keys, IsKey
<1>4. IsKey(board')
  <2> DEFINE m == change[w].member
  <2>1. Score(board.zset, m) \in Nat
    BY <1>3, ScoreIs
  <2>2. CASE ZIncrByIfExists(w)
    <3>1. IsStandings(With(board.zset, m, Score(board.zset, m) + 1))
      <4>1. Score(board.zset, m) + 1 \in Nat
        BY <2>1
      <4> QED BY <1>3, <4>1, WithIs
    <3>2. IsKey(Holding(With(board.zset, m, Score(board.zset, m) + 1), "full"))
      BY <3>1, HoldingIs
    <3> QED BY <2>2, <3>2 DEF ZIncrByIfExists, TypeInv, Keys
  <2>3. CASE ZAddNXIfExists(w)
    <3>1. IsStandings(With(board.zset, m, Score(board.zset, m)))
      BY <1>3, <2>1, WithIs
    <3>2. IsKey(Holding(With(board.zset, m, Score(board.zset, m)), "full"))
      BY <3>1, HoldingIs
    <3> QED BY <2>3, <3>2 DEF ZAddNXIfExists, TypeInv, Keys
  <2>4. CASE ZRem(w)
    BY <1>3, <2>4, WithoutIs, HoldingIs DEF ZRem
  <2>5. CASE Dropped(w)
    BY <2>5 DEF Dropped, TypeInv, Keys
  <2> QED BY <2>2, <2>3, <2>4, <2>5 DEF Send
<1> QED BY <1>1, <1>2, <1>4 DEF TypeInv, Keys

\* A commit keeps the standings a function to scores.
LEMMA CommitType ==
  ASSUME TypeInv, NEW w \in Writers, Commit(w)
  PROVE  TypeInv'
<1>1. IsStandings(db')
  <2>1. PICK m \in Members :
           \/ m \in DOMAIN db /\ db' = With(db, m, db[m] + 1)
           \/ db' = With(db, m, 0)
           \/ db' = Without(db, m)
    BY DEF Commit
  <2>2. IsStandings(db) /\ (m \in DOMAIN db => db[m] + 1 \in Nat)
    BY DEF TypeInv, Standings, IsStandings
  <2>3. CASE m \in DOMAIN db /\ db' = With(db, m, db[m] + 1)
    BY <2>2, <2>3, WithIs
  <2>4. CASE db' = With(db, m, 0)
    BY <2>2, <2>4, WithIs
  <2>5. CASE db' = Without(db, m)
    BY <2>2, <2>5, WithoutIs
  <2> QED BY <2>1, <2>3, <2>4, <2>5
<1>2. change' \in [Writers -> Changes]
  BY DEF Commit, TypeInv, TypeRest, Changes
<1>3. increments' \in 0..MaxIncrements
  <2>1. /\ increments \in 0..MaxIncrements
        /\ \/ increments < MaxIncrements /\ increments' = increments + 1
           \/ increments' = increments
    BY DEF Commit, TypeInv, TypeRest
  <2> QED BY <2>1, BoundsAssumption
<1> QED
  BY <1>1, <1>2, <1>3 DEF Commit, TypeInv, TypeRest, Standings, TodoKnown, Keys

\* A rebuild returns, or fails.
LEMMA ReturnType ==
  ASSUME TypeInv, NEW r \in Rebuilders, Return(r), Keys',
         UNCHANGED <<db, change, increments>>, aborts' \in 0..MaxAborts
  PROVE  TypeInv'
<1>1. IsStandings(NoOne)
  BY DEF IsStandings, NoOne
<1>2. Standings'
  BY <1>1 DEF Return, TypeInv, Standings, TypeRest, TodoKnown
<1> QED BY <1>2 DEF Return, TypeInv, TypeRest

LEMMA RebuildType ==
  ASSUME TypeInv, NEW r \in Rebuilders, CallZRebuild(r) \/ Carry(r) \/ Abort(r)
  PROVE  TypeInv'
<1>1. CASE CallZRebuild(r)
  BY <1>1 DEF CallZRebuild, TypeInv, TypeRest, Standings, TodoKnown, Keys, IsStandings
<1>2. CASE DelTemp(r)
  BY <1>2, GoneIs DEF DelTemp, TypeInv, TypeRest, Standings, TodoKnown, Keys
<1>3. CASE AddChunk(r)
  <2>1. PICK S \in SUBSET todo[r] :
          temp' = ZAdd(temp, entries[r], S) /\ todo' = [todo EXCEPT ![r] = @ \ S]
    BY <1>3 DEF AddChunk
  <2>2. S \in SUBSET DOMAIN entries[r]
    BY <2>1 DEF TypeInv, Standings, TodoKnown
  <2>3. IsKey(temp')
    BY <2>1, <2>2, ZAddIs DEF TypeInv, Standings, Keys
  <2> QED
    BY <1>3, <2>1, <2>3 DEF AddChunk, TypeInv, TypeRest, Standings, TodoKnown, Keys
<1>4. CASE ExpireTemp(r)
  <2>1. IsKey(temp')
    BY <1>4, ExpireIs DEF ExpireTemp, TypeInv, Keys
  <2> QED BY <1>4, <2>1 DEF ExpireTemp, TypeInv, TypeRest, Standings, TodoKnown, Keys
<1>5. CASE Swap(r)
  <2>1. Keys'
    BY <1>5, ExpireIs, GoneIs DEF Swap, TypeInv, Keys
  <2> QED BY <1>5, <2>1, ReturnType DEF Swap, TypeInv, TypeRest
<1>6. CASE Abort(r)
  <2>1. aborts' \in 0..MaxAborts
    <3>1. aborts \in 0..MaxAborts /\ aborts < MaxAborts /\ aborts' = aborts + 1
      BY <1>6 DEF Abort, TypeInv, TypeRest
    <3> QED BY <3>1, BoundsAssumption
  <2> QED BY <1>6, <2>1, ReturnType DEF Abort, TypeInv, Keys
<1> QED BY <1>1, <1>2, <1>3, <1>4, <1>5, <1>6 DEF Carry

LEMMA TypeNext == TypeInv /\ [Next]_vars => TypeInv'
<1> SUFFICES ASSUME TypeInv, [Next]_vars PROVE TypeInv'
  OBVIOUS
<1>1. CASE TempExpires \/ BoardExpires
  BY <1>1, GoneIs
  DEF TempExpires, BoardExpires, TypeInv, TypeRest, Standings, TodoKnown, Keys
<1>2. CASE UNCHANGED vars
  BY <1>2 DEF vars, TypeInv, TypeRest, Standings, TodoKnown, Keys
<1> QED BY <1>1, <1>2, RebuildType, CommitType, SendKeys DEF Next

LEMMA AlwaysTyped == Spec => []TypeInv
<1> QED BY TypeInit, TypeNext, PTL DEF Spec

-----------------------------------------------------------------------------
(* The board *)

\* What any command of a writer does to the board: it makes none, takes no
\* score back, and leaves the board with the caller's TTL or the one it had.
LEMMA SendBoard ==
  ASSUME TypeInv, NEW w \in Writers, Send(w)
  PROVE  /\ Exists(board') => Exists(board) /\ board'.ttl \in {"full", board.ttl}
         /\ \A n \in DOMAIN board.zset \cap DOMAIN board'.zset :
              board'.zset[n] >= board.zset[n]
<1> DEFINE m == change[w].member
           z == board.zset
<1>1. IsStandings(z) /\ board.ttl \in {"none", "temp", "full"}
  BY DEF TypeInv, Keys, IsKey
<1>2. \A n \in DOMAIN z : z[n] \in Nat
  BY <1>1 DEF IsStandings
<1>3. m \in Members
  BY ChangeIs DEF TypeInv, Send, ZIncrByIfExists, ZAddNXIfExists, ZRem, Dropped, NoChange
<1>4. ASSUME NEW s \in Nat, s >= Score(z, m), Exists(board),
             board' = Holding(With(z, m, s), "full")
      PROVE  /\ Exists(board') => Exists(board) /\ board'.ttl \in {"full", board.ttl}
             /\ \A n \in DOMAIN z \cap DOMAIN board'.zset : board'.zset[n] >= z[n]
  <2>1. /\ IsStandings(With(z, m, s)) /\ DOMAIN With(z, m, s) = DOMAIN z \cup {m}
        /\ \A n \in DOMAIN z : With(z, m, s)[n] = IF n = m THEN s ELSE z[n]
    <3> HIDE DEF m, z
    <3> QED BY <1>1, <1>3, <1>4, WithIs
  <2>2. board' = [zset |-> With(z, m, s), ttl |-> "full"]
    BY <1>4, <2>1 DEF Holding
  <2>3. m \in DOMAIN z => s >= z[m]
    BY <1>4 DEF Score
  <2> QED BY <1>2, <1>4, <2>1, <2>2, <2>3
<1>5. Score(z, m) \in Nat
  BY <1>1, ScoreIs
<1>6. CASE ZIncrByIfExists(w) /\ Exists(board)
  <2>1. Score(z, m) + 1 \in Nat /\ Score(z, m) + 1 >= Score(z, m)
    BY <1>5
  <2>2. board' = Holding(With(z, m, Score(z, m) + 1), "full")
    BY <1>6 DEF ZIncrByIfExists
  <2> QED BY <1>4, <1>6, <2>1, <2>2
<1>7. CASE ZAddNXIfExists(w) /\ Exists(board)
  <2>1. Score(z, m) >= Score(z, m)
    BY <1>5
  <2>2. board' = Holding(With(z, m, Score(z, m)), "full")
    BY <1>7 DEF ZAddNXIfExists
  <2> QED BY <1>4, <1>5, <1>7, <2>1, <2>2
<1>8. CASE ZRem(w)
  <2>1. board' = Holding(Without(z, m), board.ttl)
    BY <1>8 DEF ZRem
  <2>2. /\ IsStandings(Without(z, m)) /\ DOMAIN Without(z, m) = DOMAIN z \ {m}
        /\ \A n \in DOMAIN z \ {m} : Without(z, m)[n] = z[n]
    BY <1>1, WithoutIs
  <2>3. /\ Exists(board') <=> DOMAIN Without(z, m) # {}
        /\ Exists(board') => board' = [zset |-> Without(z, m), ttl |-> board.ttl]
        /\ DOMAIN board'.zset = DOMAIN Without(z, m)
        /\ \A n \in DOMAIN Without(z, m) : board'.zset[n] = Without(z, m)[n]
    BY <1>1, <2>1, <2>2, HoldingIs
  <2>4. Exists(board') => Exists(board) /\ board'.ttl = board.ttl
    BY <2>2, <2>3 DEF Exists
  <2>5. \A n \in DOMAIN z \cap DOMAIN board'.zset : board'.zset[n] >= z[n]
    BY <1>2, <2>2, <2>3
  <2> QED BY <2>4, <2>5
<1>9. CASE board' = board
  BY <1>2, <1>9
<1>10. CASE ZIncrByIfExists(w) /\ ~Exists(board)
  BY <1>9, <1>10 DEF ZIncrByIfExists
<1>11. CASE ZAddNXIfExists(w) /\ ~Exists(board)
  BY <1>9, <1>11 DEF ZAddNXIfExists
<1>12. CASE Dropped(w)
  BY <1>9, <1>12 DEF Dropped
<1> QED BY <1>6, <1>7, <1>8, <1>10, <1>11, <1>12 DEF Send

\* Nothing but a swap, a writer's command and expiry touches the board.
LEMMA OthersLeaveBoard ==
  ASSUME TypeInv, [Next]_vars
  PROVE  \/ \E r \in Rebuilders : Ends(r) /\ Swap(r)
         \/ \E w \in Writers : Send(w)
         \/ board' = board
         \/ board' = Gone
<1>1. ASSUME NEW r \in Rebuilders, Swap(r) PROVE Ends(r)
  BY <1>1 DEF Swap, Return, Ends, TypeInv, TypeRest
<1> QED
  BY <1>1
  DEF Next, Carry, CallZRebuild, DelTemp, AddChunk, ExpireTemp, Abort, Commit,
      TempExpires, BoardExpires, vars

-----------------------------------------------------------------------------
\* The sorted sets that Redis keeps stay sorted sets, never an empty one.
THEOREM TypeCorrect == Spec => []TypeOK
<1>1. TypeInv => TypeOK
  BY TypeInvIs
<1> QED BY <1>1, AlwaysTyped, PTL

\* Only the end of a rebuild makes a board, for any writers.
THEOREM SwapCreates == Spec => OnlySwapCreates
<1> DEFINE A == ~Exists(board) /\ Exists(board)' => \E r \in Rebuilders : Ends(r)
<1>1. TypeInv /\ [Next]_vars => A
  <2> SUFFICES ASSUME TypeInv, [Next]_vars, ~Exists(board), Exists(board')
               PROVE  \E r \in Rebuilders : Ends(r)
    BY DEF Exists
  <2> QED BY OthersLeaveBoard, SendBoard, GoneIs
<1>2. Spec => [][A]_vars
  BY <1>1, AlwaysTyped, PTL DEF Spec
<1> QED BY <1>2 DEF OnlySwapCreates

\* Only the end of a rebuild lowers a score that readers have seen.
THEOREM ScoresGrow == Spec => NoScoreRollBack
<1> DEFINE A == (\E m \in DOMAIN board.zset \cap DOMAIN board'.zset :
                   board'.zset[m] < board.zset[m])
                  => \E r \in Rebuilders : Ends(r)
<1>1. TypeInv /\ [Next]_vars => A
  <2> SUFFICES ASSUME TypeInv, [Next]_vars,
                      NEW m \in DOMAIN board.zset \cap DOMAIN board'.zset,
                      board'.zset[m] < board.zset[m]
               PROVE  \E r \in Rebuilders : Ends(r)
    OBVIOUS
  <2>1. board.zset[m] \in Nat
    BY DEF TypeInv, Keys, IsKey, IsStandings
  <2>2. board' # board /\ board' # Gone
    BY <2>1, GoneIs DEF NoOne
  <2>3. TypeInv'
    BY TypeNext
  <2>4. board'.zset[m] \in Nat
    BY <2>3 DEF TypeInv, Keys, IsKey, IsStandings
  <2>5. ~ \E w \in Writers : Send(w)
    BY <2>1, <2>4, SendBoard
  <2> QED BY <2>2, <2>5, OthersLeaveBoard
<1>2. Spec => [][A]_vars
  BY <1>1, AlwaysTyped, PTL DEF Spec
<1> QED BY <1>2 DEF NoScoreRollBack

\* Every board has the caller's TTL, for any interleaving of commands.
THEOREM TTLKept == Spec => []BoardHasItsTTL
<1>1. Init => BoardHasItsTTL
  BY GoneIs DEF Init, BoardHasItsTTL
<1>2. TypeInv /\ BoardHasItsTTL /\ [Next]_vars => BoardHasItsTTL'
  <2> SUFFICES ASSUME TypeInv, BoardHasItsTTL, [Next]_vars, Exists(board')
               PROVE  board'.ttl = "full"
    BY DEF BoardHasItsTTL, Exists
  <2>1. CASE \E r \in Rebuilders : Swap(r)
    <3>1. board' = board \/ (Exists(temp) /\ board' = Expire(temp, "full"))
      BY <2>1 DEF Swap
    <3> QED BY <3>1, ExpireIs DEF TypeInv, Keys, BoardHasItsTTL
  <2>2. CASE \E w \in Writers : Send(w)
    BY <2>2, SendBoard DEF BoardHasItsTTL
  <2> QED BY <2>1, <2>2, OthersLeaveBoard, GoneIs DEF BoardHasItsTTL
<1> QED BY <1>1, <1>2, AlwaysTyped, PTL DEF Spec

-----------------------------------------------------------------------------
(* A rebuild on its own *)

\* No rebuild begins before the one under way, whoever's it is, has ended.
Alone == \A p, q \in Rebuilders : pc[p] # "idle" /\ pc[q] # "idle" => p = q

\* No chunk finds the temp key expired under it: none is that late, or there
\* is but one.
OneChunk == Cardinality(Members) <= Chunk

InTime == ~SlowLink \/ OneChunk

\* The temp key holds what rebuild r has carried so far and nothing else.
Built(r) ==
  /\ DOMAIN temp.zset = DOMAIN entries[r] \ todo[r]
  /\ \A m \in DOMAIN temp.zset : temp.zset[m] = entries[r][m]

\* On a slow link the temp key may be gone when it is to be swapped in; the one
\* chunk is added to no key, and has no TTL at first.
BuiltSoFar ==
  \A r \in Rebuilders :
    /\ pc[r] = "del" => todo[r] = DOMAIN entries[r]
    /\ pc[r] = "swap" => todo[r] = {}
    /\ pc[r] \in {"zadd", "expire"} \/ (pc[r] = "swap" /\ Exists(temp)) => Built(r)
    /\ SlowLink /\ pc[r] = "zadd" => temp = Gone
    /\ SlowLink /\ pc[r] = "expire" => temp.ttl = "none" /\ todo[r] = {}

\* One chunk carries them all.
LEMMA ChunkIsAll ==
  ASSUME OneChunk, NEW rest \in SUBSET Members, NEW S, IsChunk(S, rest)
  PROVE  S = rest
<1>1. IsFiniteSet(rest) /\ Cardinality(rest) \in Nat /\ Cardinality(rest) <= Cardinality(Members)
  BY MembersAssumption, FS_Subset, FS_CardinalityType
<1>2. Cardinality(Members) \in Nat
  BY MembersAssumption, FS_CardinalityType
<1>3. S \subseteq rest /\ Cardinality(S) = Cardinality(rest)
  BY <1>1, <1>2, ChunkAssumption DEF OneChunk, IsChunk
<1> QED BY <1>1, <1>3, FS_Subset

LEMMA BuiltNext ==
  ASSUME InTime
  PROVE  TypeInv /\ Alone /\ Alone' /\ BuiltSoFar /\ [Next]_vars => BuiltSoFar'
<1> SUFFICES ASSUME TypeInv, Alone, Alone', BuiltSoFar, [Next]_vars PROVE BuiltSoFar'
  OBVIOUS
<1>1. ASSUME NEW r \in Rebuilders, CallZRebuild(r) PROVE BuiltSoFar'
  <2>1. /\ pc'[r] = "del" /\ todo'[r] = DOMAIN entries'[r]
        /\ \A q \in Rebuilders : q # r => pc'[q] = "idle"
    BY <1>1 DEF CallZRebuild, Alone, TypeInv, TypeRest, Standings
  <2> QED BY <2>1 DEF BuiltSoFar
<1>2. ASSUME NEW r \in Rebuilders, DelTemp(r) PROVE BuiltSoFar'
  <2>1. DOMAIN temp'.zset = {} /\ temp' = Gone
    BY <1>2, GoneIs DEF DelTemp, NoOne
  <2>2. todo[r] = DOMAIN entries[r] /\ todo' = todo /\ entries' = entries
    BY <1>2 DEF DelTemp, BuiltSoFar
  <2>3. pc'[r] = "zadd"
    BY <1>2 DEF DelTemp, TypeInv, TypeRest
  <2>4. \A q \in Rebuilders : q # r => pc'[q] = "idle"
    BY <1>2 DEF DelTemp, Alone, TypeInv, TypeRest
  <2> QED BY <2>1, <2>2, <2>3, <2>4 DEF BuiltSoFar, Built
<1>3. ASSUME NEW r \in Rebuilders, AddChunk(r) PROVE BuiltSoFar'
  <2>1. PICK S \in SUBSET todo[r] :
          /\ IsChunk(S, todo[r])
          /\ temp' = ZAdd(temp, entries[r], S) /\ todo' = [todo EXCEPT ![r] = @ \ S]
    BY <1>3 DEF AddChunk
  <2>2. S \in SUBSET DOMAIN entries[r] /\ todo[r] \subseteq DOMAIN entries[r]
    BY <2>1 DEF TypeInv, Standings, TodoKnown
  <2>3. /\ DOMAIN temp'.zset = DOMAIN temp.zset \cup S
        /\ \A m \in DOMAIN temp.zset \cup S :
             temp'.zset[m] = IF m \in S THEN entries[r][m] ELSE temp.zset[m]
    BY <2>1, <2>2, ZAddIs DEF TypeInv, Standings, Keys
  <2>4. Built(r) /\ (SlowLink => temp = Gone)
    BY <1>3 DEF AddChunk, BuiltSoFar
  <2>5. todo'[r] = todo[r] \ S /\ entries' = entries /\ pc'[r] = "expire"
    BY <1>3, <2>1 DEF AddChunk, TypeInv, TypeRest
  <2>6. Built(r)'
    BY <2>1, <2>2, <2>3, <2>4, <2>5 DEF Built
  <2>7. ASSUME SlowLink PROVE temp'.ttl = "none" /\ todo'[r] = {}
    <3>1. temp'.ttl = "none"
      BY <2>1, <2>4, <2>7 DEF ZAdd, Gone
    <3>2. S = todo[r]
      BY <2>1, <2>7, ChunkIsAll DEF InTime, TypeInv, TypeRest
    <3> QED BY <2>5, <3>1, <3>2
  <2>8. \A q \in Rebuilders : q # r => pc'[q] = "idle"
    BY <1>3 DEF AddChunk, Alone, TypeInv, TypeRest
  <2> QED BY <2>5, <2>6, <2>7, <2>8 DEF BuiltSoFar
<1>4. ASSUME NEW r \in Rebuilders, ExpireTemp(r) PROVE BuiltSoFar'
  <2>1. temp'.zset = temp.zset /\ todo' = todo /\ entries' = entries
    BY <1>4, ExpireIs DEF ExpireTemp, TypeInv, Keys
  <2>2. Built(r)'
    BY <1>4, <2>1 DEF ExpireTemp, BuiltSoFar, Built
  <2>3. pc'[r] = IF todo[r] = {} THEN "swap" ELSE "zadd"
    BY <1>4 DEF ExpireTemp, TypeInv, TypeRest
  <2>4. SlowLink => todo[r] = {}
    BY <1>4 DEF ExpireTemp, BuiltSoFar
  <2>5. \A q \in Rebuilders : q # r => pc'[q] = "idle"
    BY <1>4 DEF ExpireTemp, Alone, TypeInv, TypeRest
  <2> QED BY <2>1, <2>2, <2>3, <2>4, <2>5 DEF BuiltSoFar
<1>5. ASSUME NEW r \in Rebuilders, Swap(r) \/ Abort(r) PROVE BuiltSoFar'
  <2>1. \A q \in Rebuilders : pc'[q] = "idle"
    BY <1>5 DEF Swap, Abort, Return, Alone, TypeInv, TypeRest
  <2> QED BY <2>1 DEF BuiltSoFar
<1>6. ASSUME NEW w \in Writers, Commit(w) \/ Send(w) PROVE BuiltSoFar'
  BY <1>6
  DEF Commit, Send, ZIncrByIfExists, ZAddNXIfExists, ZRem, Dropped, BuiltSoFar, Built, Exists
<1>7. CASE TempExpires
  <2>1. /\ temp.ttl = "temp" /\ temp' = Gone /\ UNCHANGED <<pc, entries, todo>>
        /\ SlowLink \/ \A r \in Rebuilders : pc[r] = "idle"
    BY <1>7 DEF TempExpires
  <2>2. \A r \in Rebuilders : pc[r] \notin {"zadd", "expire"}
    BY <2>1, GoneIs DEF BuiltSoFar
  <2>3. ~Exists(temp')
    BY <2>1, GoneIs
  <2> QED BY <2>1, <2>2, <2>3 DEF BuiltSoFar, Exists
<1>8. CASE BoardExpires \/ UNCHANGED vars
  BY <1>8 DEF BoardExpires, vars, BuiltSoFar, Built, Exists
<1> QED BY <1>1, <1>2, <1>3, <1>4, <1>5, <1>6, <1>7, <1>8 DEF Next, Carry

\* What a swap renames is what the rebuild was called with.
LEMMA SwapInstalls ==
  ASSUME TypeInv, BuiltSoFar, NEW r \in Rebuilders, Swap(r), Exists(temp)
  PROVE  board'.zset = entries[r]
<1>1. board' = Expire(temp, "full") /\ pc[r] = "swap"
  BY DEF Swap
<1>2. board'.zset = temp.zset
  BY <1>1, ExpireIs DEF TypeInv, Keys
<1>3. /\ DOMAIN temp.zset = DOMAIN entries[r]
      /\ \A m \in DOMAIN temp.zset : temp.zset[m] = entries[r][m]
  BY <1>1 DEF BuiltSoFar, Built
<1>4. IsStandings(temp.zset) /\ IsStandings(entries[r])
  BY DEF TypeInv, Keys, IsKey, Standings
<1> QED BY <1>2, <1>3, <1>4 DEF IsStandings

LEMMA AlwaysBuilt ==
  ASSUME InTime
  PROVE  Spec /\ []Alone => []BuiltSoFar
<1>1. Init => BuiltSoFar
  BY DEF Init, BuiltSoFar
<1>2. TypeInv /\ Alone /\ Alone' /\ BuiltSoFar /\ [Next]_vars => BuiltSoFar'
  BY BuiltNext
<1> QED BY <1>1, <1>2, AlwaysTyped, PTL DEF Spec

\* While no two rebuilds overlap, each swaps in what it was called with, for any
\* members, chunk size, rebuilders, writers and rebuilds that died half way; a
\* board of one chunk needs no assumption on the link.
THEOREM SwapIsWhole ==
  ASSUME InTime
  PROVE  Spec /\ []Alone => NeverPartial
<1> DEFINE A == \A r \in Rebuilders :
                  Ends(r) /\ board'.zset # board.zset => board'.zset = entries[r]
<1>1. TypeInv /\ BuiltSoFar /\ [Next]_vars => A
  <2> SUFFICES ASSUME TypeInv, BuiltSoFar, [Next]_vars, NEW r \in Rebuilders,
                      pc[r] = "swap", pc'[r] = "idle", board'.zset # board.zset
               PROVE  board'.zset = entries[r]
    BY DEF Ends
  <2>1. pc \in [Rebuilders -> {"idle", "del", "zadd", "expire", "swap"}]
    BY DEF TypeInv, TypeRest
  <2>2. Swap(r) \/ Abort(r)
    <3>1. ASSUME NEW q \in Rebuilders, CallZRebuild(q) \/ Carry(q) PROVE Swap(r)
      <4>1. \E place : pc' = [pc EXCEPT ![q] = place]
        BY <3>1
        DEF Carry, CallZRebuild, DelTemp, AddChunk, ExpireTemp, Swap, Return
      <4>2. q = r
        BY <2>1, <4>1
      <4> QED BY <3>1, <4>2 DEF Carry, CallZRebuild, DelTemp, AddChunk, ExpireTemp
    <3>2. ASSUME NEW q \in Rebuilders, Abort(q) PROVE Abort(r)
      <4>1. q = r
        BY <2>1, <3>2 DEF Abort, Return
      <4> QED BY <3>2, <4>1
    <3>3. ASSUME pc' = pc PROVE FALSE
      BY <3>3
    <3> QED
      BY <3>1, <3>2, <3>3
      DEF Next, Commit, Send, ZIncrByIfExists, ZAddNXIfExists, ZRem, Dropped,
          TempExpires, BoardExpires, vars
  <2>3. Swap(r) /\ Exists(temp)
    BY <2>2 DEF Swap, Abort
  <2> QED BY <2>3, SwapInstalls
<1>2. Spec /\ []Alone => [][A]_vars
  BY <1>1, AlwaysBuilt, AlwaysTyped, PTL DEF Spec
<1> QED BY <1>2 DEF NeverPartial

-----------------------------------------------------------------------------
(* The refinement of Leaderboard *)

\* A rebuild has read standings exactly while it is under way.
Reading == \A r \in Rebuilders : pc[r] = "idle" <=> entries[r] = NoOne

LEMMA NobodyIs ==
  /\ Promise!Nobody = NoOne /\ DOMAIN NoOne = {}
  /\ \A z : IsStandings(z) => (DOMAIN z = {} <=> z = NoOne)
BY DEF Promise!Nobody, NoOne, IsStandings

LEMMA ReadingNext == TypeInv /\ Reading /\ [Next]_vars => Reading'
<1> SUFFICES ASSUME TypeInv, Reading, [Next]_vars PROVE Reading'
  OBVIOUS
<1>1. ASSUME NEW r \in Rebuilders, CallZRebuild(r) PROVE Reading'
  <2>1. db # NoOne
    BY <1>1, NobodyIs DEF CallZRebuild
  <2> QED BY <1>1, <2>1 DEF CallZRebuild, Reading, TypeInv, TypeRest, Standings
<1>2. ASSUME NEW r \in Rebuilders, DelTemp(r) \/ AddChunk(r) \/ ExpireTemp(r)
      PROVE  Reading'
  BY <1>2 DEF DelTemp, AddChunk, ExpireTemp, Reading, TypeInv, TypeRest
<1>3. ASSUME NEW r \in Rebuilders, Swap(r) \/ Abort(r) PROVE Reading'
  BY <1>3 DEF Swap, Abort, Return, Reading, TypeInv, TypeRest, Standings
<1>4. ASSUME NEW w \in Writers, Commit(w) \/ Send(w) PROVE Reading'
  BY <1>4 DEF Commit, Send, ZIncrByIfExists, ZAddNXIfExists, ZRem, Dropped, Reading
<1>5. CASE TempExpires \/ BoardExpires \/ UNCHANGED vars
  BY <1>5 DEF TempExpires, BoardExpires, vars, Reading
<1> QED BY <1>1, <1>2, <1>3, <1>4, <1>5 DEF Next, Carry

\* What the commands do to a sorted set is a change of one member's standing.
LEMMA ChangesAre ==
  ASSUME NEW z, IsStandings(z), NEW m \in Members
  PROVE  /\ With(z, m, Score(z, m) + 1) = Promise!Scores(z, m)
         /\ With(z, m, Score(z, m)) = Promise!Joins(z, m)
         /\ Without(z, m) = Promise!Leaves(z, m)
<1>1. With(z, m, Score(z, m) + 1) = Promise!Scores(z, m)
  BY DEF With, Score, Promise!Scores
<1>2. With(z, m, Score(z, m)) = Promise!Joins(z, m)
  BY DEF With, Score, Promise!Joins
<1>3. Without(z, m) = Promise!Leaves(z, m)
  BY DEF Without, Promise!Leaves
<1> QED BY <1>1, <1>2, <1>3

LEMMA HoldingZset ==
  ASSUME NEW z, IsStandings(z), NEW ttl \in {"none", "temp", "full"}
  PROVE  Holding(z, ttl).zset = z
<1>1. CASE DOMAIN z = {}
  BY <1>1, GoneIs, NobodyIs DEF Holding
<1>2. CASE DOMAIN z # {}
  BY <1>2 DEF Holding
<1> QED BY <1>1, <1>2

\* A commit changes one member's standing, too.
LEMMA CommitRefines ==
  ASSUME TypeInv, NEW w \in Writers, Commit(w) PROVE Promise!Commit
<1>1. IsStandings(db) /\ board' = board /\ entries' = entries
  BY DEF TypeInv, Standings, Commit
<1>2. PICK m \in Members :
        \/ m \in DOMAIN db /\ db' = With(db, m, db[m] + 1)
        \/ m \notin DOMAIN db /\ db' = With(db, m, 0)
        \/ db' = Without(db, m)
  BY DEF Commit
<1>3. db' \in {With(db, m, Score(db, m) + 1), With(db, m, Score(db, m)), Without(db, m)}
  BY <1>2 DEF Score
<1> QED BY <1>1, <1>3, ChangesAre DEF Promise!Commit, Promise!Changed

\* A command of a writer changes a board that is there, or nothing.
LEMMA SendRefines ==
  ASSUME TypeInv, NEW w \in Writers, Send(w)
  PROVE  Promise!Command \/ UNCHANGED Promise!vars
<1> DEFINE m == change[w].member
           z == board.zset
<1>1. /\ IsStandings(z) /\ board.ttl \in {"none", "temp", "full"}
      /\ Exists(board) \/ board = Gone
      /\ db' = db /\ entries' = entries
  BY DEF TypeInv, Keys, IsKey, Send, ZIncrByIfExists, ZAddNXIfExists, ZRem, Dropped
<1>2. m \in Members
  BY ChangeIs DEF TypeInv, Send, ZIncrByIfExists, ZAddNXIfExists, ZRem, Dropped, NoChange
<1>3. /\ IsStandings(With(z, m, Score(z, m) + 1)) /\ IsStandings(With(z, m, Score(z, m)))
      /\ IsStandings(Without(z, m))
  <2>1. Score(z, m) \in Nat /\ Score(z, m) + 1 \in Nat
    BY <1>1, ScoreIs
  <2> HIDE DEF m, z
  <2> QED BY <1>1, <1>2, <2>1, WithIs, WithoutIs
<1>4. CASE Exists(board) /\ ~Dropped(w)
  <2>1. board'.zset \in {With(z, m, Score(z, m) + 1), With(z, m, Score(z, m)), Without(z, m)}
    BY <1>1, <1>3, <1>4, HoldingZset DEF Send, ZIncrByIfExists, ZAddNXIfExists, ZRem
  <2>2. board'.zset \in Promise!Changed(z)
    <3> HIDE DEF m, z
    <3> QED BY <1>1, <1>2, <2>1, ChangesAre DEF Promise!Changed
  <2>3. z # Promise!Nobody
    BY <1>4, NobodyIs DEF Exists
  <2> QED BY <1>1, <2>2, <2>3 DEF Promise!Command
<1>5. CASE ~Exists(board) /\ ~Dropped(w)
  <2>1. board = Gone /\ DOMAIN Without(z, m) = {}
    BY <1>1, <1>5, GoneIs DEF NoOne, Without
  <2>2. board' = board
    BY <1>5, <2>1 DEF Send, ZIncrByIfExists, ZAddNXIfExists, ZRem, Holding
  <2> QED BY <1>1, <2>2 DEF Promise!vars
<1>6. CASE Dropped(w)
  BY <1>1, <1>6 DEF Dropped, Promise!vars
<1> QED BY <1>4, <1>5, <1>6

\* The temp key is nothing to the readers: a rebuild takes effect in its swap.
LEMMA RebuildRefines ==
  ASSUME TypeInv, BuiltSoFar, Reading, NEW r \in Rebuilders,
         CallZRebuild(r) \/ Carry(r) \/ Abort(r)
  PROVE  \/ Promise!Read(r) \/ Promise!Install(r) \/ Promise!Fails(r)
         \/ UNCHANGED Promise!vars
<1>1. CASE CallZRebuild(r)
  <2>1. entries[r] = NoOne /\ db # NoOne
    BY <1>1, NobodyIs DEF CallZRebuild, Reading
  <2> QED BY <1>1, <2>1, NobodyIs DEF CallZRebuild, Promise!Read
<1>2. CASE DelTemp(r) \/ AddChunk(r) \/ ExpireTemp(r)
  BY <1>2 DEF DelTemp, AddChunk, ExpireTemp, Promise!vars
<1>3. CASE Swap(r)
  <2>1. entries[r] # NoOne
    BY <1>3 DEF Swap, Reading
  <2>2. CASE Exists(temp)
    <3>1. board'.zset = entries[r]
      BY <1>3, <2>2, SwapInstalls
    <3> QED BY <1>3, <2>1, <3>1, NobodyIs DEF Swap, Return, Promise!Install
  <2>3. CASE ~Exists(temp)
    BY <1>3, <2>1, <2>3, NobodyIs DEF Swap, Return, Promise!Fails
  <2> QED BY <2>2, <2>3
<1>4. CASE Abort(r)
  <2>1. entries[r] # NoOne
    BY <1>4 DEF Abort, Reading
  <2> QED BY <1>4, <2>1, NobodyIs DEF Abort, Return, Promise!Fails
<1> QED BY <1>1, <1>2, <1>3, <1>4 DEF Carry

\* To its readers a board whose rebuilds do not overlap is a Leaderboard:
\* the chunks, the temp key and its TTL, the rebuilds that stop half way and
\* the commands that are lost cannot be told from steps of the promise.
THEOREM Implements ==
  ASSUME InTime
  PROVE  Spec /\ []Alone => ImplementsLeaderboard
<1>1. Init => Promise!Init
  BY NobodyIs, GoneIs DEF Init, Promise!Init
<1>2. Init => Reading
  BY DEF Init, Reading
<1>3. TypeInv /\ BuiltSoFar /\ Reading /\ [Next]_vars => [Promise!Next]_(Promise!vars)
  <2> SUFFICES ASSUME TypeInv, BuiltSoFar, Reading, [Next]_vars
               PROVE  Promise!Next \/ UNCHANGED Promise!vars
    OBVIOUS
  <2>1. CASE \E w \in Writers : Commit(w) \/ Send(w)
    BY <2>1, CommitRefines, SendRefines DEF Promise!Next
  <2>2. CASE \E r \in Rebuilders : CallZRebuild(r) \/ Carry(r) \/ Abort(r)
    BY <2>2, RebuildRefines DEF Promise!Next
  <2>3. CASE BoardExpires
    BY <2>3, GoneIs, NobodyIs DEF BoardExpires, Promise!Next, Promise!Expires
  <2>4. CASE TempExpires \/ UNCHANGED vars
    BY <2>4 DEF TempExpires, vars, Promise!vars
  <2> QED BY <2>1, <2>2, <2>3, <2>4 DEF Next
<1> QED BY <1>1, <1>2, <1>3, ReadingNext, AlwaysBuilt, AlwaysTyped, PTL
        DEF Spec, ImplementsLeaderboard, Promise!Spec
=============================================================================
