----------------------------- MODULE Leaderboard -----------------------------
(***************************************************************************)
(* What a sorted set in front of a database promises its readers (the      *)
(* comments on RedisWriteClient in infrastructure/cache/types.ts): a board *)
(* is replaced at once, by committed standings that its rebuild has read,  *)
(* and is otherwise changed by one member's standing at a time; a missing  *)
(* board is left missing by everything but a rebuild.                      *)
(***************************************************************************)
EXTENDS Naturals

CONSTANTS Members, Rebuilders

VARIABLES
  db,      \* the committed standings
  board,   \* what readers see; the empty function is the missing board
  taken    \* the standings that each rebuild under way has read

vars == <<db, board, taken>>

Nobody == [m \in {} |-> 0]

\* The ways in which one member's standing changes
Scores(z, m) == [n \in DOMAIN z \cup {m} |-> IF n \notin DOMAIN z THEN 1
                                             ELSE IF n = m THEN z[n] + 1 ELSE z[n]]
Joins(z, m)  == [n \in DOMAIN z \cup {m} |-> IF n \in DOMAIN z THEN z[n] ELSE 0]
Leaves(z, m) == [n \in DOMAIN z \ {m} |-> z[n]]

Changed(z) == UNION {{Scores(z, m), Joins(z, m), Leaves(z, m)} : m \in Members}

Init ==
  /\ db \in UNION {[S -> {0}] : S \in SUBSET Members}
  /\ board = Nobody
  /\ taken = [r \in Rebuilders |-> Nobody]

Commit == db' \in Changed(db) /\ UNCHANGED <<board, taken>>

\* A guarded command reaches a board that is there.
Command ==
  /\ board # Nobody
  /\ board' \in Changed(board)
  /\ UNCHANGED <<db, taken>>

Read(r) ==
  /\ taken[r] = Nobody /\ db # Nobody
  /\ taken' = [taken EXCEPT ![r] = db]
  /\ UNCHANGED <<db, board>>

\* A rebuild takes effect at once ...
Install(r) ==
  /\ taken[r] # Nobody
  /\ board' = taken[r]
  /\ taken' = [taken EXCEPT ![r] = Nobody]
  /\ UNCHANGED db

\* ... or has failed without any.
Fails(r) ==
  /\ taken[r] # Nobody
  /\ taken' = [taken EXCEPT ![r] = Nobody]
  /\ UNCHANGED <<db, board>>

Expires == board' = Nobody /\ UNCHANGED <<db, taken>>

Next ==
  \/ Commit \/ Command \/ Expires
  \/ \E r \in Rebuilders : Read(r) \/ Install(r) \/ Fails(r)

Spec == Init /\ [][Next]_vars
=============================================================================
