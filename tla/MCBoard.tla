------------------------------ MODULE MCBoard ------------------------------
(* Model values for TLC: two members make two chunks of one member each.   *)
EXTENDS Board, TLC

CONSTANTS r1, r2, w1, w2, m1, m2

OneRebuilder  == {r1}
TwoRebuilders == {r1, r2}
TwoWriters    == {w1, w2}
NoWriters     == {}
TwoMembers    == {m1, m2}
=============================================================================
