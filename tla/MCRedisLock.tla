---------------------------- MODULE MCRedisLock ----------------------------
(* Two clients, each with room for two calls' commands on its connection.  *)
EXTENDS RedisLock, TLC

CONSTANTS c1, c2

TwoClients == {c1, c2}
=============================================================================
