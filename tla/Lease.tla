-------------------------------- MODULE Lease --------------------------------
(***************************************************************************)
(* What a distributed lock with a time to live promises its clients        *)
(* (RedisWriteClient.acquireLock and releaseLock in infrastructure/cache/  *)
(* types.ts): the store grants the lock to one client at a time, a client  *)
(* that believes it has the lock does have it, and the store takes the     *)
(* lock back only from a client that does not, or no longer, use it.       *)
(***************************************************************************)
CONSTANTS Clients, Free

VARIABLES
  holder,   \* the client the store has granted the lock to, or Free
  users     \* the clients that were told they have it and still use it

vars == <<holder, users>>

Init == holder = Free /\ users = {}

\* The store grants the lock; the client need not know it yet, or ever.
Grant(p) ==
  /\ holder = Free
  /\ holder' = p
  /\ UNCHANGED users

Use(p) ==
  /\ holder = p
  /\ users' = users \cup {p}
  /\ UNCHANGED holder

StopUsing(p) ==
  /\ p \in users
  /\ users' = users \ {p}
  /\ UNCHANGED holder

\* Release by the holder, or expiry.
TakeBack ==
  /\ holder \notin users
  /\ holder' = Free
  /\ UNCHANGED users

Next ==
  \/ \E p \in Clients : Grant(p) \/ Use(p) \/ StopUsing(p)
  \/ TakeBack

Spec == Init /\ [][Next]_vars

\* Nobody uses the lock but the client that holds it, so no two clients do.
OnlyHolderUses == users \subseteq {holder}
=============================================================================
