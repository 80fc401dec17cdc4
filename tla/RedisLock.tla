------------------------------ MODULE RedisLock ------------------------------
(***************************************************************************)
(* acquireLock and releaseLock of infrastructure/cache/redis-client.ts.    *)
(* A client sends its commands over one connection, in order; while the    *)
(* connection is down they wait in the offline queue, and a command whose  *)
(* caller has timed out is not withdrawn: it still reaches Redis.          *)
(* Each client uses a lock value of its own.                               *)
(***************************************************************************)
EXTENDS Integers, Sequences

CONSTANTS
  Clients,          \* one lock value each
  Free,             \* the key does not exist
  MaxWire,          \* bound: a client starts no call that could put more
                    \* commands than this on its connection
  LeaseCoversUse    \* TRUE: clients stop using the lock before its TTL ends

ASSUME FreeIsNoClient == Free \notin Clients
ASSUME MaxWireAssumption == MaxWire \in Nat
ASSUME LeaseAssumption == LeaseCoversUse \in BOOLEAN

VARIABLES
  owner,   \* the value of the lock key, or Free
  pc,      \* where each client is
  wire,    \* the commands each client has sent and Redis has not run
  reply    \* the answer on its way to each client, or "none"

vars == <<owner, pc, wire, reply>>

-----------------------------------------------------------------------------
\* The calls that wait for a command: the two attempts and the release.
Attempts == {"first", "second"}
Waiting  == Attempts \cup {"release"}

TypeOK ==
  /\ owner \in Clients \cup {Free}
  /\ pc \in [Clients -> Waiting \cup {"idle", "pause", "held", "down"}]
  /\ wire \in [Clients -> Seq({"set", "eval"})]
  /\ reply \in [Clients -> {"none", "yes", "no"}]
  /\ \A p \in Clients : reply[p] # "none" => pc[p] \in Waiting

Init ==
  /\ owner = Free
  /\ pc = [p \in Clients |-> "idle"]
  /\ wire = [p \in Clients |-> <<>>]
  /\ reply = [p \in Clients |-> "none"]

GoTo(p, place) == pc' = [pc EXCEPT ![p] = place]

Send(p, cmd) == wire' = [wire EXCEPT ![p] = Append(@, cmd)]

-----------------------------------------------------------------------------
(* Calls *)

\* SET key value NX EX ttl, raced with COMMAND_TIMEOUT
CallAcquireLock(p) ==
  /\ pc[p] = "idle"
  /\ Len(wire[p]) + 2 <= MaxWire
  /\ Send(p, "set")
  /\ GoTo(p, "first")
  /\ UNCHANGED <<owner, reply>>

\* "First attempt failed": two seconds later the command is sent once more.
Retry(p) ==
  /\ pc[p] = "pause"
  /\ Send(p, "set")
  /\ GoTo(p, "second")
  /\ UNCHANGED <<owner, reply>>

\* EVAL of the compare-and-delete script, raced with COMMAND_TIMEOUT
CallReleaseLock(p) ==
  /\ pc[p] = "held"
  /\ Send(p, "eval")
  /\ GoTo(p, "release")
  /\ UNCHANGED <<owner, reply>>

-----------------------------------------------------------------------------
(* Redis *)

\* The first command of the connection runs.  Its caller still waits for it
\* when it is the last one the client has sent.
Run(p, cmd, answer) ==
  /\ wire[p] # <<>> /\ Head(wire[p]) = cmd
  /\ wire' = [wire EXCEPT ![p] = Tail(@)]
  /\ reply' = IF Len(wire[p]) = 1 /\ pc[p] \in Waiting
                THEN [reply EXCEPT ![p] = answer]
                ELSE reply
  /\ UNCHANGED pc

\* Mutant: SET without NX.
RunSetOverwrites(p) ==
  /\ Run(p, "set", "yes")
  /\ owner' = p

RunSet(p) ==
  /\ Run(p, "set", IF owner = Free THEN "yes" ELSE "no")
  /\ owner' = IF owner = Free THEN p ELSE owner

\* Mutant: DEL without the compare.
RunEvalUnguarded(p) ==
  /\ Run(p, "eval", IF owner = Free THEN "no" ELSE "yes")
  /\ owner' = Free

RunEval(p) ==
  /\ Run(p, "eval", IF owner = p THEN "yes" ELSE "no")
  /\ owner' = IF owner = p THEN Free ELSE owner

\* p was told that it has the lock, or is about to be.
Trusts(p) == pc[p] = "held" \/ (pc[p] \in Attempts /\ reply[p] = "yes")

\* The TTL ends.
LockExpires ==
  /\ owner # Free
  /\ LeaseCoversUse => ~Trusts(owner)
  /\ owner' = Free
  /\ UNCHANGED <<pc, wire, reply>>

-----------------------------------------------------------------------------
(* The call's promise settles *)

\* Mutant: a SET that the key's existence refused counts as acquired.
AnswerIgnoresNil(p) ==
  /\ reply[p] # "none"
  /\ GoTo(p, IF pc[p] \in Attempts THEN "held" ELSE "idle")
  /\ reply' = [reply EXCEPT ![p] = "none"]
  /\ UNCHANGED <<owner, wire>>

\* The answer wins the race: acquireLock returns r === "OK", releaseLock
\* returns to a caller that no longer uses the lock either way.
Answer(p) ==
  /\ reply[p] # "none"
  /\ GoTo(p, IF pc[p] \in Attempts /\ reply[p] = "yes" THEN "held" ELSE "idle")
  /\ reply' = [reply EXCEPT ![p] = "none"]
  /\ UNCHANGED <<owner, wire>>

\* An acquire retries once; its second failure, and a release's, is "false".
AfterFailure(place) == IF place = "first" THEN "pause" ELSE "idle"

\* Mutant: only releaseLock races its command with a timer.
TimeoutOfReleaseOnly(p) ==
  /\ pc[p] = "release"
  /\ GoTo(p, "idle")
  /\ reply' = [reply EXCEPT ![p] = "none"]
  /\ UNCHANGED <<owner, wire>>

\* The timer wins the race; the command stays on its way to Redis.
Timeout(p) ==
  /\ pc[p] \in Waiting
  /\ GoTo(p, AfterFailure(pc[p]))
  /\ reply' = [reply EXCEPT ![p] = "none"]
  /\ UNCHANGED <<owner, wire>>

\* Mutant: an answer from the lost connection still reaches the client.
ConnectionLostKeepsAnswer(p) ==
  /\ pc[p] # "down"
  /\ wire[p] # <<>> \/ reply[p] # "none"
  /\ IF pc[p] \in Waiting THEN GoTo(p, AfterFailure(pc[p])) ELSE UNCHANGED pc
  /\ wire' = [wire EXCEPT ![p] = <<>>]
  /\ UNCHANGED <<owner, reply>>

\* The connection is lost: commands and answers on their way are gone, and
\* the promise a caller waits for is rejected.
ConnectionLost(p) ==
  /\ pc[p] # "down"
  /\ wire[p] # <<>> \/ reply[p] # "none"
  /\ IF pc[p] \in Waiting THEN GoTo(p, AfterFailure(pc[p])) ELSE UNCHANGED pc
  /\ wire' = [wire EXCEPT ![p] = <<>>]
  /\ reply' = [reply EXCEPT ![p] = "none"]
  /\ UNCHANGED owner

\* The process dies; what it sent and Redis has not run is gone with it.
Crash(p) ==
  /\ pc[p] # "down"
  /\ GoTo(p, "down")
  /\ wire' = [wire EXCEPT ![p] = <<>>]
  /\ reply' = [reply EXCEPT ![p] = "none"]
  /\ UNCHANGED owner

Restart(p) ==
  /\ pc[p] = "down"
  /\ GoTo(p, "idle")
  /\ UNCHANGED <<owner, wire, reply>>

-----------------------------------------------------------------------------
Step(p) ==
  \/ CallAcquireLock(p) \/ Retry(p) \/ CallReleaseLock(p)
  \/ RunSet(p) \/ RunEval(p)
  \/ Answer(p) \/ Timeout(p)
  \/ ConnectionLost(p) \/ Crash(p) \/ Restart(p)

Next == (\E p \in Clients : Step(p)) \/ LockExpires

Spec == Init /\ [][Next]_vars

(* Only the timers of the process are fair: Redis may never answer.        *)
Fairness ==
  \A p \in Clients : WF_vars(Timeout(p)) /\ WF_vars(Retry(p))

FairSpec == Spec /\ Fairness

-----------------------------------------------------------------------------
(* Properties *)

\* The lock does what a lease promises: the refinement of Lease.
Users == {p \in Clients : pc[p] = "held"}

Promise == INSTANCE Lease WITH holder <- owner, users <- Users

ImplementsLease == Promise!Spec

\* No two clients hold the lock, whatever their earlier calls left behind on
\* the wire; the client that holds it is the one whose value Redis has.
MutualExclusion == \A p \in Clients : pc[p] = "held" => owner = p

\* "only the lock owner may release": besides expiry, a lock is taken away
\* only by a release that its own owner sent, never by one that another
\* client sent, in time or late.
OnlyOwnerReleases ==
  [][owner # Free /\ owner' # owner
       => \/ wire' = wire
          \/ /\ wire[owner] # <<>> /\ Head(wire[owner]) = "eval"
             /\ wire' = [wire EXCEPT ![owner] = Tail(@)]]_vars

\* A call returns even if Redis never answers: two attempts at most, each
\* with its timer.
CallsReturn ==
  \A p \in Clients : pc[p] \in Waiting ~> pc[p] \in {"idle", "held", "down"}

\* acquireLock "returns true if the lock was acquired": a call whose retry
\* Redis answers, and which returns false for that answer, has not left its
\* caller the owner.
FalseMeansNotAcquired ==
  [][\A p \in Clients :
       Answer(p) /\ pc[p] = "second" /\ pc'[p] = "idle" => owner' # p]_vars
=============================================================================
