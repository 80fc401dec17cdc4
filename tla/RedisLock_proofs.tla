-------------------------- MODULE RedisLock_proofs --------------------------
(***************************************************************************)
(* RedisLock for any set of clients and any bound on their queues.  What   *)
(* depends on the lease is proved under LeaseCoversUse: the callers stop   *)
(* using the lock before its TTL ends.                                     *)
(***************************************************************************)
EXTENDS RedisLock, SequenceTheorems, TLAPS

\* An answer is that of the last command the client sent, and a client in
\* possession of the lock has sent nothing since.
NothingBehind ==
  \A p \in Clients : reply[p] # "none" \/ pc[p] = "held" => wire[p] = <<>>

\* The last command on the wire of an acquire under way is its own.
LastIsSet ==
  \A p \in Clients :
    pc[p] \in Attempts /\ wire[p] # <<>> => wire[p][Len(wire[p])] = "set"

TrustIsTrue == \A p \in Clients : Trusts(p) => owner = p

IInv == TypeOK /\ NothingBehind /\ LastIsSet /\ TrustIsTrue


-----------------------------------------------------------------------------
LEMMA TypeInit == Init => TypeOK
<1> SUFFICES ASSUME Init PROVE TypeOK
  OBVIOUS
<1>1. wire \in [Clients -> Seq({"set", "eval"})]
  BY DEF Init
<1> QED BY <1>1 DEF Init, TypeOK

\* What sending a command, and running one, does to a queue.
LEMMA SendType ==
  ASSUME TypeOK, NEW p \in Clients, NEW cmd \in {"set", "eval"}, Send(p, cmd)
  PROVE  wire' \in [Clients -> Seq({"set", "eval"})]
BY DEF TypeOK, Send

LEMMA SendLast ==
  ASSUME TypeOK, NEW p \in Clients, Send(p, "set")
  PROVE  /\ wire'[p][Len(wire'[p])] = "set"
         /\ \A q \in Clients \ {p} : wire'[q] = wire[q]
<1>1. wire[p] \in Seq({"set", "eval"}) /\ wire'[p] = Append(wire[p], "set")
  BY DEF TypeOK, Send
<1>2. \A q \in Clients \ {p} : wire'[q] = wire[q]
  BY DEF TypeOK, Send
<1> QED BY <1>1, <1>2

LEMMA RunType ==
  ASSUME TypeOK, NEW p \in Clients, NEW cmd, NEW answer \in {"yes", "no"},
         Run(p, cmd, answer), owner' \in Clients \cup {Free}
  PROVE  TypeOK'
<1>1. wire' \in [Clients -> Seq({"set", "eval"})]
  <2>1. Tail(wire[p]) \in Seq({"set", "eval"})
    BY DEF TypeOK, Run
  <2> QED BY <2>1 DEF TypeOK, Run
<1>2. reply' \in [Clients -> {"none", "yes", "no"}]
  BY DEF TypeOK, Run
<1>3. \A q \in Clients : reply'[q] # "none" => pc'[q] \in Waiting
  BY DEF TypeOK, Run
<1> QED BY <1>1, <1>2, <1>3 DEF TypeOK, Run

\* The queue is empty once its last command has run.
LEMMA RunLast ==
  ASSUME TypeOK, NEW p \in Clients, wire[p] # <<>>, Len(wire[p]) = 1
  PROVE  Tail(wire[p]) = <<>>
<1>1. wire[p] \in Seq({"set", "eval"})
  BY DEF TypeOK
<1>2. Tail(wire[p]) \in Seq({"set", "eval"}) /\ Len(Tail(wire[p])) = 0
  BY <1>1
<1> QED BY <1>2, EmptySeq

\* What stays on the wire ends as before.
LEMMA RunKeepsLast ==
  ASSUME TypeOK, LastIsSet, NEW p \in Clients, NEW cmd, NEW answer,
         Run(p, cmd, answer)
  PROVE  LastIsSet'
<1> SUFFICES ASSUME NEW q \in Clients, pc'[q] \in Attempts, wire'[q] # <<>>
             PROVE  wire'[q][Len(wire'[q])] = "set"
  BY DEF LastIsSet
<1>1. pc[q] \in Attempts
  BY DEF Run
<1>2. CASE q # p
  BY <1>1, <1>2 DEF Run, TypeOK, LastIsSet
<1>3. CASE q = p
  <2>1. wire[p] \in Seq({"set", "eval"}) /\ wire[p] # <<>> /\ wire'[p] = Tail(wire[p])
    BY DEF Run, TypeOK
  <2>2. wire[p][Len(wire[p])] = "set"
    BY <1>1, <1>3, <2>1 DEF LastIsSet
  <2> QED BY <1>3, <2>1, <2>2
<1> QED BY <1>2, <1>3

LEMMA TypeNext == TypeOK /\ [Next]_vars => TypeOK'
<1> SUFFICES ASSUME TypeOK, [Next]_vars PROVE TypeOK'
  OBVIOUS
<1> USE DEF Waiting, Attempts
<1>1. ASSUME NEW p \in Clients, CallAcquireLock(p) PROVE TypeOK'
  BY <1>1, SendType DEF CallAcquireLock, GoTo, TypeOK
<1>2. ASSUME NEW p \in Clients, Retry(p) PROVE TypeOK'
  BY <1>2, SendType DEF Retry, GoTo, TypeOK
<1>3. ASSUME NEW p \in Clients, CallReleaseLock(p) PROVE TypeOK'
  BY <1>3, SendType DEF CallReleaseLock, GoTo, TypeOK
<1>4. ASSUME NEW p \in Clients, RunSet(p) PROVE TypeOK'
  <2>1. owner' \in Clients \cup {Free}
    BY <1>4 DEF RunSet, TypeOK
  <2> QED BY <1>4, <2>1, RunType DEF RunSet
<1>5. ASSUME NEW p \in Clients, RunEval(p) PROVE TypeOK'
  <2>1. owner' \in Clients \cup {Free}
    BY <1>5 DEF RunEval, TypeOK
  <2> QED BY <1>5, <2>1, RunType DEF RunEval
<1>6. ASSUME NEW p \in Clients, Answer(p) PROVE TypeOK'
  BY <1>6 DEF Answer, GoTo, TypeOK
<1>7. ASSUME NEW p \in Clients, Timeout(p) PROVE TypeOK'
  BY <1>7 DEF Timeout, AfterFailure, GoTo, TypeOK
<1>8. ASSUME NEW p \in Clients, ConnectionLost(p) PROVE TypeOK'
  <2>1. wire' \in [Clients -> Seq({"set", "eval"})]
    BY <1>8 DEF ConnectionLost, TypeOK
  <2> QED BY <1>8, <2>1 DEF ConnectionLost, AfterFailure, GoTo, TypeOK
<1>9. ASSUME NEW p \in Clients, Crash(p) PROVE TypeOK'
  <2>1. wire' \in [Clients -> Seq({"set", "eval"})]
    BY <1>9 DEF Crash, TypeOK
  <2> QED BY <1>9, <2>1 DEF Crash, GoTo, TypeOK
<1>10. ASSUME NEW p \in Clients, Restart(p) PROVE TypeOK'
  BY <1>10 DEF Restart, GoTo, TypeOK
<1>11. CASE LockExpires
  BY <1>11 DEF LockExpires, TypeOK
<1>12. CASE UNCHANGED vars
  BY <1>12 DEF vars, TypeOK
<1> QED
  BY <1>1, <1>2, <1>3, <1>4, <1>5, <1>6, <1>7, <1>8, <1>9, <1>10, <1>11, <1>12
  DEF Next, Step

-----------------------------------------------------------------------------
LEMMA InitIInv == Init => IInv
BY TypeInit DEF Init, IInv, NothingBehind, LastIsSet, TrustIsTrue, Trusts, Attempts

LEMMA NextIInv ==
  ASSUME LeaseCoversUse
  PROVE  IInv /\ [Next]_vars => IInv'
<1> SUFFICES ASSUME IInv, [Next]_vars PROVE IInv'
  OBVIOUS
<1>0. TypeOK /\ TypeOK'
  BY TypeNext DEF IInv
<1> USE <1>0, FreeIsNoClient
    DEF IInv, NothingBehind, LastIsSet, TrustIsTrue, Trusts, Waiting, Attempts
<1>1. ASSUME NEW p \in Clients, CallAcquireLock(p) PROVE IInv'
  BY <1>1, SendLast DEF CallAcquireLock, GoTo, TypeOK
<1>2. ASSUME NEW p \in Clients, Retry(p) PROVE IInv'
  BY <1>2, SendLast DEF Retry, GoTo, TypeOK
<1>3. ASSUME NEW p \in Clients, CallReleaseLock(p) PROVE IInv'
  BY <1>3 DEF CallReleaseLock, Send, GoTo, TypeOK
<1>4. ASSUME NEW p \in Clients, RunSet(p) PROVE IInv'
  <2>1. NothingBehind'
    <3> SUFFICES ASSUME NEW q \in Clients, reply'[q] # "none" \/ pc'[q] = "held"
                 PROVE  wire'[q] = <<>>
      OBVIOUS
    <3>1. CASE q = p
      BY <1>4, <3>1, RunLast DEF RunSet, Run, TypeOK
    <3>2. CASE q # p
      BY <1>4, <3>2 DEF RunSet, Run, TypeOK
    <3> QED BY <3>1, <3>2
  <2>2. TrustIsTrue'
    BY <1>4 DEF RunSet, Run, TypeOK
  <2>3. LastIsSet'
    BY <1>4, RunKeepsLast DEF RunSet
  <2> QED BY <2>1, <2>2, <2>3
<1>5. ASSUME NEW p \in Clients, RunEval(p) PROVE IInv'
  <2>1. NothingBehind'
    <3> SUFFICES ASSUME NEW q \in Clients, reply'[q] # "none" \/ pc'[q] = "held"
                 PROVE  wire'[q] = <<>>
      OBVIOUS
    <3>1. CASE q = p
      BY <1>5, <3>1, RunLast DEF RunEval, Run, TypeOK
    <3>2. CASE q # p
      <4>1. reply'[q] = reply[q] /\ pc'[q] = pc[q] /\ wire'[q] = wire[q]
        BY <1>5, <3>2 DEF RunEval, Run, TypeOK
      <4> QED BY <4>1
    <3> QED BY <3>1, <3>2
  <2>2. TrustIsTrue'
    <3> SUFFICES ASSUME NEW q \in Clients, Trusts(q)' PROVE owner' = q
      OBVIOUS
    <3>1. CASE q = p
      <4>1. pc'[p] # "held"
        BY <1>5 DEF RunEval, Run
      <4>2. pc[p] \in Attempts /\ Len(wire[p]) = 1
        BY <1>5, <3>1, <4>1 DEF RunEval, Run, TypeOK
      <4>3. wire[p][1] = "set" /\ wire[p][1] = "eval"
        BY <1>5, <4>2 DEF RunEval, Run, TypeOK
      <4> QED BY <4>3
    <3>2. CASE q # p
      BY <1>5, <3>2 DEF RunEval, Run, TypeOK
    <3> QED BY <3>1, <3>2
  <2>3. LastIsSet'
    BY <1>5, RunKeepsLast DEF RunEval
  <2> QED BY <2>1, <2>2, <2>3
<1>6. ASSUME NEW p \in Clients, Answer(p) PROVE IInv'
  BY <1>6 DEF Answer, GoTo, TypeOK
<1>7. ASSUME NEW p \in Clients, Timeout(p) PROVE IInv'
  BY <1>7 DEF Timeout, AfterFailure, GoTo, TypeOK
<1>8. ASSUME NEW p \in Clients, ConnectionLost(p) PROVE IInv'
  BY <1>8 DEF ConnectionLost, AfterFailure, GoTo, TypeOK
<1>9. ASSUME NEW p \in Clients, Crash(p) PROVE IInv'
  BY <1>9 DEF Crash, GoTo, TypeOK
<1>10. ASSUME NEW p \in Clients, Restart(p) PROVE IInv'
  BY <1>10 DEF Restart, GoTo, TypeOK
<1>11. CASE LockExpires
  BY <1>11 DEF LockExpires, TypeOK
<1>12. CASE UNCHANGED vars
  BY <1>12 DEF vars
<1> QED
  BY <1>1, <1>2, <1>3, <1>4, <1>5, <1>6, <1>7, <1>8, <1>9, <1>10, <1>11, <1>12
  DEF Next, Step

LEMMA Inductive == ASSUME LeaseCoversUse PROVE Spec => []IInv
<1>1. Init => IInv
  BY InitIInv
<1>2. IInv /\ [Next]_vars => IInv'
  BY NextIInv
<1> QED BY <1>1, <1>2, PTL DEF Spec

-----------------------------------------------------------------------------
\* An answer only ever reaches a call that waits for one.
THEOREM TypeCorrect == Spec => []TypeOK
<1> QED BY TypeInit, TypeNext, PTL DEF Spec

\* Whatever timed-out calls left on the wire, no two clients hold the lock.
THEOREM Exclusive == ASSUME LeaseCoversUse PROVE Spec => []MutualExclusion
<1>1. IInv => MutualExclusion
  BY DEF IInv, TrustIsTrue, Trusts, MutualExclusion
<1> QED BY <1>1, Inductive, PTL

\* The compare in the release script does its work: a step that takes the lock
\* from its owner, besides expiry, runs the owner's own release.  This needs
\* no assumption on the lease.
THEOREM OwnerReleases == Spec => OnlyOwnerReleases
<1> DEFINE A == owner # Free /\ owner' # owner
                  => \/ wire' = wire
                     \/ /\ wire[owner] # <<>> /\ Head(wire[owner]) = "eval"
                        /\ wire' = [wire EXCEPT ![owner] = Tail(@)]
<1>1. TypeOK /\ [Next]_vars => A \/ UNCHANGED vars
  <2> SUFFICES ASSUME TypeOK, Next, owner # Free, owner' # owner PROVE A
    BY DEF vars
  <2>1. ASSUME NEW p \in Clients, Step(p) PROVE A
    BY <2>1 DEF Step, CallAcquireLock, Retry, CallReleaseLock, RunSet, RunEval, Run,
                Answer, Timeout, ConnectionLost, Crash, Restart
  <2>2. CASE LockExpires
    BY <2>2 DEF LockExpires
  <2> QED BY <2>1, <2>2 DEF Next
<1>2. Spec => [][A]_vars
  BY <1>1, TypeCorrect, PTL DEF Spec
<1> QED BY <1>2 DEF OnlyOwnerReleases

-----------------------------------------------------------------------------
\* Every step of the lock is a step of the lease, or none: Redis grants when it
\* runs a SET, the client uses the lock when the answer reaches it.
LEMMA StepRefines ==
  ASSUME LeaseCoversUse, IInv, [Next]_vars
  PROVE  [Promise!Next]_(Promise!vars)
<1> USE FreeIsNoClient DEF IInv, Users, Promise!vars
<1>1. ASSUME NEW p \in Clients, UNCHANGED owner,
             pc' = [pc EXCEPT ![p] = pc'[p]], pc'[p] # "held"
      PROVE  [Promise!Next]_(Promise!vars)
  <2>1. Users' = Users \ {p}
    BY <1>1 DEF TypeOK
  <2>2. CASE p \in Users
    BY <1>1, <2>1, <2>2 DEF Promise!Next, Promise!StopUsing
  <2>3. CASE p \notin Users
    BY <1>1, <2>1, <2>3
  <2> QED BY <2>2, <2>3
<1>2. ASSUME NEW p \in Clients, CallAcquireLock(p) \/ Retry(p) \/ CallReleaseLock(p)
                                \/ Timeout(p) \/ Crash(p) \/ Restart(p)
      PROVE  [Promise!Next]_(Promise!vars)
  BY <1>1, <1>2 DEF CallAcquireLock, Retry, CallReleaseLock, Timeout, Crash, Restart,
                    AfterFailure, GoTo, TypeOK
<1>3. ASSUME NEW p \in Clients, ConnectionLost(p) PROVE [Promise!Next]_(Promise!vars)
  <2>1. CASE pc[p] \in Waiting
    BY <1>1, <1>3, <2>1 DEF ConnectionLost, AfterFailure, GoTo, TypeOK
  <2>2. CASE pc[p] \notin Waiting
    BY <1>3, <2>2 DEF ConnectionLost
  <2> QED BY <2>1, <2>2
<1>4. ASSUME NEW p \in Clients, RunSet(p) PROVE [Promise!Next]_(Promise!vars)
  <2>1. Users' = Users
    BY <1>4 DEF RunSet, Run
  <2> QED BY <1>4, <2>1 DEF RunSet, Promise!Next, Promise!Grant
<1>5. ASSUME NEW p \in Clients, RunEval(p) PROVE [Promise!Next]_(Promise!vars)
  <2>1. Users' = Users /\ p \notin Users
    BY <1>5 DEF RunEval, Run, NothingBehind
  <2> QED BY <1>5, <2>1 DEF RunEval, Promise!Next, Promise!TakeBack
<1>6. ASSUME NEW p \in Clients, Answer(p) PROVE [Promise!Next]_(Promise!vars)
  <2>1. CASE pc[p] \in Attempts /\ reply[p] = "yes"
    <3>1. owner = p /\ owner' = owner
      BY <1>6, <2>1 DEF Answer, TrustIsTrue, Trusts
    <3>2. Users' = Users \cup {p}
      BY <1>6, <2>1 DEF Answer, GoTo, TypeOK
    <3> QED BY <3>1, <3>2 DEF Promise!Next, Promise!Use
  <2>2. CASE ~(pc[p] \in Attempts /\ reply[p] = "yes")
    BY <1>1, <1>6, <2>2 DEF Answer, GoTo, TypeOK
  <2> QED BY <2>1, <2>2
<1>7. CASE LockExpires
  <2>1. Users' = Users /\ owner \notin Users
    BY <1>7 DEF LockExpires, Trusts
  <2> QED BY <1>7, <2>1 DEF LockExpires, Promise!Next, Promise!TakeBack
<1>8. CASE UNCHANGED vars
  BY <1>8 DEF vars
<1> QED
  BY <1>2, <1>3, <1>4, <1>5, <1>6, <1>7, <1>8 DEF Next, Step

\* acquireLock and releaseLock keep the promise of a lease, for any number of
\* clients: the refinement that the run checks on two.
THEOREM Refines == ASSUME LeaseCoversUse PROVE Spec => ImplementsLease
<1>1. Init => Promise!Init
  BY DEF Init, Promise!Init, Users
<1>2. IInv /\ [Next]_vars => [Promise!Next]_(Promise!vars)
  BY StepRefines
<1> QED BY <1>1, <1>2, Inductive, PTL DEF Spec, ImplementsLease, Promise!Spec
=============================================================================
