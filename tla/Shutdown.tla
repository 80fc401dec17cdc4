------------------------------ MODULE Shutdown ------------------------------
(***************************************************************************)
(* setupGracefulShutdown of lib/shutdown.ts, for any list of disposables,  *)
(* and the requests that are in flight when it starts.  Each await may     *)
(* resolve, reject or never settle; signals and uncaught errors may come   *)
(* at any time, during a shutdown too.                                     *)
(***************************************************************************)
EXTENDS Integers, Sequences

CONSTANTS
  NDisposables,   \* disposables.length
  MaxRequests,    \* bound: requests in flight
  MaxReasons      \* bound: signals and uncaught errors

ASSUME DisposablesAssumption == NDisposables \in Nat
ASSUME BoundsAssumption == MaxRequests \in Nat /\ MaxReasons \in Nat

Disposables == 1..NDisposables

VARIABLES
  shuttingDown,
  calls,       \* the runs of shutdown() that got past the guard: the exit code
               \* each was given, and the disposable it awaits (0: app.stop())
  begun,       \* how often each disposable's dispose() was called
  accepting,   \* the server accepts requests
  requests,    \* requests in flight
  reasons,     \* signals and uncaught errors so far, in order, as exit codes
  exited       \* the code the process exited with, or Running

vars == <<shuttingDown, calls, begun, accepting, requests, reasons, exited>>

Running == 2   \* no shutdown exits with this code

Call == [code : {0, 1}, at : 0..NDisposables]

TypeOK ==
  /\ shuttingDown \in BOOLEAN /\ accepting \in BOOLEAN
  /\ calls \in Seq(Call)
  /\ begun \in [Disposables -> Nat]
  /\ requests \in 0..MaxRequests
  /\ reasons \in Seq({0, 1})
  /\ exited \in {0, 1, Running}

Init ==
  /\ shuttingDown = FALSE
  /\ calls = <<>>
  /\ begun = [i \in Disposables |-> 0]
  /\ accepting = TRUE
  /\ requests = 0
  /\ reasons = <<>>
  /\ exited = Running

Calls == DOMAIN calls

-----------------------------------------------------------------------------
RequestArrives ==
  /\ exited = Running /\ accepting /\ requests < MaxRequests
  /\ requests' = requests + 1
  /\ UNCHANGED <<shuttingDown, calls, begun, accepting, reasons, exited>>

RequestEnds ==
  /\ exited = Running /\ requests > 0
  /\ requests' = requests - 1
  /\ UNCHANGED <<shuttingDown, calls, begun, accepting, reasons, exited>>

\* Mutant: every signal starts a shutdown of its own.
ShutdownAgain(code) ==
  /\ exited = Running /\ Len(reasons) < MaxReasons
  /\ reasons' = Append(reasons, code)
  /\ shuttingDown' = TRUE
  /\ calls' = Append(calls, [code |-> code, at |-> 0])
  /\ accepting' = FALSE
  /\ UNCHANGED <<begun, requests, exited>>

\* shutdown(reason, exitCode) up to its first await: code 0 for SIGTERM and
\* SIGINT, 1 for uncaughtException and unhandledRejection.  app.stop() stops
\* accepting at once.
shutdown(code) ==
  /\ exited = Running /\ Len(reasons) < MaxReasons
  /\ reasons' = Append(reasons, code)
  /\ IF shuttingDown
       THEN UNCHANGED <<shuttingDown, calls, accepting>>
       ELSE /\ shuttingDown' = TRUE
            /\ calls' = Append(calls, [code |-> code, at |-> 0])
            /\ accepting' = FALSE
  /\ UNCHANGED <<begun, requests, exited>>

\* The loop goes on to disposable i, or past the last one: process.exit(code).
GoOn(k, i) ==
  IF i \in Disposables
    THEN /\ calls' = [calls EXCEPT ![k].at = i]
         /\ begun' = [begun EXCEPT ![i] = @ + 1]
         /\ UNCHANGED exited
    ELSE /\ exited' = calls[k].code
         /\ UNCHANGED <<calls, begun>>

\* Mutant: app.stop() is not awaited.
StopNotAwaited(k) ==
  /\ exited = Running /\ calls[k].at = 0
  /\ GoOn(k, 1)
  /\ UNCHANGED <<shuttingDown, accepting, requests, reasons>>

\* app.stop() resolves once the requests in flight have drained.
StopResolves(k) ==
  /\ exited = Running /\ calls[k].at = 0
  /\ requests = 0
  /\ GoOn(k, 1)
  /\ UNCHANGED <<shuttingDown, accepting, requests, reasons>>

\* app.stop() rejects: the outer catch exits 1 with nothing disposed.
StopRejects(k) ==
  /\ exited = Running /\ calls[k].at = 0
  /\ exited' = 1
  /\ UNCHANGED <<shuttingDown, calls, begun, accepting, requests, reasons>>

\* Mutant: a dispose() that throws leaves the loop.
DisposeSettlesOrLeaves(k) ==
  /\ exited = Running /\ calls[k].at # 0
  /\ \/ GoOn(k, calls[k].at + 1)
     \/ exited' = calls[k].code /\ UNCHANGED <<calls, begun>>
  /\ UNCHANGED <<shuttingDown, accepting, requests, reasons>>

\* dispose() resolves, or rejects and its error is logged: either way the
\* loop goes on.
DisposeSettles(k) ==
  /\ exited = Running /\ calls[k].at # 0
  /\ GoOn(k, calls[k].at + 1)
  /\ UNCHANGED <<shuttingDown, accepting, requests, reasons>>

\* Mutant: the deadline covers the drain only.
KillTimerForStopOnly(k) ==
  /\ exited = Running /\ calls[k].at = 0
  /\ exited' = 1
  /\ UNCHANGED <<shuttingDown, calls, begun, accepting, requests, reasons>>

\* The call's killTimer fires, whatever it awaits: process.exit(1).
KillTimer(k) ==
  /\ exited = Running
  /\ exited' = 1
  /\ UNCHANGED <<shuttingDown, calls, begun, accepting, requests, reasons>>

-----------------------------------------------------------------------------
Next ==
  \/ RequestArrives \/ RequestEnds
  \/ \E code \in {0, 1} : shutdown(code)
  \/ \E k \in Calls : \/ StopResolves(k) \/ StopRejects(k)
                      \/ DisposeSettles(k) \/ KillTimer(k)

Spec == Init /\ [][Next]_vars

(* The timer is the only thing that must happen: a request may run for     *)
(* ever, and a dispose() may never settle.                                 *)
Fairness == WF_vars(\E k \in Calls : KillTimer(k))

FairSpec == Spec /\ Fairness

-----------------------------------------------------------------------------
(* Properties *)

\* No request runs, and none is accepted, once a resource it may be using is
\* being closed ("stops the server (drains in-flight requests)" comes first).
ResourcesOutliveRequests ==
  (\E i \in Disposables : begun[i] > 0) => requests = 0 /\ ~accepting

\* However many signals and errors come during a shutdown, no resource is
\* closed twice, and they are closed in registration order.
DisposedOnceInOrder ==
  \A i \in Disposables :
    /\ begun[i] <= 1
    /\ \A j \in 1..(i - 1) : begun[i] <= begun[j]

\* Exit code 0 tells the orchestrator the truth: the shutdown was asked for by
\* a signal, the requests drained and every resource was closed.
ExitZeroIsGraceful ==
  exited = 0 => /\ reasons[1] = 0
                /\ requests = 0
                /\ \A i \in Disposables : begun[i] = 1

\* A shutdown ends, though cleanup hang ("force-exits 1 if cleanup exceeds
\* timeoutMs").
ShutdownEnds == shuttingDown ~> exited # Running
=============================================================================
