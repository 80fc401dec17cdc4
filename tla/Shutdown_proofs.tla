--------------------------- MODULE Shutdown_proofs ---------------------------
(***************************************************************************)
(* The safety properties of Shutdown, for any list of disposables and any  *)
(* number of requests, signals and errors.                                 *)
(***************************************************************************)
EXTENDS Shutdown, TLAPS

\* Before the first signal or error nothing has been closed.
Untouched ==
  calls = <<>> =>
    /\ ~shuttingDown /\ exited = Running /\ reasons = <<>>
    /\ \A i \in Disposables : begun[i] = 0

\* Exactly one run of shutdown() got past the guard, the one of the first
\* reason, and it has called dispose() on the disposables up to `at`.
OneCall ==
  calls # <<>> =>
    /\ shuttingDown /\ ~accepting
    /\ Len(calls) = 1
    /\ reasons # <<>> /\ reasons[1] = calls[1].code
    /\ calls[1].at # 0 => requests = 0
    /\ \A i \in Disposables : begun[i] = IF i <= calls[1].at THEN 1 ELSE 0

\* process.exit(0) comes after the loop only.
ZeroIsTheEnd ==
  exited = 0 => /\ calls # <<>>
                /\ calls[1].code = 0 /\ calls[1].at = NDisposables
                /\ requests = 0

IInv == TypeOK /\ Untouched /\ OneCall /\ ZeroIsTheEnd

LEMMA InitIInv == Init => IInv
<1> SUFFICES ASSUME Init PROVE IInv
  OBVIOUS
<1>1. TypeOK
  <2>1. /\ begun \in [Disposables -> Nat]
        /\ requests \in 0..MaxRequests
    BY BoundsAssumption DEF Init
  <2>2. calls \in Seq(Call) /\ reasons \in Seq({0, 1})
    BY DEF Init
  <2> QED BY <2>1, <2>2 DEF Init, TypeOK
<1>2. Untouched
  BY DEF Init, Untouched
<1>3. OneCall
  BY DEF Init, OneCall
<1>4. ZeroIsTheEnd
  BY DEF Init, ZeroIsTheEnd, Running
<1> QED BY <1>1, <1>2, <1>3, <1>4 DEF IInv

\* The one call's loop goes on, or ends.
LEMMA GoOnIInv ==
  ASSUME IInv, exited = Running, NEW k \in Calls,
         requests = 0,
         GoOn(k, calls[k].at + 1),
         UNCHANGED <<shuttingDown, accepting, requests, reasons>>
  PROVE  IInv'
<1> USE DisposablesAssumption, BoundsAssumption
<1>1. k = 1 /\ calls # <<>> /\ Len(calls) = 1 /\ DOMAIN calls = {1}
  BY DEF IInv, OneCall, TypeOK, Calls
<1>2. /\ calls[1].at \in 0..NDisposables /\ calls[1].code \in {0, 1}
  <2>1. calls[1] \in Call
    BY <1>1 DEF IInv, TypeOK
  <2> QED BY <2>1 DEF Call
<1>3. CASE calls[1].at + 1 \in Disposables
  <2> DEFINE i == calls[1].at + 1
  <2>1. /\ calls' = [calls EXCEPT ![1].at = i]
        /\ begun' = [begun EXCEPT ![i] = @ + 1]
        /\ exited' = exited
    BY <1>1, <1>3 DEF GoOn
  <2>2. /\ calls' \in Seq(Call)
        /\ Len(calls') = 1 /\ calls' # <<>>
        /\ calls'[1].at = i /\ calls'[1].code = calls[1].code
    <3>1. calls' = [calls EXCEPT ![1] = [calls[1] EXCEPT !.at = i]]
      BY <2>1
    <3>2. [calls[1] EXCEPT !.at = i] = [code |-> calls[1].code, at |-> i]
      <4>1. calls[1] \in Call
        BY <1>1 DEF IInv, TypeOK
      <4> QED BY <4>1 DEF Call
    <3>3. [code |-> calls[1].code, at |-> i] \in Call
      BY <1>2, <1>3 DEF Call, Disposables
    <3>4. calls' = [calls EXCEPT ![1] = [code |-> calls[1].code, at |-> i]]
      BY <3>1, <3>2
    <3> QED BY <1>1, <3>3, <3>4 DEF IInv, TypeOK
  <2>3. begun' \in [Disposables -> Nat]
    BY <1>3, <2>1 DEF IInv, TypeOK
  <2>4. TypeOK'
    BY <2>1, <2>2, <2>3 DEF IInv, TypeOK
  <2>5. \A j \in Disposables : begun'[j] = IF j <= i THEN 1 ELSE 0
    BY <1>1, <1>2, <1>3, <2>1 DEF IInv, TypeOK, OneCall, Disposables
  <2> QED
    BY <1>1, <2>1, <2>2, <2>4, <2>5
    DEF IInv, Untouched, OneCall, ZeroIsTheEnd, Running
<1>4. CASE calls[1].at + 1 \notin Disposables
  <2>1. calls' = calls /\ begun' = begun /\ exited' = calls[1].code
    BY <1>1, <1>4 DEF GoOn
  <2>2. calls[1].at = NDisposables
    BY <1>2, <1>4 DEF Disposables
  <2> QED
    BY <1>1, <1>2, <2>1, <2>2
    DEF IInv, TypeOK, Untouched, OneCall, ZeroIsTheEnd, Running
<1> QED BY <1>3, <1>4

LEMMA NextIInv == IInv /\ [Next]_vars => IInv'
<1> SUFFICES ASSUME IInv, [Next]_vars PROVE IInv'
  OBVIOUS
<1> USE DisposablesAssumption, BoundsAssumption
<1>1. CASE RequestArrives
  BY <1>1 DEF RequestArrives, IInv, TypeOK, Untouched, OneCall, ZeroIsTheEnd, Running
<1>2. CASE RequestEnds
  BY <1>2 DEF RequestEnds, IInv, TypeOK, Untouched, OneCall, ZeroIsTheEnd, Running
<1>3. ASSUME NEW code \in {0, 1}, shutdown(code) PROVE IInv'
  <2>1. /\ reasons' \in Seq({0, 1}) /\ reasons' # <<>>
        /\ reasons # <<>> => reasons'[1] = reasons[1]
        /\ reasons = <<>> => reasons'[1] = code
    BY <1>3 DEF shutdown, IInv, TypeOK
  <2>2. CASE shuttingDown
    BY <1>3, <2>1, <2>2
    DEF shutdown, IInv, TypeOK, Untouched, OneCall, ZeroIsTheEnd, Running
  <2>3. CASE ~shuttingDown
    <3>1. calls = <<>>
      BY <2>3 DEF IInv, OneCall
    <3>2. /\ calls' = <<[code |-> code, at |-> 0]>>
      BY <1>3, <2>3, <3>1 DEF shutdown
    <3>3. reasons = <<>>
      BY <3>1 DEF IInv, Untouched
    <3>4. [code |-> code, at |-> 0] \in Call
      BY <1>3 DEF Call
    <3>5. /\ calls' \in Seq(Call) /\ calls' # <<>> /\ Len(calls') = 1
          /\ calls'[1].at = 0 /\ calls'[1].code = code
      BY <3>2, <3>4
    <3>6. TypeOK'
      BY <1>3, <2>1, <2>3, <3>5 DEF shutdown, IInv, TypeOK
    <3>7. OneCall'
      BY <1>3, <2>1, <2>3, <3>1, <3>3, <3>5
      DEF shutdown, IInv, Untouched, OneCall, Disposables
    <3> QED
      BY <1>3, <3>1, <3>5, <3>6, <3>7
      DEF shutdown, IInv, Untouched, ZeroIsTheEnd, Running
  <2> QED BY <2>2, <2>3
<1>4. ASSUME NEW k \in Calls, StopResolves(k) PROVE IInv'
  BY <1>4, GoOnIInv DEF StopResolves
<1>5. ASSUME NEW k \in Calls, StopRejects(k) PROVE IInv'
  BY <1>5
  DEF StopRejects, Calls, IInv, TypeOK, Untouched, OneCall, ZeroIsTheEnd, Running
<1>6. ASSUME NEW k \in Calls, DisposeSettles(k) PROVE IInv'
  <2>1. requests = 0
    BY <1>6 DEF DisposeSettles, Calls, IInv, TypeOK, OneCall
  <2> QED BY <1>6, <2>1, GoOnIInv DEF DisposeSettles
<1>7. ASSUME NEW k \in Calls, KillTimer(k) PROVE IInv'
  BY <1>7
  DEF KillTimer, Calls, IInv, TypeOK, Untouched, OneCall, ZeroIsTheEnd, Running
<1>8. CASE UNCHANGED vars
  BY <1>8 DEF vars, IInv, TypeOK, Untouched, OneCall, ZeroIsTheEnd
<1> QED
  BY <1>1, <1>2, <1>3, <1>4, <1>5, <1>6, <1>7, <1>8 DEF Next

LEMMA Inductive == Spec => []IInv
<1>1. Init => IInv
  BY InitIInv
<1>2. IInv /\ [Next]_vars => IInv'
  BY NextIInv
<1> QED BY <1>1, <1>2, PTL DEF Spec

-----------------------------------------------------------------------------
\* The state has its types: no dispose() beyond the last, at most the bounded
\* number of requests (the model of lib/shutdown.ts).
THEOREM TypeCorrect == Spec => []TypeOK
<1>1. IInv => TypeOK
  BY DEF IInv
<1> QED BY <1>1, Inductive, PTL

\* No disposable is closed under a running request, for any list of them.
THEOREM RequestsFirst == Spec => []ResourcesOutliveRequests
<1>1. IInv => ResourcesOutliveRequests
  <2> SUFFICES ASSUME IInv, NEW i \in Disposables, begun[i] > 0
               PROVE  requests = 0 /\ ~accepting
    BY DEF ResourcesOutliveRequests
  <2>1. calls # <<>>
    BY DEF IInv, Untouched
  <2>2. calls[1].at # 0
    BY <2>1 DEF IInv, OneCall, Disposables
  <2> QED BY <2>1, <2>2 DEF IInv, OneCall
<1> QED BY <1>1, Inductive, PTL

\* However many signals come, each disposable is closed once and in order.
THEOREM OnceInOrder == Spec => []DisposedOnceInOrder
<1>1. IInv => DisposedOnceInOrder
  <2> SUFFICES ASSUME IInv, NEW i \in Disposables
               PROVE  /\ begun[i] <= 1
                      /\ \A j \in 1..(i - 1) : begun[i] <= begun[j]
    BY DEF DisposedOnceInOrder
  <2>1. CASE calls = <<>>
    BY <2>1, DisposablesAssumption DEF IInv, Untouched, Disposables
  <2>2. CASE calls # <<>>
    <3>1. Len(calls) = 1 /\ calls \in Seq(Call)
      BY <2>2 DEF IInv, OneCall, TypeOK
    <3>2. calls[1] \in Call
      BY <3>1
    <3>3. calls[1].at \in Int
      BY <3>2, DisposablesAssumption DEF Call
    <3> QED
      BY <2>2, <3>3, DisposablesAssumption DEF IInv, OneCall, Disposables
  <2> QED BY <2>1, <2>2
<1> QED BY <1>1, Inductive, PTL

\* Exit code 0 is only ever the end of a complete shutdown by a signal.
THEOREM ZeroIsGraceful == Spec => []ExitZeroIsGraceful
<1>1. IInv => ExitZeroIsGraceful
  BY DEF IInv, OneCall, ZeroIsTheEnd, ExitZeroIsGraceful, Disposables
<1> QED BY <1>1, Inductive, PTL
=============================================================================
