-------------------------- MODULE VpxThreadProofs --------------------------
(***************************************************************************)
(* The threads.  The safety of the worker object, for every set of job     *)
(* data and any number of launches, and that it implements AsyncTask.  The *)
(* workers that encode a frame, for frames of any shape in any sequence    *)
(* and any number of threads.                                              *)
(***************************************************************************)
EXTENDS VpxWorker, Vp9EncMt, FiniteSetTheorems, WellFoundedInduction, TLAPS

-----------------------------------------------------------------------------
(* The worker object.                                                      *)

\* A newly initialised worker satisfies the inductive invariant.
LEMMA InitIndInv == Init => IndInv
<1> SUFFICES ASSUME Init PROVE IndInv
  OBVIOUS
<1> USE DEF Init, Status, Threads, NOT_OK, OK, WORKING
<1>1. TypeOK
  BY WorkerAssumption DEF TypeOK
<1>2. Locking /\ WaitsFor /\ Lifetime /\ Ownership
  BY DEF Locking, WaitsFor, Lifetime, Ownership
<1>3. RunsOncePerLaunch /\ FailureKept
  BY DEF RunsOncePerLaunch, FailureKept, Outstanding
<1> QED
  BY <1>1, <1>2, <1>3 DEF IndInv

\* Every step of the client preserves it.
LEMMA MainIndInv == IndInv /\ Main => IndInv'
<1> SUFFICES ASSUME IndInv, Main PROVE IndInv'
  OBVIOUS
<1> USE WorkerAssumption DEF IndInv, TypeOK, Locking, WaitsFor, Lifetime,
      Ownership, RunsOncePerLaunch, FailureKept, Outstanding, Status, Threads,
      NOT_OK, OK, WORKING, mainVars, workerVars
<1>1. ASSUME NEW d \in Data \cup {NoHook}, SetWork(d) PROVE IndInv'
  <2>1. TypeOK'
    BY <1>1 DEF SetWork
  <2>2. Locking'
    BY <1>1 DEF SetWork
  <2>3. WaitsFor'
    BY <1>1 DEF SetWork
  <2>4. Lifetime'
    BY <1>1 DEF SetWork
  <2>5. Ownership'
    BY <1>1 DEF SetWork
  <2>6. RunsOncePerLaunch'
    BY <1>1 DEF SetWork
  <2>7. FailureKept'
    BY <1>1 DEF SetWork
  <2> QED
    BY <2>1, <2>2, <2>3, <2>4, <2>5, <2>6, <2>7
<1>2. ASSUME NEW ok \in BOOLEAN, ExecuteInline(ok) PROVE IndInv'
  <2>1. TypeOK'
    BY <1>2 DEF ExecuteInline
  <2>2. Locking'
    BY <1>2 DEF ExecuteInline
  <2>3. WaitsFor'
    BY <1>2 DEF ExecuteInline
  <2>4. Lifetime'
    BY <1>2 DEF ExecuteInline
  <2>5. Ownership'
    BY <1>2 DEF ExecuteInline
  <2>6. RunsOncePerLaunch'
    BY <1>2 DEF ExecuteInline
  <2>7. FailureKept'
    BY <1>2 DEF ExecuteInline
  <2> QED
    BY <2>1, <2>2, <2>3, <2>4, <2>5, <2>6, <2>7
<1>3. ASSUME NEW o \in {"sync", "launch", "end"}, Call(o) PROVE IndInv'
  <2>1. TypeOK'
    BY <1>3 DEF Call
  <2>2. Locking'
    BY <1>3 DEF Call
  <2>3. WaitsFor'
    BY <1>3 DEF Call
  <2>4. Lifetime'
    BY <1>3 DEF Call
  <2>5. Ownership'
    BY <1>3 DEF Call
  <2>6. RunsOncePerLaunch'
    BY <1>3 DEF Call
  <2>7. FailureKept'
    BY <1>3 DEF Call
  <2> QED
    BY <2>1, <2>2, <2>3, <2>4, <2>5, <2>6, <2>7
<1>4. CASE ResetFails
  <2>1. TypeOK'
    BY <1>4 DEF ResetFails
  <2>2. Locking'
    BY <1>4 DEF ResetFails
  <2>3. WaitsFor'
    BY <1>4 DEF ResetFails
  <2>4. Lifetime'
    BY <1>4 DEF ResetFails
  <2>5. Ownership'
    BY <1>4 DEF ResetFails
  <2>6. RunsOncePerLaunch'
    BY <1>4 DEF ResetFails
  <2>7. FailureKept'
    BY <1>4 DEF ResetFails
  <2> QED
    BY <2>1, <2>2, <2>3, <2>4, <2>5, <2>6, <2>7
<1>5. CASE ResetCreates
  <2>1. TypeOK'
    BY <1>5 DEF ResetCreates
  <2>2. Locking'
    BY <1>5 DEF ResetCreates
  <2>3. WaitsFor'
    BY <1>5 DEF ResetCreates
  <2>4. Lifetime'
    BY <1>5 DEF ResetCreates
  <2>5. Ownership'
    BY <1>5 DEF ResetCreates
  <2>6. RunsOncePerLaunch'
    BY <1>5 DEF ResetCreates
  <2>7. FailureKept'
    BY <1>5 DEF ResetCreates
  <2> QED
    BY <2>1, <2>2, <2>3, <2>4, <2>5, <2>6, <2>7
<1>6. CASE ResetUnlocks
  <2>1. TypeOK'
    BY <1>6 DEF ResetUnlocks
  <2>2. Locking'
    BY <1>6 DEF ResetUnlocks
  <2>3. WaitsFor'
    BY <1>6 DEF ResetUnlocks
  <2>4. Lifetime'
    BY <1>6 DEF ResetUnlocks
  <2>5. Ownership'
    BY <1>6 DEF ResetUnlocks
  <2>6. RunsOncePerLaunch'
    BY <1>6 DEF ResetUnlocks
  <2>7. FailureKept'
    BY <1>6 DEF ResetUnlocks
  <2> QED
    BY <2>1, <2>2, <2>3, <2>4, <2>5, <2>6, <2>7
<1>7. CASE ResetRunning
  <2>1. TypeOK'
    BY <1>7 DEF ResetRunning
  <2>2. Locking'
    BY <1>7 DEF ResetRunning
  <2>3. WaitsFor'
    BY <1>7 DEF ResetRunning
  <2>4. Lifetime'
    BY <1>7 DEF ResetRunning
  <2>5. Ownership'
    BY <1>7 DEF ResetRunning
  <2>6. RunsOncePerLaunch'
    BY <1>7 DEF ResetRunning
  <2>7. FailureKept'
    BY <1>7 DEF ResetRunning
  <2> QED
    BY <2>1, <2>2, <2>3, <2>4, <2>5, <2>6, <2>7
<1>8. CASE MainLock
  <2>1. TypeOK'
    BY <1>8 DEF MainLock
  <2>2. Locking'
    BY <1>8 DEF MainLock
  <2>3. WaitsFor'
    BY <1>8 DEF MainLock
  <2>4. Lifetime'
    BY <1>8 DEF MainLock
  <2>5. Ownership'
    BY <1>8 DEF MainLock
  <2>6. RunsOncePerLaunch'
    BY <1>8 DEF MainLock
  <2>7. FailureKept'
    BY <1>8 DEF MainLock
  <2> QED
    BY <2>1, <2>2, <2>3, <2>4, <2>5, <2>6, <2>7
<1>9. CASE MainTest
  <2>1. TypeOK'
    BY <1>9 DEF MainTest
  <2>2. Locking'
    BY <1>9 DEF MainTest
  <2>3. WaitsFor'
    BY <1>9 DEF MainTest
  <2>4. Lifetime'
    BY <1>9 DEF MainTest
  <2>5. Ownership'
    BY <1>9 DEF MainTest
  <2>6. RunsOncePerLaunch'
    BY <1>9 DEF MainTest
  <2>7. FailureKept'
    BY <1>9 DEF MainTest
  <2> QED
    BY <2>1, <2>2, <2>3, <2>4, <2>5, <2>6, <2>7
<1>10. CASE MainWait
  <2>1. TypeOK'
    BY <1>10 DEF MainWait
  <2>2. Locking'
    BY <1>10 DEF MainWait
  <2>3. WaitsFor'
    BY <1>10 DEF MainWait
  <2>4. Lifetime'
    BY <1>10 DEF MainWait
  <2>5. Ownership'
    BY <1>10 DEF MainWait
  <2>6. RunsOncePerLaunch'
    BY <1>10 DEF MainWait
  <2>7. FailureKept'
    BY <1>10 DEF MainWait
  <2> QED
    BY <2>1, <2>2, <2>3, <2>4, <2>5, <2>6, <2>7
<1>11. CASE MainWake
  <2>1. TypeOK'
    BY <1>11 DEF MainWake
  <2>2. Locking'
    BY <1>11 DEF MainWake
  <2>3. WaitsFor'
    BY <1>11 DEF MainWake
  <2>4. Lifetime'
    BY <1>11 DEF MainWake
  <2>5. Ownership'
    BY <1>11 DEF MainWake
  <2>6. RunsOncePerLaunch'
    BY <1>11 DEF MainWake
  <2>7. FailureKept'
    BY <1>11 DEF MainWake
  <2> QED
    BY <2>1, <2>2, <2>3, <2>4, <2>5, <2>6, <2>7
<1>12. CASE MainAssign
  <2>1. TypeOK'
    <3>1. waiting' \subseteq Threads
      BY <1>12 DEF MainAssign, Signal
    <3>2. status' \in Status
      BY <1>12 DEF MainAssign, NewStatus
    <3>3. CASE op = "launch"
      BY <1>12, <3>1, <3>2, <3>3 DEF MainAssign
    <3>4. CASE op # "launch"
      BY <1>12, <3>1, <3>2, <3>4 DEF MainAssign
    <3> QED
      BY <3>3, <3>4
  <2>2. Locking'
    BY <1>12 DEF MainAssign, NewStatus, Signal
  <2>3. WaitsFor'
    BY <1>12 DEF MainAssign, NewStatus, Signal
  <2>4. Lifetime'
    BY <1>12 DEF MainAssign, NewStatus, Signal
  <2>5. Ownership'
    BY <1>12 DEF MainAssign, NewStatus, Signal
  <2>6. RunsOncePerLaunch'
    BY <1>12 DEF MainAssign, NewStatus, Signal
  <2>7. FailureKept'
    BY <1>12 DEF MainAssign, NewStatus, Signal
  <2> QED
    BY <2>1, <2>2, <2>3, <2>4, <2>5, <2>6, <2>7
<1>13. CASE MainReturn
  <2>1. TypeOK'
    BY <1>13 DEF MainReturn
  <2>2. Locking'
    BY <1>13 DEF MainReturn
  <2>3. WaitsFor'
    BY <1>13 DEF MainReturn
  <2>4. Lifetime'
    BY <1>13 DEF MainReturn
  <2>5. Ownership'
    BY <1>13 DEF MainReturn
  <2>6. RunsOncePerLaunch'
    BY <1>13 DEF MainReturn
  <2>7. FailureKept'
    BY <1>13 DEF MainReturn
  <2> QED
    BY <2>1, <2>2, <2>3, <2>4, <2>5, <2>6, <2>7
<1>14. CASE EndDestroys
  <2>1. TypeOK'
    BY <1>14 DEF EndDestroys
  <2>2. Locking'
    BY <1>14 DEF EndDestroys
  <2>3. WaitsFor'
    BY <1>14 DEF EndDestroys
  <2>4. Lifetime'
    BY <1>14 DEF EndDestroys
  <2>5. Ownership'
    BY <1>14 DEF EndDestroys
  <2>6. RunsOncePerLaunch'
    BY <1>14 DEF EndDestroys
  <2>7. FailureKept'
    BY <1>14 DEF EndDestroys
  <2> QED
    BY <2>1, <2>2, <2>3, <2>4, <2>5, <2>6, <2>7
<1> QED
  BY <1>1, <1>2, <1>3, <1>4, <1>5, <1>6, <1>7, <1>8, <1>9, <1>10, <1>11,
     <1>12, <1>13, <1>14 DEF Main

\* Every step of the thread preserves it.
LEMMA WorkerIndInv == IndInv /\ Worker => IndInv'
<1> SUFFICES ASSUME IndInv, Worker PROVE IndInv'
  OBVIOUS
<1> USE WorkerAssumption DEF IndInv, TypeOK, Locking, WaitsFor, Lifetime,
      Ownership, RunsOncePerLaunch, FailureKept, Outstanding, Status, Threads,
      NOT_OK, OK, WORKING, mainVars, workerVars
<1>1. CASE WorkerLock
  <2>1. TypeOK'
    BY <1>1 DEF WorkerLock
  <2>2. Locking'
    BY <1>1 DEF WorkerLock
  <2>3. WaitsFor'
    BY <1>1 DEF WorkerLock
  <2>4. Lifetime'
    BY <1>1 DEF WorkerLock
  <2>5. Ownership'
    BY <1>1 DEF WorkerLock
  <2>6. RunsOncePerLaunch'
    BY <1>1 DEF WorkerLock
  <2>7. FailureKept'
    BY <1>1 DEF WorkerLock
  <2> QED
    BY <2>1, <2>2, <2>3, <2>4, <2>5, <2>6, <2>7
<1>2. CASE WorkerWait
  <2>1. TypeOK'
    BY <1>2 DEF WorkerWait
  <2>2. Locking'
    BY <1>2 DEF WorkerWait
  <2>3. WaitsFor'
    BY <1>2 DEF WorkerWait
  <2>4. Lifetime'
    BY <1>2 DEF WorkerWait
  <2>5. Ownership'
    BY <1>2 DEF WorkerWait
  <2>6. RunsOncePerLaunch'
    BY <1>2 DEF WorkerWait
  <2>7. FailureKept'
    BY <1>2 DEF WorkerWait
  <2> QED
    BY <2>1, <2>2, <2>3, <2>4, <2>5, <2>6, <2>7
<1>3. CASE WorkerWake
  <2>1. TypeOK'
    BY <1>3 DEF WorkerWake
  <2>2. Locking'
    BY <1>3 DEF WorkerWake
  <2>3. WaitsFor'
    BY <1>3 DEF WorkerWake
  <2>4. Lifetime'
    BY <1>3 DEF WorkerWake
  <2>5. Ownership'
    BY <1>3 DEF WorkerWake
  <2>6. RunsOncePerLaunch'
    BY <1>3 DEF WorkerWake
  <2>7. FailureKept'
    BY <1>3 DEF WorkerWake
  <2> QED
    BY <2>1, <2>2, <2>3, <2>4, <2>5, <2>6, <2>7
<1>4. CASE WorkerTakes
  <2>1. TypeOK'
    BY <1>4 DEF WorkerTakes
  <2>2. Locking'
    BY <1>4 DEF WorkerTakes
  <2>3. WaitsFor'
    BY <1>4 DEF WorkerTakes
  <2>4. Lifetime'
    BY <1>4 DEF WorkerTakes
  <2>5. Ownership'
    BY <1>4 DEF WorkerTakes
  <2>6. RunsOncePerLaunch'
    BY <1>4 DEF WorkerTakes
  <2>7. FailureKept'
    BY <1>4 DEF WorkerTakes
  <2> QED
    BY <2>1, <2>2, <2>3, <2>4, <2>5, <2>6, <2>7
<1>5. CASE WorkerExecute
  <2>1. TypeOK'
    BY <1>5 DEF WorkerExecute
  <2>2. Locking'
    BY <1>5 DEF WorkerExecute
  <2>3. WaitsFor'
    BY <1>5 DEF WorkerExecute
  <2>4. Lifetime'
    BY <1>5 DEF WorkerExecute
  <2>5. Ownership'
    BY <1>5 DEF WorkerExecute
  <2>6. RunsOncePerLaunch'
    BY <1>5 DEF WorkerExecute
  <2>7. FailureKept'
    BY <1>5 DEF WorkerExecute
  <2> QED
    BY <2>1, <2>2, <2>3, <2>4, <2>5, <2>6, <2>7
<1>6. ASSUME NEW ok \in BOOLEAN, HookReturns(ok) PROVE IndInv'
  <2>1. TypeOK'
    BY <1>6 DEF HookReturns
  <2>2. Locking'
    BY <1>6 DEF HookReturns
  <2>3. WaitsFor'
    BY <1>6 DEF HookReturns
  <2>4. Lifetime'
    BY <1>6 DEF HookReturns
  <2>5. Ownership'
    BY <1>6 DEF HookReturns
  <2>6. RunsOncePerLaunch'
    BY <1>6 DEF HookReturns
  <2>7. FailureKept'
    BY <1>6 DEF HookReturns
  <2> QED
    BY <2>1, <2>2, <2>3, <2>4, <2>5, <2>6, <2>7
<1>7. CASE WorkerDone
  <2>1. TypeOK'
    BY <1>7 DEF WorkerDone, Signal
  <2>2. Locking'
    BY <1>7 DEF WorkerDone, Signal
  <2>3. WaitsFor'
    BY <1>7 DEF WorkerDone, Signal
  <2>4. Lifetime'
    BY <1>7 DEF WorkerDone, Signal
  <2>5. Ownership'
    BY <1>7 DEF WorkerDone, Signal
  <2>6. RunsOncePerLaunch'
    BY <1>7 DEF WorkerDone, Signal
  <2>7. FailureKept'
    BY <1>7 DEF WorkerDone, Signal
  <2> QED
    BY <2>1, <2>2, <2>3, <2>4, <2>5, <2>6, <2>7
<1>8. CASE WorkerExits
  <2>1. TypeOK'
    BY <1>8 DEF WorkerExits
  <2>2. Locking'
    BY <1>8 DEF WorkerExits
  <2>3. WaitsFor'
    BY <1>8 DEF WorkerExits
  <2>4. Lifetime'
    BY <1>8 DEF WorkerExits
  <2>5. Ownership'
    BY <1>8 DEF WorkerExits
  <2>6. RunsOncePerLaunch'
    BY <1>8 DEF WorkerExits
  <2>7. FailureKept'
    BY <1>8 DEF WorkerExits
  <2> QED
    BY <2>1, <2>2, <2>3, <2>4, <2>5, <2>6, <2>7
<1> QED
  BY <1>1, <1>2, <1>3, <1>4, <1>5, <1>6, <1>7, <1>8 DEF Worker

\* A spurious wakeup, and a step that changes nothing, preserve it.
LEMMA OtherIndInv ==
  /\ \A t \in Threads : IndInv /\ SpuriousWakeup(t) => IndInv'
  /\ IndInv /\ UNCHANGED vars => IndInv'
<1> USE WorkerAssumption DEF IndInv, TypeOK, Locking, WaitsFor, Lifetime,
      Ownership, RunsOncePerLaunch, FailureKept, Outstanding, Status, Threads,
      NOT_OK, OK, WORKING, mainVars, workerVars
<1>1. ASSUME NEW t \in Threads, IndInv, SpuriousWakeup(t) PROVE IndInv'
  <2>1. TypeOK'
    BY <1>1 DEF SpuriousWakeup
  <2>2. Locking'
    BY <1>1 DEF SpuriousWakeup
  <2>3. WaitsFor'
    BY <1>1 DEF SpuriousWakeup
  <2>4. Lifetime'
    BY <1>1 DEF SpuriousWakeup
  <2>5. Ownership'
    BY <1>1 DEF SpuriousWakeup
  <2>6. RunsOncePerLaunch'
    BY <1>1 DEF SpuriousWakeup
  <2>7. FailureKept'
    BY <1>1 DEF SpuriousWakeup
  <2> QED
    BY <2>1, <2>2, <2>3, <2>4, <2>5, <2>6, <2>7
<1>2. ASSUME IndInv, UNCHANGED vars PROVE IndInv'
  <2>1. TypeOK'
    BY <1>2 DEF vars
  <2>2. Locking'
    BY <1>2 DEF vars
  <2>3. WaitsFor'
    BY <1>2 DEF vars
  <2>4. Lifetime'
    BY <1>2 DEF vars
  <2>5. Ownership'
    BY <1>2 DEF vars
  <2>6. RunsOncePerLaunch'
    BY <1>2 DEF vars
  <2>7. FailureKept'
    BY <1>2 DEF vars
  <2> QED
    BY <2>1, <2>2, <2>3, <2>4, <2>5, <2>6, <2>7
<1> QED
  BY <1>1, <1>2

\* The inductive invariant holds in every reachable state.
THEOREM Invariance == Spec => []IndInv
<1>1. IndInv /\ [Next]_vars => IndInv'
  BY MainIndInv, WorkerIndInv, OtherIndInv DEF Next
<1> QED
  BY InitIndInv, <1>1, PTL DEF Spec

\* The asserts of vpx_thread.c never fail.
THEOREM Asserts == Spec => []AssertsHold
<1>1. IndInv => AssertsHold
  BY DEF IndInv, TypeOK, Lifetime, Ownership, AssertsHold, Status, NOT_OK, OK,
         WORKING
<1> QED
  BY Invariance, <1>1, PTL

\* The two threads never wait on the condition variable together, whatever
\* spurious wakeups occur.
THEOREM NeverBothWaiting == Spec => []OneWaiter
<1>1. IndInv => OneWaiter
  BY DEF IndInv, WaitsFor, OneWaiter, Threads, OK, WORKING
<1> QED
  BY Invariance, <1>1, PTL

\* Between sync() and the next launch() the worker leaves the job's fields to
\* the client; a running hook sees the data it was launched with; every
\* launch runs once; no failure is lost.
THEOREM JobSafety ==
  Spec => [](/\ QuietAfterSync /\ HookSeesItsData /\ RunsOncePerLaunch
             /\ FailureKept)
<1>1. IndInv => /\ QuietAfterSync /\ HookSeesItsData /\ RunsOncePerLaunch
                /\ FailureKept
  BY DEF IndInv, TypeOK, Locking, WaitsFor, Lifetime, Ownership,
         QuietAfterSync, HookSeesItsData, Status, Threads,
         NOT_OK, OK, WORKING
<1> QED
  BY Invariance, <1>1, PTL

\* When end() destroys the mutex and the condition variable, the thread has
\* exited, and neither of the two is held or waited on.
THEOREM DestroyedUnused == Spec => []SafeDestroy
<1>1. IndInv => SafeDestroy
  BY DEF IndInv, TypeOK, Locking, WaitsFor, Lifetime, SafeDestroy, Status,
         Threads, NOT_OK, OK, WORKING
<1> QED
  BY Invariance, <1>1, PTL

-----------------------------------------------------------------------------
(* Every step of the two threads is a step of the abstract task or changes *)
(* nothing of it.                                                          *)

\* The steps of the client, each a step of the task or a stutter.
LEMMA MainRefines == IndInv /\ Main => [Task!Next]_(Task!tvars)
<1> SUFFICES ASSUME IndInv, Main PROVE [Task!Next]_(Task!tvars)
  OBVIOUS
<1> USE DEF IndInv, TypeOK, Lifetime, Ownership, Status, NOT_OK, OK, WORKING,
      mainVars, workerVars, phase, Task!tvars
<1>1. ASSUME NEW d \in Data \cup {NoHook}, SetWork(d) PROVE Task!Configure
  BY <1>1 DEF SetWork, Task!Configure, Task!AtRest
<1>2. ASSUME NEW ok \in BOOLEAN, ExecuteInline(ok) PROVE Task!Configure
  BY <1>2 DEF ExecuteInline, Task!Configure, Task!AtRest
<1>3. ASSUME NEW o \in {"sync", "launch", "end"}, Call(o)
      PROVE UNCHANGED Task!tvars
  BY <1>3 DEF Call
<1>4. CASE ResetFails
  BY <1>4 DEF ResetFails, Task!Next, Task!Clear
<1>5. CASE ResetCreates
  BY <1>5 DEF ResetCreates, Task!Next, Task!Clear
<1>6. CASE ResetUnlocks
  BY <1>6 DEF ResetUnlocks, Task!Next, Task!Start
<1>7. CASE ResetRunning
  BY <1>7 DEF ResetRunning, Task!Next, Task!Clear
<1>8. CASE MainLock \/ MainTest \/ MainWait \/ MainWake
  BY <1>8 DEF MainLock, MainTest, MainWait, MainWake
<1>9. CASE MainAssign
  BY <1>9 DEF MainAssign, NewStatus, Task!Next, Task!Submit, Task!Stop
<1>10. CASE MainReturn
  BY <1>10 DEF MainReturn, Task!Next, Task!Sync, Task!AtRest
<1>11. CASE EndDestroys
  BY <1>11 DEF EndDestroys, Task!Next, Task!Sync, Task!AtRest
<1> QED
  BY <1>1, <1>2, <1>3, <1>4, <1>5, <1>6, <1>7, <1>8, <1>9, <1>10, <1>11
     DEF Main, Task!Next

\* The steps of the thread.
LEMMA WorkerRefines == IndInv /\ Worker => [Task!Next]_(Task!tvars)
<1> SUFFICES ASSUME IndInv, Worker PROVE [Task!Next]_(Task!tvars)
  OBVIOUS
<1> USE DEF IndInv, TypeOK, Lifetime, Ownership, Status, NOT_OK, OK, WORKING,
      mainVars, workerVars, phase, Task!tvars
<1>1. CASE WorkerLock \/ WorkerWait \/ WorkerWake \/ WorkerTakes
  BY <1>1 DEF WorkerLock, WorkerWait, WorkerWake, WorkerTakes
<1>2. CASE WorkerExecute
  BY <1>2 DEF WorkerExecute, Task!Next, Task!Run, Task!Skip
<1>3. ASSUME NEW ok \in BOOLEAN, HookReturns(ok) PROVE Task!Finish
  BY <1>3 DEF HookReturns, Task!Finish
<1>4. CASE WorkerDone
  BY <1>4 DEF WorkerDone
<1>5. CASE WorkerExits
  BY <1>5 DEF WorkerExits
<1> QED
  BY <1>1, <1>2, <1>3, <1>4, <1>5 DEF Worker, Task!Next

\* The worker object implements the asynchronous task its header describes
\* (its safety; TLC checks the fairness part).
THEOREM Refinement == Spec => Task!Safety
<1>1. Init => Task!Init
  BY DEF Init, Task!Init, phase, NOT_OK, OK, WORKING
<1>2. IndInv /\ [Next]_vars => [Task!Next]_(Task!tvars)
  <2> SUFFICES ASSUME IndInv, [Next]_vars PROVE [Task!Next]_(Task!tvars)
    OBVIOUS
  <2>1. ASSUME NEW t \in Threads, SpuriousWakeup(t) PROVE UNCHANGED Task!tvars
    BY <2>1 DEF SpuriousWakeup, mainVars, workerVars, phase, Task!tvars
  <2>2. CASE UNCHANGED vars
    BY <2>2 DEF vars, phase, Task!tvars
  <2> QED
    BY <2>1, <2>2, MainRefines, WorkerRefines DEF Next
<1> QED
  BY Invariance, <1>1, <1>2, PTL DEF Spec, Task!Safety

-----------------------------------------------------------------------------
(* The encoder's workers.                                                  *)

\* Tile columns are asked for, in which case set_encoder_config() takes one tile
\* row, or there is one column: only frames wider than a tile may be have tile
\* columns that nobody asked for.
ColumnsAsked ==
  \A s \in Streams : s.tileColumns \/ \A f \in s.shapes : f.tileCols = 1

FrameCols == 0 .. frame.tileCols - 1
FrameRows == 0 .. frame.sbRows - 1

\* The states of a worker that has a row.
Busy == {"read", "asleep", "encode", "write", "filter"}

Counts == [Cols -> [Rows -> Int]]

EncTypeOK ==
  /\ stream \in Streams /\ frame \in stream.shapes
  /\ numWorkers \in Nat /\ tiles \in Nat
  /\ mode \in {"none", "rows", "arnr", "tiles"}
  /\ curCol \in Counts /\ encoded \in Counts
  /\ jobs \in [Cols -> Nat] /\ tileRow \in [Rows -> Nat]
  /\ pc \in [Workers -> Busy \cup {"idle", "tile", "get", "status"}]
  /\ tile \in [Workers -> Nat] /\ row \in [Workers -> Nat] /\ col \in [Workers -> Nat]
  /\ finished \in [Workers -> SUBSET Nat] /\ scan \in [Workers -> Nat]
  /\ most \in [Workers -> [tile : Int, jobs : Int]]

\* The memory for the row jobs is that of an earlier frame of the stream.
AllocatedFor(f) ==
  /\ alloc = [cols |-> f.tileCols, rows |-> f.tileRows, vert |-> f.sbRows]
  /\ sync = [i \in Tiles |-> IF i < NumTiles(f) THEN i % f.tileCols ELSE None]
  /\ vertSbs = [r \in Rows |-> IF r < f.tileRows THEN VertUnits(f, r) ELSE 0]

MemoryOK == alloc = NoMemory \/ \E f \in stream.shapes : AllocatedFor(f)

\* A row is synchronised with the rows of its own tile column.
OwnSync ==
  mode = "rows" =>
    \A c \in FrameCols, r \in FrameRows :
      sync[tileRow[r] * frame.tileCols + c] = c

\* Nothing is left of an earlier job.
CleanSlate ==
  \A t \in Workers :
    /\ pc[t] \notin Busy \ {"filter"} => col[t] = 0
    /\ pc[t] # "status" => scan[t] = 0 /\ most[t] = NoJobs

\* What a worker has of the row it took.
Written(t) == col[t] + IF pc[t] = "write" THEN 1 ELSE 0

Taken(t) ==
  pc[t] \in Busy =>
    /\ tile[t] \in FrameCols /\ row[t] \in FrameRows /\ row[t] < jobs[tile[t]]
    /\ (pc[t] = "filter" <=> mode = "arnr")
    /\ col[t] < frame.width
    /\ encoded[tile[t]][row[t]] = Written(t)
    /\ pc[t] = "encode" => EncodedAbove(tile[t], row[t], col[t] + 1)

\* Two workers have different rows.
Apart ==
  \A t, u \in Workers :
    t # u /\ {pc[t], pc[u]} \subseteq Busy => tile[t] # tile[u] \/ row[t] # row[u]

Has(t, c, r) == pc[t] \in Busy /\ tile[t] = c /\ row[t] = r

\* A row that was not taken is untouched, one that was is finished or in work,
\* and what cur_col says was encoded.
RowsOK ==
  \A c \in FrameCols, r \in FrameRows :
    /\ r >= jobs[c] => encoded[c][r] = 0
    /\ r < jobs[c] => encoded[c][r] = frame.width \/ \E t \in Workers : Has(t, c, r)
    /\ mode = "rows" =>
         encoded[c][r] = frame.width \/ curCol[c][r] < encoded[c][r]

\* No job of column c is left.
Emptied(c) == jobs[c] = frame.sbRows

\* A worker only passes over columns without jobs, and ends when all are.
Searching(t) ==
  /\ pc[t] \in {"idle"} \cup {"get", "status"} \cup Busy
  /\ pc[t] = "get" => tile[t] \in FrameCols
  /\ \A c \in finished[t] \cap FrameCols : Emptied(c)
  /\ pc[t] = "status" =>
       /\ most[t].tile = None =>
            most[t].jobs = 0 /\ \A c \in FrameCols : c < scan[t] => Emptied(c)
       /\ most[t].tile # None => most[t].tile \in FrameCols
  /\ pc[t] = "idle" /\ t < numWorkers => \A c \in FrameCols : Emptied(c)

JobsOK ==
  mode \in {"rows", "arnr"} =>
    /\ numWorkers > 0
    /\ \A c \in FrameCols : jobs[c] <= frame.sbRows
    /\ \A t \in Workers : Taken(t) /\ Searching(t)
    /\ Apart /\ RowsOK

\* A column of tiles is encoded or still ahead of the worker it falls to.
TilesOK ==
  mode = "tiles" =>
    /\ \A t \in Workers :
         /\ pc[t] \in {"idle", "tile"}
         /\ pc[t] = "tile" => /\ frame.tileRows = 1 /\ numWorkers > 0
                              /\ tile[t] % numWorkers = t
    /\ \A c \in FrameCols :
         \/ \A r \in FrameRows : encoded[c][r] = frame.width
         \/ \E t \in Workers : /\ pc[t] = "tile" /\ tile[t] <= c
                               /\ c % numWorkers = t

EncInv ==
  /\ ColumnsAsked /\ EncTypeOK /\ MemoryOK /\ OwnSync /\ CleanSlate
  /\ JobsOK /\ TilesOK
  /\ mode = "none" => Idle

-----------------------------------------------------------------------------
(* Numbers.                                                                *)

\* Different multiples of n are at least n apart.
LEMMA MulGap ==
  ASSUME NEW n \in Nat \ {0}, NEW a \in Int, NEW b \in Int, a < b
  PROVE  n * a + n <= n * b
<1>1. n * (b - a - 1) >= 0
  OBVIOUS
<1>2. n * (b - a - 1) = n * b - n * a - n
  OBVIOUS
<1> QED
  BY <1>1, <1>2

\* The remainder is determined by any decomposition.
LEMMA ModUnique ==
  ASSUME NEW n \in Nat \ {0}, NEW q \in Int, NEW m \in 0 .. n - 1
  PROVE  (n * q + m) % n = m
<1> DEFINE x == n * q + m
           q1 == x \div n
           m1 == x % n
<1>1. /\ q1 \in Int /\ m1 \in 0 .. n - 1
      /\ x = n * q1 + m1
  OBVIOUS
<1>2. ~(q1 < q)
  BY <1>1, MulGap
<1>3. ~(q < q1)
  BY <1>1, MulGap
<1> QED
  BY <1>1, <1>2, <1>3

\* The numbers below n are their own remainders.
LEMMA ModSmall ==
  ASSUME NEW n \in Nat \ {0}, NEW m \in 0 .. n - 1
  PROVE  m % n = m
BY ModUnique, n * 0 + m = m

\* Division with remainder.
LEMMA DivMod ==
  ASSUME NEW n \in Nat \ {0}, NEW x \in Nat
  PROVE  \E q \in Int, m \in 0 .. n - 1 : x = n * q + m /\ x % n = m
<1> DEFINE q == x \div n
           m == x % n
<1>1. q \in Int /\ m \in 0 .. n - 1 /\ x = n * q + m
  OBVIOUS
<1> HIDE DEF q
<1> QED
  BY <1>1

\* A worker's next tile falls to it too.
LEMMA ModAdd ==
  ASSUME NEW n \in Nat \ {0}, NEW r \in Nat
  PROVE  (r + n) % n = r % n
<1>1. PICK q \in Int, m \in 0 .. n - 1 : r = n * q + m /\ r % n = m
  BY DivMod
<1>2. r + n = n * (q + 1) + m
  BY <1>1
<1>3. (n * (q + 1) + m) % n = m
  BY ModUnique
<1> QED
  BY <1>1, <1>2, <1>3

\* Between two consecutive tiles of a worker there is no other tile of its own.
LEMMA ModGap ==
  ASSUME NEW n \in Nat \ {0}, NEW r \in Nat, NEW s \in Nat,
         r < s, s < r + n
  PROVE  s % n # r % n
<1> SUFFICES ASSUME s % n = r % n PROVE FALSE
  OBVIOUS
<1>1. PICK q \in Int, m \in 0 .. n - 1 : r = n * q + m /\ r % n = m
  BY DivMod
<1>2. PICK q2 \in Int, m2 \in 0 .. n - 1 : s = n * q2 + m2 /\ s % n = m2
  BY DivMod
<1>3. m = m2
  BY <1>1, <1>2
<1>4. q = q2 \/ q < q2 \/ q2 < q
  OBVIOUS
<1> QED
  BY <1>1, <1>2, <1>3, <1>4, MulGap

\* Induction over numbers, with the numbers it holds for as a set.
LEMMA NumberInduction ==
  ASSUME NEW T \in SUBSET Nat, 0 \in T, \A n \in T : n + 1 \in T
  PROVE  T = Nat
<1> SUFFICES ASSUME Nat \ T # {} PROVE FALSE
  OBVIOUS
<1>1. IsWellFoundedOn(OpToRel(<, Nat), Nat)
  BY NatLessThanWellFounded
<1>2. Nat \ T \subseteq Nat
  OBVIOUS
<1>3. PICK n \in Nat \ T : \A m \in Nat \ T : ~(<<m, n>> \in OpToRel(<, Nat))
  BY <1>1, <1>2, WFMin
<1>4. \A m \in Nat \ T : ~(m < n)
  BY <1>3 DEF OpToRel
<1>5. n \in Nat /\ n \notin T /\ n # 0
  OBVIOUS
<1>6. n - 1 \in Nat /\ n - 1 < n /\ (n - 1) + 1 = n
  BY <1>5
<1> QED BY <1>4, <1>5, <1>6

\* The values of a function on a finite set have a maximum.
LEMMA MaxBound ==
  ASSUME NEW D, IsFiniteSet(D), NEW g \in [D -> Nat], NEW y \in D
  PROVE  LET M == Max({g[x] : x \in D}) IN M \in Nat /\ g[y] <= M
<1> DEFINE N == Cardinality(D)
<1>1. N \in Nat /\ ExistsBijection(1..N, D)
  BY FS_CardinalityType
<1>2. PICK h \in [1..N -> D] : \A x \in D : \E i \in 1..N : h[i] = x
  BY <1>1 DEF ExistsBijection, Bijection, Surjection, Injection
<1>3. N > 0
  BY <1>1, <1>2
<1> DEFINE T == {n \in Nat : n < N => \E i \in 1..(n + 1) : \A j \in 1..(n + 1) :
                                        g[h[j]] <= g[h[i]]}
<1>4. T \in SUBSET Nat
  OBVIOUS
<1> HIDE DEF N
<1>5. 0 \in T
  BY <1>1, <1>2
<1>6. \A n \in T : n + 1 \in T
  <2> SUFFICES ASSUME NEW n \in T, n + 1 < N
               PROVE  \E i \in 1..(n + 2) : \A j \in 1..(n + 2) : g[h[j]] <= g[h[i]]
    <3> SUFFICES ASSUME NEW n \in T PROVE n + 1 \in T
      OBVIOUS
    <3>1. n \in Nat /\ n + 1 \in Nat /\ (n + 1) + 1 = n + 2
      OBVIOUS
    <3>2. n + 1 < N => \E i \in 1..(n + 2) : \A j \in 1..(n + 2) : g[h[j]] <= g[h[i]]
      OBVIOUS
    <3> QED BY <3>1, <3>2
  <2>1. n \in Nat /\ n < N
    BY <1>1
  <2>2. PICK i \in 1..(n + 1) : \A j \in 1..(n + 1) : g[h[j]] <= g[h[i]]
    BY <2>1
  <2>3. \A j \in 1..(n + 2) : h[j] \in D /\ g[h[j]] \in Nat
    BY <1>1, <1>2, <2>1
  <2>4. \A j \in 1..(n + 2) : j \in 1..(n + 1) \/ j = n + 2
    BY <2>1
  <2>5. CASE g[h[n + 2]] <= g[h[i]]
    <3>1. i \in 1..(n + 2)
      BY <2>1
    <3>2. \A j \in 1..(n + 2) : g[h[j]] <= g[h[i]]
      BY <2>2, <2>4, <2>5
    <3> QED BY <3>1, <3>2
  <2>6. CASE g[h[i]] < g[h[n + 2]]
    <3>1. n + 2 \in 1..(n + 2) /\ i \in 1..(n + 2)
      BY <2>1
    <3>2. \A j \in 1..(n + 2) : g[h[j]] <= g[h[n + 2]]
      <4> SUFFICES ASSUME NEW j \in 1..(n + 2) PROVE g[h[j]] <= g[h[n + 2]]
        OBVIOUS
      <4>1. CASE j = n + 2
        BY <2>3, <3>1, <4>1
      <4>2. CASE j \in 1..(n + 1)
        <5>1. g[h[j]] <= g[h[i]]
          BY <2>2, <4>2
        <5> QED BY <2>3, <2>6, <3>1, <5>1
      <4> QED BY <2>4, <4>1, <4>2
    <3> QED BY <3>1, <3>2
  <2>7. i \in 1..(n + 2) /\ n + 2 \in 1..(n + 2)
    BY <2>1
  <2>8. g[h[i]] \in Nat /\ g[h[n + 2]] \in Nat
    BY <2>3, <2>7
  <2>9. g[h[n + 2]] <= g[h[i]] \/ g[h[i]] < g[h[n + 2]]
    BY <2>8
  <2> QED BY <2>5, <2>6, <2>9
<1>7. N - 1 \in T
  <2> HIDE DEF T
  <2>1. T = Nat
    BY <1>4, <1>5, <1>6, NumberInduction
  <2>2. N - 1 \in Nat
    BY <1>1, <1>3
  <2> QED BY <2>1, <2>2
<1>8. PICK i \in 1..N : \A j \in 1..N : g[h[j]] <= g[h[i]]
  BY <1>1, <1>3, <1>7
<1>9. h[i] \in D /\ \A x \in D : g[x] <= g[h[i]]
  BY <1>2, <1>8
<1>10. \E m \in {g[x] : x \in D} : \A k \in {g[x] : x \in D} : m >= k
  <2> WITNESS g[h[i]] \in {g[x] : x \in D}
  <2> QED BY <1>9
<1> DEFINE S == {g[x] : x \in D}
<1>11. Max(S) \in S /\ \A k \in S : Max(S) >= k
  BY <1>10 DEF Max
<1>12. \A k \in S : k \in Nat
  OBVIOUS
<1> QED BY <1>11, <1>12

\* The quotient of a number below n, and of a multiple of n.
LEMMA DivSmall ==
  ASSUME NEW n \in Nat \ {0}, NEW m \in 0 .. n - 1
  PROVE  m \div n = 0
<1> DEFINE q1 == m \div n
           m1 == m % n
<1>1. q1 \in Int /\ m1 \in 0 .. n - 1 /\ m = n * q1 + m1
  OBVIOUS
<1>2. ~(q1 < 0) /\ ~(0 < q1)
  BY <1>1, MulGap, n * 0 = 0
<1> QED
  BY <1>1, <1>2

LEMMA DivUnique ==
  ASSUME NEW n \in Nat \ {0}, NEW q \in Int
  PROVE  (n * q) \div n = q
<1> DEFINE x == n * q
           q1 == x \div n
           m1 == x % n
<1>1. q1 \in Int /\ m1 \in 0 .. n - 1 /\ x = n * q1 + m1
  OBVIOUS
<1>2. ~(q1 < q)
  BY <1>1, MulGap
<1>3. ~(q < q1)
  BY <1>1, MulGap
<1> QED
  BY <1>1, <1>2, <1>3

\* The greater and the smaller of two numbers.
LEMMA MaxOfTwo ==
  ASSUME NEW a \in Int, NEW b \in Int
  PROVE  Max({a, b}) \in {a, b} /\ Max({a, b}) >= a /\ Max({a, b}) >= b
<1>1. \E m \in {a, b} : \A k \in {a, b} : m >= k
  <2>1. a >= b \/ b >= a
    OBVIOUS
  <2> QED
    BY <2>1
<1> QED
  BY <1>1 DEF Max

LEMMA MinOfTwo ==
  ASSUME NEW a \in Int, NEW b \in Int
  PROVE  Fewer(a, b) \in {a, b} /\ Fewer(a, b) <= a /\ Fewer(a, b) <= b
<1>1. \E m \in {a, b} : \A k \in {a, b} : m <= k
  <2>1. a <= b \/ b <= a
    OBVIOUS
  <2> QED
    BY <2>1
<1> QED
  BY <1>1 DEF Min, Fewer

-----------------------------------------------------------------------------
(* The shapes of the frames.                                               *)

\* A frame has at least one tile, superblock row and superblock, and its tile
\* columns, rows and tiles are among those the model names.
LEMMA ShapeFacts ==
  ASSUME NEW f \in Shapes
  PROVE  /\ f.tileCols \in Nat \ {0} /\ f.tileRows \in Nat \ {0}
         /\ f.width \in Nat \ {0} /\ f.sbRows \in Nat \ {0}
         /\ f.sbRows >= f.tileRows
         /\ NumTiles(f) \in Nat \ {0}
         /\ 0 .. f.tileCols - 1 \subseteq Cols
         /\ 0 .. f.sbRows - 1 \subseteq Rows
         /\ 0 .. NumTiles(f) - 1 \subseteq Tiles
<1>0. \A x \in Shapes :
        /\ x.tileCols \in Nat \ {0} /\ x.tileRows \in Nat \ {0}
        /\ x.width \in Nat \ {0} /\ x.sbRows \in Nat /\ x.sbRows >= x.tileRows
  BY EncMtAssumption
<1>1. \A x \in Shapes : x.tileCols * x.tileRows \in Nat \ {0}
  <2> SUFFICES ASSUME NEW x \in Shapes PROVE x.tileCols * x.tileRows \in Nat \ {0}
    OBVIOUS
  <2>1. PICK a \in Nat \ {0} : a = x.tileCols
    BY <1>0
  <2>2. PICK b \in Nat \ {0} : b = x.tileRows
    BY <1>0
  <2>3. a * b \in Nat \ {0}
    BY MulGap, a * 0 = 0, 0 < b
  <2> QED BY <2>1, <2>2, <2>3
<1>2. IsFiniteSet(Shapes)
  BY EncMtAssumption
<1>3. 0 .. f.tileCols - 1 \subseteq Cols
  <2> DEFINE g == [x \in Shapes |-> x.tileCols]
             M == Max({x.tileCols : x \in Shapes})
  <2>1. g \in [Shapes -> Nat] /\ {g[x] : x \in Shapes} = {x.tileCols : x \in Shapes}
    BY <1>0
  <2>2. Max({g[x] : x \in Shapes}) = M
    BY <2>1
  <2> HIDE DEF M
  <2>3. M \in Nat /\ g[f] <= M
    <3> HIDE DEF g
    <3> QED BY <1>2, <2>1, <2>2, MaxBound
  <2>4. Cols = 0 .. M - 1
    BY DEF Cols, M
  <2> QED BY <1>0, <2>3, <2>4
<1>4. 0 .. f.sbRows - 1 \subseteq Rows
  <2> DEFINE g == [x \in Shapes |-> x.sbRows]
             M == Max({x.sbRows : x \in Shapes})
  <2>1. g \in [Shapes -> Nat] /\ {g[x] : x \in Shapes} = {x.sbRows : x \in Shapes}
    BY <1>0
  <2>2. Max({g[x] : x \in Shapes}) = M
    BY <2>1
  <2> HIDE DEF M
  <2>3. M \in Nat /\ g[f] <= M
    <3> HIDE DEF g
    <3> QED BY <1>2, <2>1, <2>2, MaxBound
  <2>4. Rows = 0 .. M - 1
    BY DEF Rows, M
  <2> QED BY <1>0, <2>3, <2>4
<1>5. 0 .. NumTiles(f) - 1 \subseteq Tiles
  <2> DEFINE g == [x \in Shapes |-> x.tileCols * x.tileRows]
             M == Max({x.tileCols * x.tileRows : x \in Shapes})
  <2>1. g \in [Shapes -> Nat]
        /\ {g[x] : x \in Shapes} = {x.tileCols * x.tileRows : x \in Shapes}
    BY <1>1
  <2>2. Max({g[x] : x \in Shapes}) = M
    BY <2>1
  <2>5. g[f] = NumTiles(f)
    BY DEF NumTiles
  <2> HIDE DEF M
  <2>3. M \in Nat /\ g[f] <= M
    <3> HIDE DEF g
    <3> QED BY <1>2, <2>1, <2>2, MaxBound
  <2>4. Tiles = 0 .. M - 1
    BY DEF Tiles, M
  <2>6. NumTiles(f) \in Nat
    BY <1>1 DEF NumTiles
  <2> HIDE DEF g
  <2> QED BY <2>3, <2>4, <2>5, <2>6
<1> QED
  BY <1>0, <1>1, <1>3, <1>4, <1>5 DEF NumTiles

\* Cols and Rows are intervals of numbers.
LEMMA RangeFacts ==
  ASSUME NEW f \in Shapes
  PROVE  \E M \in Nat : Rows = 0 .. M - 1
<1>0. \A x \in Shapes : x.sbRows \in Nat
  BY EncMtAssumption
<1> DEFINE g == [x \in Shapes |-> x.sbRows]
           M == Max({x.sbRows : x \in Shapes})
<1>1. g \in [Shapes -> Nat] /\ {g[x] : x \in Shapes} = {x.sbRows : x \in Shapes}
  BY <1>0
<1>2. Max({g[x] : x \in Shapes}) = M
  BY <1>1
<1> HIDE DEF M
<1>3. M \in Nat
  <2> HIDE DEF g
  <2> QED BY EncMtAssumption, <1>1, <1>2, MaxBound
<1> QED
  BY <1>3 DEF Rows, M

-----------------------------------------------------------------------------
(* The rows that vp9_prepare_job_queue() counts off.                       *)

\* e adds up, row by row, what w says.
AddsUp(w, e) ==
  e = [i \in Rows |-> (IF i = 0 THEN 0 ELSE e[i - 1]) + w[i]]

\* Such sums exist: the recursion of vp9_prepare_job_queue() is over the rows.
LEMMA SumExists ==
  ASSUME NEW f \in Shapes, NEW w \in [Rows -> Nat]
  PROVE  \E e \in [Rows -> Nat] : AddsUp(w, e)
<1>1. PICK M \in Nat : Rows = 0 .. M - 1
  BY RangeFacts
<1>2. M > 0
  BY <1>1, ShapeFacts
<1> DEFINE Good(e, n) ==
             \A i \in 0 .. n : e[i] = (IF i = 0 THEN 0 ELSE e[i - 1]) + w[i]
           T == {n \in Nat : n < M => \E e \in [0 .. n -> Nat] : Good(e, n)}
<1>3. T \in SUBSET Nat
  OBVIOUS
<1>4. 0 \in T
  <2> SUFFICES \E e \in [0 .. 0 -> Nat] : Good(e, 0)
    OBVIOUS
  <2>1. w[0] \in Nat
    BY <1>1, <1>2
  <2> DEFINE e == [i \in 0 .. 0 |-> w[0]]
  <2>2. e \in [0 .. 0 -> Nat] /\ \A i \in 0 .. 0 : i = 0 /\ e[i] = 0 + w[i]
    BY <2>1
  <2> QED BY <2>2
<1>5. \A n \in T : n + 1 \in T
  <2> SUFFICES ASSUME NEW n \in T PROVE n + 1 \in T
    OBVIOUS
  <2>1. n \in Nat /\ n + 1 \in Nat
    OBVIOUS
  <2> SUFFICES ASSUME n + 1 < M PROVE \E e \in [0 .. n + 1 -> Nat] : Good(e, n + 1)
    BY <2>1
  <2>7. n < M
    BY <1>1, <2>1
  <2>8. n < M => \E e \in [0 .. n -> Nat] : Good(e, n)
    OBVIOUS
  <2>2. PICK e \in [0 .. n -> Nat] : Good(e, n)
    BY <2>7, <2>8
  <2>3. w[n + 1] \in Nat
    BY <1>1, <2>1
  <2> DEFINE d == [i \in 0 .. n + 1 |-> IF i <= n THEN e[i] ELSE e[n] + w[n + 1]]
  <2>4. n \in 0 .. n /\ e[n] \in Nat
    BY <2>1
  <2>5. d \in [0 .. n + 1 -> Nat]
    BY <2>1, <2>3, <2>4
  <2>6. ASSUME NEW i \in 0 .. n + 1
        PROVE  d[i] = (IF i = 0 THEN 0 ELSE d[i - 1]) + w[i]
    <3>1. CASE i = n + 1
      <4>1. i - 1 = n /\ i # 0 /\ n \in 0 .. n + 1 /\ ~(i <= n)
        BY <2>1, <3>1
      <4>2. d[i] = e[n] + w[n + 1] /\ d[i - 1] = e[n]
        BY <2>1, <4>1
      <4> QED BY <3>1, <4>1, <4>2
    <3>2. CASE i = 0
      <4>1. d[i] = e[0] /\ 0 \in 0 .. n
        BY <2>1, <3>2
      <4>2. e[0] = 0 + w[0]
        BY <2>2, <4>1
      <4> QED BY <3>2, <4>1, <4>2
    <3>3. CASE i # 0 /\ i <= n
      <4>1. i \in 0 .. n /\ i - 1 \in 0 .. n + 1 /\ i - 1 <= n
        BY <2>1, <3>3
      <4>2. d[i] = e[i] /\ d[i - 1] = e[i - 1]
        BY <2>1, <3>3, <4>1
      <4>3. e[i] = e[i - 1] + w[i]
        BY <2>2, <3>3, <4>1
      <4> QED BY <3>3, <4>2, <4>3
    <3> QED BY <2>1, <3>1, <3>2, <3>3
  <2> HIDE DEF d
  <2> QED BY <2>5, <2>6
<1>6. T = Nat
  <2> HIDE DEF T
  <2> QED BY <1>3, <1>4, <1>5, NumberInduction
<1>7. M - 1 \in T
  BY <1>2, <1>6, SMTT(30)
<1>10. M - 1 < M /\ (M - 1 < M => \E e \in [0 .. M - 1 -> Nat] : Good(e, M - 1))
  BY <1>7
<1>8. PICK e \in [Rows -> Nat] : Good(e, M - 1)
  BY <1>1, <1>10
<1>9. AddsUp(w, e)
  BY <1>1, <1>8 DEF AddsUp
<1> QED BY <1>8, <1>9

\* get_tile_offset() of the first tile row, of the others and of the end.
LEMMA TileStarts ==
  ASSUME NEW f \in Shapes
  PROVE  /\ TileRowStart(f, 0) = 0 /\ TileRowStart(f, f.tileRows) = f.sbRows
         /\ \A i \in Nat : TileRowStart(f, i) \in Int
<1>1. PICK n \in Nat \ {0} : n = f.tileRows
  BY ShapeFacts
<1>2. PICK s \in Nat : s = f.sbRows
  BY ShapeFacts
<1>3. TileRowStart(f, n) = s
  BY <1>1, <1>2, DivUnique DEF TileRowStart
<1>4. TileRowStart(f, 0) = 0
  <2>1. 0 * s = n * 0
    OBVIOUS
  <2> QED BY <1>1, <1>2, <2>1, DivUnique DEF TileRowStart
<1>5. \A i \in Nat : (i * s) \div n \in Int
  OBVIOUS
<1> QED
  BY <1>1, <1>2, <1>3, <1>4, <1>5 DEF TileRowStart

\* With the numbers of rows that belong to a shape, every row of a frame that is
\* not larger gets a tile row of that shape.
LEMMA TileIdsBelow ==
  ASSUME NEW f \in Shapes, NEW v,
         v = [r \in Rows |-> IF r < f.tileRows THEN VertUnits(f, r) ELSE 0]
  PROVE  /\ TileIds(v) \in [Rows -> Nat]
         /\ \A r \in 0 .. f.sbRows - 1 : TileIds(v)[r] \in 0 .. f.tileRows - 1
<1> DEFINE w == [i \in Rows |-> Max({v[i], 1})]
           end[i \in Rows] == (IF i = 0 THEN 0 ELSE end[i - 1]) + Max({v[i], 1})
<1>1. PICK M \in Nat : Rows = 0 .. M - 1
  BY RangeFacts
<1>0. Rows \subseteq Nat
  BY <1>1
<1>2. \A i \in Rows : v[i] \in Int
  <2>1. \A i \in Rows : TileRowStart(f, i) \in Int /\ TileRowStart(f, i + 1) \in Int
    BY <1>0, TileStarts
  <2> QED BY <2>1 DEF VertUnits
<1>3. \A i \in Rows : Max({v[i], 1}) \in Nat /\ Max({v[i], 1}) >= v[i] /\ Max({v[i], 1}) >= 1
  <2> SUFFICES ASSUME NEW i \in Rows
               PROVE  Max({v[i], 1}) \in Nat /\ Max({v[i], 1}) >= v[i] /\ Max({v[i], 1}) >= 1
    OBVIOUS
  <2>1. PICK a \in Int : a = v[i]
    BY <1>2
  <2>2. Max({a, 1}) \in {a, 1} /\ Max({a, 1}) >= a /\ Max({a, 1}) >= 1
    BY MaxOfTwo
  <2> QED BY <2>1, <2>2
<1>4. w \in [Rows -> Nat]
  BY <1>3
<1>5. end = CHOOSE e : AddsUp(w, e)
  BY DEF AddsUp
<1>6. AddsUp(w, end)
  <2> HIDE DEF w, end
  <2>1. \E e : AddsUp(w, e)
    BY <1>4, SumExists
  <2> QED BY <1>5, <2>1
<1>7. TileIds(v) = [r \in Rows |-> Cardinality({i \in Rows : end[i] <= r})]
  BY DEF TileIds
<1> HIDE DEF end
<1>8. \A i \in Rows : end[i] = (IF i = 0 THEN 0 ELSE end[i - 1]) + w[i]
  BY <1>6 DEF AddsUp
<1>9. \A i \in Rows : /\ w[i] \in Nat /\ w[i] >= v[i] /\ w[i] >= 1
                      /\ i < f.tileRows => v[i] = VertUnits(f, i)
  BY <1>3
<1> HIDE DEF w
<1>10. PICK n \in Nat \ {0} : n = f.tileRows
  BY ShapeFacts
<1>11. PICK s \in Nat \ {0} : s = f.sbRows
  BY ShapeFacts
<1>12. n <= s /\ s <= M
  <2>1. n <= s /\ 0 .. s - 1 \subseteq 0 .. M - 1
    BY <1>1, <1>10, <1>11, ShapeFacts
  <2>2. s - 1 \in 0 .. s - 1
    OBVIOUS
  <2> QED BY <2>1, <2>2
<1> DEFINE T == {i \in Nat : i < M =>
                   /\ end[i] \in Nat
                   /\ i < n => end[i] >= TileRowStart(f, i + 1)
                   /\ i >= n - 1 => end[i] >= s}
<1>13. TileRowStart(f, 0) = 0 /\ TileRowStart(f, n) = s
       /\ \A i \in Nat : TileRowStart(f, i) \in Int
  BY <1>10, <1>11, TileStarts
<1>14. 0 \in T
  <2>1. 0 \in Rows
    BY <1>1, <1>12
  <2>2. end[0] = w[0] /\ w[0] \in Nat /\ v[0] = VertUnits(f, 0) /\ w[0] >= v[0]
    BY <1>8, <1>9, <1>10, <2>1
  <2>3. VertUnits(f, 0) = TileRowStart(f, 1)
    BY <1>13 DEF VertUnits
  <2>4. end[0] >= TileRowStart(f, 1)
    BY <2>2, <2>3
  <2>5. 0 >= n - 1 => end[0] >= s
    <3> SUFFICES ASSUME 0 >= n - 1 PROVE end[0] >= s
      OBVIOUS
    <3>1. n = 1
      BY <1>10
    <3> QED BY <1>13, <2>4, <3>1
  <2> QED BY <2>2, <2>4, <2>5
<1>15. \A i \in T : i + 1 \in T
  <2> SUFFICES ASSUME NEW i \in T PROVE i + 1 \in T
    OBVIOUS
  <2>1. i \in Nat /\ i + 1 \in Nat
    OBVIOUS
  <2> SUFFICES ASSUME i + 1 < M
               PROVE  /\ end[i + 1] \in Nat
                      /\ i + 1 < n => end[i + 1] >= TileRowStart(f, (i + 1) + 1)
                      /\ i + 1 >= n - 1 => end[i + 1] >= s
    BY <2>1
  <2>2. i + 1 \in Rows /\ i + 1 # 0 /\ (i + 1) - 1 = i
    BY <1>1, <2>1
  <2>3. end[i + 1] = end[i] + w[i + 1]
    BY <1>8, <2>2
  <2>4. /\ end[i] \in Nat
        /\ i < n => end[i] >= TileRowStart(f, i + 1)
        /\ i >= n - 1 => end[i] >= s
    BY <2>1
  <2>5. w[i + 1] \in Nat /\ w[i + 1] >= v[i + 1] /\ w[i + 1] >= 1
        /\ (i + 1 < n => v[i + 1] = VertUnits(f, i + 1))
    BY <1>9, <1>10, <2>2
  <2> DEFINE a == TileRowStart(f, i + 1)
             b == TileRowStart(f, (i + 1) + 1)
  <2>6. a \in Int /\ b \in Int
    BY <1>13, <2>1
  <2>7. i + 1 < n => v[i + 1] = b - a
    BY <2>5 DEF VertUnits
  <2>8. i + 1 = n - 1 => b = s
    BY <1>13, <2>1
  <2>9. v[i + 1] \in Int
    BY <1>2, <2>2
  <2> HIDE DEF a, b
  <2>10. i < n => end[i] >= a
    BY <2>4 DEF a
  <2>11. i + 1 < n => end[i + 1] >= b
    BY <2>1, <2>3, <2>4, <2>5, <2>6, <2>7, <2>9, <2>10
  <2>12. i + 1 >= n - 1 => end[i + 1] >= s
    <3>1. CASE i + 1 = n - 1
      BY <2>1, <2>8, <2>11, <3>1
    <3>2. CASE i >= n - 1
      BY <2>3, <2>4, <2>5, <3>2
    <3> QED BY <2>1, <3>1, <3>2
  <2>13. end[i + 1] \in Nat
    BY <2>3, <2>4, <2>5
  <2> QED BY <2>11, <2>12, <2>13 DEF b
<1>16. T = Nat
  <2>1. T \in SUBSET Nat
    OBVIOUS
  <2> HIDE DEF T
  <2> QED BY <1>14, <1>15, <2>1, NumberInduction
<1>17. \A i \in Rows : end[i] \in Nat /\ (i >= n - 1 => end[i] >= s)
  BY <1>1, <1>16
<1>18. ASSUME NEW r \in Rows
       PROVE  TileIds(v)[r] \in Nat /\ (r < s => TileIds(v)[r] <= n - 1)
  <2> DEFINE B == {i \in Rows : end[i] <= r}
  <2>1. TileIds(v)[r] = Cardinality(B)
    BY <1>7
  <2>2. IsFiniteSet(Rows)
    BY <1>1, FS_Interval
  <2>3. IsFiniteSet(B) /\ Cardinality(B) \in Nat
    BY <2>2, FS_Subset, FS_CardinalityType
  <2>4. ASSUME r < s PROVE Cardinality(B) <= n - 1
    <3>1. B \subseteq 0 .. n - 2
      <4> SUFFICES ASSUME NEW i \in B PROVE i \in 0 .. n - 2
        OBVIOUS
      <4>1. i \in Nat /\ r \in Nat /\ end[i] \in Nat /\ end[i] <= r
        BY <1>0, <1>17
      <4>2. ~(i >= n - 1)
        BY <1>17, <2>4, <4>1
      <4> QED BY <4>1, <4>2
    <3>2. IsFiniteSet(0 .. n - 2) /\ Cardinality(0 .. n - 2) = n - 1
      <4>1. Cardinality(0 .. n - 2) = IF 0 > n - 2 THEN 0 ELSE (n - 2) - 0 + 1
        BY FS_Interval
      <4> QED BY <4>1, FS_Interval
    <3> QED BY <3>1, <3>2, FS_Subset
  <2> QED BY <2>1, <2>3, <2>4
<1>19. TileIds(v) \in [Rows -> Nat]
  BY <1>7, <1>18
<1>20. \A r \in 0 .. s - 1 : r \in Rows /\ r < s
  BY <1>1, <1>12
<1> QED
  BY <1>10, <1>11, <1>18, <1>19, <1>20

-----------------------------------------------------------------------------
(* What a state says about its frame and its workers.                      *)

\* The dimensions of the frame, as ShapeFacts.
LEMMA FrameFacts ==
  ASSUME EncTypeOK
  PROVE  /\ stream \in Streams /\ stream.shapes \subseteq Shapes /\ frame \in Shapes
         /\ frame.tileCols \in Nat \ {0} /\ frame.tileRows \in Nat \ {0}
         /\ frame.width \in Nat \ {0} /\ frame.sbRows \in Nat \ {0}
         /\ FrameCols \subseteq Cols /\ FrameRows \subseteq Rows
<1>1. stream \in Streams /\ stream.shapes \subseteq Shapes /\ frame \in Shapes
  BY DEF EncTypeOK, Shapes
<1> QED
  BY <1>1, ShapeFacts DEF FrameCols, FrameRows

\* A worker that looks for a row or has one does so in a frame of rows, and with
\* the synchronised ones every row is.
LEMMA RowMode ==
  ASSUME EncInv, NEW t \in Workers, pc[t] \in {"get", "status"} \cup Busy
  PROVE  /\ mode \in {"rows", "arnr"}
         /\ pc[t] \in Busy \ {"filter"} => mode = "rows"
<1>1. mode # "none"
  BY DEF EncInv, Idle, All, Busy
<1>2. mode # "tiles"
  BY DEF EncInv, TilesOK, Busy
<1>3. mode \in {"rows", "arnr"}
  BY <1>1, <1>2 DEF EncInv, EncTypeOK
<1>4. pc[t] \in Busy \ {"filter"} => mode # "arnr"
  BY <1>3 DEF EncInv, JobsOK, Taken
<1> QED
  BY <1>3, <1>4

\* The parts of the invariant that no worker's step touches.
LEMMA RowStep ==
  ASSUME EncInv, mode \in {"rows", "arnr"}, UNCHANGED frameVars,
         EncTypeOK', CleanSlate', JobsOK'
  PROVE  EncInv'
<1>1. UNCHANGED <<stream, numWorkers, frame, mode, tiles, alloc, vertSbs, sync, tileRow>>
  BY DEF frameVars, memory
<1>2. MemoryOK'
  BY <1>1 DEF EncInv, MemoryOK, AllocatedFor
<1>3. OwnSync'
  BY <1>1 DEF EncInv, OwnSync, FrameCols, FrameRows
<1>4. TilesOK'
  BY <1>1 DEF TilesOK
<1>5. mode' # "none"
  BY <1>1
<1> QED
  BY <1>2, <1>3, <1>4, <1>5 DEF EncInv, ColumnsAsked

-----------------------------------------------------------------------------
(* The steps of a worker that has no row.                                  *)

\* A worker takes the next row of its column, or finds the column empty.
LEMMA GetNextJobInv ==
  ASSUME EncInv, NEW t \in Workers, GetNextJob(t)
  PROVE  EncInv'
<1>1. mode \in {"rows", "arnr"}
  BY RowMode DEF GetNextJob
<1>2. /\ EncTypeOK /\ CleanSlate /\ numWorkers > 0
      /\ \A c \in FrameCols : jobs[c] <= frame.sbRows
      /\ \A u \in Workers : Taken(u) /\ Searching(u)
      /\ Apart /\ RowsOK
  BY <1>1 DEF EncInv, JobsOK
<1>3. /\ UNCHANGED <<stream, numWorkers, frame, mode, tiles, alloc, vertSbs, sync, tileRow>>
      /\ UNCHANGED <<curCol, tile, col, encoded>> /\ UNCHANGED frameVars
  BY DEF GetNextJob, frameVars, memory
<1>4. tile[t] \in FrameCols /\ pc[t] = "get" /\ tile[t] \in Cols
  BY <1>2, FrameFacts DEF GetNextJob, Searching
<1>5. FrameCols' = FrameCols /\ FrameRows' = FrameRows
  BY <1>3 DEF FrameCols, FrameRows
<1> DEFINE c0 == tile[t]
<1>6. CASE jobs[tile[t]] < frame.sbRows
  <2>1. /\ row' = [row EXCEPT ![t] = jobs[c0]]
        /\ jobs' = [jobs EXCEPT ![c0] = @ + 1]
        /\ pc' = [pc EXCEPT ![t] = IF mode = "arnr" THEN "filter" ELSE "read"]
        /\ UNCHANGED <<finished, scan, most>>
    BY <1>6 DEF GetNextJob, Goto, scanVars
  <2>2. EncTypeOK'
    BY <1>2, <1>3, <1>4, <2>1 DEF EncTypeOK, Busy
  <2>3. CleanSlate'
    BY <1>2, <1>3, <1>4, <2>1 DEF CleanSlate, EncTypeOK, Busy
  <2>4. /\ jobs[c0] \in Nat /\ jobs'[c0] = jobs[c0] + 1
        /\ \A c \in Cols : jobs[c] \in Nat /\ (c # c0 => jobs'[c] = jobs[c])
        /\ row'[t] = jobs[c0] /\ pc'[t] = IF mode = "arnr" THEN "filter" ELSE "read"
        /\ \A u \in Workers : u # t => row'[u] = row[u] /\ pc'[u] = pc[u]
    BY <1>2, <1>4, <2>1 DEF EncTypeOK
  <2>5. /\ frame.sbRows \in Nat /\ frame.width \in Nat \ {0} /\ FrameCols \subseteq Cols
    BY <1>2, FrameFacts
  <2>6. \A c \in FrameCols : jobs'[c] <= frame.sbRows
    BY <1>2, <1>6, <2>4, <2>5
  <2>7. \A u \in Workers : Taken(u)'
    <3> SUFFICES ASSUME NEW u \in Workers PROVE Taken(u)'
      OBVIOUS
    <3>1. CASE u = t
      <4>1. jobs[c0] \in FrameRows
        BY <1>6, <2>4, <2>5 DEF FrameRows
      <4>2. encoded[c0][jobs[c0]] = 0
        BY <1>2, <1>4, <2>4, <4>1 DEF RowsOK
      <4>3. col[t] = 0
        BY <1>2, <1>4 DEF CleanSlate, Busy
      <4>4. pc'[t] # "write" /\ pc'[t] # "encode"
        BY <2>4
      <4>5. Written(t)' = 0
        BY <1>3, <4>3, <4>4 DEF Written
      <4>6. pc'[t] = "filter" <=> mode' = "arnr"
        BY <1>3, <2>4
      <4> QED
        BY <1>3, <1>4, <1>5, <2>4, <2>5, <3>1, <4>1, <4>2, <4>3, <4>4, <4>5, <4>6
        DEF Taken
    <3>2. CASE u # t
      <4>1. Taken(u)
        BY <1>2
      <4>2. Written(u)' = Written(u)
        BY <1>3, <2>4, <3>2 DEF Written
      <4>3. pc[u] \in Busy => row[u] < jobs'[tile[u]]
        BY <2>4, <2>5, <4>1 DEF Taken, FrameRows
      <4> QED
        BY <1>3, <1>5, <2>4, <3>2, <4>1, <4>2, <4>3 DEF Taken, EncodedAbove
    <3> QED BY <3>1, <3>2
  <2>8. Apart'
    <3>1. \A u \in Workers : u # t /\ pc[u] \in Busy /\ tile[u] = c0 => row[u] # jobs[c0]
      BY <1>2, <2>4 DEF Taken, FrameRows
    <3> QED
      BY <1>2, <1>3, <2>4, <3>1 DEF Apart
  <2>9. RowsOK'
    <3> SUFFICES ASSUME NEW c \in FrameCols, NEW r \in FrameRows
                 PROVE  /\ r >= jobs'[c] => encoded[c][r] = 0
                        /\ r < jobs'[c] => encoded[c][r] = frame.width
                                           \/ \E u \in Workers : Has(u, c, r)'
                        /\ mode = "rows" => encoded[c][r] = frame.width
                                            \/ curCol[c][r] < encoded[c][r]
      BY <1>3, <1>5 DEF RowsOK
    <3>0. c \in Cols /\ r \in Nat
      BY <2>5 DEF FrameRows
    <3>1. /\ r >= jobs[c] => encoded[c][r] = 0
          /\ r < jobs[c] => encoded[c][r] = frame.width
                            \/ \E u \in Workers : Has(u, c, r)
          /\ mode = "rows" => encoded[c][r] = frame.width
                              \/ curCol[c][r] < encoded[c][r]
      BY <1>2 DEF RowsOK
    <3>2. r >= jobs'[c] => r >= jobs[c]
      BY <2>4, <3>0
    <3>3. \A u \in Workers : Has(u, c, r) => Has(u, c, r)'
      BY <1>3, <1>4, <2>4 DEF Has, Busy
    <3>4. c = c0 /\ r = jobs[c0] => Has(t, c, r)'
      BY <1>3, <2>4 DEF Has, Busy
    <3>5. r < jobs'[c] => r < jobs[c] \/ (c = c0 /\ r = jobs[c0])
      BY <2>4, <3>0
    <3> QED BY <3>1, <3>2, <3>3, <3>4, <3>5
  <2>10. \A u \in Workers : Searching(u)'
    <3> SUFFICES ASSUME NEW u \in Workers PROVE Searching(u)'
      OBVIOUS
    <3>1. \A c \in FrameCols : Emptied(c) => Emptied(c)'
      BY <1>3, <1>6, <2>4, <2>5 DEF Emptied
    <3>2. Searching(u)
      BY <1>2
    <3>3. CASE u = t
      <4>1. pc'[t] \in Busy /\ pc'[t] # "get" /\ pc'[t] # "status" /\ pc'[t] # "idle"
        BY <2>4 DEF Busy
      <4> QED BY <1>5, <2>1, <3>1, <3>2, <3>3, <4>1 DEF Searching
    <3>4. CASE u # t
      BY <1>3, <1>5, <2>1, <2>4, <3>1, <3>2, <3>4 DEF Searching
    <3> QED BY <3>3, <3>4
  <2>11. JobsOK'
    BY <1>2, <1>3, <1>5, <2>6, <2>7, <2>8, <2>9, <2>10 DEF JobsOK
  <2> QED
    BY <1>1, <1>3, <2>2, <2>3, <2>11, RowStep
<1>7. CASE ~(jobs[tile[t]] < frame.sbRows)
  <2>1. /\ pc' = [pc EXCEPT ![t] = "status"]
        /\ finished' = [finished EXCEPT ![t] = @ \cup {c0}]
        /\ UNCHANGED <<row, jobs, scan, most>>
    BY <1>7 DEF GetNextJob, Goto
  <2>2. c0 \in Nat
    BY <1>2 DEF EncTypeOK
  <2>3. EncTypeOK'
    BY <1>2, <1>3, <1>4, <2>1, <2>2 DEF EncTypeOK
  <2>4. CleanSlate'
    BY <1>2, <1>3, <1>4, <2>1 DEF CleanSlate, EncTypeOK, Busy
  <2>5. /\ pc'[t] = "status" /\ \A u \in Workers : u # t => pc'[u] = pc[u]
        /\ finished'[t] = finished[t] \cup {c0}
        /\ \A u \in Workers : u # t => finished'[u] = finished[u]
    BY <1>2, <2>1 DEF EncTypeOK
  <2>6. Emptied(c0)
    <3>1. jobs[c0] \in Nat /\ frame.sbRows \in Nat /\ jobs[c0] <= frame.sbRows
      BY <1>2, <1>4, FrameFacts DEF EncTypeOK
    <3> QED BY <1>7, <3>1 DEF Emptied
  <2>7. \A u \in Workers : pc'[u] \in Busy <=> pc[u] \in Busy
    BY <1>4, <2>5 DEF Busy
  <2>8. \A u \in Workers : pc'[u] \in Busy => pc'[u] = pc[u]
    BY <1>4, <2>5 DEF Busy
  <2>9. \A u \in Workers : Taken(u)'
    <3> SUFFICES ASSUME NEW u \in Workers, pc'[u] \in Busy PROVE Taken(u)'
      BY DEF Taken
    <3>1. Taken(u) /\ pc'[u] = pc[u]
      BY <1>2, <2>8
    <3>2. Written(u)' = Written(u)
      BY <1>3, <3>1 DEF Written
    <3> QED BY <1>3, <1>5, <2>1, <3>1, <3>2 DEF Taken, EncodedAbove
  <2>10. Apart'
    BY <1>2, <1>3, <2>1, <2>7 DEF Apart
  <2>11. RowsOK'
    <3>1. \A u \in Workers, c \in FrameCols, r \in FrameRows : Has(u, c, r)' <=> Has(u, c, r)
      BY <1>3, <2>1, <2>7 DEF Has
    <3> QED BY <1>2, <1>3, <1>5, <2>1, <3>1 DEF RowsOK
  <2>12. \A u \in Workers : Searching(u)'
    <3> SUFFICES ASSUME NEW u \in Workers PROVE Searching(u)'
      OBVIOUS
    <3>1. \A c \in FrameCols : Emptied(c)' <=> Emptied(c)
      BY <1>3, <2>1 DEF Emptied
    <3>2. Searching(u)
      BY <1>2
    <3>3. CASE u = t
      <4>1. scan[t] = 0 /\ most[t] = NoJobs
        BY <1>2, <1>4 DEF CleanSlate
      <4>2. most[t].tile = None /\ most[t].jobs = 0
        BY <4>1 DEF NoJobs
      <4>3. \A c \in FrameCols : ~(c < scan[t])
        BY <4>1 DEF FrameCols
      <4> QED
        BY <1>3, <1>5, <2>1, <2>5, <2>6, <3>1, <3>2, <3>3, <4>2, <4>3 DEF Searching
    <3>4. CASE u # t
      BY <1>3, <1>5, <2>1, <2>5, <3>1, <3>2, <3>4 DEF Searching
    <3> QED BY <3>3, <3>4
  <2>13. JobsOK'
    BY <1>2, <1>3, <1>5, <2>1, <2>9, <2>10, <2>11, <2>12 DEF JobsOK
  <2> QED
    BY <1>1, <1>3, <2>3, <2>4, <2>13, RowStep
<1> QED
  BY <1>6, <1>7

\* The workers that have a row keep it, and nothing of a row changes.
LEMMA SearchStep ==
  ASSUME EncInv, mode \in {"rows", "arnr"},
         UNCHANGED <<frameVars, curCol, jobs, row, col, encoded>>,
         \A u \in Workers :
           pc[u] \in Busy \/ pc'[u] \in Busy => pc'[u] = pc[u] /\ tile'[u] = tile[u],
         EncTypeOK', CleanSlate', \A u \in Workers : Searching(u)'
  PROVE  EncInv'
<1>1. /\ UNCHANGED <<stream, numWorkers, frame, mode, tiles, alloc, vertSbs, sync, tileRow>>
      /\ UNCHANGED <<curCol, jobs, row, col, encoded>> /\ UNCHANGED frameVars
  BY DEF frameVars, memory
<1>2. /\ EncTypeOK /\ CleanSlate /\ numWorkers > 0
      /\ \A c \in FrameCols : jobs[c] <= frame.sbRows
      /\ \A u \in Workers : Taken(u) /\ Searching(u)
      /\ Apart /\ RowsOK
  BY DEF EncInv, JobsOK
<1>3. FrameCols' = FrameCols /\ FrameRows' = FrameRows
  BY <1>1 DEF FrameCols, FrameRows
<1>4. \A u \in Workers : Taken(u)'
  <2> SUFFICES ASSUME NEW u \in Workers, pc'[u] \in Busy PROVE Taken(u)'
    BY DEF Taken
  <2>1. Taken(u) /\ pc'[u] = pc[u] /\ tile'[u] = tile[u]
    BY <1>2
  <2>2. Written(u)' = Written(u)
    BY <1>1, <2>1 DEF Written
  <2> QED BY <1>1, <1>3, <2>1, <2>2 DEF Taken, EncodedAbove
<1>5. Apart'
  BY <1>1, <1>2 DEF Apart
<1>6. RowsOK'
  <2>1. \A u \in Workers, c \in FrameCols, r \in FrameRows : Has(u, c, r) => Has(u, c, r)'
    BY <1>1 DEF Has
  <2> QED BY <1>1, <1>2, <1>3, <2>1 DEF RowsOK
<1>7. JobsOK'
  BY <1>1, <1>2, <1>3, <1>4, <1>5, <1>6 DEF JobsOK
<1> QED
  BY <1>1, <1>7, RowStep

\* It looks at one column after the other ...
LEMMA TileStatusInv ==
  ASSUME EncInv, NEW t \in Workers, TileStatus(t)
  PROVE  EncInv'
<1>1. mode \in {"rows", "arnr"} /\ pc[t] = "status"
  BY RowMode DEF TileStatus
<1>2. EncTypeOK /\ CleanSlate /\ \A u \in Workers : Searching(u)
  BY <1>1 DEF EncInv, JobsOK
<1>3. /\ UNCHANGED <<stream, numWorkers, frame, mode, tiles, alloc, vertSbs, sync, tileRow>>
      /\ UNCHANGED <<curCol, jobs, pc, tile, row, col, encoded>> /\ UNCHANGED frameVars
  BY DEF TileStatus, frameVars, memory, place
<1> DEFINE c == scan[t]
           left == frame.sbRows - jobs[c]
<1>4. /\ scan' = [scan EXCEPT ![t] = c + 1]
      /\ most' = IF c \notin finished[t] /\ left > most[t].jobs
                   THEN [most EXCEPT ![t] = [tile |-> c, jobs |-> left]] ELSE most
      /\ finished' = IF left = 0 THEN [finished EXCEPT ![t] = @ \cup {c}] ELSE finished
  BY DEF TileStatus
<1>5. /\ c \in Nat /\ c \in FrameCols /\ jobs[c] \in Nat /\ frame.sbRows \in Nat
      /\ jobs[c] <= frame.sbRows
  <2>1. c \in Nat /\ c < frame.tileCols /\ frame.tileCols \in Nat /\ frame.sbRows \in Nat
        /\ FrameCols \subseteq Cols
    BY <1>2, FrameFacts DEF TileStatus, TilesLeft, EncTypeOK
  <2>2. c \in FrameCols
    BY <2>1 DEF FrameCols
  <2> QED BY <1>1, <1>2, <2>1, <2>2 DEF EncInv, JobsOK, EncTypeOK
<1>6. left \in Nat /\ (left = 0 => Emptied(c))
  BY <1>5 DEF Emptied
<1> HIDE DEF left
<1>7. most[t] \in [tile : Int, jobs : Int]
  BY <1>2 DEF EncTypeOK
<1>8. EncTypeOK'
  <2>1. most' \in [Workers -> [tile : Int, jobs : Int]]
    BY <1>2, <1>4, <1>5, <1>6 DEF EncTypeOK
  <2>2. scan' \in [Workers -> Nat] /\ finished' \in [Workers -> SUBSET Nat]
    BY <1>2, <1>4, <1>5 DEF EncTypeOK
  <2> QED BY <1>2, <1>3, <2>1, <2>2 DEF EncTypeOK
<1>9. CleanSlate'
  BY <1>1, <1>2, <1>3, <1>4 DEF CleanSlate, EncTypeOK
<1>10. FrameCols' = FrameCols
  BY <1>3 DEF FrameCols
<1>11. \A d \in FrameCols : Emptied(d)' <=> Emptied(d)
  BY <1>3 DEF Emptied
<1>12. \A u \in Workers : Searching(u)'
  <2> SUFFICES ASSUME NEW u \in Workers PROVE Searching(u)'
    OBVIOUS
  <2>1. CASE u # t
    <3>1. scan'[u] = scan[u] /\ most'[u] = most[u] /\ finished'[u] = finished[u]
      BY <1>2, <1>4, <2>1 DEF EncTypeOK
    <3> QED BY <1>2, <1>3, <1>10, <1>11, <3>1 DEF Searching
  <2>2. CASE u = t
    <3>1. /\ scan'[t] = c + 1
          /\ most'[t] = IF c \notin finished[t] /\ left > most[t].jobs
                          THEN [tile |-> c, jobs |-> left] ELSE most[t]
          /\ finished'[t] = IF left = 0 THEN finished[t] \cup {c} ELSE finished[t]
      BY <1>2, <1>4 DEF EncTypeOK
    <3>2. \A d \in finished'[t] \cap FrameCols : Emptied(d)
      BY <1>2, <1>6, <3>1 DEF Searching
    <3>3. /\ most[t].tile = None => /\ most[t].jobs = 0
                                    /\ \A d \in FrameCols : d < c => Emptied(d)
          /\ most[t].tile # None => most[t].tile \in FrameCols
          /\ \A d \in finished[t] \cap FrameCols : Emptied(d)
      BY <1>1, <1>2 DEF Searching
    <3>4. CASE c \notin finished[t] /\ left > most[t].jobs
      <4>1. most'[t].tile = c /\ c # None
        BY <1>5, <3>1, <3>4 DEF None
      <4> QED
        BY <1>1, <1>3, <1>5, <1>10, <1>11, <2>2, <3>2, <4>1 DEF Searching
    <3>5. CASE ~(c \notin finished[t] /\ left > most[t].jobs)
      <4>1. most'[t] = most[t]
        BY <3>1, <3>5
      <4>2. most[t].tile = None => Emptied(c)
        BY <1>5, <1>6, <3>3, <3>5
      <4>3. \A d \in FrameCols : d < c + 1 => d < c \/ d = c
        BY <1>5 DEF FrameCols
      <4>4. most[t].tile = None => \A d \in FrameCols : d < c + 1 => Emptied(d)
        BY <3>3, <4>2, <4>3
      <4> QED
        BY <1>1, <1>3, <1>10, <1>11, <2>2, <3>1, <3>2, <3>3, <4>1, <4>4 DEF Searching
    <3> QED BY <3>4, <3>5
  <2> QED BY <2>1, <2>2
<1> QED
  BY <1>1, <1>3, <1>8, <1>9, <1>12, SearchStep

\* ... and goes to the one it chose, or ends when all are empty.
LEMMA NextTileInv ==
  ASSUME EncInv, NEW t \in Workers, NextTile(t)
  PROVE  EncInv'
<1>1. mode \in {"rows", "arnr"} /\ pc[t] = "status"
  BY RowMode DEF NextTile
<1>2. EncTypeOK /\ CleanSlate /\ \A u \in Workers : Searching(u)
  BY <1>1 DEF EncInv, JobsOK
<1>3. /\ UNCHANGED <<stream, numWorkers, frame, mode, tiles, alloc, vertSbs, sync, tileRow>>
      /\ UNCHANGED <<curCol, jobs, row, col, finished, encoded>> /\ UNCHANGED frameVars
  BY DEF NextTile, frameVars, memory
<1> DEFINE end == most[t].tile = None
<1>4. /\ pc' = [pc EXCEPT ![t] = IF end THEN "idle" ELSE "get"]
      /\ tile' = [tile EXCEPT ![t] = IF end THEN 0 ELSE most[t].tile]
      /\ scan' = [scan EXCEPT ![t] = 0] /\ most' = [most EXCEPT ![t] = NoJobs]
  BY DEF NextTile, Goto
<1>5. scan[t] \in Nat /\ scan[t] >= frame.tileCols /\ frame.tileCols \in Nat
  BY <1>2, FrameFacts DEF NextTile, TilesLeft, EncTypeOK
<1>6. \A c \in FrameCols : c < scan[t] /\ c \in Nat
  BY <1>5 DEF FrameCols
<1>7. /\ end => \A c \in FrameCols : Emptied(c)
      /\ ~end => most[t].tile \in FrameCols
  BY <1>1, <1>2, <1>6 DEF Searching
<1>8. EncTypeOK'
  <2>1. NoJobs \in [tile : Int, jobs : Int]
    BY DEF NoJobs, None
  <2>2. (IF end THEN 0 ELSE most[t].tile) \in Nat
    BY <1>6, <1>7
  <2> HIDE DEF end
  <2> QED BY <1>2, <1>3, <1>4, <2>1, <2>2 DEF EncTypeOK
<1>9. CleanSlate'
  BY <1>1, <1>2, <1>3, <1>4 DEF CleanSlate, EncTypeOK, Busy
<1>10. FrameCols' = FrameCols
  BY <1>3 DEF FrameCols
<1>11. \A d \in FrameCols : Emptied(d)' <=> Emptied(d)
  BY <1>3 DEF Emptied
<1>12. \A u \in Workers : /\ u # t => /\ pc'[u] = pc[u] /\ tile'[u] = tile[u]
                                      /\ scan'[u] = scan[u] /\ most'[u] = most[u]
                          /\ u = t => /\ pc'[u] = IF end THEN "idle" ELSE "get"
                                      /\ tile'[u] = IF end THEN 0 ELSE most[t].tile
  BY <1>2, <1>4 DEF EncTypeOK
<1> HIDE DEF end
<1>13. \A u \in Workers : Searching(u)'
  <2> SUFFICES ASSUME NEW u \in Workers PROVE Searching(u)'
    OBVIOUS
  <2>1. Searching(u)
    BY <1>2
  <2>2. CASE u # t
    BY <1>3, <1>10, <1>11, <1>12, <2>1, <2>2 DEF Searching
  <2>3. CASE u = t /\ end
    BY <1>3, <1>7, <1>10, <1>11, <1>12, <2>1, <2>3 DEF Searching
  <2>4. CASE u = t /\ ~end
    BY <1>3, <1>7, <1>10, <1>11, <1>12, <2>1, <2>4 DEF Searching
  <2> QED BY <2>2, <2>3, <2>4
<1>14. \A u \in Workers :
         pc[u] \in Busy \/ pc'[u] \in Busy => pc'[u] = pc[u] /\ tile'[u] = tile[u]
  BY <1>1, <1>12 DEF Busy
<1> QED
  BY <1>1, <1>3, <1>8, <1>9, <1>13, <1>14, SearchStep

-----------------------------------------------------------------------------
(* The steps of a worker that has a row.                                   *)

\* A worker changes only what belongs to its row, and keeps the row until it is
\* encoded; it may wake others.
LEMMA WorkStep ==
  ASSUME EncInv, NEW t \in Workers, pc[t] \in Busy,
         UNCHANGED <<frameVars, jobs, tile, scanVars>>, EncTypeOK', CleanSlate',
         \A u \in Workers \ {t} :
           /\ row'[u] = row[u] /\ col'[u] = col[u]
           /\ pc'[u] = pc[u] \/ (pc[u] = "asleep" /\ pc'[u] = "read"),
         \A c \in FrameCols, r \in FrameRows :
           c # tile[t] \/ r # row[t] =>
             encoded'[c][r] = encoded[c][r] /\ curCol'[c][r] = curCol[c][r],
         encoded'[tile[t]][row[t]] >= encoded[tile[t]][row[t]],
         mode = "rows" => \/ encoded'[tile[t]][row[t]] = frame.width
                          \/ curCol'[tile[t]][row[t]] < encoded'[tile[t]][row[t]],
         pc'[t] \in Busy => row'[t] = row[t] /\ Taken(t)',
         pc'[t] \notin Busy =>
           pc'[t] = "get" /\ encoded'[tile[t]][row[t]] = frame.width
  PROVE  EncInv'
<1>1. mode \in {"rows", "arnr"}
  BY RowMode
<1>2. /\ EncTypeOK /\ numWorkers > 0
      /\ \A c \in FrameCols : jobs[c] <= frame.sbRows
      /\ \A u \in Workers : Taken(u) /\ Searching(u)
      /\ Apart /\ RowsOK
  BY <1>1 DEF EncInv, JobsOK
<1>3. /\ UNCHANGED <<stream, numWorkers, frame, mode, tiles, alloc, vertSbs, sync, tileRow>>
      /\ UNCHANGED <<jobs, tile, finished, scan, most>> /\ UNCHANGED frameVars
  BY DEF frameVars, memory, scanVars
<1>4. FrameCols' = FrameCols /\ FrameRows' = FrameRows
  BY <1>3 DEF FrameCols, FrameRows
<1>5. tile[t] \in FrameCols /\ row[t] \in FrameRows /\ row[t] < jobs[tile[t]]
  BY <1>2 DEF Taken
<1>6. FrameCols \subseteq Cols /\ FrameRows \subseteq Rows /\ FrameRows \subseteq Nat
  BY <1>2, FrameFacts DEF FrameRows
<1>7. \A c \in FrameCols, r \in FrameRows :
        /\ encoded[c][r] \in Int /\ encoded'[c][r] \in Int /\ encoded'[c][r] >= encoded[c][r]
  <2>1. \A c \in FrameCols, r \in FrameRows : encoded[c][r] \in Int /\ encoded'[c][r] \in Int
    BY <1>2, <1>6 DEF EncTypeOK, Counts
  <2> QED BY <2>1
<1>8. \A u \in Workers \ {t} : Taken(u)'
  <2> SUFFICES ASSUME NEW u \in Workers \ {t}, pc'[u] \in Busy PROVE Taken(u)'
    BY DEF Taken
  <2>1. /\ pc[u] \in Busy /\ row'[u] = row[u] /\ col'[u] = col[u] /\ tile'[u] = tile[u]
        /\ pc'[u] = "filter" <=> pc[u] = "filter"
        /\ pc'[u] = "write" <=> pc[u] = "write"
        /\ pc'[u] = "encode" <=> pc[u] = "encode"
    BY <1>3 DEF Busy
  <2>2. Taken(u)
    BY <1>2
  <2>3. tile[u] # tile[t] \/ row[u] # row[t]
    BY <1>2, <2>1 DEF Apart
  <2>4. tile[u] \in FrameCols /\ row[u] \in FrameRows /\ row[u] < jobs[tile[u]]
        /\ encoded[tile[u]][row[u]] = Written(u) /\ col[u] < frame.width
        /\ (pc[u] = "filter" <=> mode = "arnr")
        /\ (pc[u] = "encode" => EncodedAbove(tile[u], row[u], col[u] + 1))
    BY <2>1, <2>2 DEF Taken
  <2>5. encoded'[tile[u]][row[u]] = encoded[tile[u]][row[u]]
    BY <2>3, <2>4
  <2>6. Written(u)' = Written(u)
    BY <2>1 DEF Written
  <2>7. pc[u] = "encode" => EncodedAbove(tile[u], row[u], col[u] + 1)'
    <3> SUFFICES ASSUME pc[u] = "encode", row[u] > 0
                 PROVE  encoded'[tile[u]][row[u] - 1] >= col[u] + 1
      BY <2>1 DEF EncodedAbove
    <3>1. encoded[tile[u]][row[u] - 1] >= col[u] + 1
      BY <2>4 DEF EncodedAbove
    <3>2. row[u] - 1 \in FrameRows /\ frame.sbRows \in Nat /\ col[u] \in Nat
      BY <1>2, <2>4, FrameFacts DEF FrameRows, EncTypeOK
    <3> QED BY <1>7, <2>4, <3>1, <3>2
  <2> QED BY <1>3, <1>4, <2>1, <2>4, <2>5, <2>6, <2>7 DEF Taken
<1>9. Taken(t)'
  BY DEF Taken
<1>10. \A u \in Workers : /\ pc'[u] \in Busy => pc[u] \in Busy /\ row'[u] = row[u]
                          /\ u # t => (pc[u] \in Busy => pc'[u] \in Busy)
  BY DEF Busy
<1>11. Apart'
  BY <1>2, <1>3, <1>10 DEF Apart
<1>12. RowsOK'
  <2> SUFFICES ASSUME NEW c \in FrameCols, NEW r \in FrameRows
               PROVE  /\ r >= jobs[c] => encoded'[c][r] = 0
                      /\ r < jobs[c] => encoded'[c][r] = frame.width
                                        \/ \E u \in Workers : Has(u, c, r)'
                      /\ mode = "rows" => encoded'[c][r] = frame.width
                                          \/ curCol'[c][r] < encoded'[c][r]
    BY <1>3, <1>4 DEF RowsOK
  <2>1. /\ r >= jobs[c] => encoded[c][r] = 0
        /\ r < jobs[c] => encoded[c][r] = frame.width \/ \E u \in Workers : Has(u, c, r)
        /\ mode = "rows" => encoded[c][r] = frame.width \/ curCol[c][r] < encoded[c][r]
    BY <1>2 DEF RowsOK
  <2>2. CASE c = tile[t] /\ r = row[t]
    <3>1. jobs[c] \in Nat /\ r \in Nat /\ r < jobs[c]
      BY <1>2, <1>5, <1>6, <2>2 DEF EncTypeOK
    <3>2. pc'[t] \in Busy => Has(t, c, r)'
      BY <1>3, <2>2 DEF Has
    <3> QED BY <2>2, <3>1, <3>2
  <2>3. CASE c # tile[t] \/ r # row[t]
    <3>1. encoded'[c][r] = encoded[c][r] /\ curCol'[c][r] = curCol[c][r]
      BY <2>3
    <3>2. \A u \in Workers : Has(u, c, r) => Has(u, c, r)'
      BY <1>3, <1>10, <2>3 DEF Has
    <3> QED BY <2>1, <3>1, <3>2
  <2> QED BY <2>2, <2>3
<1>13. \A u \in Workers : Searching(u)'
  <2> SUFFICES ASSUME NEW u \in Workers PROVE Searching(u)'
    OBVIOUS
  <2>1. \A c \in FrameCols : Emptied(c)' <=> Emptied(c)
    BY <1>3 DEF Emptied
  <2>2. Searching(u)
    BY <1>2
  <2>3. CASE u = t
    <3>1. pc'[t] \in Busy \cup {"get"} /\ pc'[t] # "status" /\ pc'[t] # "idle"
      BY DEF Busy
    <3> QED BY <1>3, <1>4, <1>5, <2>1, <2>2, <2>3, <3>1 DEF Searching
  <2>4. CASE u # t
    <3>1. /\ pc'[u] \in {"idle"} \cup {"get", "status"} \cup Busy
          /\ pc'[u] = "get" => pc[u] = "get"
          /\ pc'[u] = "status" => pc[u] = "status"
          /\ pc'[u] = "idle" => pc[u] = "idle"
      BY <2>2, <2>4 DEF Busy, Searching
    <3> QED BY <1>3, <1>4, <2>1, <2>2, <3>1 DEF Searching
  <2> QED BY <2>3, <2>4
<1>14. JobsOK'
  BY <1>2, <1>3, <1>4, <1>8, <1>9, <1>11, <1>12, <1>13 DEF JobsOK
<1> QED
  BY <1>1, <1>3, <1>14, RowStep

\* What the invariant says of a worker that has a row.
LEMMA WorkFacts ==
  ASSUME EncInv, NEW t \in Workers, pc[t] \in Busy
  PROVE  /\ EncTypeOK /\ CleanSlate
         /\ tile[t] \in FrameCols /\ row[t] \in FrameRows /\ row[t] < jobs[tile[t]]
         /\ (pc[t] = "filter" <=> mode = "arnr")
         /\ col[t] < frame.width /\ col[t] \in Nat /\ row[t] \in Nat
         /\ encoded[tile[t]][row[t]] = Written(t)
         /\ encoded[tile[t]][row[t]] \in Int /\ tile[t] \in Cols /\ row[t] \in Rows
         /\ (pc[t] = "encode" => EncodedAbove(tile[t], row[t], col[t] + 1))
         /\ (mode = "rows" => /\ SyncOf(t) = tile[t]
                              /\ \/ encoded[tile[t]][row[t]] = frame.width
                                 \/ curCol[tile[t]][row[t]] < encoded[tile[t]][row[t]])
         /\ mode \in {"rows", "arnr"} /\ frame.width \in Nat \ {0}
<1>1. mode \in {"rows", "arnr"}
  BY RowMode
<1>2. EncTypeOK /\ CleanSlate /\ Taken(t) /\ RowsOK /\ OwnSync
  BY <1>1 DEF EncInv, JobsOK
<1>3. /\ tile[t] \in FrameCols /\ row[t] \in FrameRows /\ row[t] < jobs[tile[t]]
      /\ (pc[t] = "filter" <=> mode = "arnr")
      /\ col[t] < frame.width /\ encoded[tile[t]][row[t]] = Written(t)
      /\ (pc[t] = "encode" => EncodedAbove(tile[t], row[t], col[t] + 1))
  BY <1>2 DEF Taken
<1>4. tile[t] \in Cols /\ row[t] \in Rows /\ frame.width \in Nat \ {0}
  BY <1>2, <1>3, FrameFacts
<1>5. encoded[tile[t]][row[t]] \in Int /\ col[t] \in Nat /\ row[t] \in Nat
  BY <1>2, <1>4 DEF EncTypeOK, Counts
<1>6. mode = "rows" => SyncOf(t) = tile[t]
  BY <1>2, <1>3 DEF OwnSync, SyncOf
<1>7. mode = "rows" => \/ encoded[tile[t]][row[t]] = frame.width
                       \/ curCol[tile[t]][row[t]] < encoded[tile[t]][row[t]]
  BY <1>2, <1>3 DEF RowsOK
<1> QED
  BY <1>1, <1>2, <1>3, <1>4, <1>5, <1>6, <1>7

\* A row of the temporal filter is finished in one step.
LEMMA FilterRowInv ==
  ASSUME EncInv, NEW t \in Workers, FilterRow(t)
  PROVE  EncInv'
<1>1. pc[t] = "filter" /\ pc[t] \in Busy
  BY DEF FilterRow, Busy
<1>2. /\ EncTypeOK /\ CleanSlate /\ tile[t] \in FrameCols /\ row[t] \in FrameRows
      /\ encoded[tile[t]][row[t]] = Written(t) /\ mode = "arnr"
      /\ tile[t] \in Cols /\ row[t] \in Rows /\ frame.width \in Nat \ {0}
  BY <1>1, WorkFacts
<1>3. encoded[tile[t]][row[t]] = 0
  BY <1>1, <1>2 DEF Written, CleanSlate
<1>4. /\ encoded' = [encoded EXCEPT ![tile[t]][row[t]] = frame.width]
      /\ row' = [row EXCEPT ![t] = 0] /\ pc' = [pc EXCEPT ![t] = "get"]
      /\ UNCHANGED <<frameVars, jobs, tile, scanVars>> /\ curCol' = curCol /\ col' = col
  <2>1. encoded[tile[t]][row[t]] + frame.width = frame.width
    BY <1>2, <1>3
  <2>2. encoded' = [encoded EXCEPT ![tile[t]][row[t]] = encoded[tile[t]][row[t]] + frame.width]
    BY DEF FilterRow
  <2> QED BY <2>1, <2>2 DEF FilterRow, Goto
<1>5. /\ encoded' \in Counts /\ encoded'[tile[t]][row[t]] = frame.width
      /\ \A c \in Cols, r \in Rows :
           c # tile[t] \/ r # row[t] => encoded'[c][r] = encoded[c][r]
  <2>1. encoded \in Counts /\ frame.width \in Int
    BY <1>2 DEF EncTypeOK
  <2> QED BY <1>2, <1>4, <2>1 DEF Counts
<1>6. UNCHANGED <<stream, numWorkers, frame, mode, tiles, tileRow, finished, scan, most>>
  BY <1>4 DEF frameVars, memory, scanVars
<1>7. EncTypeOK'
  BY <1>2, <1>4, <1>5, <1>6 DEF EncTypeOK
<1>8. CleanSlate'
  BY <1>1, <1>2, <1>4, <1>6 DEF CleanSlate, EncTypeOK, Busy
<1>9. \A u \in Workers \ {t} : row'[u] = row[u] /\ col'[u] = col[u] /\ pc'[u] = pc[u]
  BY <1>2, <1>4 DEF EncTypeOK
<1>10. pc'[t] = "get" /\ pc'[t] \notin Busy
  BY <1>2, <1>4 DEF EncTypeOK, Busy
<1>11. FrameCols \subseteq Cols /\ FrameRows \subseteq Rows
  BY <1>2, FrameFacts
<1>12. encoded'[tile[t]][row[t]] >= encoded[tile[t]][row[t]]
  BY <1>2, <1>3, <1>5
<1>13. \A c \in FrameCols, r \in FrameRows : c # tile[t] \/ r # row[t] =>
         encoded'[c][r] = encoded[c][r] /\ curCol'[c][r] = curCol[c][r]
  BY <1>4, <1>5, <1>11
<1> QED
  BY <1>1, <1>4, <1>5, <1>7, <1>8, <1>9, <1>10, <1>12, <1>13, WorkStep

\* sync_range is one: every column is a point of synchronisation.
LEMMA EveryColumn ==
  ASSUME NEW c \in Nat
  PROVE  c % SyncRange = 0 /\ c % SyncRange = SyncRange - 1
<1>1. c % 1 \in 0 .. 0
  OBVIOUS
<1> QED
  BY <1>1 DEF SyncRange

\* Past vp9_row_mt_sync_read() the superblock above has been encoded: cur_col of
\* the row above says so, and it is cur_col of the same tile column.
LEMMA SyncReadInv ==
  ASSUME EncInv, NEW t \in Workers, SyncRead(t)
  PROVE  EncInv'
<1>1. pc[t] = "read" /\ pc[t] \in Busy
  BY DEF SyncRead, Busy
<1>2. /\ EncTypeOK /\ CleanSlate /\ tile[t] \in FrameCols /\ row[t] \in FrameRows
      /\ encoded[tile[t]][row[t]] = Written(t) /\ mode = "rows" /\ row[t] < jobs[tile[t]]
      /\ col[t] < frame.width /\ col[t] \in Nat /\ row[t] \in Nat /\ SyncOf(t) = tile[t]
      /\ tile[t] \in Cols /\ row[t] \in Rows /\ frame.width \in Nat \ {0}
      /\ encoded[tile[t]][row[t]] \in Int
      /\ \/ encoded[tile[t]][row[t]] = frame.width
         \/ curCol[tile[t]][row[t]] < encoded[tile[t]][row[t]]
  BY <1>1, WorkFacts
<1>3. /\ pc' = [pc EXCEPT ![t] = IF MustWait(t) THEN "asleep" ELSE "encode"]
      /\ UNCHANGED <<frameVars, jobs, tile, scanVars>>
      /\ curCol' = curCol /\ col' = col /\ row' = row /\ encoded' = encoded /\ tile' = tile
  BY DEF SyncRead, Goto, place
<1>4. UNCHANGED <<stream, numWorkers, frame, mode, tiles, tileRow, finished, scan, most, jobs>>
  BY <1>3 DEF frameVars, memory, scanVars
<1>5. EncTypeOK'
  BY <1>2, <1>3, <1>4 DEF EncTypeOK, Busy
<1>6. CleanSlate'
  BY <1>1, <1>2, <1>3, <1>4 DEF CleanSlate, EncTypeOK, Busy
<1>7. \A u \in Workers \ {t} : row'[u] = row[u] /\ col'[u] = col[u] /\ pc'[u] = pc[u]
  BY <1>2, <1>3 DEF EncTypeOK
<1>8. pc'[t] = (IF MustWait(t) THEN "asleep" ELSE "encode") /\ pc'[t] \in Busy
  BY <1>2, <1>3 DEF EncTypeOK, Busy
<1>9. ~MustWait(t) => EncodedAbove(tile[t], row[t], col[t] + 1)
  <2> SUFFICES ASSUME ~MustWait(t), row[t] > 0
               PROVE  encoded[tile[t]][row[t] - 1] >= col[t] + 1
    BY DEF EncodedAbove
  <2>1. ~(col[t] > curCol[tile[t]][row[t] - 1] - SyncRange + 1)
    BY <1>2, EveryColumn DEF MustWait
  <2>2. row[t] - 1 \in FrameRows /\ frame.sbRows \in Nat
    BY <1>2, FrameFacts DEF FrameRows
  <2>3. FrameRows \subseteq Rows
    BY <1>2, FrameFacts
  <2>4. curCol[tile[t]][row[t] - 1] \in Int /\ encoded[tile[t]][row[t] - 1] \in Int
    BY <1>2, <2>2, <2>3 DEF EncTypeOK, Counts
  <2>5. col[t] <= curCol[tile[t]][row[t] - 1]
    BY <1>2, <2>1, <2>4 DEF SyncRange
  <2>6. \/ encoded[tile[t]][row[t] - 1] = frame.width
        \/ curCol[tile[t]][row[t] - 1] < encoded[tile[t]][row[t] - 1]
    BY <1>2, <2>2 DEF EncInv, JobsOK, RowsOK
  <2> QED BY <1>2, <2>4, <2>5, <2>6
<1>10. Taken(t)'
  <2>1. Written(t)' = Written(t)
    BY <1>1, <1>3, <1>8 DEF Written
  <2>2. pc'[t] = "encode" => EncodedAbove(tile[t], row[t], col[t] + 1)'
    BY <1>3, <1>8, <1>9 DEF EncodedAbove
  <2>3. FrameCols' = FrameCols /\ FrameRows' = FrameRows
    BY <1>4 DEF FrameCols, FrameRows
  <2>4. pc'[t] # "filter" /\ mode' # "arnr"
    BY <1>2, <1>4, <1>8
  <2> QED BY <1>2, <1>3, <1>4, <2>1, <2>2, <2>3, <2>4 DEF Taken
<1>11. encoded'[tile[t]][row[t]] >= encoded[tile[t]][row[t]]
  BY <1>2, <1>3
<1>12. \A c \in FrameCols, r \in FrameRows : c # tile[t] \/ r # row[t] =>
         encoded'[c][r] = encoded[c][r] /\ curCol'[c][r] = curCol[c][r]
  BY <1>3
<1>13. \/ encoded'[tile[t]][row[t]] = frame.width
       \/ curCol'[tile[t]][row[t]] < encoded'[tile[t]][row[t]]
  BY <1>2, <1>3
<1>14. row'[t] = row[t]
  BY <1>3
<1> QED
  BY <1>1, <1>3, <1>5, <1>6, <1>7, <1>8, <1>10, <1>11, <1>12, <1>13, <1>14, WorkStep

\* A superblock is encoded before it is published.
LEMMA EncodeSbInv ==
  ASSUME EncInv, NEW t \in Workers, EncodeSb(t)
  PROVE  EncInv'
<1>1. pc[t] = "encode" /\ pc[t] \in Busy
  BY DEF EncodeSb, Busy
<1>2. /\ EncTypeOK /\ CleanSlate /\ tile[t] \in FrameCols /\ row[t] \in FrameRows
      /\ encoded[tile[t]][row[t]] = Written(t) /\ mode = "rows" /\ row[t] < jobs[tile[t]]
      /\ col[t] < frame.width /\ col[t] \in Nat /\ row[t] \in Nat
      /\ tile[t] \in Cols /\ row[t] \in Rows /\ frame.width \in Nat \ {0}
      /\ \/ encoded[tile[t]][row[t]] = frame.width
         \/ curCol[tile[t]][row[t]] < encoded[tile[t]][row[t]]
  BY <1>1, WorkFacts
<1>3. encoded[tile[t]][row[t]] = col[t]
  BY <1>1, <1>2 DEF Written
<1>4. /\ encoded' = [encoded EXCEPT ![tile[t]][row[t]] = col[t] + 1]
      /\ pc' = [pc EXCEPT ![t] = "write"]
      /\ UNCHANGED <<frameVars, jobs, tile, scanVars>>
      /\ curCol' = curCol /\ col' = col /\ row' = row /\ tile' = tile
  <2>1. encoded' = [encoded EXCEPT ![tile[t]][row[t]] = encoded[tile[t]][row[t]] + 1]
    BY DEF EncodeSb
  <2> QED BY <1>3, <2>1 DEF EncodeSb, Goto, place
<1>5. /\ encoded' \in Counts /\ encoded'[tile[t]][row[t]] = col[t] + 1
      /\ \A c \in Cols, r \in Rows :
           c # tile[t] \/ r # row[t] => encoded'[c][r] = encoded[c][r]
  <2>1. encoded \in Counts /\ col[t] + 1 \in Int
    BY <1>2 DEF EncTypeOK
  <2> QED BY <1>2, <1>4, <2>1 DEF Counts
<1>6. UNCHANGED <<stream, numWorkers, frame, mode, tiles, tileRow, finished, scan, most, jobs>>
  BY <1>4 DEF frameVars, memory, scanVars
<1>7. EncTypeOK'
  BY <1>2, <1>4, <1>5, <1>6 DEF EncTypeOK, Busy
<1>8. CleanSlate'
  BY <1>1, <1>2, <1>4, <1>6 DEF CleanSlate, EncTypeOK, Busy
<1>9. \A u \in Workers \ {t} : row'[u] = row[u] /\ col'[u] = col[u] /\ pc'[u] = pc[u]
  BY <1>2, <1>4 DEF EncTypeOK
<1>10. pc'[t] = "write" /\ pc'[t] \in Busy
  BY <1>2, <1>4 DEF EncTypeOK, Busy
<1>11. FrameCols \subseteq Cols /\ FrameRows \subseteq Rows
  BY <1>2, FrameFacts
<1>12. encoded'[tile[t]][row[t]] >= encoded[tile[t]][row[t]]
  BY <1>2, <1>3, <1>5
<1>13. \A c \in FrameCols, r \in FrameRows : c # tile[t] \/ r # row[t] =>
         encoded'[c][r] = encoded[c][r] /\ curCol'[c][r] = curCol[c][r]
  BY <1>4, <1>5, <1>11
<1>14. curCol'[tile[t]][row[t]] < encoded'[tile[t]][row[t]]
  <2>1. curCol[tile[t]][row[t]] \in Int
    BY <1>2 DEF EncTypeOK, Counts
  <2> QED BY <1>2, <1>3, <1>4, <1>5, <2>1
<1>15. Taken(t)'
  <2>1. Written(t)' = col[t] + 1
    BY <1>4, <1>10 DEF Written
  <2>2. pc'[t] # "encode" /\ pc'[t] # "filter" /\ mode' # "arnr"
    BY <1>2, <1>6, <1>10
  <2>3. FrameCols' = FrameCols /\ FrameRows' = FrameRows
    BY <1>6 DEF FrameCols, FrameRows
  <2> QED BY <1>2, <1>4, <1>5, <1>6, <2>1, <2>2, <2>3 DEF Taken
<1>16. row'[t] = row[t]
  BY <1>4
<1> QED
  BY <1>1, <1>4, <1>7, <1>8, <1>9, <1>10, <1>12, <1>13, <1>14, <1>15, <1>16, WorkStep

\* What is published was encoded; the last column lets every other pass.
LEMMA SyncWriteInv ==
  ASSUME EncInv, NEW t \in Workers, SyncWrite(t)
  PROVE  EncInv'
<1>1. pc[t] = "write" /\ pc[t] \in Busy
  BY DEF SyncWrite, Busy
<1>2. /\ EncTypeOK /\ CleanSlate /\ tile[t] \in FrameCols /\ row[t] \in FrameRows
      /\ encoded[tile[t]][row[t]] = Written(t) /\ mode = "rows" /\ row[t] < jobs[tile[t]]
      /\ col[t] < frame.width /\ col[t] \in Nat /\ row[t] \in Nat /\ SyncOf(t) = tile[t]
      /\ tile[t] \in Cols /\ row[t] \in Rows /\ frame.width \in Nat \ {0}
  BY <1>1, WorkFacts
<1>3. encoded[tile[t]][row[t]] = col[t] + 1
  BY <1>1, <1>2 DEF Written
<1> DEFINE last == col[t] = frame.width - 1
           cur  == IF last THEN Past(frame.width) ELSE col[t]
<1>4. Signals(col[t])
  BY <1>2, EveryColumn DEF Signals
<1>5. PICK W \in SUBSET Workers :
        /\ \A u \in W : pc[u] = "asleep"
        /\ pc' = [u \in Workers |->
             IF u = t THEN IF last THEN "get" ELSE "read"
             ELSE IF u \in W THEN "read" ELSE pc[u]]
  <2>1. PICK W \in IF Signals(col[t]) /\ Sleepers(SyncOf(t), row[t]) # {}
                     THEN {{u} : u \in Sleepers(SyncOf(t), row[t])} ELSE {{}} :
          pc' = [u \in Workers |->
             IF u = t THEN IF last THEN "get" ELSE "read"
             ELSE IF u \in W THEN "read" ELSE pc[u]]
    BY DEF SyncWrite
  <2>2. W \subseteq Sleepers(SyncOf(t), row[t])
    OBVIOUS
  <2>3. W \in SUBSET Workers /\ \A u \in W : pc[u] = "asleep"
    BY <2>2 DEF Sleepers
  <2> QED BY <2>1, <2>3
<1>6. /\ curCol' = [curCol EXCEPT ![tile[t]][row[t]] = cur]
      /\ col' = [col EXCEPT ![t] = IF last THEN 0 ELSE @ + 1]
      /\ row' = [row EXCEPT ![t] = IF last THEN 0 ELSE @]
      /\ UNCHANGED <<frameVars, jobs, tile, scanVars>>
      /\ encoded' = encoded /\ tile' = tile
  BY <1>2, <1>4 DEF SyncWrite
<1>7. /\ curCol' \in Counts /\ curCol'[tile[t]][row[t]] = cur
      /\ \A c \in Cols, r \in Rows :
           c # tile[t] \/ r # row[t] => curCol'[c][r] = curCol[c][r]
  <2>1. curCol \in Counts /\ cur \in Int
    BY <1>2 DEF EncTypeOK, Past, SyncRange
  <2> HIDE DEF cur
  <2> QED BY <1>2, <1>6, <2>1 DEF Counts
<1>8. UNCHANGED <<stream, numWorkers, frame, mode, tiles, tileRow, finished, scan, most, jobs>>
  BY <1>6 DEF frameVars, memory, scanVars
<1>9. /\ pc'[t] = IF last THEN "get" ELSE "read"
      /\ col'[t] = IF last THEN 0 ELSE col[t] + 1
      /\ row'[t] = IF last THEN 0 ELSE row[t]
  BY <1>2, <1>5, <1>6 DEF EncTypeOK
<1>10. \A u \in Workers \ {t} :
         /\ row'[u] = row[u] /\ col'[u] = col[u]
         /\ pc'[u] = pc[u] \/ (pc[u] = "asleep" /\ pc'[u] = "read")
  BY <1>2, <1>5, <1>6 DEF EncTypeOK
<1>11. EncTypeOK'
  <2>1. pc' \in [Workers -> Busy \cup {"idle", "tile", "get", "status"}]
    BY <1>2, <1>5 DEF EncTypeOK, Busy
  <2>2. row' \in [Workers -> Nat] /\ col' \in [Workers -> Nat]
    BY <1>2, <1>6 DEF EncTypeOK
  <2> QED BY <1>2, <1>6, <1>7, <1>8, <2>1, <2>2 DEF EncTypeOK
<1>12. CleanSlate'
  <2> SUFFICES ASSUME NEW u \in Workers
               PROVE  /\ pc'[u] \notin Busy \ {"filter"} => col'[u] = 0
                      /\ pc'[u] # "status" => scan[u] = 0 /\ most[u] = NoJobs
    BY <1>8 DEF CleanSlate
  <2>1. CASE u = t
    BY <1>1, <1>2, <1>9, <2>1 DEF CleanSlate, Busy
  <2>2. CASE u # t
    BY <1>2, <1>10, <2>2 DEF CleanSlate, Busy
  <2> QED BY <2>1, <2>2
<1>13. FrameCols \subseteq Cols /\ FrameRows \subseteq Rows
  BY <1>2, FrameFacts
<1>14. encoded'[tile[t]][row[t]] >= encoded[tile[t]][row[t]]
  BY <1>2, <1>3, <1>6
<1>15. \A c \in FrameCols, r \in FrameRows : c # tile[t] \/ r # row[t] =>
         encoded'[c][r] = encoded[c][r] /\ curCol'[c][r] = curCol[c][r]
  BY <1>6, <1>7, <1>13
<1>16. CASE last
  <2>1. encoded'[tile[t]][row[t]] = frame.width
    BY <1>2, <1>3, <1>6, <1>16
  <2>2. pc'[t] = "get" /\ pc'[t] \notin Busy
    BY <1>9, <1>16 DEF Busy
  <2> QED
    BY <1>1, <1>6, <1>10, <1>11, <1>12, <1>14, <1>15, <2>1, <2>2, WorkStep
<1>17. CASE ~last
  <2>1. curCol'[tile[t]][row[t]] < encoded'[tile[t]][row[t]]
    BY <1>2, <1>3, <1>6, <1>7, <1>17
  <2>2. pc'[t] = "read" /\ pc'[t] \in Busy /\ row'[t] = row[t] /\ col'[t] = col[t] + 1
    BY <1>9, <1>17 DEF Busy
  <2>3. Taken(t)'
    <3>1. Written(t)' = col[t] + 1
      BY <1>2, <2>2 DEF Written
    <3>2. FrameCols' = FrameCols /\ FrameRows' = FrameRows
      BY <1>8 DEF FrameCols, FrameRows
    <3>3. col[t] + 1 < frame.width
      BY <1>2, <1>17
    <3> QED BY <1>2, <1>3, <1>6, <1>8, <2>2, <3>1, <3>2, <3>3 DEF Taken
  <2> HIDE DEF last
  <2> QED
    BY <1>1, <1>6, <1>10, <1>11, <1>12, <1>14, <1>15, <2>1, <2>2, <2>3, WorkStep
<1> QED
  BY <1>16, <1>17

-----------------------------------------------------------------------------
(* Whole tiles.                                                            *)

\* Several tile columns are those that were asked for, and then there is one
\* tile row.
LEMMA OneTileRow ==
  ASSUME ColumnsAsked, NEW s \in Streams, NEW f \in s.shapes, f.tileCols # 1,
         NEW g \in s.shapes
  PROVE  g.tileRows = 1
<1>1. s.tileColumns
  BY DEF ColumnsAsked
<1> QED
  BY <1>1, EncMtAssumption

\* A worker's tiles are num_workers apart: what it passes over falls to others.
LEMMA EncodeTileInv ==
  ASSUME EncInv, NEW t \in Workers, EncodeTile(t)
  PROVE  EncInv'
<1>1. EncTypeOK /\ CleanSlate /\ pc[t] = "tile"
  BY DEF EncInv, EncodeTile
<1>2. mode = "tiles"
  <2>1. mode # "none"
    BY <1>1 DEF EncInv, Idle, All
  <2>2. mode \notin {"rows", "arnr"}
    BY <1>1 DEF EncInv, JobsOK, Searching, Busy
  <2> QED BY <1>1, <2>1, <2>2 DEF EncTypeOK
<1>3. /\ \A u \in Workers : /\ pc[u] \in {"idle", "tile"}
                            /\ pc[u] = "tile" => /\ frame.tileRows = 1 /\ numWorkers > 0
                                                 /\ tile[u] % numWorkers = u
      /\ \A c \in FrameCols :
           \/ \A r \in FrameRows : encoded[c][r] = frame.width
           \/ \E u \in Workers : /\ pc[u] = "tile" /\ tile[u] <= c
                                 /\ c % numWorkers = u
  BY <1>2 DEF EncInv, TilesOK
<1>4. /\ UNCHANGED <<stream, numWorkers, frame, mode, tiles, alloc, vertSbs, sync, tileRow>>
      /\ UNCHANGED <<curCol, jobs, row, col, finished, scan, most>>
  BY DEF EncodeTile, frameVars, memory, scanVars
<1>5. FrameCols' = FrameCols /\ FrameRows' = FrameRows
  BY <1>4 DEF FrameCols, FrameRows
<1>6. PICK w \in Nat \ {0} : w = numWorkers
  BY <1>1, <1>3 DEF EncTypeOK
<1>7. PICK k \in Nat \ {0} : k = frame.tileCols
  BY <1>1, FrameFacts
<1>8. PICK x \in Nat : x = tile[t]
  BY <1>1 DEF EncTypeOK
<1>9. NumTiles(frame) = k /\ FrameCols = 0 .. k - 1 /\ x % w = t
  BY <1>1, <1>3, <1>6, <1>7, <1>8 DEF NumTiles, FrameCols
<1>10. MemoryOK' /\ OwnSync' /\ JobsOK' /\ mode' # "none"
  BY <1>2, <1>4 DEF EncInv, MemoryOK, AllocatedFor, OwnSync, JobsOK
<1>11. CASE x < k
  <2> DEFINE full == [r \in Rows |-> IF r \in TileRowsOf(frame, 0) THEN frame.width
                                     ELSE encoded[x][r]]
  <2>1. x % k = x /\ x \div k = 0
    BY <1>11, ModSmall, DivSmall
  <2>2. /\ encoded' = [encoded EXCEPT ![x] = full]
        /\ tile' = [tile EXCEPT ![t] = x + w] /\ pc' = pc
    BY <1>6, <1>7, <1>8, <1>9, <1>11, <2>1, ZenonT(30) DEF EncodeTile
  <2>3. x \in FrameCols /\ FrameCols \subseteq Cols /\ FrameRows \subseteq Rows /\ x \in Cols
    BY <1>1, <1>9, <1>11, FrameFacts
  <2>4. full \in [Rows -> Int] /\ \A r \in FrameRows : full[r] = frame.width
    <3>1. TileRowStart(frame, 0) = 0 /\ TileRowStart(frame, 1) = frame.sbRows
      BY <1>1, <1>3, FrameFacts, TileStarts
    <3>2. \A r \in FrameRows : r \in TileRowsOf(frame, 0)
      BY <1>1, <2>3, <3>1, FrameFacts DEF TileRowsOf, FrameRows
    <3>3. encoded[x] \in [Rows -> Int] /\ frame.width \in Int
      BY <1>1, <2>3, FrameFacts DEF EncTypeOK, Counts
    <3> QED BY <2>3, <3>2, <3>3
  <2> HIDE DEF full
  <2>5. /\ encoded' \in Counts /\ encoded'[x] = full
        /\ \A c \in Cols : c # x => encoded'[c] = encoded[c]
    BY <1>1, <2>2, <2>3, <2>4 DEF EncTypeOK, Counts
  <2>6. EncTypeOK'
    BY <1>1, <1>4, <2>2, <2>5 DEF EncTypeOK
  <2>7. CleanSlate'
    BY <1>1, <1>4, <2>2 DEF CleanSlate
  <2>8. tile'[t] = x + w /\ \A u \in Workers : u # t => tile'[u] = tile[u]
    BY <1>1, <2>2 DEF EncTypeOK
  <2>9. (x + w) % w = t
    BY <1>9, ModAdd
  <2>10. \A u \in Workers : /\ pc'[u] \in {"idle", "tile"}
                            /\ pc'[u] = "tile" => /\ frame.tileRows = 1 /\ numWorkers > 0
                                                  /\ tile'[u] % numWorkers = u
    BY <1>3, <1>6, <2>2, <2>8, <2>9
  <2>11. ASSUME NEW c \in FrameCols
         PROVE  \/ \A r \in FrameRows : encoded'[c][r] = frame.width
                \/ \E u \in Workers : /\ pc'[u] = "tile" /\ tile'[u] <= c
                                      /\ c % numWorkers = u
    <3>1. CASE c = x
      BY <2>4, <2>5, <3>1
    <3>2. CASE c # x
      <4>1. encoded'[c] = encoded[c] /\ c \in Nat
        BY <1>9, <2>3, <2>5, <3>2
      <4>2. CASE \A r \in FrameRows : encoded[c][r] = frame.width
        BY <4>1, <4>2
      <4>3. CASE \E u \in Workers : pc[u] = "tile" /\ tile[u] <= c /\ c % numWorkers = u
        <5>1. PICK u \in Workers : pc[u] = "tile" /\ tile[u] <= c /\ c % w = u
          BY <1>6, <4>3
        <5>2. tile'[u] <= c
          <6>1. CASE u = t
            <7>1. x < c
              BY <1>8, <3>2, <4>1, <5>1, <6>1
            <7>2. ~(c < x + w)
              BY <1>9, <4>1, <5>1, <6>1, <7>1, ModGap
            <7> QED BY <2>8, <4>1, <6>1, <7>2
          <6> QED BY <2>8, <5>1, <6>1
        <5> QED BY <1>6, <2>2, <5>1, <5>2
      <4> QED BY <1>3, <4>2, <4>3
    <3> QED BY <3>1, <3>2
  <2>12. TilesOK'
    BY <1>4, <1>5, <2>10, <2>11 DEF TilesOK
  <2> QED
    BY <1>10, <2>6, <2>7, <2>12 DEF EncInv, ColumnsAsked
<1>12. CASE ~(x < k)
  <2>1. /\ pc' = [pc EXCEPT ![t] = "idle"] /\ tile' = [tile EXCEPT ![t] = 0]
        /\ encoded' = encoded
    BY <1>8, <1>9, <1>12 DEF EncodeTile, Goto
  <2>2. EncTypeOK'
    BY <1>1, <1>4, <2>1 DEF EncTypeOK
  <2>3. CleanSlate'
    BY <1>1, <1>4, <2>1 DEF CleanSlate, EncTypeOK, Busy
  <2>4. /\ pc'[t] = "idle"
        /\ \A u \in Workers : u # t => pc'[u] = pc[u] /\ tile'[u] = tile[u]
    BY <1>1, <2>1 DEF EncTypeOK
  <2>5. \A c \in FrameCols : ~(tile[t] <= c)
    BY <1>8, <1>9, <1>12
  <2>6. TilesOK'
    <3>1. \A u \in Workers : /\ pc'[u] \in {"idle", "tile"}
                             /\ pc'[u] = "tile" => /\ frame.tileRows = 1 /\ numWorkers > 0
                                                   /\ tile'[u] % numWorkers = u
      BY <1>3, <2>4
    <3>2. \A c \in FrameCols :
            \/ \A r \in FrameRows : encoded'[c][r] = frame.width
            \/ \E u \in Workers : /\ pc'[u] = "tile" /\ tile'[u] <= c
                                  /\ c % numWorkers = u
      BY <1>3, <2>1, <2>4, <2>5
    <3> QED BY <1>4, <1>5, <3>1, <3>2 DEF TilesOK
  <2> QED
    BY <1>10, <2>2, <2>3, <2>6 DEF EncInv, ColumnsAsked
<1> QED
  BY <1>11, <1>12

-----------------------------------------------------------------------------
(* A frame begins.                                                         *)

\* vp9_init_tile_data() keeps the memory for the row jobs or gives it back.
LEMMA TileDataMemory ==
  ASSUME EncTypeOK, MemoryOK, NEW f \in stream.shapes, TileData(f), stream' = stream
  PROVE  MemoryOK' /\ tiles' \in Nat
<1>1. tiles' \in Nat
  <2>1. PICK a \in Nat : a = tiles
    BY DEF EncTypeOK
  <2>2. PICK b \in Nat : b = NumTiles(f)
    BY FrameFacts, ShapeFacts
  <2>3. Max({a, b}) \in {a, b}
    BY MaxOfTwo
  <2> QED BY <2>1, <2>2, <2>3 DEF TileData
<1>2. alloc' = NoMemory \/ UNCHANGED <<alloc, sync, vertSbs>>
  BY DEF TileData, MemDealloc
<1> QED
  BY <1>1, <1>2 DEF MemoryOK, AllocatedFor

\* get_max_tile_cols() of the stream.
LEMMA MaxTileColsBound ==
  ASSUME EncTypeOK, NEW f \in stream.shapes
  PROVE  MaxTileCols \in Nat /\ f.tileCols <= MaxTileCols
<1> DEFINE g == [x \in stream.shapes |-> x.tileCols]
<1>1. IsFiniteSet(stream.shapes)
  BY EncMtAssumption, FrameFacts, FS_Subset
<1>2. g \in [stream.shapes -> Nat]
  BY FrameFacts, ShapeFacts
<1>3. MaxTileCols = Max({g[x] : x \in stream.shapes}) /\ g[f] = f.tileCols
  <2>1. {g[x] : x \in stream.shapes} = {x.tileCols : x \in stream.shapes}
    OBVIOUS
  <2> QED BY <2>1 DEF MaxTileCols
<1> HIDE DEF g
<1>4. Max({g[x] : x \in stream.shapes}) \in Nat /\ g[f] <= Max({g[x] : x \in stream.shapes})
  BY <1>1, <1>2, MaxBound
<1> QED
  BY <1>3, <1>4

\* The tile columns are dealt out among the launched workers, also when SVC has
\* created more of them.
LEMMA StartTilesInv ==
  ASSUME EncInv, NEW f \in stream.shapes, StartTiles(f)
  PROVE  EncInv'
<1>1. EncTypeOK /\ CleanSlate /\ MemoryOK /\ Idle
  BY DEF EncInv, StartTiles
<1>2. f \in Shapes /\ stream \in Streams
  BY <1>1, FrameFacts
<1>3. PICK k \in Nat \ {0} : k = f.tileCols
  BY <1>2, ShapeFacts
<1>4. PICK m \in Nat \ {0} : m = MaxThreads
  BY EncMtAssumption
<1>5. PICK n : n = Fewer(m, k)
  OBVIOUS
<1>6. n \in {m, k} /\ n <= m /\ n <= k
  BY <1>5, MinOfTwo
<1>7. /\ n > 1 /\ TileData(f) /\ numWorkers' = EncWorkers(n)
      /\ frame' = f /\ mode' = "tiles" /\ encoded' = Nothing
      /\ pc' = [t \in Workers |-> IF t < n THEN "tile" ELSE "idle"]
      /\ tile' = [t \in Workers |-> t]
      /\ UNCHANGED <<stream, tileRow, curCol, jobs, row, col, finished, scan, most>>
  BY <1>3, <1>4, <1>5 DEF StartTiles, Launch, scanVars
<1>8. f.tileRows = 1
  BY <1>2, <1>3, <1>6, <1>7, OneTileRow DEF EncInv
<1>9. PICK w \in Nat \ {0} : /\ w = numWorkers' /\ w >= n
                             /\ \A c \in 0 .. k - 1 : c % w < n
  <2>1. PICK x \in Nat : x = MaxTileCols /\ k <= x
    BY <1>1, <1>3, MaxTileColsBound
  <2>2. PICK y : y = Fewer(m, x)
    OBVIOUS
  <2>3. y \in {m, x} /\ y <= m /\ y <= x
    BY <2>2, MinOfTwo
  <2>4. numWorkers' \in {n, y}
    BY <1>4, <1>7, <2>1, <2>2 DEF EncWorkers
  <2>5. PICK w \in {n, y} : w = numWorkers'
    BY <2>4
  <2>6. w \in Nat \ {0} /\ w >= n
    BY <1>6, <1>7, <2>1, <2>3
  <2>7. ASSUME NEW c \in 0 .. k - 1 PROVE c % w < n
    <3>1. c % w \in 0 .. w - 1
      BY <2>6
    <3>2. CASE c < w
      <4>1. c % w = c
        BY <2>6, <3>2, ModSmall
      <4>2. n = k \/ w <= n
        BY <1>6, <2>1, <2>3
      <4> QED BY <1>6, <3>2, <4>1, <4>2
    <3>3. CASE ~(c < w)
      BY <1>6, <2>1, <2>3, <2>6, <3>1, <3>3
    <3> QED BY <3>2, <3>3
  <2> QED BY <2>5, <2>6, <2>7
<1>19. w \in Nat \ {0} /\ n \in Nat /\ n <= w
  BY <1>6, <1>9
<1>10. MemoryOK' /\ tiles' \in Nat
  BY <1>1, <1>7, TileDataMemory
<1>11. Workers \subseteq Nat /\ Workers = 0 .. m - 1
  BY <1>4 DEF Workers
<1>12. EncTypeOK'
  <2>1. Nothing \in Counts
    BY DEF Nothing, Counts
  <2>2. pc' \in [Workers -> Busy \cup {"idle", "tile", "get", "status"}]
    BY <1>7
  <2>3. tile' \in [Workers -> Nat]
    BY <1>7, <1>11
  <2> QED BY <1>1, <1>7, <1>9, <1>10, <2>1, <2>2, <2>3 DEF EncTypeOK
<1>13. CleanSlate'
  BY <1>1, <1>7 DEF CleanSlate, Idle, All, Busy
<1>14. OwnSync' /\ JobsOK' /\ mode' # "none"
  BY <1>7 DEF OwnSync, JobsOK
<1>15. FrameCols' = 0 .. k - 1
  BY <1>3, <1>7 DEF FrameCols
<1>16. \A t \in Workers :
         /\ pc'[t] \in {"idle", "tile"}
         /\ pc'[t] = "tile" => f.tileRows = 1 /\ w > 0 /\ tile'[t] % w = t
  <2> SUFFICES ASSUME NEW t \in Workers, t < n PROVE t % w = t
    BY <1>7, <1>8, <1>9
  <2>1. t \in 0 .. w - 1
    BY <1>11, <1>19
  <2> QED BY <1>19, <2>1, ModSmall
<1>17. \A c \in 0 .. k - 1 : \E t \in Workers : pc'[t] = "tile" /\ tile'[t] <= c /\ c % w = t
  <2> SUFFICES ASSUME NEW c \in 0 .. k - 1
               PROVE  \E t \in Workers : pc'[t] = "tile" /\ tile'[t] <= c /\ c % w = t
    OBVIOUS
  <2>0. c % w < n
    BY <1>9
  <2>1. c % w \in Nat /\ c % w < n
    BY <1>19, <2>0
  <2>2. c % w \in Workers
    BY <1>6, <1>11, <2>1
  <2>3. c % w <= c
    <3>1. CASE c < w
      BY <1>19, <3>1, ModSmall
    <3>2. CASE ~(c < w)
      BY <1>19, <2>1, <3>2
    <3> QED BY <3>1, <3>2
  <2>4. pc'[c % w] = "tile" /\ tile'[c % w] = c % w
    BY <1>7, <2>1, <2>2
  <2> QED BY <2>2, <2>3, <2>4
<1>18. TilesOK'
  BY <1>7, <1>9, <1>15, <1>16, <1>17 DEF TilesOK
<1> QED
  BY <1>10, <1>12, <1>13, <1>14, <1>18 DEF EncInv, ColumnsAsked

\* One tile column is encoded by the caller.
LEMMA EncodeTilesInv ==
  ASSUME EncInv, NEW f \in stream.shapes, EncodeTiles(f)
  PROVE  EncInv'
<1>1. EncTypeOK /\ CleanSlate /\ MemoryOK /\ Idle
  BY DEF EncInv, EncodeTiles
<1>2. /\ TileData(f) /\ frame' = f /\ mode' = "tiles"
      /\ encoded' = [c \in Cols |-> [r \in Rows |->
           IF c < f.tileCols /\ r < f.sbRows THEN f.width ELSE 0]]
      /\ UNCHANGED <<stream, numWorkers, tileRow, curCol, jobs, pc, tile, row, col,
                     finished, scan, most>>
  BY DEF EncodeTiles, place, scanVars
<1>3. /\ f.width \in Nat \ {0} /\ f.tileCols \in Nat /\ f.sbRows \in Nat
      /\ 0 .. f.tileCols - 1 \subseteq Cols /\ 0 .. f.sbRows - 1 \subseteq Rows
  BY <1>1, FrameFacts, ShapeFacts
<1>4. MemoryOK' /\ tiles' \in Nat
  BY <1>1, <1>2, TileDataMemory
<1>5. EncTypeOK'
  <2>1. encoded' \in Counts
    BY <1>2, <1>3 DEF Counts
  <2> QED BY <1>1, <1>2, <1>4, <2>1 DEF EncTypeOK
<1>6. CleanSlate' /\ OwnSync' /\ JobsOK' /\ mode' # "none"
  BY <1>1, <1>2 DEF CleanSlate, OwnSync, JobsOK
<1>7. TilesOK'
  <2>1. \A t \in Workers : pc'[t] = "idle"
    BY <1>1, <1>2 DEF Idle, All
  <2>2. \A c \in FrameCols', r \in FrameRows' : encoded'[c][r] = f.width
    BY <1>2, <1>3 DEF FrameCols, FrameRows
  <2> QED BY <1>2, <2>1, <2>2 DEF TilesOK
<1> QED
  BY <1>4, <1>5, <1>6, <1>7 DEF EncInv, ColumnsAsked

\* The memory for the row jobs is that of a shape with as many tile columns,
\* tile rows and superblock rows at least: what TooSmall() asks.
LEMMA StartRowsMemory ==
  ASSUME EncInv, NEW f \in stream.shapes, NEW m, NEW garbage, StartRows(f, m, garbage)
  PROVE  \E g \in stream.shapes :
           /\ AllocatedFor(g)'
           /\ f.tileCols <= g.tileCols /\ f.tileRows <= g.tileRows /\ f.sbRows <= g.sbRows
<1>1. EncTypeOK /\ MemoryOK
  BY DEF EncInv
<1>2. \A g \in stream.shapes : /\ g.tileCols \in Nat \ {0} /\ g.tileRows \in Nat
                               /\ g.sbRows \in Nat
  BY <1>1, FrameFacts, ShapeFacts
<1>3. CASE TooSmall(f)
  BY <1>2, <1>3 DEF StartRows, MemAlloc, AllocatedFor
<1>4. CASE ~TooSmall(f)
  <2>1. UNCHANGED <<alloc, sync, vertSbs>>
    BY <1>4 DEF StartRows
  <2>2. alloc # NoMemory
    BY <1>2, <1>4 DEF TooSmall, NoMemory
  <2>3. PICK g \in stream.shapes : AllocatedFor(g)
    BY <1>1, <2>2 DEF MemoryOK
  <2>4. AllocatedFor(g)'
    BY <2>1, <2>3 DEF AllocatedFor
  <2>5. alloc.cols = g.tileCols /\ alloc.rows = g.tileRows /\ alloc.vert = g.sbRows
    BY <2>3 DEF AllocatedFor
  <2> QED BY <1>2, <1>4, <2>4, <2>5 DEF TooSmall
<1> QED
  BY <1>3, <1>4

\* Every row of the frame finds the synchronisation of its own tile column.
LEMMA StartRowsSync ==
  ASSUME EncInv, NEW f \in stream.shapes, NEW garbage, StartRows(f, "rows", garbage)
  PROVE  /\ tileRow' \in [Rows -> Nat]
         /\ \A c \in 0 .. f.tileCols - 1 : sync'[c] = c
         /\ \A c \in 0 .. f.tileCols - 1, r \in 0 .. f.sbRows - 1 :
              sync'[tileRow'[r] * f.tileCols + c] = c
<1>1. EncTypeOK /\ ColumnsAsked
  BY DEF EncInv
<1>2. PICK g \in stream.shapes :
        /\ AllocatedFor(g)'
        /\ f.tileCols <= g.tileCols /\ f.tileRows <= g.tileRows /\ f.sbRows <= g.sbRows
  BY StartRowsMemory
<1>3. f \in Shapes /\ g \in Shapes /\ stream \in Streams
  BY <1>1, FrameFacts
<1>4. PICK k \in Nat \ {0} : k = f.tileCols
  BY <1>3, ShapeFacts
<1>5. PICK j \in Nat \ {0} : j = g.tileCols
  BY <1>3, ShapeFacts
<1>6. PICK n \in Nat \ {0} : n = g.tileRows
  BY <1>3, ShapeFacts
<1>7. f.sbRows \in Nat /\ g.sbRows \in Nat
  BY <1>3, ShapeFacts
<1>8. /\ NumTiles(g) = j * n /\ 0 .. j * n - 1 \subseteq Tiles
      /\ sync' = [i \in Tiles |-> IF i < j * n THEN i % j ELSE None]
      /\ vertSbs' = [r \in Rows |-> IF r < g.tileRows THEN VertUnits(g, r) ELSE 0]
  BY <1>2, <1>3, <1>5, <1>6, ShapeFacts DEF AllocatedFor, NumTiles
<1>9. tileRow' = TileIds(vertSbs')
  BY DEF StartRows
<1>10. /\ tileRow' \in [Rows -> Nat]
       /\ \A r \in 0 .. g.sbRows - 1 : tileRow'[r] \in 0 .. n - 1
  BY <1>3, <1>6, <1>8, <1>9, TileIdsBelow
<1>11. j <= j * n /\ j * n \in Nat
  <2>1. j * 0 + j <= j * n
    BY MulGap
  <2> QED BY <2>1
<1>12. ASSUME NEW c \in 0 .. k - 1 PROVE sync'[c] = c
  <2>1. c \in 0 .. j - 1 /\ c \in Tiles /\ c < j * n
    BY <1>2, <1>4, <1>5, <1>8, <1>11
  <2> QED BY <1>8, <2>1, ModSmall
<1>13. ASSUME NEW c \in 0 .. k - 1, NEW r \in 0 .. f.sbRows - 1
       PROVE  sync'[tileRow'[r] * k + c] = c
  <2>1. PICK i \in 0 .. n - 1 : i = tileRow'[r]
    BY <1>2, <1>7, <1>10
  <2>2. CASE k = 1 /\ j = 1
    <3>1. i * k + c = i /\ c = 0 /\ j * n = n
      BY <2>2
    <3>2. i \in Tiles /\ i < n /\ sync'[i] = i % 1
      BY <1>8, <2>2, <3>1
    <3>3. i % 1 \in 0 .. 0
      OBVIOUS
    <3> QED BY <2>1, <3>1, <3>2, <3>3
  <2>3. CASE ~(k = 1 /\ j = 1)
    <3>1. n = 1
      BY <1>1, <1>3, <1>4, <1>5, <1>6, <2>3, OneTileRow
    <3>2. i * k + c = c
      BY <3>1
    <3> QED BY <1>12, <2>1, <3>2
  <2> QED BY <2>2, <2>3
<1> QED
  BY <1>4, <1>10, <1>12, <1>13

\* The jobs of all rows are queued, and cur_col of the columns is reset, in new
\* memory and in memory that is kept.
LEMMA StartRowsInv ==
  ASSUME EncInv, NEW f \in stream.shapes, NEW m \in {"rows", "arnr"},
         NEW garbage \in {-1, Past(f.width)}, StartRows(f, m, garbage)
  PROVE  EncInv'
<1>1. EncTypeOK /\ CleanSlate /\ Idle
  BY DEF EncInv, StartRows
<1>2. f \in Shapes
  BY <1>1, FrameFacts
<1>3. /\ frame' = f /\ mode' = m /\ encoded' = Nothing /\ jobs' = [c \in Cols |-> 0]
      /\ numWorkers' = IF m = "rows" THEN MaxThreads ELSE Max({numWorkers, 1})
      /\ pc' = [t \in Workers |-> IF t < numWorkers' THEN "get" ELSE "idle"]
      /\ tile' = [t \in Workers |-> t % f.tileCols] /\ finished' = [t \in Workers |-> {}]
      /\ tiles' = Max({tiles, NumTiles(f)})
      /\ UNCHANGED <<stream, row, col, scan, most>>
  BY DEF StartRows, Launch, FirstTile, All
<1>4. PICK k \in Nat \ {0} : k = f.tileCols
  BY <1>2, ShapeFacts
<1>5. PICK n \in Nat : n = f.sbRows
  BY <1>2, ShapeFacts
<1>6. FrameCols' = 0 .. k - 1 /\ FrameRows' = 0 .. n - 1
  BY <1>3, <1>4, <1>5 DEF FrameCols, FrameRows
<1>7. 0 .. k - 1 \subseteq Cols /\ 0 .. n - 1 \subseteq Rows
  BY <1>2, <1>4, <1>5, ShapeFacts
<1>8. PICK w \in Nat \ {0} : w = numWorkers'
  <2>1. PICK a \in Nat : a = numWorkers
    BY <1>1 DEF EncTypeOK
  <2>2. Max({a, 1}) \in Nat \ {0}
    <3>1. Max({a, 1}) \in {a, 1} /\ Max({a, 1}) >= 1
      <4>1. a \in Int /\ 1 \in Int
        OBVIOUS
      <4> QED BY <4>1, MaxOfTwo
    <3> QED BY <3>1
  <2> QED BY <1>3, <2>1, <2>2, EncMtAssumption
<1>9. tiles' \in Nat
  <2>1. PICK a \in Nat : a = tiles
    BY <1>1 DEF EncTypeOK
  <2>2. PICK b \in Nat : b = NumTiles(f)
    BY <1>2, ShapeFacts
  <2>3. Max({a, b}) \in {a, b}
    BY MaxOfTwo, SMTT(30)
  <2> QED BY <1>3, <2>1, <2>2, <2>3
<1>10. MemoryOK'
  BY <1>3, StartRowsMemory DEF MemoryOK
<1>11. tileRow' \in [Rows -> Nat]
  <2>1. CASE m = "rows"
    BY <2>1, StartRowsSync
  <2>2. CASE m = "arnr"
    BY <2>2 DEF StartRows
  <2> QED BY <2>1, <2>2
<1>12. OwnSync'
  <2> SUFFICES ASSUME m = "rows" PROVE OwnSync'
    BY <1>3 DEF OwnSync
  <2>1. \A c \in 0 .. f.tileCols - 1, r \in 0 .. f.sbRows - 1 :
          sync'[tileRow'[r] * f.tileCols + c] = c
    BY StartRowsSync
  <2> QED BY <1>3, <2>1 DEF OwnSync, FrameCols, FrameRows
<1> DEFINE cur == IF TooSmall(f) THEN [c \in Cols |-> [r \in Rows |-> garbage]] ELSE curCol
<1>13. curCol' = IF m = "rows" THEN CurColInit(f, cur, sync') ELSE cur
  BY DEF StartRows
<1>14. cur \in Counts
  <2>1. garbage \in Int
    BY <1>2, ShapeFacts DEF Past, SyncRange
  <2> QED BY <1>1, <2>1 DEF Counts, EncTypeOK
<1> HIDE DEF cur
<1>15. curCol' \in Counts
  BY <1>13, <1>14 DEF CurColInit, Counts
<1>16. Workers \subseteq Nat
  BY EncMtAssumption DEF Workers
<1>17. \A t \in Workers : tile'[t] \in 0 .. k - 1
  <2>1. \A t \in Nat : t % k \in 0 .. k - 1
    OBVIOUS
  <2> QED BY <1>3, <1>4, <1>16, <2>1
<1>18. EncTypeOK'
  <2>1. Nothing \in Counts
    BY DEF Nothing, Counts
  <2>2. pc' \in [Workers -> Busy \cup {"idle", "tile", "get", "status"}]
    BY <1>3
  <2>3. tile' \in [Workers -> Nat]
    BY <1>3, <1>17
  <2>4. jobs' \in [Cols -> Nat] /\ finished' \in [Workers -> SUBSET Nat]
    BY <1>3
  <2> QED
    BY <1>1, <1>3, <1>8, <1>9, <1>11, <1>15, <2>1, <2>2, <2>3, <2>4 DEF EncTypeOK
<1>19. CleanSlate'
  BY <1>1, <1>3 DEF CleanSlate, Idle, All, Busy
<1>20. \A t \in Workers : /\ pc'[t] \in {"get", "idle"} /\ pc'[t] \notin Busy
                          /\ pc'[t] = "idle" => ~(t < w)
  BY <1>3, <1>8 DEF Busy
<1>21. \A t \in Workers : Taken(t)' /\ Searching(t)'
  <2>1. \A t \in Workers : Taken(t)'
    BY <1>20 DEF Taken
  <2>2. \A t \in Workers : finished'[t] = {}
    BY <1>3
  <2>3. \A t \in Workers : Searching(t)'
    BY <1>6, <1>8, <1>17, <1>20, <2>2 DEF Searching
  <2> QED BY <2>1, <2>3
<1>22. Apart'
  BY <1>20 DEF Apart
<1>23. RowsOK'
  <2> SUFFICES ASSUME NEW c \in 0 .. k - 1, NEW r \in 0 .. n - 1
               PROVE  /\ r >= jobs'[c] => encoded'[c][r] = 0
                      /\ ~(r < jobs'[c])
                      /\ m = "rows" => curCol'[c][r] < encoded'[c][r]
    BY <1>3, <1>6 DEF RowsOK
  <2>1. c \in Cols /\ r \in Rows
    BY <1>7
  <2>2. jobs'[c] = 0 /\ encoded'[c][r] = 0
    BY <1>3, <2>1 DEF Nothing
  <2>3. m = "rows" => curCol'[c][r] = -1
    <3> SUFFICES ASSUME m = "rows" PROVE curCol'[c][r] = -1
      OBVIOUS
    <3>1. sync'[c] = c
      BY <1>4, StartRowsSync
    <3>2. r < f.sbRows /\ \E i \in 0 .. f.tileCols - 1 : sync'[i] = c
      BY <1>4, <1>5, <3>1
    <3> QED BY <1>13, <2>1, <3>2 DEF CurColInit
  <2> QED BY <2>2, <2>3
<1>24. JobsOK'
  <2>1. \A c \in FrameCols' : jobs'[c] <= frame'.sbRows
    BY <1>3, <1>5, <1>6, <1>7
  <2> QED BY <1>8, <1>21, <1>22, <1>23, <2>1 DEF JobsOK
<1>25. TilesOK' /\ mode' # "none"
  BY <1>3 DEF TilesOK
<1> QED
  BY <1>10, <1>12, <1>18, <1>19, <1>24, <1>25 DEF EncInv, ColumnsAsked

-----------------------------------------------------------------------------
(* The theorems about the encoder's workers.                               *)

\* The invariant holds before the first frame.
LEMMA EncInitInv == EncInit /\ ColumnsAsked => EncInv
<1> SUFFICES ASSUME EncInit, ColumnsAsked PROVE EncInv
  OBVIOUS
<1>1. EncTypeOK
  <2>1. Nothing \in Counts
    BY DEF Nothing, Counts
  <2>2. NoJobs \in [tile : Int, jobs : Int]
    BY DEF NoJobs, None
  <2> QED BY <2>1, <2>2 DEF EncInit, EncTypeOK, All
<1>2. MemoryOK /\ OwnSync /\ JobsOK /\ TilesOK /\ Idle
  BY DEF EncInit, MemoryOK, OwnSync, JobsOK, TilesOK, Idle
<1>3. CleanSlate
  BY DEF EncInit, CleanSlate, All
<1> QED
  BY <1>1, <1>2, <1>3 DEF EncInv

\* Every step preserves it.
LEMMA EncNextInv == EncInv /\ [EncNext]_encVars => EncInv'
<1> SUFFICES ASSUME EncInv, [EncNext]_encVars PROVE EncInv'
  OBVIOUS
<1>1. ASSUME NEW f \in stream.shapes, StartTiles(f) PROVE EncInv'
  BY <1>1, StartTilesInv
<1>2. ASSUME NEW f \in stream.shapes, EncodeTiles(f) PROVE EncInv'
  BY <1>2, EncodeTilesInv
<1>3. ASSUME NEW f \in stream.shapes, NEW m \in {"rows", "arnr"},
             NEW garbage \in {-1, Past(f.width)}, StartRows(f, m, garbage)
      PROVE  EncInv'
  BY <1>3, StartRowsInv
<1>4. ASSUME NEW t \in Workers, WorkerStep(t) PROVE EncInv'
  BY <1>4, EncodeTileInv, GetNextJobInv, TileStatusInv, NextTileInv, FilterRowInv,
     SyncReadInv, EncodeSbInv, SyncWriteInv DEF WorkerStep
<1>5. CASE UNCHANGED encVars
  <2>1. /\ UNCHANGED <<stream, numWorkers, frame, mode, tiles, alloc, vertSbs, sync, tileRow>>
        /\ UNCHANGED <<curCol, jobs, pc, tile, row, col, finished, scan, most, encoded>>
    BY <1>5 DEF encVars, frameVars, memory, place, scanVars
  <2>2. EncTypeOK' /\ CleanSlate' /\ MemoryOK' /\ OwnSync'
    BY <2>1 DEF EncInv, EncTypeOK, CleanSlate, MemoryOK, AllocatedFor, OwnSync, FrameCols,
       FrameRows
  <2>3. JobsOK'
    BY <2>1 DEF EncInv, JobsOK, Taken, Searching, Apart, RowsOK, Has, Emptied, Written,
       EncodedAbove, FrameCols, FrameRows
  <2>4. TilesOK' /\ (mode' = "none" => Idle')
    BY <2>1 DEF EncInv, TilesOK, FrameCols, FrameRows, Idle
  <2> QED BY <2>2, <2>3, <2>4 DEF EncInv, ColumnsAsked
<1> QED
  BY <1>1, <1>2, <1>3, <1>4, <1>5 DEF EncNext, Start

\* The inductive invariant, for every stream that asks for its tile columns and
\* any number of threads.
THEOREM EncoderInvariance == EncSpec /\ ColumnsAsked => []EncInv
<1>1. EncInit /\ ColumnsAsked => EncInv
  BY EncInitInv
<1>2. EncInv /\ [EncNext]_encVars => EncInv'
  BY EncNextInv
<1> QED
  BY <1>1, <1>2, PTL DEF EncSpec

\* A superblock is encoded after the one above it: a row never overtakes the one
\* above in vp9_row_mt_sync_read(), whatever memory is reused for a smaller frame.
THEOREM AboveFirst == EncSpec /\ ColumnsAsked => []AboveEncoded
<1>1. EncInv => AboveEncoded
  <2> SUFFICES ASSUME EncInv, NEW t \in Workers
               PROVE  /\ pc[t] = "encode" => EncodedAbove(tile[t], row[t], col[t] + 1)
                      /\ pc[t] = "tile" /\ tile[t] < NumTiles(frame) =>
                           EncodedAbove(tile[t] % frame.tileCols,
                             TileRowStart(frame, tile[t] \div frame.tileCols), frame.width)
    BY DEF AboveEncoded
  <2>1. pc[t] = "encode" => EncodedAbove(tile[t], row[t], col[t] + 1)
    <3> SUFFICES ASSUME pc[t] = "encode" PROVE EncodedAbove(tile[t], row[t], col[t] + 1)
      OBVIOUS
    <3> QED BY WorkFacts DEF Busy
  <2>2. ASSUME pc[t] = "tile", tile[t] < NumTiles(frame)
        PROVE  TileRowStart(frame, tile[t] \div frame.tileCols) = 0
    <3>1. EncTypeOK /\ mode # "none"
      BY <2>2 DEF EncInv, Idle, All
    <3>2. mode = "tiles"
      <4>1. mode \notin {"rows", "arnr"}
        BY <2>2 DEF EncInv, JobsOK, Searching, Busy
      <4> QED BY <3>1, <4>1 DEF EncTypeOK
    <3>3. frame.tileRows = 1
      BY <2>2, <3>2 DEF EncInv, TilesOK
    <3>4. PICK k \in Nat \ {0} : k = frame.tileCols
      BY <3>1, FrameFacts
    <3>5. PICK x \in Nat : x = tile[t]
      BY <3>1 DEF EncTypeOK
    <3>6. x < k
      BY <2>2, <3>3, <3>4, <3>5 DEF NumTiles
    <3>7. x \div k = 0
      BY <3>6, DivSmall
    <3> QED BY <3>1, <3>4, <3>5, <3>7, FrameFacts, TileStarts
  <2> QED BY <2>1, <2>2 DEF EncodedAbove
<1> QED
  BY <1>1, EncoderInvariance, PTL

\* When the workers of a frame have ended, every superblock of it was encoded, and
\* once.
THEOREM WholeFrameOnce == EncSpec /\ ColumnsAsked => []EveryRowOnce
<1>1. EncInv => EveryRowOnce
  <2> SUFFICES ASSUME EncInv, Idle, mode # "none", NEW c \in FrameCols, NEW r \in FrameRows
               PROVE  encoded[c][r] = frame.width
    BY DEF EveryRowOnce, FrameCols, FrameRows
  <2>1. EncTypeOK /\ \A t \in Workers : pc[t] = "idle"
    BY DEF EncInv, Idle, All
  <2>2. CASE mode = "tiles"
    BY <2>1, <2>2 DEF EncInv, TilesOK
  <2>3. CASE mode \in {"rows", "arnr"}
    <3>1. numWorkers > 0 /\ RowsOK /\ \A t \in Workers : Searching(t)
      BY <2>3 DEF EncInv, JobsOK
    <3>2. 0 \in Workers
      BY EncMtAssumption DEF Workers
    <3>3. Emptied(c)
      BY <2>1, <3>1, <3>2 DEF Searching
    <3>4. r < jobs[c]
      BY <2>1, <3>3, FrameFacts DEF Emptied, FrameRows
    <3>5. ~ \E t \in Workers : Has(t, c, r)
      BY <2>1 DEF Has, Busy
    <3> QED BY <3>1, <3>4, <3>5 DEF RowsOK
  <2> QED BY <2>1, <2>2, <2>3 DEF EncTypeOK
<1> QED
  BY <1>1, EncoderInvariance, PTL

-----------------------------------------------------------------------------
(* Nobody waits for a row that nobody encodes.                             *)

\* A worker sleeps only while the row above has not come far enough: the signal
\* for it is not lost.  A row that is over has let every column of the next pass.
Waiting ==
  mode = "rows" =>
    /\ \A t \in Workers :
         pc[t] = "asleep" => row[t] > 0 /\ curCol[tile[t]][row[t] - 1] < col[t]
    /\ \A c \in FrameCols, r \in FrameRows :
         r < jobs[c] => \/ curCol[c][r] = Past(frame.width)
                        \/ \E t \in Workers : Has(t, c, r)

\* A search leaves the rows in work alone.
LEMMA SearchWaiting ==
  ASSUME EncInv, Waiting, NEW t \in Workers, GetNextJob(t) \/ TileStatus(t) \/ NextTile(t)
  PROVE  Waiting'
<1> SUFFICES ASSUME mode = "rows" PROVE Waiting'
  BY DEF Waiting, GetNextJob, TileStatus, NextTile, frameVars
<1>1. /\ EncTypeOK /\ pc[t] \in {"get", "status"} /\ (pc[t] = "get" => tile[t] \in FrameCols)
  BY DEF EncInv, JobsOK, Searching, GetNextJob, TileStatus, NextTile
<1>2. /\ UNCHANGED <<frame, mode, curCol, col>> /\ FrameCols' = FrameCols
      /\ FrameRows' = FrameRows
  BY DEF GetNextJob, TileStatus, NextTile, frameVars, place, FrameCols, FrameRows
<1>3. /\ pc'[t] # "asleep"
      /\ \A u \in Workers \ {t} : pc'[u] = pc[u] /\ tile'[u] = tile[u] /\ row'[u] = row[u]
  BY <1>1 DEF GetNextJob, TileStatus, NextTile, Goto, place, EncTypeOK
<1>4. \A u \in Workers :
        pc'[u] = "asleep" => row'[u] > 0 /\ curCol'[tile'[u]][row'[u] - 1] < col'[u]
  BY <1>2, <1>3 DEF Waiting
<1>5. ASSUME NEW c \in FrameCols, NEW r \in FrameRows, r < jobs'[c]
      PROVE  curCol[c][r] = Past(frame.width) \/ \E u \in Workers : Has(u, c, r)'
  <2>1. \A u \in Workers : Has(u, c, r) => Has(u, c, r)'
    BY <1>1, <1>3 DEF Has, Busy
  <2>2. r < jobs[c] \/ Has(t, c, r)'
    <3>1. c \in Cols /\ jobs \in [Cols -> Nat] /\ r \in Nat
      BY <1>1, FrameFacts DEF EncTypeOK, FrameRows
    <3>2. CASE jobs' = jobs
      BY <1>5, <3>2
    <3>3. CASE jobs' # jobs
      <4>1. /\ jobs' = [jobs EXCEPT ![tile[t]] = @ + 1] /\ tile' = tile
            /\ row' = [row EXCEPT ![t] = jobs[tile[t]]]
            /\ pc' = [pc EXCEPT ![t] = "read"] /\ pc[t] = "get"
        BY <3>3 DEF GetNextJob, TileStatus, NextTile, Goto
      <4>2. /\ row'[t] = jobs[tile[t]] /\ pc'[t] = "read" /\ tile[t] \in Cols
            /\ jobs'[tile[t]] = jobs[tile[t]] + 1
        BY <1>1, <3>1, <4>1, FrameFacts DEF EncTypeOK
      <4>3. c # tile[t] => jobs'[c] = jobs[c]
        BY <3>1, <4>1
      <4>4. c = tile[t] => r < jobs[c] \/ r = jobs[c]
        BY <1>5, <3>1, <4>2
      <4> QED BY <1>5, <4>1, <4>2, <4>3, <4>4 DEF Has, Busy
    <3> QED BY <3>2, <3>3
  <2> QED BY <2>1, <2>2 DEF Waiting
<1> QED
  BY <1>2, <1>4, <1>5 DEF Waiting

\* A worker that goes to sleep has tested cur_col under the mutex.
LEMMA WorkWaiting ==
  ASSUME EncInv, Waiting, NEW t \in Workers, SyncRead(t) \/ EncodeSb(t)
  PROVE  Waiting'
<1>1. pc[t] \in Busy /\ pc[t] # "filter" /\ pc[t] # "asleep"
  BY DEF SyncRead, EncodeSb, Busy
<1>2. /\ EncTypeOK /\ mode = "rows" /\ SyncOf(t) = tile[t] /\ row[t] \in Nat /\ col[t] \in Nat
      /\ tile[t] \in FrameCols /\ row[t] \in FrameRows
  BY <1>1, WorkFacts
<1>3. /\ UNCHANGED <<frame, mode, curCol, jobs, tile, row, col>> /\ FrameCols' = FrameCols
      /\ FrameRows' = FrameRows
  BY DEF SyncRead, EncodeSb, frameVars, place, FrameCols, FrameRows
<1>4. /\ pc'[t] \in Busy /\ (pc'[t] = "asleep" => MustWait(t))
      /\ \A u \in Workers \ {t} : pc'[u] = pc[u]
  BY <1>2 DEF SyncRead, EncodeSb, Goto, EncTypeOK, Busy
<1>5. MustWait(t) => row[t] > 0 /\ curCol[tile[t]][row[t] - 1] < col[t]
  <2> SUFFICES ASSUME MustWait(t) PROVE row[t] > 0 /\ curCol[tile[t]][row[t] - 1] < col[t]
    OBVIOUS
  <2>1. row[t] > 0 /\ col[t] > curCol[tile[t]][row[t] - 1] - SyncRange + 1
    BY <1>2 DEF MustWait
  <2>2. FrameCols \subseteq Cols /\ FrameRows \subseteq Rows /\ row[t] - 1 \in FrameRows
    BY <1>2, <2>1, FrameFacts DEF FrameRows
  <2>3. curCol[tile[t]][row[t] - 1] \in Int
    BY <1>2, <2>2 DEF EncTypeOK, Counts
  <2> QED BY <1>2, <2>1, <2>3 DEF SyncRange
<1>6. \A u \in Workers :
        pc'[u] = "asleep" => row[u] > 0 /\ curCol[tile[u]][row[u] - 1] < col[u]
  BY <1>2, <1>4, <1>5 DEF Waiting
<1>7. \A u \in Workers, c \in FrameCols, r \in FrameRows : Has(u, c, r) => Has(u, c, r)'
  BY <1>3, <1>4 DEF Has
<1>8. \A c \in FrameCols, r \in FrameRows :
        r < jobs[c] => \/ curCol[c][r] = Past(frame.width)
                       \/ \E u \in Workers : Has(u, c, r)'
  BY <1>2, <1>7 DEF Waiting
<1> QED
  BY <1>3, <1>6, <1>8 DEF Waiting

\* The only sleeper that waits for this row is woken: a row has one worker, and
\* vp9_row_mt_sync_write() signals one.
LEMMA WriteWaiting ==
  ASSUME EncInv, Waiting, NEW t \in Workers, SyncWrite(t)
  PROVE  Waiting'
<1>1. pc[t] = "write" /\ pc[t] \in Busy
  BY DEF SyncWrite, Busy
<1>2. /\ EncTypeOK /\ mode = "rows" /\ SyncOf(t) = tile[t] /\ row[t] \in Nat /\ col[t] \in Nat
      /\ tile[t] \in FrameCols /\ row[t] \in FrameRows /\ tile[t] \in Cols /\ row[t] \in Rows
  BY <1>1, WorkFacts
<1> DEFINE last == col[t] = frame.width - 1
           cur  == IF last THEN Past(frame.width) ELSE col[t]
           S    == Sleepers(SyncOf(t), row[t])
<1>3. Signals(col[t])
  BY <1>2, EveryColumn DEF Signals
<1>4. PICK W : /\ W \in IF S # {} THEN {{u} : u \in S} ELSE {{}}
               /\ pc' = [u \in Workers |->
                    IF u = t THEN IF last THEN "get" ELSE "read"
                    ELSE IF u \in W THEN "read" ELSE pc[u]]
  BY <1>3 DEF SyncWrite
<1>5. /\ curCol' = [curCol EXCEPT ![tile[t]][row[t]] = cur]
      /\ col' = [col EXCEPT ![t] = IF last THEN 0 ELSE @ + 1]
      /\ row' = [row EXCEPT ![t] = IF last THEN 0 ELSE @]
      /\ UNCHANGED <<frame, mode, jobs, tile>> /\ FrameCols' = FrameCols
      /\ FrameRows' = FrameRows
  BY <1>2, <1>3 DEF SyncWrite, frameVars, FrameCols, FrameRows
<1>6. FrameCols \subseteq Cols /\ FrameRows \subseteq Rows /\ FrameRows \subseteq Nat
      /\ frame.sbRows \in Nat
  BY <1>2, FrameFacts DEF FrameRows
<1>7. /\ curCol'[tile[t]][row[t]] = cur
      /\ \A c \in Cols, r \in Rows :
           c # tile[t] \/ r # row[t] => curCol'[c][r] = curCol[c][r]
  <2>1. curCol \in Counts
    BY <1>2 DEF EncTypeOK
  <2> QED BY <1>2, <1>5, <2>1 DEF Counts
<1>8. \A u \in Workers \ {t} : row'[u] = row[u] /\ col'[u] = col[u]
  BY <1>2, <1>5 DEF EncTypeOK
<1>9. /\ pc'[t] = (IF last THEN "get" ELSE "read") /\ (~last => row'[t] = row[t])
      /\ \A u \in Workers \ {t} : pc'[u] = IF u \in W THEN "read" ELSE pc[u]
  BY <1>2, <1>4, <1>5 DEF EncTypeOK
<1>10. \A u \in W : pc[u] = "asleep"
  <2>1. W \subseteq S
    BY <1>4
  <2> QED BY <2>1 DEF Sleepers
<1>11. ASSUME NEW u \in Workers, pc'[u] = "asleep"
       PROVE  row'[u] > 0 /\ curCol'[tile[u]][row'[u] - 1] < col'[u]
  <2>1. u # t /\ pc[u] = "asleep" /\ u \notin W
    BY <1>9, <1>11
  <2>2. row[u] > 0 /\ curCol[tile[u]][row[u] - 1] < col[u]
    BY <1>2, <2>1 DEF Waiting
  <2>3. pc[u] \in Busy
    BY <2>1 DEF Busy
  <2>4. SyncOf(u) = tile[u] /\ tile[u] \in FrameCols /\ row[u] \in FrameRows
    BY <1>2, <2>3, WorkFacts
  <2>5. ~(tile[u] = tile[t] /\ row[u] - 1 = row[t])
    <3> SUFFICES ASSUME tile[u] = tile[t], row[u] - 1 = row[t] PROVE FALSE
      OBVIOUS
    <3>1. row[u] = row[t] + 1
      <4>1. row[u] \in Nat /\ row[t] \in Nat
        BY <1>2, <1>6, <2>4
      <4> QED BY <4>1
    <3>2. u \in S
      BY <1>2, <2>1, <2>4, <3>1 DEF Sleepers
    <3>3. PICK v \in S : W = {v}
      BY <1>4, <3>2
    <3>4. v \in Workers /\ pc[v] = "asleep" /\ SyncOf(v) = tile[t] /\ row[v] = row[t] + 1
      BY <1>2, <3>3 DEF Sleepers
    <3>5. pc[v] \in Busy
      BY <3>4 DEF Busy
    <3>6. tile[v] = tile[t]
      BY <1>2, <3>4, <3>5, WorkFacts
    <3>7. Apart
      BY <1>2 DEF EncInv, JobsOK
    <3>8. v = u
      BY <2>3, <3>1, <3>4, <3>5, <3>6, <3>7 DEF Apart
    <3> QED BY <2>1, <3>3, <3>8
  <2>6. row[u] - 1 \in FrameRows
    BY <1>6, <2>2, <2>4 DEF FrameRows
  <2> QED BY <1>6, <1>7, <1>8, <2>1, <2>2, <2>4, <2>5, <2>6
<1>12. ASSUME NEW c \in FrameCols, NEW r \in FrameRows, r < jobs[c]
       PROVE  curCol'[c][r] = Past(frame.width) \/ \E u \in Workers : Has(u, c, r)'
  <2>1. CASE c = tile[t] /\ r = row[t]
    <3>1. CASE last
      BY <1>7, <2>1, <3>1
    <3>2. CASE ~last
      BY <1>5, <1>9, <2>1, <3>2 DEF Has, Busy
    <3> QED BY <3>1, <3>2
  <2>2. CASE c # tile[t] \/ r # row[t]
    <3>1. curCol'[c][r] = curCol[c][r]
      BY <1>6, <1>7, <2>2
    <3>2. \A u \in Workers : Has(u, c, r) => Has(u, c, r)'
      BY <1>5, <1>8, <1>9, <2>2 DEF Has, Busy
    <3>3. curCol[c][r] = Past(frame.width) \/ \E u \in Workers : Has(u, c, r)
      BY <1>2, <1>12 DEF Waiting
    <3> QED BY <3>1, <3>2, <3>3
  <2> QED BY <2>1, <2>2
<1> QED
  BY <1>5, <1>11, <1>12 DEF Waiting

\* Every step keeps what the waiting rests on.
LEMMA NextWaiting == EncInv /\ Waiting /\ [EncNext]_encVars => Waiting'
<1> SUFFICES ASSUME EncInv, Waiting, [EncNext]_encVars PROVE Waiting'
  OBVIOUS
<1>1. ASSUME NEW f \in stream.shapes, StartTiles(f) \/ EncodeTiles(f) PROVE Waiting'
  BY <1>1 DEF Waiting, StartTiles, EncodeTiles
<1>2. ASSUME NEW f \in stream.shapes, NEW m \in {"rows", "arnr"},
             NEW garbage \in {-1, Past(f.width)}, StartRows(f, m, garbage)
      PROVE  Waiting'
  <2>1. EncTypeOK /\ f \in Shapes /\ frame' = f
    BY <1>2, FrameFacts DEF EncInv, StartRows
  <2>2. FrameCols' \subseteq Cols /\ FrameRows' \subseteq Nat
    BY <2>1, ShapeFacts DEF FrameCols, FrameRows
  <2>3. \A c \in FrameCols', r \in FrameRows' : ~(r < jobs'[c])
    BY <1>2, <2>2 DEF StartRows
  <2>4. \A t \in Workers : pc'[t] # "asleep"
    BY <1>2 DEF StartRows, Launch
  <2> QED BY <2>3, <2>4 DEF Waiting
<1>3. ASSUME NEW t \in Workers, WorkerStep(t) PROVE Waiting'
  <2>1. CASE EncodeTile(t)
    <3>1. mode \notin {"rows"}
      BY <2>1 DEF EncInv, JobsOK, Searching, EncodeTile, Busy
    <3> QED BY <2>1, <3>1 DEF Waiting, EncodeTile, frameVars
  <2>2. CASE FilterRow(t)
    <3>1. mode # "rows"
      BY <2>2 DEF EncInv, JobsOK, Taken, FilterRow, Busy
    <3> QED BY <2>2, <3>1 DEF Waiting, FilterRow, frameVars
  <2> QED
    BY <1>3, <2>1, <2>2, SearchWaiting, WorkWaiting, WriteWaiting DEF WorkerStep
<1>4. CASE UNCHANGED encVars
  BY <1>4 DEF encVars, frameVars, place, Waiting, FrameCols, FrameRows, Has
<1> QED
  BY <1>1, <1>2, <1>3, <1>4 DEF EncNext, Start

\* While a frame is encoded, not every worker sleeps: of the sleeping ones, the one
\* with the topmost row waits for somebody who does not.
THEOREM EncoderRuns ==
  EncSpec /\ ColumnsAsked =>
    [](~Idle => \E t \in Workers : pc[t] \notin {"idle", "asleep"})
<1>1. EncInit => Waiting
  BY DEF EncInit, Waiting
<1>2. EncInv /\ Waiting => (~Idle => \E t \in Workers : pc[t] \notin {"idle", "asleep"})
  <2> SUFFICES ASSUME EncInv, Waiting, ~Idle,
                      \A t \in Workers : pc[t] \in {"idle", "asleep"}
               PROVE  FALSE
    OBVIOUS
  <2>1. EncTypeOK
    BY DEF EncInv
  <2>2. PICK t \in Workers : pc[t] = "asleep"
    BY <2>1 DEF Idle, All, EncTypeOK
  <2>3. pc[t] \in Busy
    BY <2>2 DEF Busy
  <2>4. mode = "rows" /\ tile[t] \in FrameCols
    BY <2>2, <2>3, WorkFacts
  <2> DEFINE T == {n \in Nat : \A u \in Workers :
                     pc[u] = "asleep" /\ tile[u] = tile[t] => row[u] # n}
  <2>5. \A u \in Workers : pc[u] = "asleep" =>
          /\ tile[u] \in FrameCols /\ row[u] \in FrameRows /\ row[u] < jobs[tile[u]]
          /\ row[u] \in Nat /\ row[u] > 0 /\ curCol[tile[u]][row[u] - 1] < col[u]
          /\ col[u] < frame.width /\ col[u] \in Nat
    BY <2>4, WorkFacts DEF Waiting, Busy
  <2>6. 0 \in T
    BY <2>5
  <2>7. ASSUME NEW n \in T PROVE n + 1 \in T
    <3>1. n \in Nat /\ n + 1 \in Nat
      OBVIOUS
    <3> SUFFICES ASSUME NEW u \in Workers, pc[u] = "asleep", tile[u] = tile[t], row[u] = n + 1
                 PROVE  FALSE
      BY <3>1
    <3>2. frame.width \in Nat /\ frame.sbRows \in Nat /\ jobs[tile[t]] \in Nat
      BY <2>1, <2>4, FrameFacts DEF EncTypeOK
    <3>3. n \in FrameRows /\ n < jobs[tile[t]] /\ row[u] - 1 = n
      BY <2>5, <3>1, <3>2 DEF FrameRows
    <3>4. curCol[tile[t]][n] # Past(frame.width)
      BY <2>5, <3>2, <3>3 DEF Past, SyncRange
    <3>5. PICK v \in Workers : Has(v, tile[t], n)
      BY <2>4, <3>3, <3>4 DEF Waiting
    <3>6. pc[v] = "asleep" /\ tile[v] = tile[t] /\ row[v] = n
      BY <3>5 DEF Has, Busy
    <3> QED BY <3>6
  <2>8. T = Nat
    <3>1. T \in SUBSET Nat
      OBVIOUS
    <3> HIDE DEF T
    <3> QED BY <2>6, <2>7, <3>1, NumberInduction
  <2>9. row[t] \in T
    BY <2>2, <2>5, <2>8
  <2> QED BY <2>2, <2>9
<1>3. EncInv /\ Waiting /\ [EncNext]_encVars => Waiting'
  BY NextWaiting
<1> QED
  BY <1>1, <1>2, <1>3, EncoderInvariance, PTL DEF EncSpec
=============================================================================
