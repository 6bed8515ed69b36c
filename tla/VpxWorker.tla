------------------------------ MODULE VpxWorker ------------------------------
(***************************************************************************)
(* The worker-thread object of vpx_util/vpx_thread.c, built with           *)
(* CONFIG_MULTITHREAD: one client thread (init, reset, launch, execute,    *)
(* sync, end) and the thread that runs thread_loop().  Both share one      *)
(* mutex and ONE condition variable, on which each waits for the other and *)
(* which is only ever woken with pthread_cond_signal.                      *)
(*                                                                         *)
(* The hook runs without the mutex.  The client follows the contract of    *)
(* vpx_thread.h: hook, data1, data2 and had_error are not written between  *)
(* launch() and the next sync(); execute() is not called in that window    *)
(* either.                                                                 *)
(***************************************************************************)
EXTENDS Naturals, FiniteSets

CONSTANTS Data,        \* what hook/data1/data2 may be set to
          NoHook,      \* worker->hook == NULL
          MaxLaunch    \* bound on the number of effective launches

ASSUME WorkerAssumption == /\ NoHook \notin Data
                           /\ MaxLaunch \in Nat

NOT_OK  == 0
OK      == 1
WORKING == 2
Status  == {NOT_OK, OK, WORKING}

Threads == {"main", "worker"}

VARIABLES
  status,    \* worker->status_
  impl,      \* worker->impl_ != NULL
  hadError,  \* worker->had_error
  data,      \* worker->hook, data1 and data2
  mutex,     \* the owner of impl_->mutex_, or "free"
  waiting,   \* the threads blocked on impl_->condition_
  mpc,       \* where the client thread is
  op,        \* the operation the client thread is in
  wpc,       \* where the worker thread is ("none": no thread)
  loaded,    \* had_error as it was when the running hook was called
  \* History: not in the program.
  pending,   \* a launch() took effect and no sync() has returned since
  given,     \* data at the last effective launch()
  launched,  \* effective launches so far
  executed,  \* launched hooks that have been run
  failed     \* a hook has failed since had_error was last cleared

vars == <<status, impl, hadError, data, mutex, waiting, mpc, op, wpc, loaded,
          pending, given, launched, executed, failed>>

mainVars   == <<mpc, op, pending, given, launched>>
workerVars == <<wpc, loaded, executed>>

Init ==
  /\ status = NOT_OK /\ impl = FALSE /\ hadError = FALSE /\ data = NoHook
  /\ mutex = "free" /\ waiting = {}
  /\ mpc = "client" /\ op = "none" /\ wpc = "none" /\ loaded = FALSE
  /\ pending = FALSE /\ given = NoHook /\ launched = 0 /\ executed = 0
  /\ failed = FALSE

-----------------------------------------------------------------------------
(* The condition variable.                                                 *)

\* pthread_cond_signal: wakes one waiter, if there is any.
Signal == IF waiting = {} THEN UNCHANGED waiting
          ELSE \E t \in waiting : waiting' = waiting \ {t}

\* pthread_cond_wait may return without a signal.
SpuriousWakeup(t) ==
  /\ t \in waiting
  /\ waiting' = waiting \ {t}
  /\ UNCHANGED <<status, impl, hadError, data, mutex, failed, mainVars,
                 workerVars>>

-----------------------------------------------------------------------------
(* The client thread.                                                      *)

\* The client fills in hook and data and clears had_error before a launch.
SetWork(d) ==
  /\ mpc = "client" /\ ~pending
  /\ data' = d
  /\ hadError' = FALSE /\ failed' = FALSE
  /\ UNCHANGED <<status, impl, mutex, waiting, mainVars, workerVars>>

\* reset(): had_error is cleared first.  A worker that is not up gets its impl_
\* and its thread, a step of which may fail; a busy one is waited for.
ResetFails ==
  /\ mpc = "client" /\ status < OK
  /\ hadError' = FALSE /\ failed' = FALSE
  /\ UNCHANGED <<status, impl, data, mutex, waiting, mainVars, workerVars>>

ResetCreates ==
  /\ mpc = "client" /\ status < OK
  /\ hadError' = FALSE /\ failed' = FALSE
  /\ impl' = TRUE
  /\ mutex' = "main"
  /\ wpc' = "start"
  /\ mpc' = "created" /\ op' = "reset"
  /\ UNCHANGED <<status, data, waiting, loaded, executed, pending, given,
                 launched>>

ResetUnlocks ==
  /\ mpc = "created"
  /\ status' = OK
  /\ mutex' = "free"
  /\ mpc' = "client" /\ op' = "none"
  /\ UNCHANGED <<impl, hadError, data, waiting, failed, pending, given,
                 launched, workerVars>>

ResetRunning ==
  /\ mpc = "client" /\ status >= OK
  /\ hadError' = FALSE /\ failed' = FALSE
  /\ IF status > OK THEN mpc' = "lock" /\ op' = "sync"
                    ELSE UNCHANGED <<mpc, op>>
  /\ UNCHANGED <<status, impl, data, mutex, waiting, pending, given, launched,
                 workerVars>>

\* sync(), launch() and end() go through change_state(), which does nothing
\* for a worker that did not come up.
NewStatus == [sync |-> OK, launch |-> WORKING, end |-> NOT_OK]

Call(o) ==
  /\ mpc = "client"
  /\ o = "launch" => launched < MaxLaunch
  /\ IF impl THEN mpc' = "lock" /\ op' = o ELSE UNCHANGED <<mpc, op>>
  /\ UNCHANGED <<status, impl, hadError, data, mutex, waiting, failed,
                 pending, given, launched, workerVars>>

MainLock ==
  /\ mpc = "lock" /\ mutex = "free"
  /\ mutex' = "main" /\ mpc' = "test"
  /\ UNCHANGED <<status, impl, hadError, data, waiting, failed, op, pending,
                 given, launched, workerVars>>

\* if (status_ >= OK): without it, the mutex is released and nothing changes.
MainTest ==
  /\ mpc = "test"
  /\ IF status >= OK THEN mpc' = "loop" /\ UNCHANGED mutex
                     ELSE mpc' = "done" /\ mutex' = "free"
  /\ UNCHANGED <<status, impl, hadError, data, waiting, failed, op, pending,
                 given, launched, workerVars>>

\* while (status_ != OK) pthread_cond_wait(...)
MainWait ==
  /\ mpc = "loop" /\ status # OK
  /\ mutex' = "free" /\ waiting' = waiting \cup {"main"}
  /\ mpc' = "wait"
  /\ UNCHANGED <<status, impl, hadError, data, failed, op, pending, given,
                 launched, workerVars>>

MainWake ==
  /\ mpc = "wait" /\ "main" \notin waiting /\ mutex = "free"
  /\ mutex' = "main" /\ mpc' = "loop"
  /\ UNCHANGED <<status, impl, hadError, data, waiting, failed, op, pending,
                 given, launched, workerVars>>

\* Mutant of MainAssign: the worker is not signalled.
MainAssignSilently ==
  /\ mpc = "loop" /\ status = OK
  /\ status' = NewStatus[op]
  /\ IF op = "launch"
       THEN pending' = TRUE /\ given' = data /\ launched' = launched + 1
       ELSE UNCHANGED <<pending, given, launched>>
  /\ mutex' = "free" /\ mpc' = "done"
  /\ UNCHANGED <<impl, hadError, data, waiting, failed, op, workerVars>>

\* The worker is idle: assign the new status, signal, unlock.
MainAssign ==
  /\ mpc = "loop" /\ status = OK
  /\ IF NewStatus[op] # OK THEN status' = NewStatus[op] /\ Signal
                           ELSE UNCHANGED <<status, waiting>>
  /\ IF op = "launch"
       THEN pending' = TRUE /\ given' = data /\ launched' = launched + 1
       ELSE UNCHANGED <<pending, given, launched>>
  /\ mutex' = "free" /\ mpc' = "done"
  /\ UNCHANGED <<impl, hadError, data, failed, op, workerVars>>

\* change_state() returns; so do sync() and launch().  end() joins the thread.
MainReturn ==
  /\ mpc = "done"
  /\ IF op = "end" THEN mpc' = "join" /\ UNCHANGED <<op, pending>>
     ELSE /\ mpc' = "client" /\ op' = "none"
          /\ pending' = (pending /\ op # "sync")
  /\ UNCHANGED <<status, impl, hadError, data, mutex, waiting, failed, given,
                 launched, workerVars>>

\* Mutant of EndDestroys: end() does not join the thread.
EndDestroysWithoutJoin ==
  /\ mpc = "join"
  /\ impl' = FALSE
  /\ pending' = FALSE
  /\ mpc' = "client" /\ op' = "none"
  /\ UNCHANGED <<status, hadError, data, mutex, waiting, failed, given,
                 launched, workerVars>>

\* pthread_join has returned: destroy the mutex and the condition, free impl_.
EndDestroys ==
  /\ mpc = "join" /\ wpc = "exited"
  /\ impl' = FALSE /\ wpc' = "none"
  /\ pending' = FALSE
  /\ mpc' = "client" /\ op' = "none"
  /\ UNCHANGED <<status, hadError, data, mutex, waiting, loaded, failed,
                 given, launched, executed>>

\* execute() called directly by the client, as for the last slot of a pool.
ExecuteInline(ok) ==
  /\ mpc = "client" /\ ~pending
  /\ data # NoHook
  /\ hadError' = (hadError \/ ~ok) /\ failed' = (failed \/ ~ok)
  /\ UNCHANGED <<status, impl, data, mutex, waiting, mainVars, workerVars>>

Main == \/ \E d \in Data \cup {NoHook} : SetWork(d)
        \/ \E ok \in BOOLEAN : ExecuteInline(ok)
        \/ \E o \in {"sync", "launch", "end"} : Call(o)
        \/ ResetFails \/ ResetCreates \/ ResetUnlocks \/ ResetRunning
        \/ MainLock \/ MainTest \/ MainWait \/ MainWake \/ MainAssign
        \/ MainReturn \/ EndDestroys

-----------------------------------------------------------------------------
(* thread_loop().                                                          *)

WorkerLock ==
  /\ wpc = "start" /\ mutex = "free"
  /\ mutex' = "worker" /\ wpc' = "loop"
  /\ UNCHANGED <<status, impl, hadError, data, waiting, failed, mainVars,
                 loaded, executed>>

WorkerWait ==
  /\ wpc = "loop" /\ status = OK
  /\ mutex' = "free" /\ waiting' = waiting \cup {"worker"}
  /\ wpc' = "wait"
  /\ UNCHANGED <<status, impl, hadError, data, failed, mainVars, loaded,
                 executed>>

WorkerWake ==
  /\ wpc = "wait" /\ "worker" \notin waiting /\ mutex = "free"
  /\ mutex' = "worker" /\ wpc' = "loop"
  /\ UNCHANGED <<status, impl, hadError, data, waiting, failed, mainVars,
                 loaded, executed>>

WorkerTakes ==
  /\ wpc = "loop" /\ status = WORKING
  /\ mutex' = "free" /\ wpc' = "exec"
  /\ UNCHANGED <<status, impl, hadError, data, waiting, failed, mainVars,
                 loaded, executed>>

\* execute(): nothing without a hook; the |= may read had_error here already.
WorkerExecute ==
  /\ wpc = "exec"
  /\ loaded' = hadError
  /\ IF data = NoHook THEN wpc' = "relock" /\ executed' = executed + 1
                      ELSE wpc' = "hook" /\ UNCHANGED executed
  /\ UNCHANGED <<status, impl, hadError, data, mutex, waiting, failed,
                 mainVars>>

\* Mutant of HookReturns: had_error = !hook(...), forgetting earlier failures.
HookReturnsOverwrites(ok) ==
  /\ wpc = "hook"
  /\ hadError' = ~ok
  /\ failed' = (failed \/ ~ok)
  /\ executed' = executed + 1
  /\ wpc' = "relock"
  /\ UNCHANGED <<status, impl, data, mutex, waiting, mainVars, loaded>>

\* had_error |= !hook(data1, data2), not atomic: it may combine the value read
\* before the call, which matters when reset() clears had_error meanwhile.
HookReturns(ok) ==
  /\ wpc = "hook"
  /\ \E before \in {hadError, loaded} : hadError' = (before \/ ~ok)
  /\ failed' = (failed \/ ~ok)
  /\ executed' = executed + 1
  /\ wpc' = "relock"
  /\ UNCHANGED <<status, impl, data, mutex, waiting, mainVars, loaded>>

\* Mutant of WorkerDone: the client is not signalled.
WorkerDoneSilently ==
  /\ wpc = "relock" /\ mutex = "free"
  /\ mutex' = "worker" /\ wpc' = "loop"
  /\ status' = OK
  /\ UNCHANGED <<impl, hadError, data, waiting, failed, mainVars, loaded,
                 executed>>

\* status_ = OK and the signal for sync(), under the mutex again.
WorkerDone ==
  /\ wpc = "relock" /\ mutex = "free"
  /\ mutex' = "worker" /\ wpc' = "loop"
  /\ status' = OK
  /\ Signal
  /\ UNCHANGED <<impl, hadError, data, failed, mainVars, loaded, executed>>

WorkerExits ==
  /\ wpc = "loop" /\ status = NOT_OK
  /\ mutex' = "free" /\ wpc' = "exited"
  /\ UNCHANGED <<status, impl, hadError, data, waiting, failed, mainVars,
                 loaded, executed>>

Worker == \/ WorkerLock \/ WorkerWait \/ WorkerWake \/ WorkerTakes
          \/ WorkerExecute \/ (\E ok \in BOOLEAN : HookReturns(ok))
          \/ WorkerDone \/ WorkerExits

-----------------------------------------------------------------------------
Next == Main \/ Worker \/ (\E t \in Threads : SpuriousWakeup(t))

\* A call in progress goes on, the worker thread runs, hooks terminate, and a
\* thread that keeps finding the mutex free again and again gets it.
Fairness ==
  /\ WF_vars(MainTest) /\ WF_vars(MainWait) /\ WF_vars(MainAssign)
  /\ WF_vars(MainReturn) /\ WF_vars(EndDestroys) /\ WF_vars(ResetUnlocks)
  /\ SF_vars(MainLock) /\ SF_vars(MainWake)
  /\ WF_vars(WorkerWait) /\ WF_vars(WorkerTakes) /\ WF_vars(WorkerExecute)
  /\ WF_vars(\E ok \in BOOLEAN : HookReturns(ok)) /\ WF_vars(WorkerExits)
  /\ SF_vars(WorkerLock) /\ SF_vars(WorkerWake) /\ SF_vars(WorkerDone)

Spec == Init /\ [][Next]_vars /\ Fairness

-----------------------------------------------------------------------------
(* Properties.                                                             *)

\* The type invariant: status_ is one of the three statuses of the header, and
\* the counts of launches and runs are numbers.
TypeOK ==
  /\ status \in Status /\ impl \in BOOLEAN /\ hadError \in BOOLEAN
  /\ data \in Data \cup {NoHook} /\ given \in Data \cup {NoHook}
  /\ mutex \in Threads \cup {"free"} /\ waiting \subseteq Threads
  /\ mpc \in {"client", "created", "lock", "test", "loop", "wait", "done",
              "join"}
  /\ op \in {"none", "reset", "sync", "launch", "end"}
  /\ wpc \in {"none", "start", "loop", "wait", "exec", "hook", "relock",
              "exited"}
  /\ loaded \in BOOLEAN /\ pending \in BOOLEAN /\ failed \in BOOLEAN
  /\ launched \in Nat /\ executed \in Nat

\* The worker owns a launched job that it has not run to its end.
Outstanding == status = WORKING /\ wpc # "relock"

\* The asserts of thread_loop(), sync(), reset() and end(): the status is still
\* WORKING when the worker has run the hook and takes the mutex again; sync()
\* returns with an idle or dead worker, end() with NOT_OK.
AssertsHold ==
  /\ wpc = "relock" => status = WORKING
  /\ mpc = "done" /\ op = "sync" => status <= OK
  /\ mpc \in {"done", "join"} /\ op = "end" => status = NOT_OK
  /\ mpc = "client" /\ ~impl => status = NOT_OK

\* The client and the worker never wait on the shared condition variable at
\* the same time, so that one pthread_cond_signal always reaches the thread
\* it is meant for.
OneWaiter == waiting # Threads

\* When sync() has returned and nothing was launched since, the worker is not
\* using hook, data1, data2 or had_error: the client may write them.
QuietAfterSync ==
  mpc = "client" /\ ~pending => wpc \notin {"exec", "hook", "relock"}

\* Every launch that took effect runs its hook exactly once: none is lost when
\* launch() is called again, or end() is called, without a sync().
RunsOncePerLaunch ==
  launched = executed + (IF Outstanding THEN 1 ELSE 0)

\* A hook's failure is never lost before the client clears had_error, also
\* when reset() clears it while the hook is running.
FailureKept == failed => hadError

\* The hook runs with the values that were set when it was launched.
HookSeesItsData == wpc \in {"exec", "hook"} => data = given

\* end() destroys the mutex and the condition variable only when nobody holds
\* the one or waits on the other, and the thread is gone.
SafeDestroy ==
  ~impl => mutex = "free" /\ waiting = {} /\ wpc = "none"

\* Why the above hold: who may hold the mutex and wait where, ...
Locking ==
  /\ mutex = "main" <=> mpc \in {"created", "test", "loop"}
  /\ mutex = "worker" <=> wpc = "loop"
  /\ "main" \in waiting => mpc = "wait"
  /\ "worker" \in waiting => wpc = "wait"

\* ... what each thread waits for: the client for the worker to leave WORKING,
\* the worker for the client to leave OK, ...
WaitsFor ==
  /\ "main" \in waiting => status = WORKING
  /\ "worker" \in waiting => status = OK

\* ... when the thread exists and which statuses it can see, ...
Lifetime ==
  /\ impl <=> wpc # "none"
  /\ ~impl => status = NOT_OK /\ mpc = "client"
  /\ mpc = "created" => status = NOT_OK /\ wpc = "start"
  /\ mpc \in {"lock", "test", "loop", "wait", "done", "join"}
       => op \in {"sync", "launch", "end"}
  /\ mpc = "join" => op = "end"
  /\ impl /\ status = NOT_OK
       => mpc = "created" \/ (mpc \in {"done", "join"} /\ op = "end")
  /\ mpc \in {"done", "join"} /\ op = "end" => status = NOT_OK
  /\ wpc = "exited" => status = NOT_OK
  /\ wpc \in {"exec", "hook", "relock"} => status = WORKING

\* ... and who owns the job's data and its error flag.
Ownership ==
  /\ status = WORKING => pending /\ data = given
  /\ mpc = "done" /\ op = "sync" => status # WORKING
  /\ wpc = "hook" /\ hadError => loaded

\* The inductive invariant.
IndInv == /\ TypeOK /\ Locking /\ WaitsFor /\ Lifetime /\ Ownership
          /\ RunsOncePerLaunch /\ FailureKept

\* Every call of the client returns: sync(), launch() and end() never wait for
\* a worker that waits for them.
CallsReturn == mpc # "client" ~> mpc = "client"

\* What the client may rely on (AsyncTask): a worker that finished its hook but
\* has not yet stored OK counts as idle, the storing being invisible.
phase == CASE status = NOT_OK -> "down"
           [] status = OK \/ wpc = "relock" -> "idle"
           [] status = WORKING /\ wpc = "hook" -> "running"
           [] OTHER -> "queued"
Task == INSTANCE AsyncTask WITH Work <- Data \cup {NoHook}

\* The mutex, the condition variable and the thread loop together implement the
\* single-slot asynchronous task the header describes.
TaskSpec == Task!Spec

=============================================================================
