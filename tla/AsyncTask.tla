------------------------------ MODULE AsyncTask ------------------------------
(***************************************************************************)
(* What vpx_util/vpx_thread.h promises the users of a VPxWorker: a         *)
(* single-slot asynchronous task.  A submitted job runs once, with the     *)
(* data it was submitted with; sync() returns only when no job is queued   *)
(* or running; a failure stays in had_error until it is cleared.           *)
(***************************************************************************)
CONSTANT Work    \* values of hook/data1/data2

VARIABLES phase,     \* "down", "idle", "queued" or "running"
          pending,   \* a job was submitted and sync() has not returned since
          data,      \* worker->hook, data1 and data2
          hadError   \* worker->had_error

tvars == <<phase, pending, data, hadError>>

AtRest == phase \in {"down", "idle"}

Init == phase = "down" /\ pending = FALSE /\ data \in Work /\ hadError = FALSE

\* init() and reset() bring the thread up, end() takes it down.
Start == phase = "down" /\ phase' = "idle" /\ UNCHANGED <<pending, data, hadError>>
Stop  == phase = "idle" /\ phase' = "down" /\ UNCHANGED <<pending, data, hadError>>

\* launch()
Submit == /\ phase = "idle" /\ phase' = "queued"
          /\ pending' = TRUE
          /\ UNCHANGED <<data, hadError>>

\* The thread starts the hook; with no hook there is nothing to run.
Run  == phase = "queued" /\ phase' = "running" /\ UNCHANGED <<pending, data, hadError>>
Skip == phase = "queued" /\ phase' = "idle" /\ UNCHANGED <<pending, data, hadError>>

\* The hook returns; errors accumulate.
Finish == /\ phase = "running" /\ phase' = "idle"
          /\ hadError' \in BOOLEAN /\ (hadError => hadError')
          /\ UNCHANGED <<pending, data>>

\* sync() and end() return.
Sync == AtRest /\ pending' = FALSE /\ UNCHANGED <<phase, data, hadError>>

\* The client sets up the next job, or runs it inline with execute().
Configure == /\ ~pending /\ AtRest
             /\ data' \in Work /\ hadError' \in BOOLEAN
             /\ UNCHANGED <<phase, pending>>

\* reset() clears the error flag whatever the thread is doing.
Clear == hadError' = FALSE /\ UNCHANGED <<phase, pending, data>>

Next == Start \/ Stop \/ Submit \/ Run \/ Skip \/ Finish \/ Sync
          \/ Configure \/ Clear

Safety == Init /\ [][Next]_tvars

\* The thread is scheduled and hooks terminate.
Spec == Safety /\ WF_tvars(Run \/ Skip) /\ WF_tvars(Finish)
=============================================================================
