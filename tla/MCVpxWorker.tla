----------------------------- MODULE MCVpxWorker -----------------------------
(* Model values for checking VpxWorker with TLC.                           *)
EXTENDS VpxWorker
=============================================================================
