----------------------------- MODULE MCTaskLife -----------------------------
(* One task, two requests, two failures and a restart at any step. *)
EXTENDS TaskLife
=============================================================================
