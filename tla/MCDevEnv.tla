------------------------------ MODULE MCDevEnv ------------------------------
(* Two previews and what a few clicks, runs and teardowns make of them. *)
EXTENDS DevEnv
=============================================================================
