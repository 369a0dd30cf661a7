--------------------------- MODULE MCAgentSessions ---------------------------
(* A task, whose messages interrupt its turns and their retries, and one-shot *)
(* calls, on the shared client.                                               *)
EXTENDS AgentSessions
=============================================================================
