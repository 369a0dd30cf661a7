------------------------------ MODULE JobBoard ------------------------------
(***************************************************************************)
(* What the table github_jobs promises to the webhook dispatcher and the   *)
(* loop reconciler, which race each other for the same work: of all who    *)
(* ask for a job under one key exactly one gets it, and the job is that    *)
(* one's for good.  It is done, failed, or abandoned if its holder dies;   *)
(* in no case is it given to somebody else.                                *)
(***************************************************************************)
CONSTANT Key

VARIABLE job

JobStatus == {"free", "claimed", "completed", "failed"}

BoardInit == job = [k \in Key |-> "free"]

Claim(k) ==
  /\ job[k] = "free"
  /\ \E s \in JobStatus \ {"free"} : job' = [job EXCEPT ![k] = s]

Finish(k) ==
  /\ job[k] = "claimed"
  /\ \E s \in {"completed", "failed"} : job' = [job EXCEPT ![k] = s]

BoardNext == \E k \in Key : Claim(k) \/ Finish(k)

BoardSpec == BoardInit /\ [][BoardNext]_job
=============================================================================
