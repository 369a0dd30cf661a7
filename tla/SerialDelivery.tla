--------------------------- MODULE SerialDelivery ---------------------------
(***************************************************************************)
(* What an autonomous campaign promises, without its tables, leases,       *)
(* retries or pipelines: the operating contract of                         *)
(* src/specs/liliput/frd-autonomous-workstream-campaigns.md as the         *)
(* campaign store keeps it.  Features are delivered one after the other.   *)
(* A feature is proposed, delivered and landed, in this order; it moves    *)
(* only while the campaign is running; the next one is proposed only when  *)
(* the previous one has landed; pausing and resuming lose nothing; a       *)
(* stopped campaign never does anything again.                             *)
(***************************************************************************)
EXTENDS Naturals

VARIABLES
  mode,     \* the campaign's status
  feature,  \* the number of the feature at work, 0 before the first
  stage,    \* how far that feature is
  done      \* the features that were delivered and left behind

vars == <<mode, feature, stage, done>>

Init ==
  /\ mode = "draft"
  /\ feature = 0
  /\ stage = "none"
  /\ done = {}

Propose == /\ stage' = "proposing"
           /\ feature' = feature + 1

Start ==
  /\ mode = "draft"
  /\ mode' = "running"
  /\ Propose
  /\ UNCHANGED done

Deliver ==
  /\ mode = "running" /\ stage = "proposing"
  /\ stage' = "delivering"
  /\ UNCHANGED <<mode, feature, done>>

Land ==
  /\ mode = "running" /\ stage = "delivering"
  /\ stage' = "landed"
  /\ UNCHANGED <<mode, feature, done>>

Proceed ==
  /\ mode = "running" /\ stage = "landed"
  /\ done' = done \cup {feature}
  /\ Propose
  /\ UNCHANGED mode

Pause ==
  /\ mode = "running"
  /\ mode' = "paused"
  /\ UNCHANGED <<feature, stage, done>>

Resume ==
  /\ mode = "paused"
  /\ mode' = "running"
  /\ UNCHANGED <<feature, stage, done>>

Stop ==
  /\ mode # "stopped"
  /\ mode' = "stopped"
  /\ stage' = "none"
  /\ UNCHANGED <<feature, done>>

Next == Start \/ Deliver \/ Land \/ Proceed \/ Pause \/ Resume \/ Stop

Spec == Init /\ [][Next]_vars

=============================================================================
