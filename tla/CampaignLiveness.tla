--------------------------- MODULE CampaignLiveness ---------------------------
(***************************************************************************)
(* What a campaign eventually does, under the fairness its scheduling      *)
(* gives it.  The coordinator's tick is rescheduled whenever it is over    *)
(* (startAutonomousCampaignCoordinator), a task run is a chain of promises *)
(* each of which settles because calls to models, git and Kubernetes carry *)
(* timeouts, the deployment restarts a pod that dies, and clocks advance:  *)
(* weak fairness for each of them.  That a pull request's checks turn      *)
(* green at all is GitHub's to give; asked again and again, it is assumed  *)
(* to answer so once (strong fairness).                                    *)
(***************************************************************************)
EXTENDS Campaign

Fairness ==
  /\ \A c \in Cycles :
       WF_vars(Up /\ ~HandingOff /\ Run(me, c) /\ UNCHANGED coordVars)
  /\ WF_vars(Up /\ (HandoffLinks \/ HandoffCreatesAttempt \/ HandoffLaunches))
  /\ WF_vars(Up /\ ~HandingOff /\ campaign.lease # "live" /\ Renew)
  /\ WF_vars(Up /\ ~HandingOff /\ (Begin \/ ResumeWait \/ Retry \/ Handoff \/ RecoverAttempt))
  /\ WF_vars(Up /\ ~HandingOff /\ Deliver)
  /\ WF_vars(Up /\ ~HandingOff /\ FoundPr)
  /\ WF_vars(Up /\ ~HandingOff /\ (ReleaseNotPassed \/ ReleasePassed))
  /\ WF_vars(Up /\ ~HandingOff /\ (Shipped \/ GotPull \/ MarkedReady \/ MergeAnswered))
  /\ WF_vars(Up /\ ~HandingOff /\ \E green \in BOOLEAN : GotChecks(green))
  /\ SF_vars(Up /\ ~HandingOff /\ GotChecks(TRUE))
  /\ WF_vars(Up /\ ~HandingOff /\ Confirmed)
  /\ WF_vars(GitHubMerges)
  /\ WF_vars(Elapse)
  /\ WF_vars(Boot)

FairSpec == Spec /\ Fairness

\* Pause, stop and the interrupted run: a run that was at work when the
\* campaign was paused or stopped comes to its end, unless the campaign is
\* resumed first; none goes on behind the operator's back.
Quiesces ==
  \A c \in Cycles :
    campaign.status \in {"paused", "stopped"}
    ~> campaign.status \in {"draft", "running"} \/ ~Active(c)

\* A feature under delivery lands, unless the operator steps in or its branch
\* keeps growing up to the bound: no combination of failing segments, unhealthy
\* previews, and foreign pushes and merges makes the campaign run in place.
Landed(c) == cycle[c].status \in {"cooldown", "succeeded"}
Lands ==
  \A c \in Cycles :
    c = cur /\ campaign.status = "running"
    ~> Landed(c) \/ campaign.status # "running" \/ pr[c].tip = MaxHead

=============================================================================
