------------------------------- MODULE Campaign -------------------------------
(***************************************************************************)
(* An autonomous campaign at work: the operator, the coordinator's tick    *)
(* (engine/autonomous-campaign-coordinator.ts), the task runs of           *)
(* CampaignRun and the rows of CampaignStore, in one process that can die  *)
(* between any two of its steps and comes back as the same pod or as       *)
(* another, with GitHub on the other side.                                 *)
(*                                                                         *)
(* The process is single-threaded: a step is what it does from one await   *)
(* to the next.  A tick that awaits GitHub keeps the snapshot it took      *)
(* before, in tick; everybody else goes on meanwhile.  Only a crash can    *)
(* come between the transactions of a step, so the hand-off, which needs   *)
(* four, is four steps that nothing but a crash may separate.              *)
(***************************************************************************)
EXTENDS CampaignRun

CONSTANT MaxCrash   \* bound: crashes

ASSUME CrashAssumption == MaxCrash \in Nat

VARIABLES
  proc,      \* the process: up or down, and under which pod's name
  tick,      \* where the coordinator's tick is, and the snapshot it works with
  requests   \* merge requests GitHub has not processed yet

coordVars == <<proc, tick, requests>>
vars == <<storeVars, runVars, coordVars>>

me == proc.pod
Up == proc.up = "up"

Idle == [pc |-> "idle", seen |-> "none", acc |-> 0, passed |-> "no",
         merge |-> NoCommit, head |-> 0, merged |-> 0, draft |-> "no"]

\* The steps of the hand-off.
HandingOff == tick.pc \in {"link", "attempt", "launch"}

Init ==
  /\ StoreInit
  /\ RunInit
  /\ \E o \in Owner : proc = [up |-> "up", pod |-> o, crashes |-> 0]
  /\ tick = Idle
  /\ requests = {}

-----------------------------------------------------------------------------
(* The operator *)

Pause ==
  /\ "pause" \in Faults
  /\ \/ PauseProposal /\ UNCHANGED run
     \/ PauseAttempt(me) /\ Interrupt(cur, "pause")
  /\ UNCHANGED <<task, pr, accepted, coordVars>>

Resume ==
  /\ \/ ResumeProposal /\ UNCHANGED <<task, run>>
     \/ /\ ResumeAttempt(me)
        /\ IF cycle[cur].from = "delivering" /\ cycle[cur].task = "linked"
           THEN ResumeTask(cur)
           ELSE UNCHANGED <<task, run>>
  /\ UNCHANGED <<pr, accepted, coordVars>>

Stop ==
  /\ "stop" \in Faults
  /\ \/ StopProposal /\ UNCHANGED run
     \/ StopAttempt(me) /\ Interrupt(cur, "stop")
  /\ UNCHANGED <<task, pr, accepted, coordVars>>

\* The operator starts the campaign, and the proposal is accepted.
Begin == (StartCampaign \/ AcceptProposal) /\ UNCHANGED <<runVars, coordVars>>

-----------------------------------------------------------------------------
(* The tick: it renews the lease and looks at the current cycle *)

Renew ==
  /\ campaign.status = "running"
  /\ tick.pc = "idle"
  /\ ClaimLease(me)
  /\ UNCHANGED <<runVars, coordVars>>

Ticking ==
  /\ tick.pc = "idle"
  /\ campaign.status = "running"
  /\ LeasedTo(me)
  /\ HasCycle

Await(pc) == tick' = [Idle EXCEPT !.pc = pc, !.seen = cycle[cur].status,
                                  !.acc = task[cur].reviewed, !.merge = cycle[cur].merge]

\* An error ends the tick; it is logged and the next one starts over.
TickFails == tick' = Idle /\ UNCHANGED <<storeVars, runVars, proc, requests>>

\* The retry, and what follows an external wait.
Relaunch(c) ==
  LaunchUnqueued(c, [task[c] EXCEPT !.status = "building"], Resumed(task[c]))

ResumeWait ==
  /\ Ticking
  /\ ResumeExternalWait(me)
  /\ Relaunch(cur)
  /\ UNCHANGED <<pr, accepted, coordVars>>

Retry ==
  /\ Ticking
  /\ StartDueRetry(me)
  /\ Relaunch(cur)
  /\ UNCHANGED <<pr, accepted, coordVars>>

\* An accepted proposal whose task is missing or was never started.
Handoff ==
  /\ Ticking
  /\ cycle[cur].status \in {"proposing", "delivering"} /\ cycle[cur].proposal = "accepted"
  /\ task[cur].status \in {"none", "clarifying"}
  /\ task' = [task EXCEPT ![cur].status = "clarifying"]
  /\ Await("link")
  /\ UNCHANGED <<storeVars, run, pr, accepted, proc, requests>>

HandoffLinks ==
  /\ tick.pc = "link"
  /\ IF cycle[cur].task = "linked" /\ cycle[cur].status = "delivering"
     THEN UNCHANGED storeVars
     ELSE LinkTask(me)
  /\ tick' = [tick EXCEPT !.pc = "attempt"]
  /\ UNCHANGED <<runVars, proc, requests>>

HandoffCreatesAttempt ==
  /\ tick.pc = "attempt"
  /\ IF HasAttempt THEN UNCHANGED storeVars ELSE CreateFirstAttempt(me)
  /\ tick' = [tick EXCEPT !.pc = "launch"]
  /\ UNCHANGED <<runVars, proc, requests>>

HandoffLaunches ==
  /\ tick.pc = "launch"
  /\ Launch(cur, task[cur], "build")
  /\ tick' = Idle
  /\ UNCHANGED <<storeVars, pr, accepted, proc, requests>>

-----------------------------------------------------------------------------
(* Delivering: reconcile the cycle with its task *)

\* A failed task is only put back into review if it had passed.
Revived(t) == IF t.status = "failed" /\ Passed(t) THEN [t EXCEPT !.status = "review"] ELSE t

\* Mutant of ReadyToRelease: only shipped tasks, though shipping is the release's.
ReadyOnceShipped(t) == t.status = "completed" /\ Passed(t)

ReadyToRelease(t) == t.status \in {"review", "completed"} /\ Passed(t)

\* reconcileDelivery from the task row t on, for a cycle last seen as "seen".
\* A task to revalidate or to iterate on is launched first; the cycle's row is
\* written only if the cycle is still as it was seen; a failed task fails the
\* attempt.
Reconcile(c, seen, t) ==
  /\ IF t.status = "building" /\ t.head # 0 /\ cycle[c].gates = "revalidate"
     THEN Launch(c, t, "revalidate")
     ELSE IF t.status = "review" /\ t.review = "changes" /\ t.feedback = "pending"
     THEN Launch(c, t, "iterate")
     ELSE task' = [task EXCEPT ![c] = Revived(t)] /\ UNCHANGED run
  /\ IF cycle[c].status # seen \/ campaign.status # "running" \/ ~LeasedTo(me)
     THEN UNCHANGED storeVars
     ELSE IF ReadyToRelease(Revived(t))
     THEN ReconcileDelivery(me, seen, "ready_to_release")
     ELSE IF Revived(t).status = "failed" /\ Failable(me)
     THEN FailAttempt(me)
     ELSE ReconcileDelivery(me, seen, "delivering")
  /\ tick' = Idle
  /\ UNCHANGED <<pr, accepted, proc, requests>>

\* Mutant of RecoverAttempt: for any delivering cycle.
RecoverAnyAttempt ==
  /\ Ticking
  /\ cycle[cur].status = "delivering" /\ attempt[cur].n < MaxAttempt
  /\ SetAttempt(NewAttempt(attempt[cur].n + 1))
  /\ UNCHANGED <<campaign, cycle, runVars, coordVars>>

\* runOnce creates an attempt for a delivering cycle a crash left without one;
\* with it, the tick goes on to Handoff or Deliver.
RecoverAttempt ==
  /\ Ticking
  /\ CreateFirstAttempt(me)
  /\ UNCHANGED <<runVars, coordVars>>

\* reconcileDelivery; it asks GitHub first if the pull request is not known.
Deliver ==
  /\ Ticking
  /\ cycle[cur].status \in {"proposing", "delivering"} /\ cycle[cur].proposal = "accepted"
  /\ task[cur].status \notin {"none", "clarifying"}
  /\ cycle[cur].status = "delivering" => HasAttempt
  /\ IF task[cur].branch = "named" /\ task[cur].pr = "none"
        /\ task[cur].status \in {"review", "completed", "failed"}
     THEN Await("find") /\ UNCHANGED <<storeVars, runVars, proc, requests>>
     ELSE Reconcile(cur, cycle[cur].status, task[cur])

\* findPullRequest answers with the open pull request of the branch, if any.
FoundPr ==
  /\ tick.pc = "find"
  /\ Reconcile(cur, tick.seen,
               [task[cur] EXCEPT !.pr = IF pr[cur].state = "open" THEN "known" ELSE @])

-----------------------------------------------------------------------------
(* Releasing *)

\* releaseCycle for a task that has not passed: back to delivering if its head
\* is to be revalidated, and wait otherwise.
ReleaseNotPassed ==
  /\ Ticking /\ cycle[cur].status \in Release
  /\ ~Passed(task[cur])
  /\ IF task[cur].status = "building" /\ task[cur].head # 0
     THEN /\ InvalidateRelease(me, cycle[cur].status, FALSE)
          /\ LaunchUnqueued(cur, task[cur], "revalidate")
     ELSE /\ HoldRelease(me, cycle[cur].status, "ready_to_release", FALSE)
          /\ UNCHANGED <<task, run>>
  /\ UNCHANGED <<pr, accepted, coordVars>>

\* Otherwise a task still in review is shipped, then GitHub is asked.
ReleasePassed ==
  /\ Ticking /\ cycle[cur].status \in Release
  /\ Passed(task[cur])
  /\ IF task[cur].status = "review"
     THEN /\ Await("ship")
          /\ task' = [task EXCEPT ![cur].status = "shipping"]
     ELSE /\ tick' = [Idle EXCEPT !.pc = "pull", !.seen = cycle[cur].status,
                                  !.acc = task[cur].reviewed, !.merge = cycle[cur].merge,
                                  !.passed = "yes"]
          /\ UNCHANGED task
  /\ UNCHANGED <<storeVars, run, pr, accepted, proc, requests>>

\* shipTask marks the pull request ready for review; a failure fails the task
\* and the tick, whether or not GitHub had done it.
Shipped ==
  /\ tick.pc = "ship"
  /\ \/ /\ pr' = [pr EXCEPT ![cur].draft = "no"]
        /\ task' = [task EXCEPT ![cur].status = "completed"]
        /\ tick' = [tick EXCEPT !.pc = "pull",
                                !.passed = IF Passed(task[cur]) THEN "yes" ELSE "no"]
     \/ /\ "api" \in Faults
        /\ pr' \in {pr, [pr EXCEPT ![cur].draft = "no"]}
        /\ task' = [task EXCEPT ![cur].status = "failed"]
        /\ tick' = Idle
  /\ UNCHANGED <<storeVars, run, accepted, proc, requests>>

\* The head of the pull request as GitHub reports it.
PullHead == IF pr[cur].state = "merged" THEN pr[cur].merged ELSE pr[cur].tip

\* updateCycleDelivery's own guards: lease, campaign status, expected status.
Writable == LeasedTo(me) /\ campaign.status = "running" /\ cycle[cur].status = tick.seen

\* getPullRequest answers.  Another head than the reviewed one goes back to the
\* pipeline: the task's row is written before the cycle's is tried.
GotPull ==
  /\ tick.pc = "pull"
  /\ IF pr[cur].state = "open" /\ PullHead # tick.acc
     THEN LET t == [task[cur] EXCEPT !.status = "building", !.head = PullHead,
                                     !.review = "none", !.reviewed = 0, !.back = "pending"]
          IN  /\ IF Writable
                 THEN InvalidateRelease(me, tick.seen, TRUE) /\ LaunchUnqueued(cur, t, "revalidate")
                 ELSE task' = [task EXCEPT ![cur] = t] /\ UNCHANGED <<storeVars, run>>
              /\ tick' = Idle
     ELSE /\ tick' = [tick EXCEPT !.pc = "checks", !.head = PullHead,
                                  !.merged = pr[cur].merged, !.draft = pr[cur].draft]
          /\ UNCHANGED <<storeVars, task, run>>
  /\ UNCHANGED <<pr, accepted, proc, requests>>

\* A write of the release that lets the tick go on, or fails it.
Then(write, next) ==
  \/ write /\ tick' = next
  \/ ~Writable /\ UNCHANGED storeVars /\ tick' = Idle

\* listCheckRuns answers: green or not.  All gates are evaluated on the
\* snapshot, and the merge is requested for the head that was reviewed.
GotChecks(green) ==
  /\ tick.pc = "checks"
  /\ LET gates == tick.passed = "yes" /\ tick.head = tick.acc /\ green
         proceed == [tick EXCEPT !.seen = "releasing"]
     IN  IF tick.merged # 0
         THEN /\ IF gates /\ tick.merge \in {NoCommit, tick.merged}
                 THEN Then(RecordMerge(me, tick.seen, tick.merged),
                           [proceed EXCEPT !.pc = "base", !.merge = tick.merged])
                 ELSE Then(HoldRelease(me, tick.seen, "releasing", TRUE), Idle)
              /\ UNCHANGED requests
         ELSE IF tick.merge # NoCommit
         THEN /\ Then(HoldRelease(me, tick.seen, "releasing", FALSE), Idle)
              /\ UNCHANGED requests
         ELSE IF tick.draft = "yes"
         THEN /\ tick' = [tick EXCEPT !.pc = "ready"]
              /\ UNCHANGED <<storeVars, requests>>
         ELSE IF gates /\ Writable
         THEN /\ HoldRelease(me, tick.seen, "releasing", TRUE)
              /\ tick' = [proceed EXCEPT !.pc = "merge"]
              /\ requests' = requests \cup {[cycle |-> cur, head |-> tick.head]}
         ELSE /\ Then(HoldRelease(me, tick.seen, "ready_to_release", TRUE), Idle)
              /\ UNCHANGED requests
  /\ UNCHANGED <<runVars, proc>>

\* markPullRequestReady answers.
MarkedReady ==
  /\ tick.pc = "ready"
  /\ pr' = [pr EXCEPT ![cur].draft = "no"]
  /\ Then(HoldRelease(me, tick.seen, "ready_to_release", TRUE), Idle)
  /\ UNCHANGED <<task, run, accepted, proc, requests>>

\* Mutant of MergeAnswered: a merged pull request is taken for the requested one.
MergeAnsweredBlindly ==
  /\ tick.pc = "merge"
  /\ [cycle |-> cur, head |-> tick.head] \notin requests
  /\ pr[cur].state = "merged"
  /\ Then(RecordMerge(me, "releasing", tick.head),
          [tick EXCEPT !.pc = "base", !.merge = tick.head])
  /\ UNCHANGED <<runVars, proc, requests>>

\* mergePullRequest answers, or its connection breaks.
MergeAnswered ==
  /\ tick.pc = "merge"
  /\ [cycle |-> cur, head |-> tick.head] \notin requests
  /\ IF pr[cur].merged = tick.head
     THEN Then(RecordMerge(me, "releasing", tick.head),
               [tick EXCEPT !.pc = "base", !.merge = tick.head])
     ELSE tick' = Idle /\ UNCHANGED storeVars
  /\ UNCHANGED <<runVars, proc, requests>>

\* confirmMergedCycle: GitHub shows the merge commit on the base branch, or
\* does not show it yet.
Confirmed ==
  /\ tick.pc = "base"
  /\ \/ Then(ConfirmMerge(me, tick.seen, tick.merge), Idle)
     \/ "api" \in Faults /\ Then(RecordMerge(me, tick.seen, tick.merge), Idle)
  /\ UNCHANGED <<runVars, proc, requests>>

CallFails == "api" \in Faults /\ tick.pc \notin {"idle", "ship"} /\ TickFails

-----------------------------------------------------------------------------
(* The next feature *)

Cooldown ==
  /\ Ticking
  /\ cycle[cur].status = "cooldown" /\ cycle[cur].timer = "due"
  /\ Await("next")
  /\ UNCHANGED <<storeVars, runVars, proc, requests>>

\* The base branch's head is known; the campaign may have been paused meanwhile.
Proceed ==
  /\ tick.pc = "next"
  /\ \/ AdvanceAfterCooldown(me)
     \/ UNCHANGED storeVars /\ (cycle[cur].status # "cooldown" \/ ~LeasedTo(me))
  /\ tick' = Idle
  /\ UNCHANGED <<runVars, proc, requests>>

-----------------------------------------------------------------------------
(* GitHub, the clock and the process *)

\* GitHub takes up a merge request, also one whose sender is gone or has been
\* paused or stopped.
GitHubMerges ==
  \E r \in requests :
    /\ requests' = requests \ {r}
    /\ pr' = IF pr[r.cycle].state = "open" /\ pr[r.cycle].tip = r.head
             THEN [pr EXCEPT ![r.cycle].state = "merged", ![r.cycle].merged = r.head]
             ELSE pr
    /\ UNCHANGED <<storeVars, task, run, accepted, proc, tick>>

SomebodyPushes ==
  /\ "push" \in Faults
  /\ \E c \in Cycles :
       /\ pr[c].state = "open" /\ pr[c].tip < MaxHead
       /\ pr' = [pr EXCEPT ![c].tip = @ + 1]
  /\ UNCHANGED <<storeVars, task, run, accepted, coordVars>>

SomebodyMerges ==
  /\ "merge" \in Faults
  /\ \E c \in Cycles :
       /\ pr[c].state = "open"
       /\ pr' = [pr EXCEPT ![c].state = "merged", ![c].merged = pr[c].tip,
                           ![c].draft = "no"]
  /\ UNCHANGED <<storeVars, task, run, accepted, coordVars>>

\* A lease runs out when nobody renews it: the process is gone, it is another
\* pod's, the campaign is paused, or ("expire") the tick is held up.
Expire ==
  /\ "expire" \in Faults \/ ~Up \/ campaign.owner # me \/ campaign.status # "running"
  /\ LeaseExpires
  /\ UNCHANGED <<runVars, coordVars>>

Elapse == TimerElapses /\ UNCHANGED <<runVars, coordVars>>

Crash ==
  /\ "crash" \in Faults
  /\ Up /\ proc.crashes < MaxCrash
  /\ proc' = [proc EXCEPT !.up = "down", !.crashes = @ + 1]
  /\ tick' = Idle
  /\ run' = [c \in Cycles |-> NoRun]
  /\ UNCHANGED <<storeVars, task, pr, accepted, requests>>

\* reconcileOrphanedRuns, for the task of cycle c.
Recovered(c) ==
  LET t == task[c]
      replayable == /\ campaign.status = "running" /\ c = cur
                    /\ cycle[c].status \in {"proposing", "delivering"}
      to == IF replayable /\ cycle[c].gates = "revalidate" THEN "building"
            ELSE IF replayable /\ (\/ t.status = "clarifying"
                                   \/ t.status = "building" /\ t.base = "none")
            THEN "clarifying"
            ELSE "failed"
  IN  IF t.status \in {"clarifying", "building", "deploying", "shipping"}
      THEN [t EXCEPT !.status = to] ELSE t

Boot ==
  /\ ~Up
  /\ \E o \in Owner : proc' = [proc EXCEPT !.up = "up", !.pod = o]
  /\ task' = [c \in Cycles |-> Recovered(c)]
  /\ UNCHANGED <<storeVars, run, pr, accepted, tick, requests>>

-----------------------------------------------------------------------------

Operator == Begin \/ Pause \/ Resume \/ Stop

Coordinator ==
  \/ Renew \/ ResumeWait \/ Retry \/ Handoff \/ RecoverAttempt \/ Deliver \/ FoundPr
  \/ ReleaseNotPassed \/ ReleasePassed \/ Shipped \/ GotPull
  \/ (\E green \in BOOLEAN : GotChecks(green))
  \/ MarkedReady \/ MergeAnswered \/ Confirmed \/ Cooldown \/ Proceed \/ CallFails

TaskRuns == (\E c \in Cycles : Run(me, c)) /\ UNCHANGED coordVars

World == GitHubMerges \/ SomebodyPushes \/ SomebodyMerges \/ Elapse

Next ==
  \/ Up /\ ~HandingOff /\ (Operator \/ Coordinator \/ TaskRuns)
  \/ Up /\ (HandoffLinks \/ HandoffCreatesAttempt \/ HandoffLaunches)
  \/ ~HandingOff /\ Expire
  \/ World
  \/ Crash
  \/ Boot

Spec == Init /\ [][Next]_vars

-----------------------------------------------------------------------------
(* Properties *)

TaskRow ==
  [status : {"none", "clarifying", "building", "deploying", "review", "shipping",
             "completed", "failed"},
   branch : {"none", "named"}, base : {"none", "reserved"}, head : 0..MaxHead,
   front : {"pending", "done"}, back : {"pending", "done"},
   review : {"none", "accepted", "changes", "not-run", "unhealthy"},
   reviewed : 0..MaxHead, feedback : {"none", "pending"}, pr : {"none", "known"}]
RunRow ==
  [phase : {"off", "start", "code", "deploy", "backoff", "review", "verdict"},
   mode : {"none", "build", "iterate", "revalidate"},
   intr : {"none", "pause", "stop"}, queued : {"yes", "no"},
   missed : {"yes", "no"}]
PrRow ==
  [state : {"none", "open", "merged"}, draft : {"yes", "no"}, tip : 0..MaxHead,
   merged : 0..MaxHead]

\* Type invariant of what Campaign adds to the store.
TypeOK ==
  /\ task \in [Cycles -> TaskRow]
  /\ run \in [Cycles -> RunRow]
  /\ pr \in [Cycles -> PrRow]
  /\ accepted \in [Cycles -> SUBSET Head]
  /\ proc \in [up : {"up", "down"}, pod : Owner, crashes : 0..MaxCrash]
  /\ tick \in [pc : {"idle", "link", "attempt", "launch", "find", "ship", "pull",
                     "checks", "ready", "merge", "base", "next"},
               seen : CycleStatus, acc : 0..MaxHead, passed : {"yes", "no"},
               merge : 0..MaxHead, head : 0..MaxHead, merged : 0..MaxHead,
               draft : {"yes", "no"}]
  /\ requests \subseteq [cycle : Cycles, head : Head]

\* The coordinator asks GitHub to merge only heads a reviewer accepted in this
\* cycle, whoever pushed, paused, crashed or took over between the review and
\* the request, and whatever the snapshot of the tick has missed.
OnlyAcceptedIsMerged == \A r \in requests : r.head \in accepted[r.cycle]

\* A merge commit the campaign records is the one on GitHub, and a feature cools
\* down or is left behind only when what was merged had been accepted.
LandedWasAccepted ==
  \A c \in Cycles :
    /\ cycle[c].merge # NoCommit => pr[c].merged = cycle[c].merge
    /\ \/ cycle[c].status \in {"cooldown", "succeeded"}
       \/ cycle[c].status = "paused" /\ cycle[c].from = "cooldown"
       => cycle[c].merge \in accepted[c]

\* The rows of tasks, runs, pull requests and the tick hold only values their
\* writers put there, and what they record of merges is what GitHub merged and
\* a reviewer accepted.
CampaignInv == TypeOK /\ LandedWasAccepted

\* Something is left that will move the task t of a cycle with status s: the
\* coordinator hands it off, fails it, releases it or starts a run for it.
Movable(c, s, t) ==
  \/ Passed(t) /\ (s \in Release \/ t.status \in {"review", "completed", "failed"})
  \/ s = "delivering" /\
       \/ t.status \in {"none", "clarifying", "failed"}
       \/ t.status = "review" /\ Passed([t EXCEPT !.pr = "known"]) /\ pr[c].state = "open"
       \/ t.status = "review" /\ t.review = "changes" /\ t.feedback = "pending"
       \/ t.status = "building" /\ t.head # 0 /\ cycle[c].gates = "revalidate"
  \/ s \in Release /\ t.status = "building" /\ t.head # 0

\* The current feature is being delivered or released, and nobody is at work on it.
Unattended ==
  /\ Up /\ tick.pc = "idle"
  /\ campaign.status = "running"
  /\ HasCycle /\ cycle[cur].status \in {"delivering"} \cup Release
  /\ ~Active(cur)

\* A running campaign is never stranded: whenever nobody is at work on its
\* feature, the next tick has something to do about it.  Nothing in the code
\* watches for this; every path that ends a run has to leave the task in a row
\* some branch of the tick acts on.  The requirements promise it: "Retry
\* continues indefinitely until success, pause, or stop".
NotStranded == Unattended => Movable(cur, cycle[cur].status, task[cur])

\* A task marked as being worked on, at which nobody is, and which nothing moves.
Forgotten ==
  /\ Unattended
  /\ task[cur].status \in {"building", "deploying", "shipping"}
  /\ ~Movable(cur, cycle[cur].status, task[cur])

\* No task waits for a run that nobody will start.  A crash takes the runs with
\* it, a guard ends one in the middle of its work, and a launch is skipped without
\* a word while an earlier run of the task is still unwinding: each leaves a row
\* that somebody acts on, or the resume is queued.  The one exception is a run
\* that was interrupted and met, before it had unwound, a launch of the
\* coordinator's, which is not queued.
NoRunIsLost == Forgotten => run[cur].missed = "yes"

\* The same without the exception: "Resume continues the same cycle and attempt"
\* (the requirements, on pause and resume).
NoRunIsEverLost == ~Forgotten

\* "Stop arrives after merge but before cycle commit: reconcile the base SHA,
\* record the successful merge, then stop" (the requirements' edge cases): when
\* everything has come to rest, a stopped campaign knows what it has merged.
StopRecordsMerge ==
  campaign.status = "stopped" /\ HasCycle /\ tick.pc = "idle" /\ requests = {}
  => cycle[cur].merge = pr[cur].merged

\* The transactions the operator, the tick and the runs issue are those of the
\* store, each of them when its guard holds: StoreSpec, in a form that TLC need not
\* try every transaction on the many steps that write nothing.
StoreSteps == StoreInit /\ [][UNCHANGED storeVars \/ StoreNext]_storeVars

=============================================================================
