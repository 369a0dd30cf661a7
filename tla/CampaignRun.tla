----------------------------- MODULE CampaignRun -----------------------------
(***************************************************************************)
(* The task runs that deliver a campaign's features                        *)
(* (engine/agent-engine.ts): each cycle's task row, its pull request and   *)
(* the one asynchronous run that may be at work on it.  A run is launched  *)
(* to build a task from nothing, to iterate on its branch, or to           *)
(* revalidate a head somebody else pushed.  Before every stage it asks the *)
(* attempt manager (guardCampaignTaskStage); between two guards it awaits  *)
(* models, git, the image registry and Kubernetes, and there the operator, *)
(* the coordinator or a crash can come in.  A step of a run is one segment *)
(* that starts with a guard: what the guard decides and what the segment   *)
(* leaves in the database when it is over.                                 *)
(*                                                                         *)
(* Commits are numbered along the task's branch; the squash merge of head  *)
(* h is merge commit h.                                                    *)
(***************************************************************************)
EXTENDS CampaignStore

CONSTANTS
  MaxHead,  \* bound: commits on one branch
  Faults    \* what may go wrong besides the interleaving itself

Head == 1..MaxHead

ASSUME HeadAssumption == MaxHead \in Nat \ {0} /\ Commit = Head /\ NoCommit = 0
ASSUME FaultAssumption ==
  Faults \subseteq {"fail",       \* a segment of a run throws
                    "unhealthy",  \* the preview never becomes healthy
                    "wait",       \* the cluster, the registry or a price is missing
                    "unpriced",   \* a model answers under a name without a price
                    "not-run",    \* the reviewer does not answer
                    "no-change",  \* an iteration edits no file
                    "no-pr",      \* opening the draft pull request fails
                    "no-base",    \* reserving the branch on origin fails
                    "api",        \* a call of the coordinator to GitHub fails
                    "push", "merge",             \* somebody else pushes, or merges
                    "expire", "crash", "pause", "stop"}

VARIABLES
  task,      \* the task row of each cycle
  run,       \* activeTaskRuns and pendingCampaignResumes
  pr,        \* GitHub: the branch and its pull request
  accepted   \* history: the heads of each cycle a reviewer ever accepted

runVars == <<task, run, pr, accepted>>

NoTask == [status |-> "none", branch |-> "none", base |-> "none", head |-> 0,
           front |-> "pending", back |-> "pending",
           review |-> "none", reviewed |-> 0, feedback |-> "none", pr |-> "none"]
\* missed is history: the task was to go on while this run, already interrupted,
\* was still unwinding, and nothing was queued (LaunchUnqueued, RetryBuild).
NoRun == [phase |-> "off", mode |-> "none", intr |-> "none", queued |-> "no",
          missed |-> "no"]
NoPr == [state |-> "none", draft |-> "no", tip |-> 0, merged |-> 0]

RunInit ==
  /\ task = [c \in Cycles |-> NoTask]
  /\ run = [c \in Cycles |-> NoRun]
  /\ pr = [c \in Cycles |-> NoPr]
  /\ accepted = [c \in Cycles |-> {}]

-----------------------------------------------------------------------------
(* The task row *)

\* The pipeline's stages up to the coder's (front), and from build to review
\* (back), are done or still to do.
Reset(t) == [t EXCEPT !.front = "pending", !.back = "pending"]

\* Mutant of Passed: any verdict on the current head will do.
PassedAnyhow(t) ==
  /\ t.front = "done" /\ t.back = "done"
  /\ t.reviewed = t.head /\ t.feedback = "none" /\ t.pr = "known"

\* taskPassedReleaseReview
Passed(t) ==
  /\ t.front = "done" /\ t.back = "done"
  /\ t.review = "accepted" /\ t.reviewed = t.head
  /\ t.feedback = "none"
  /\ t.pr = "known"

-----------------------------------------------------------------------------
(* Launching and ending a run *)

Active(c) == run[c].phase # "off"

Launched(mode) == [NoRun EXCEPT !.phase = "start", !.mode = mode]

\* What each launch writes before its first await.
AtLaunch(t, mode) ==
  CASE mode = "build" -> [Reset(t) EXCEPT !.status = "building"]
    [] mode = "revalidate" -> [t EXCEPT !.status = "building",
                                        !.review = "none", !.reviewed = 0]
    [] OTHER -> t

\* startBuild, iterateTask and revalidateCampaignTask: a task that has a run
\* does not get a second one, and the caller is not told.
Launch(c, t, mode) ==
  IF Active(c)
  THEN /\ task' = [task EXCEPT ![c] = t]
       /\ UNCHANGED run
  ELSE /\ task' = [task EXCEPT ![c] = AtLaunch(t, mode)]
       /\ run' = [run EXCEPT ![c] = Launched(mode)]

Missed(c) == IF run[c].intr # "none" THEN "yes" ELSE run[c].missed

\* The coordinator's launches after a retry, an external wait or an invalidated
\* release.  Nobody queues them as the operator's resume is queued.
LaunchUnqueued(c, t, mode) ==
  IF Active(c)
  THEN /\ task' = [task EXCEPT ![c] = t]
       /\ run' = [run EXCEPT ![c].missed = Missed(c)]
  ELSE Launch(c, t, mode)

\* campaignTaskAttemptContext
Context(c) == c = cur /\ cycle[c].task = "linked"

\* Mutant of Runnable: only a stop is looked for.
RunnableUnlessStopped(c) == campaign.status # "stopped"

\* The campaign would let the task run (resumeCampaignTask, and the last
\* test of evaluateBeforeAction).
Runnable(c) ==
  /\ campaign.status = "running"
  /\ cycle[c].status = "delivering"
  /\ attempt[c].status = "running"

Resumed(t) == IF t.branch = "named" THEN "iterate" ELSE "build"

\* Mutant of ResumeTask: without queueIfActive.
ResumeUnqueued(c) == Launch(c, task[c], Resumed(task[c]))

\* resumeCampaignTask with queueIfActive, from the operator's resume.
ResumeTask(c) ==
  IF Active(c)
  THEN /\ run' = [run EXCEPT ![c].queued = "yes"]
       /\ UNCHANGED task
  ELSE Launch(c, task[c], Resumed(task[c]))

\* The end of a run that leaves the task row t: endTaskRun, and the resume
\* that was queued meanwhile, if the campaign (after this step) allows it.
Ends(c, t) ==
  IF run[c].queued = "yes" /\ (Context(c) => Runnable(c))'
  THEN /\ task' = [task EXCEPT ![c] = AtLaunch(t, Resumed(t))]
       /\ run' = [run EXCEPT ![c] = Launched(Resumed(t))]
  ELSE /\ task' = [task EXCEPT ![c] = t]
       /\ run' = [run EXCEPT ![c] = [NoRun EXCEPT !.missed = run[c].missed]]

\* interruptTaskAgentTurn
Interrupt(c, reason) ==
  run' = [run EXCEPT ![c].intr = IF Active(c) /\ Context(c) THEN reason ELSE @]

-----------------------------------------------------------------------------
(* The guard before a stage *)

\* CampaignTaskStageBlockedError: the run stops and leaves the task as it is.
Blocked(c) ==
  /\ Context(c)
  /\ \/ run[c].intr # "none"
     \/ campaign.status \in {"paused", "stopped"}
     \/ cycle[c].status \in {"waiting_for_external", "retry_wait"}

\* guardCampaignTaskStage returns.
Allowed(o, c) ==
  Context(c) => run[c].intr = "none" /\ Runnable(c) /\ LeasedTo(o)

\* guardCampaignTaskStage throws and handleCampaignPipelineFailure handles it:
\* a blocked run and one whose cycle is not delivering any more leave the task
\* alone, a lost lease fails it.
Halts(o, c, t) ==
  /\ ~Allowed(o, c)
  /\ UNCHANGED storeVars
  /\ Ends(c, IF Blocked(c) \/ LeasedTo(o) THEN t ELSE [t EXCEPT !.status = "failed"])

Enters(c, phase) == run' = [run EXCEPT ![c].phase = phase]

-----------------------------------------------------------------------------
(* The segments *)

\* runFullPipeline up to the coder's turn.
BeginBuild(o, c) ==
  /\ run[c].phase = "start" /\ run[c].mode = "build"
  /\ \/ /\ Allowed(o, c)
        /\ \E base \in {"reserved"} \cup
                      (IF "no-base" \in Faults THEN {task[c].base} ELSE {}) :
             task' = [task EXCEPT ![c] = [Reset(@) EXCEPT !.branch = "named", !.base = base]]
        /\ Enters(c, "code")
        /\ UNCHANGED storeVars
     \/ Halts(o, c, Reset(task[c]))
  /\ UNCHANGED <<pr, accepted>>

\* runIteration up to the coder's turn: the status and the pipeline's stages
\* are reset before the guard is asked.
BeginIteration(o, c) ==
  /\ run[c].phase = "start" /\ run[c].mode = "iterate"
  /\ LET t == [Reset(task[c]) EXCEPT !.status = "building"]
     IN  \/ /\ Allowed(o, c)
            /\ task' = [task EXCEPT ![c] = t]
            /\ Enters(c, "code")
            /\ UNCHANGED storeVars
         \/ Halts(o, c, t)
  /\ UNCHANGED <<pr, accepted>>

\* revalidateCampaignTask takes the branch as it finds it on origin.
BeginRevalidation(o, c) ==
  /\ run[c].phase = "start" /\ run[c].mode = "revalidate"
  /\ LET t == [task[c] EXCEPT !.head = pr[c].tip]
     IN  \/ /\ Allowed(o, c)
            /\ task' = [task EXCEPT ![c] = t]
            /\ Enters(c, "deploy")
            /\ UNCHANGED storeVars
         \/ Halts(o, c, t)
  /\ UNCHANGED <<pr, accepted>>

\* The coder's turn takes the reviewer's feedback along; then a commit is pushed.
Push(o, c) ==
  /\ run[c].phase = "code"
  /\ LET t == [task[c] EXCEPT !.feedback = "none", !.front = "done"]
     IN  \/ /\ Allowed(o, c)
            /\ pr[c].tip < MaxHead
            /\ pr' = [pr EXCEPT ![c].tip = @ + 1]
            /\ task' = [task EXCEPT ![c] = [t EXCEPT !.head = pr[c].tip + 1,
                                                     !.base = IF run[c].mode = "build"
                                                              THEN "reserved" ELSE @]]
            /\ Enters(c, "deploy")
            /\ UNCHANGED storeVars
         \/ Halts(o, c, t) /\ UNCHANGED pr
  /\ UNCHANGED accepted

\* An iteration that edits nothing is over: its review is skipped, and build,
\* deploy and validate stay pending.
ChangeNothing(o, c) ==
  /\ "no-change" \in Faults
  /\ run[c].phase = "code" /\ run[c].mode = "iterate"
  /\ Allowed(o, c)
  /\ UNCHANGED <<storeVars, pr, accepted>>
  /\ Ends(c, [task[c] EXCEPT !.feedback = "none", !.front = "done", !.status = "review"])

\* Image build, rollout and validation; the first one opens the draft pull
\* request or finds it, and goes on without it if that fails.
Deploy(o, c) ==
  /\ run[c].phase = "deploy"
  /\ \/ /\ Allowed(o, c)
        /\ \/ /\ run[c].mode = "build"
              /\ pr' = [pr EXCEPT ![c].state = IF @ = "none" THEN "open" ELSE @,
                                  ![c].draft = IF pr[c].state = "none" THEN "yes" ELSE @]
              /\ task' = [task EXCEPT ![c].status = "deploying", ![c].pr = "known"]
           \/ /\ run[c].mode = "build" => "no-pr" \in Faults
              /\ task' = [task EXCEPT ![c].status = "deploying"]
              /\ UNCHANGED pr
        /\ Enters(c, "review")
        /\ UNCHANGED storeVars
     \/ Halts(o, c, task[c]) /\ UNCHANGED pr
  /\ UNCHANGED accepted

\* The guard before the reviewer is called.
CallReviewer(o, c) ==
  /\ run[c].phase = "review"
  /\ \/ /\ Allowed(o, c)
        /\ Enters(c, "verdict")
        /\ UNCHANGED <<task, storeVars>>
     \/ Halts(o, c, task[c])
  /\ UNCHANGED <<pr, accepted>>

\* recordUsage accepts the reviewer's turn.
Recordable(o, c) ==
  Context(c) =>
    /\ LeasedTo(o) /\ campaign.status = "running" /\ attempt[c].status = "running"
    /\ \/ cycle[c].status = "delivering" /\ attempt[c].clock = "on"
       \/ cycle[c].status = "waiting_for_external" /\ attempt[c].clock = "off"

\* The task row when a run with a validated preview is over.
Finished(t, healthy) ==
  [t EXCEPT !.status = IF healthy THEN "review" ELSE "failed",
            !.back = IF healthy THEN "done" ELSE "pending"]

\* The reviewer has answered.  Its feedback is queued at once; its verdict is
\* recorded only if its turn could be charged to the attempt.  A turn that
\* cannot be charged stops the run if the campaign forbids it, and is a mere
\* warning otherwise: the task is put into review without a verdict.
Answer(o, c, verdict, healthy) ==
  LET t == [task[c] EXCEPT !.feedback = IF verdict = "changes" THEN "pending" ELSE @]
      judged == [t EXCEPT !.review = IF healthy THEN verdict ELSE "unhealthy",
                          !.reviewed = t.head]
  IN  \/ /\ Recordable(o, c)
         /\ Ends(c, Finished(judged, healthy))
         /\ accepted' = [accepted EXCEPT ![c] = IF judged.review = "accepted"
                                                THEN @ \cup {t.head} ELSE @]
      \/ /\ ~Recordable(o, c) /\ LeasedTo(o) /\ Blocked(c)
         /\ Ends(c, t)
         /\ UNCHANGED accepted
      \/ /\ ~Recordable(o, c) /\ ~(LeasedTo(o) /\ Blocked(c))
         /\ Ends(c, Finished(t, healthy))
         /\ UNCHANGED accepted

\* The reviewer did not answer: timed out, threw, or was interrupted.
NoAnswer(c, healthy) ==
  /\ "not-run" \in Faults \/ run[c].intr # "none"
  /\ Ends(c, Finished([task[c] EXCEPT !.review = IF healthy THEN "not-run" ELSE "unhealthy",
                                      !.reviewed = task[c].head], healthy))
  /\ UNCHANGED accepted

Conclude(o, c) ==
  /\ run[c].phase = "verdict"
  /\ UNCHANGED <<storeVars, pr>>
  /\ \E healthy \in {TRUE} \cup (IF "unhealthy" \in Faults THEN {FALSE} ELSE {}) :
       \/ \E verdict \in {"accepted", "changes"} : Answer(o, c, verdict, healthy)
       \/ NoAnswer(c, healthy)

-----------------------------------------------------------------------------
(* Errors and waits *)

\* Any segment may throw, and an attempt at its limit is failed by the guard:
\* handleCampaignPipelineFailure.
Fail(o, c) ==
  /\ "fail" \in Faults
  /\ Active(c)
  /\ IF Context(c) /\ run[c].intr # "none"
     THEN UNCHANGED storeVars /\ Ends(c, task[c])
     ELSE IF Context(c) /\ Failable(o)
     THEN FailAttempt(o) /\ Ends(c, task[c])
     ELSE /\ UNCHANGED storeVars
          /\ Ends(c, IF Context(c) /\ LeasedTo(o) THEN task[c]
                     ELSE [task[c] EXCEPT !.status = "failed"])
  /\ UNCHANGED <<pr, accepted>>

\* A build or an iteration whose SDK session died starts over after a back-off,
\* unless it has been interrupted.
StartOver(c) ==
  /\ "fail" \in Faults
  /\ run[c].mode # "revalidate" /\ run[c].phase \notin {"off", "start"}
  /\ Context(c) => run[c].intr = "none"
  /\ Enters(c, "start")
  /\ UNCHANGED <<storeVars, task, pr, accepted>>

\* The cluster cannot be reached, or the next model has no price: the attempt
\* waits and the run is over.
GiveUp(o, c) ==
  /\ "wait" \in Faults
  /\ Active(c) /\ run[c].phase # "start"
  /\ Context(c) /\ run[c].intr = "none"
  /\ WaitForExternal(o)
  /\ Ends(c, task[c])
  /\ UNCHANGED <<pr, accepted>>

\* buildWithFixer, on a transient registry error: the attempt waits and so does
\* the run, for longer than the registry's back-off or not.
BackOff(o, c) ==
  /\ "wait" \in Faults
  /\ run[c].phase = "deploy"
  /\ Context(c)
  /\ WaitForExternal(o)
  /\ Enters(c, "backoff")
  /\ UNCHANGED <<task, pr, accepted>>

\* resumeCampaignTaskExternalWait; a run that was interrupted while it waited
\* goes on only to its next guard.
RetryBuild(o, c) ==
  /\ run[c].phase = "backoff"
  /\ IF Context(c) /\ cycle[c].status = "waiting_for_external"
     THEN \/ /\ ResumeExternalWait(o)
             /\ run' = [run EXCEPT ![c].phase = "deploy", ![c].missed = Missed(c)]
             /\ UNCHANGED task
          \/ /\ ~LeasedTo(o)
             /\ UNCHANGED storeVars
             /\ Ends(c, IF run[c].intr # "none" THEN task[c]
                        ELSE [task[c] EXCEPT !.status = "failed"])
     ELSE \/ /\ Allowed(o, c)
             /\ Enters(c, "deploy")
             /\ UNCHANGED <<task, storeVars>>
          \/ Halts(o, c, task[c])
  /\ UNCHANGED <<pr, accepted>>

\* recordUsageEvent: a turn whose price is unknown makes the attempt wait and
\* interrupts the run, which is still to notice.
MissPrice(o, c) ==
  /\ "unpriced" \in Faults
  /\ run[c].phase \in {"code", "verdict"}
  /\ Context(c)
  /\ WaitForExternal(o)
  /\ Interrupt(c, "pause")
  /\ UNCHANGED <<task, pr, accepted>>

Run(o, c) ==
  \/ BeginBuild(o, c) \/ BeginIteration(o, c) \/ BeginRevalidation(o, c)
  \/ Push(o, c) \/ ChangeNothing(o, c) \/ Deploy(o, c)
  \/ CallReviewer(o, c) \/ Conclude(o, c)
  \/ Fail(o, c) \/ StartOver(c) \/ GiveUp(o, c) \/ BackOff(o, c) \/ RetryBuild(o, c) \/ MissPrice(o, c)

=============================================================================
