------------------------------ MODULE TaskLife ------------------------------
(***************************************************************************)
(* The life of one user's task: the routes that draft its specification,   *)
(* build it, iterate on it, ship, close, cancel, discard and delete it     *)
(* (routes/tasks.ts, routes/workstreams.ts), the runs of                   *)
(* engine/agent-engine.ts that work on it, and what a restart makes of it  *)
(* (index.ts, reconcileOrphanedRuns).  Every route and every run writes    *)
(* the row as it sees fit: nothing but activeTaskRuns, which admits one    *)
(* run at a time, keeps them apart.  An await is a step of its own where   *)
(* what is read before it is used after it.                                *)
(***************************************************************************)
EXTENDS Naturals, FiniteSets

CONSTANTS
  MaxAsk,      \* bound: requests of the user
  MaxMishap,   \* bound: calls that fail
  MaxCrash,    \* bound: process deaths
  MaxAttempts  \* MAX_ATTEMPTS of a run (AGENT_MAX_RETRY_ATTEMPTS)

ASSUME LifeAssumption ==
  MaxAsk \in Nat /\ MaxMishap \in Nat /\ MaxCrash \in Nat /\ MaxAttempts \in Nat \ {0}

Status == {"clarifying", "specifying", "building", "deploying", "review", "shipping",
           "completed", "failed", "discarded", "deleting", "gone"}

VARIABLES
  row,      \* the task's row; "gone" once it is deleted
  hub,      \* GitHub: the task's branch (0, or the number of its tip) and pull request
  env,      \* Kubernetes: the dev namespace exists
  disk,     \* the workspace directory exists
  live,     \* liveSessions has the task
  run,      \* activeTaskRuns, and where the run is
  agent,    \* inFlightAgents, and whether a chat message waits in its queue
  gen,      \* the specification generator is at work
  revive,   \* chats that wait for startDevEnvForTask
  ship,     \* shipTask: where it is, and the head its checks are read for
  closing,  \* closeTask
  tear,     \* teardownTask for discardTask and for purgeTask
  boot,     \* what the last boot has still to do
  bounds,   \* requests, mishaps and crashes so far
  verified  \* history: the heads whose checks passed

lifeVars == <<row, hub, env, disk, live, run, agent, gen, revive, ship, closing, tear,
              boot, bounds, verified>>
\* What a run alone leaves untouched.
others == <<gen, revive, ship, closing, tear, boot, verified>>

NoRow == [status |-> "gone", spec |-> FALSE, branch |-> "no", pr |-> FALSE,
          image |-> FALSE, dev |-> "none"]
NoRun == [at |-> "none", kind |-> "build", try |-> 0]
NoAgent == [on |-> FALSE, pending |-> FALSE]
NoTear == [at |-> "free", branch |-> FALSE, pr |-> FALSE, ns |-> FALSE, alone |-> FALSE,
           since |-> 0]
Kind == {"discard", "purge"}

Start == [at |-> "start", kind |-> "build", try |-> 1]
Fresh == [NoRow EXCEPT !.status = "clarifying"]
Built == [status |-> "review", spec |-> TRUE, branch |-> "reserved", pr |-> TRUE,
          image |-> TRUE, dev |-> "active"]

\* POST /api/tasks leaves the task to the first chat message; the webhook
\* dispatcher starts the build at once; or the task was built before, and
\* perhaps the process restarted since.
LifeInit ==
  /\ \/ /\ row = Fresh /\ run \in {NoRun, Start}
        /\ hub = [head |-> 0, pull |-> "none", merged |-> 0]
        /\ env = FALSE /\ live = FALSE
     \/ /\ row = Built /\ run = NoRun
        /\ hub = [head |-> 2, pull |-> "draft", merged |-> 0]
        /\ env = TRUE /\ live \in BOOLEAN
  /\ disk = env
  /\ agent = NoAgent /\ gen = FALSE /\ revive = 0
  /\ ship = [at |-> "free", head |-> 0] /\ closing = "free"
  /\ tear = [k \in Kind |-> NoTear]
  /\ boot = [resume |-> FALSE, purge |-> FALSE]
  /\ bounds = [asks |-> 0, mishaps |-> 0, crashes |-> 0]
  /\ verified = {}

Gone == row.status = "gone"
Settled == row.status \in {"review", "completed", "failed"}
Busy == row.status \in {"building", "deploying", "shipping"}
CanIterate == live \/ (Settled /\ row.branch # "no")
Asleep == row.dev = "stopped" /\ row.image

\* updateTask: a row that is gone is not written.
Saved(r) == IF Gone THEN row ELSE r
SetTaskStatus(s) == row' = Saved([row EXCEPT !.status = s])

Asks == bounds.asks < MaxAsk /\ bounds' = [bounds EXCEPT !.asks = @ + 1]
Mishap == bounds.mishaps < MaxMishap /\ bounds' = [bounds EXCEPT !.mishaps = @ + 1]

\* beginTaskRun: a second run is refused without a word.
Begun(kind) == IF run.at = "none" THEN [at |-> "start", kind |-> kind, try |-> 1] ELSE run

-----------------------------------------------------------------------------
(* POST /api/tasks/:id/chat: what a message does, first match first.  One  *)
(* that none of the cases takes is answered "I can't act on this".         *)

Chatty == ~Gone /\ row.status # "deleting" /\ Asks

ChatRevives ==
  /\ Asleep /\ Chatty
  /\ revive' = revive + 1
  /\ UNCHANGED <<row, hub, env, disk, live, run, agent, gen, ship, closing, tear, boot, verified>>

ChatSpecifies ==
  /\ ~Asleep /\ row.status = "clarifying" /\ Chatty
  /\ SetTaskStatus("specifying")
  /\ gen' = TRUE
  /\ UNCHANGED <<hub, env, disk, live, run, agent, revive, ship, closing, tear, boot, verified>>

ChatIterates ==
  /\ ~Asleep /\ Settled /\ CanIterate /\ Chatty
  /\ run' = Begun("iterate")
  /\ UNCHANGED <<row, hub, env, disk, live, agent, others>>

ChatInterrupts ==
  /\ ~Asleep /\ row.status # "clarifying" /\ ~(Settled /\ CanIterate)
  /\ agent.on /\ Chatty
  /\ agent' = [agent EXCEPT !.pending = TRUE]
  /\ UNCHANGED <<row, hub, env, disk, live, run, others>>

ChatRestarts ==
  /\ ~Asleep /\ row.status \in {"failed", "building", "deploying", "shipping"}
  /\ ~(Settled /\ CanIterate) /\ ~agent.on
  /\ row.spec /\ row.branch = "no" /\ Chatty
  /\ SetTaskStatus("building")
  /\ run' = Begun("build")
  /\ UNCHANGED <<hub, env, disk, live, agent, others>>

Chat == ChatRevives \/ ChatSpecifies \/ ChatIterates \/ ChatInterrupts \/ ChatRestarts

\* The generator's answer counts while the task still waits for it; then it
\* is left for approval (requireSpecApproval) or built at once.
SpecArrives ==
  /\ gen /\ gen' = FALSE
  /\ \/ /\ row.status = "specifying"
        /\ \/ /\ row' = [row EXCEPT !.spec = TRUE]
              /\ UNCHANGED run
           \/ /\ row' = [row EXCEPT !.spec = TRUE, !.status = "building"]
              /\ run' = Begun("build")
     \/ row.status # "specifying" /\ UNCHANGED <<row, run>>
  /\ UNCHANGED <<hub, env, disk, live, agent, revive, ship, closing, tear, boot, bounds, verified>>

\* Its failure reopens the task whatever has become of it.
SpecFails ==
  /\ gen /\ gen' = FALSE /\ Mishap
  /\ SetTaskStatus("clarifying")
  /\ UNCHANGED <<hub, env, disk, live, run, agent, revive, ship, closing, tear, boot, verified>>

\* PATCH spec, and approve-spec with the text edited in its body.
EditSpec ==
  /\ row.status = "specifying" /\ ~row.spec /\ Asks
  /\ row' = [row EXCEPT !.spec = TRUE]
  /\ UNCHANGED <<hub, env, disk, live, run, agent, others>>

ApproveSpec ==
  /\ row.status = "specifying" /\ Asks
  /\ row.spec
  /\ SetTaskStatus("building")
  /\ run' = Begun("build")
  /\ UNCHANGED <<hub, env, disk, live, agent, others>>

\* startDevEnvForTask for a chat that waits, and the chat routed anew: the
\* message is lost if the environment cannot be changed or no run may start.
Revived ==
  /\ revive > 0 /\ revive' = revive - 1
  /\ \/ /\ ~Gone /\ ~(row.dev = "stopped" /\ (Busy \/ agent.on))
        /\ row' = [row EXCEPT !.dev = "active"]
        /\ env' = (env \/ row.dev = "stopped")
        /\ run' = IF Settled /\ CanIterate THEN Begun("iterate") ELSE run
        /\ UNCHANGED bounds
     \/ /\ Gone \/ (row.dev = "stopped" /\ (Busy \/ agent.on))
        /\ UNCHANGED <<row, env, run, bounds>>
     \/ /\ ~Gone /\ row.dev = "stopped" /\ ~Busy /\ ~agent.on /\ Mishap
        /\ env' \in {env, TRUE}
        /\ UNCHANGED <<row, run>>
  /\ UNCHANGED <<hub, disk, live, agent, gen, ship, closing, tear, boot, verified>>

-----------------------------------------------------------------------------
(* Runs: startBuild and iterateTask around runFullPipeline and runIteration *)

\* The last status of a run, and the end of it.
Ends(status) == /\ SetTaskStatus(status)
                /\ run' = NoRun /\ agent' = NoAgent

To(place) == run' = [run EXCEPT !.at = place]

\* What fails for good, or for as long as it is tried, fails the task.
Fails == Ends("failed") /\ UNCHANGED <<hub, env, disk, live, others>>

\* spawnPhase finds no row to write its agent to, at the entries of the
\* coder, the builder and the deployer; the workspace was removed meanwhile.
RunStumbles ==
  /\ \/ Gone /\ run.at \in {"start", "push", "deploy"}
     \/ ~disk /\ run.at \in {"branch", "turn", "push"}
  /\ Fails
  /\ UNCHANGED bounds

\* An error the SDK may recover from costs an attempt and the session; any
\* other one, the run.
RunFails ==
  /\ run.at # "none" /\ Mishap
  /\ \/ Fails
     \/ /\ run.try < MaxAttempts
        /\ run' = [run EXCEPT !.at = "start", !.try = @ + 1]
        /\ live' = FALSE
        /\ UNCHANGED <<row, hub, env, disk, agent, others>>

\* Mutant of NameBranch: the row learns of the branch only from its push.
NameBranchLater ==
  /\ run.at = "start" /\ run.kind = "build" /\ ~Gone
  /\ disk' = TRUE
  /\ To("branch")
  /\ UNCHANGED <<row, hub, env, live, agent, others, bounds>>

\* runFullPipeline up to its clone: the branch is named in the row before
\* GitHub hears of it.
NameBranch ==
  /\ run.at = "start" /\ run.kind = "build" /\ ~Gone
  /\ disk' = TRUE
  /\ row' = [row EXCEPT !.branch = IF @ = "no" THEN "named" ELSE @]
  /\ To("branch")
  /\ UNCHANGED <<hub, env, live, agent, others, bounds>>

\* The branch is reserved on GitHub, if it can be, and the session opened.
\* A branch that has commits of an earlier attempt refuses the push.
ReserveBranch ==
  /\ run.at = "branch" /\ disk
  /\ \/ /\ hub.head \in {0, 1}
        /\ hub' = [hub EXCEPT !.head = 1]
        /\ \/ row' = Saved([row EXCEPT !.branch = "reserved"]) /\ UNCHANGED bounds
           \/ UNCHANGED row /\ Mishap   \* the push is done, its answer lost
     \/ hub.head > 1 /\ UNCHANGED <<hub, row, bounds>>
     \/ UNCHANGED <<hub, row>> /\ Mishap
  /\ To("turn")
  /\ agent' = [on |-> TRUE, pending |-> FALSE]
  /\ UNCHANGED <<env, disk, live, others>>

\* A checkpoint of the first build reserves a branch that was not.
Checkpoint ==
  /\ run.at = "turn" /\ run.kind = "build" /\ disk
  /\ row.branch = "named"
  /\ hub' = [hub EXCEPT !.head = IF @ = 0 THEN 1 ELSE @]
  /\ row' = [row EXCEPT !.branch = "reserved"]
  /\ UNCHANGED <<env, disk, live, run, agent, others, bounds>>

\* runIteration: the live session, or one that is resurrected from the
\* branch; only then is the task "building".
Resurrect ==
  /\ run.at = "start" /\ run.kind = "iterate" /\ ~Gone
  /\ live \/ row.branch # "no"
  /\ live \/ disk \/ hub.head > 0
  /\ live' = TRUE /\ disk' = (disk \/ ~live)
  /\ SetTaskStatus("building")
  /\ agent' = [on |-> TRUE, pending |-> FALSE]
  /\ To("turn")
  /\ UNCHANGED <<hub, env, others, bounds>>

ResurrectFails ==
  /\ run.at = "start" /\ run.kind = "iterate"
  /\ ~live /\ (row.branch = "no" \/ hub.head = 0)
  /\ Fails
  /\ UNCHANGED bounds

\* drainPendingChatMessages, and the chats the validation loop gives way to.
Drain ==
  /\ run.at \in {"turn", "check"} /\ agent.pending
  /\ agent' = [agent EXCEPT !.pending = FALSE]
  /\ UNCHANGED <<row, hub, env, disk, live, run, others, bounds>>

\* The turn is over and every message that came during it is answered.
TurnEnds ==
  /\ run.at = "turn" /\ ~agent.pending /\ disk
  /\ To("push")
  /\ UNCHANGED <<row, hub, env, disk, live, agent, others, bounds>>

\* It changed no file: a build has failed, an iteration is done; one that
\* was asked to rebuild goes on without a commit.
NothingChanged ==
  /\ run.at = "turn" /\ ~agent.pending /\ disk
  /\ \/ run.kind = "build" /\ Fails
     \/ run.kind = "iterate" /\ Ends("review") /\ UNCHANGED <<hub, env, disk, live, others>>
     \/ /\ run.kind = "iterate" /\ To("image")
        /\ UNCHANGED <<row, hub, env, disk, live, agent, others>>
  /\ UNCHANGED bounds

\* The commit is pushed; a branch that was deleted comes back with it.
PushCommit ==
  /\ run.at = "push" /\ disk /\ ~Gone
  /\ hub' = [hub EXCEPT !.head = @ + 1]
  /\ row' = IF run.kind = "build" THEN [row EXCEPT !.branch = "reserved"] ELSE row
  /\ To("image")
  /\ UNCHANGED <<env, disk, live, agent, others, bounds>>

\* The image is built.  Only the first build names the namespace before
\* there is one.
BuildImage ==
  /\ run.at = "image"
  /\ row' = Saved([row EXCEPT !.status = "deploying", !.image = TRUE,
                     !.dev = IF run.kind = "build" THEN "stopped" ELSE @])
  /\ To("deploy")
  /\ UNCHANGED <<hub, env, disk, live, agent, others, bounds>>

DeployFails ==
  /\ run.at = "deploy" /\ ~Gone /\ Mishap
  /\ env' = TRUE
  /\ Ends("failed")
  /\ UNCHANGED <<hub, disk, live, others>>

Deploy ==
  /\ run.at = "deploy" /\ ~Gone
  /\ env' = TRUE
  /\ row' = [row EXCEPT !.dev = "active"]
  /\ To(IF run.kind = "build" THEN "open" ELSE "check")
  /\ UNCHANGED <<hub, disk, live, agent, others, bounds>>

\* The draft pull request, which the build can do without, and the live
\* session.
OpenDraft ==
  /\ run.at = "open"
  /\ \/ /\ ~Gone /\ hub.head > 0
        /\ hub' = [hub EXCEPT !.pull = IF @ \in {"draft", "ready"} THEN @ ELSE "draft"]
        /\ row' = [row EXCEPT !.pr = TRUE]
        /\ UNCHANGED bounds
     \/ Gone /\ UNCHANGED <<hub, row, bounds>>
     \/ /\ hub' \in {hub, IF hub.head = 0 THEN hub ELSE [hub EXCEPT !.pull = "draft"]}
        /\ hub.pull \notin {"draft", "ready"} \/ hub' = hub
        /\ UNCHANGED row /\ Mishap
     \/ ~Gone /\ hub.head = 0 /\ UNCHANGED <<hub, row, bounds>>
  /\ live' = TRUE
  /\ To("check")
  /\ UNCHANGED <<env, disk, agent, others>>

\* validateAndHealLoop, which may push repairs, and the review.  The last
\* word is written over whatever the row says by now.
Validated ==
  /\ run.at = "check"
  /\ hub' \in {hub, IF disk THEN [hub EXCEPT !.head = @ + 1] ELSE hub}
  /\ \E status \in {"review", "failed"} :
       row' = Saved([row EXCEPT !.status = status, !.dev = "active"])
  /\ run' = NoRun /\ agent' = NoAgent
  /\ UNCHANGED <<env, disk, live, others, bounds>>

Run ==
  \/ RunStumbles \/ NameBranch \/ ReserveBranch \/ Resurrect \/ ResurrectFails \/ Drain
  \/ TurnEnds \/ NothingChanged \/ PushCommit \/ BuildImage \/ Deploy \/ OpenDraft \/ Validated

-----------------------------------------------------------------------------
(* shipTask, closeTask and cancelTask *)

Ship ==
  /\ ship.at = "free" /\ row.status = "review" /\ row.branch # "no" /\ Asks
  /\ SetTaskStatus("shipping")
  /\ ship' = [at |-> "ready", head |-> 0]
  /\ UNCHANGED <<hub, env, disk, live, run, agent, gen, revive, closing, tear, boot, verified>>

\* A pull request the row knows is marked ready; otherwise an open one of the
\* branch is found, or one is opened.  GitHub merges at the head it is told.
CanReady == IF row.pr THEN hub.pull \in {"draft", "ready"} ELSE hub.head \notin {0, hub.merged}
CanMerge == hub.pull = "ready" /\ hub.head = ship.head

ShipFails ==
  /\ ship.at \in {"ready", "gate", "merge"}
  /\ \/ Mishap
     \/ ship.at = "ready" /\ ~CanReady /\ UNCHANGED bounds
     \/ ship.at = "merge" /\ ~CanMerge /\ UNCHANGED bounds
  /\ SetTaskStatus("failed")
  /\ ship' = [at |-> "free", head |-> 0]
  /\ UNCHANGED <<hub, env, disk, live, run, agent, gen, revive, closing, tear, boot, verified>>

\* In direct mode the gate then reads which head to look at.
PullReady ==
  /\ ship.at = "ready" /\ CanReady
  /\ hub' = [hub EXCEPT !.pull = "ready"]
  /\ \/ ship' = [at |-> "done", head |-> 0]
     \/ ship' = [at |-> "gate", head |-> hub.head]
  /\ UNCHANGED <<row, env, disk, live, run, agent, gen, revive, closing, tear, boot, bounds,
                 verified>>

\* assertPullRequestChecksPassing: the checks of that head pass and go on
\* passing, or there are none for long enough.
ChecksPass ==
  /\ ship.at = "gate"
  /\ verified' = verified \cup {ship.head}
  /\ ship' = [ship EXCEPT !.at = "merge"]
  /\ UNCHANGED <<row, hub, env, disk, live, run, agent, gen, revive, closing, tear, boot, bounds>>

\* Mutant of MergePull: the pull request is merged as it is by now.
MergeTip ==
  /\ ship.at = "merge" /\ hub.pull = "ready"
  /\ hub' = [hub EXCEPT !.pull = "merged", !.merged = hub.head]
  /\ ship' = [ship EXCEPT !.at = "done"]
  /\ UNCHANGED <<row, env, disk, live, run, agent, gen, revive, closing, tear, boot, bounds,
                 verified>>

\* mergePullRequestAtSha.
MergePull ==
  /\ ship.at = "merge" /\ CanMerge
  /\ hub' = [hub EXCEPT !.pull = "merged", !.merged = hub.head]
  /\ ship' = [ship EXCEPT !.at = "done"]
  /\ UNCHANGED <<row, env, disk, live, run, agent, gen, revive, closing, tear, boot, bounds,
                 verified>>

\* The pull request's number is written, and the workspace is given up.
Shipped ==
  /\ ship.at = "done"
  /\ row' = Saved([row EXCEPT !.status = "completed", !.pr = TRUE])
  /\ live' = FALSE /\ disk' = FALSE
  /\ ship' = [at |-> "free", head |-> 0]
  /\ UNCHANGED <<hub, env, run, agent, gen, revive, closing, tear, boot, bounds, verified>>

\* closeTask stops the environment if it may, and parks the task.
Close ==
  /\ closing = "free" /\ ~Gone /\ Asks
  /\ closing' = IF row.dev = "active" THEN "env" ELSE "disk"
  /\ UNCHANGED <<row, hub, env, disk, live, run, agent, gen, revive, ship, tear, boot, verified>>

CloseEnv ==
  /\ closing = "env"
  /\ row' = IF row.dev = "active" /\ ~Busy /\ ~agent.on THEN [row EXCEPT !.dev = "stopped"]
                                                        ELSE row
  /\ closing' = "disk"
  /\ UNCHANGED <<hub, env, disk, live, run, agent, gen, revive, ship, tear, boot, bounds, verified>>

Closed ==
  /\ closing = "disk"
  /\ SetTaskStatus("completed")
  /\ live' = FALSE /\ disk' = FALSE /\ closing' = "free"
  /\ UNCHANGED <<hub, env, run, agent, gen, revive, ship, tear, boot, bounds, verified>>

\* Cancelling aborts the turn and forgets the messages that wait; the run
\* itself goes on.
Cancel ==
  /\ ~Gone /\ Asks
  /\ SetTaskStatus("failed")
  /\ agent' = [agent EXCEPT !.pending = FALSE]
  /\ UNCHANGED <<hub, env, disk, live, run, others>>

-----------------------------------------------------------------------------
(* teardownTask works from the row as it was when it was called, and goes  *)
(* on to its end whatever fails.                                           *)

\* Kept for DeletedLeavesNothing: nothing else is at work on the task, and
\* how many requests and failures there were by now.
Torn == [at |-> "pull", branch |-> row.branch # "no", pr |-> row.pr, ns |-> row.dev # "none",
         alone |-> run.at = "none" /\ ship.at = "free" /\ tear["discard"].at = "free"
                     /\ closing = "free" /\ ~gen /\ revive = 0 /\ ~boot.resume,
         since |-> bounds.asks + bounds.mishaps]

Discard ==
  /\ tear["discard"].at = "free" /\ ~Gone /\ Asks
  /\ tear' = [tear EXCEPT !["discard"] = Torn]
  /\ UNCHANGED <<row, hub, env, disk, live, run, agent, gen, revive, ship, closing, boot, verified>>

\* purgeTask, for the routes that delete and for runDeletingSweeper.
Purge ==
  /\ tear["purge"].at = "free" /\ ~Gone
  /\ SetTaskStatus("deleting")
  /\ tear' = [tear EXCEPT !["purge"] = Torn]
  /\ UNCHANGED <<hub, env, disk, live, run, agent, gen, revive, ship, closing, boot, verified>>

Delete == Asks /\ Purge
SweepAtBoot == row.status = "deleting" /\ boot.purge /\ Purge /\ UNCHANGED bounds  \* mutant of Sweep
Sweep == row.status = "deleting" /\ Purge /\ UNCHANGED bounds

TearOn(k, here, next) == tear[k].at = here /\ tear' = [tear EXCEPT ![k].at = next]

ClosePull(k) ==
  /\ TearOn(k, "pull", "env")
  /\ \/ /\ tear[k].pr /\ hub.pull # "merged"
        /\ hub' = [hub EXCEPT !.pull = "closed"]
        /\ UNCHANGED bounds
     \/ /\ ~tear[k].pr \/ hub.pull = "merged"
        /\ UNCHANGED <<hub, bounds>>
     \/ tear[k].pr /\ Mishap /\ UNCHANGED hub
  /\ UNCHANGED <<row, env, disk, live, run, agent, gen, revive, ship, closing, boot, verified>>

DeleteNamespace(k) ==
  /\ TearOn(k, "env", "branch")
  /\ \/ env' = (env /\ ~tear[k].ns) /\ UNCHANGED bounds
     \/ tear[k].ns /\ Mishap /\ UNCHANGED env
  /\ UNCHANGED <<row, hub, disk, live, run, agent, gen, revive, ship, closing, boot, verified>>

\* GitHub closes the pull request of a branch that is deleted.
DeleteBranch(k) ==
  /\ TearOn(k, "branch", "disk")
  /\ \/ /\ tear[k].branch
        /\ hub' = [hub EXCEPT !.head = 0,
                     !.pull = IF @ \in {"draft", "ready"} THEN "closed" ELSE @]
        /\ UNCHANGED bounds
     \/ ~tear[k].branch /\ UNCHANGED <<hub, bounds>>
     \/ tear[k].branch /\ Mishap /\ UNCHANGED hub
  /\ UNCHANGED <<row, env, disk, live, run, agent, gen, revive, ship, closing, boot, verified>>

\* tearDownLiveSession, and the last word: the row says "discarded", or is
\* deleted.
TornDown(k) ==
  /\ tear[k].at = "disk"
  /\ live' = FALSE /\ disk' = FALSE
  /\ tear' = [tear EXCEPT ![k] = NoTear]
  /\ row' = IF k = "purge" THEN NoRow ELSE Saved([row EXCEPT !.status = "discarded"])
  /\ UNCHANGED <<hub, env, run, agent, gen, revive, ship, closing, boot, bounds, verified>>

Teardown(k) == ClosePull(k) \/ DeleteNamespace(k) \/ DeleteBranch(k) \/ TornDown(k)

-----------------------------------------------------------------------------
(* The process dies and boots again: reconcileOrphanedRuns is over before  *)
(* anything else, the rest of index.ts is not awaited.                     *)

\* Mutant of Reconciled: a deployment is left to itself.
ReconciledBuilds ==
  IF row.status \in {"clarifying", "specifying", "building", "shipping"}
  THEN [row EXCEPT !.status = "failed"] ELSE row

Reconciled ==
  IF row.status \in {"clarifying", "specifying", "building", "deploying", "shipping"}
  THEN [row EXCEPT !.status = "failed"] ELSE row

Crash ==
  /\ bounds.crashes < MaxCrash /\ bounds' = [bounds EXCEPT !.crashes = @ + 1]
  /\ row' = Reconciled
  /\ live' = FALSE /\ run' = NoRun /\ agent' = NoAgent /\ gen' = FALSE /\ revive' = 0
  /\ ship' = [at |-> "free", head |-> 0] /\ closing' = "free"
  /\ tear' = [k \in Kind |-> NoTear]
  /\ boot' = [resume |-> row.status = "building" /\ row.branch = "reserved", purge |-> TRUE]
  /\ UNCHANGED <<hub, env, disk, verified>>

AutoResume ==
  /\ boot.resume /\ boot' = [boot EXCEPT !.resume = FALSE]
  /\ run' = IF ~Gone /\ CanIterate THEN Begun("iterate") ELSE run
  /\ UNCHANGED <<row, hub, env, disk, live, agent, gen, revive, ship, closing, tear, bounds, verified>>

PurgeOrphanWorkspaces ==
  /\ boot.purge /\ boot' = [boot EXCEPT !.purge = FALSE]
  /\ disk' = (disk /\ row.status \notin {"completed", "discarded", "failed", "gone"})
  /\ UNCHANGED <<row, hub, env, live, run, agent, gen, revive, ship, closing, tear, bounds, verified>>

Routes == \/ Chat \/ EditSpec \/ ApproveSpec \/ Ship \/ Close \/ Cancel \/ Discard \/ Delete

Work ==
  \/ Run \/ SpecArrives \/ Revived \/ PullReady \/ ChecksPass \/ MergePull \/ Shipped
  \/ CloseEnv \/ Closed \/ Sweep \/ (\E k \in Kind : Teardown(k)) \/ AutoResume
  \/ PurgeOrphanWorkspaces

LifeNext ==
  \/ Routes \/ Work
  \/ RunFails \/ DeployFails \/ Checkpoint \/ SpecFails \/ ShipFails \/ Crash

\* What was started goes on; a ship that cannot go on fails.
LifeFairness ==
  /\ WF_lifeVars(Run) /\ WF_lifeVars(SpecArrives) /\ WF_lifeVars(Revived)
  /\ WF_lifeVars(PullReady \/ ChecksPass \/ MergePull \/ Shipped \/ ShipFails)
  /\ WF_lifeVars(CloseEnv \/ Closed) /\ WF_lifeVars(Sweep) /\ WF_lifeVars(AutoResume)
  /\ \A k \in Kind : WF_lifeVars(Teardown(k))

LifeSpec == LifeInit /\ [][LifeNext]_lifeVars /\ LifeFairness

-----------------------------------------------------------------------------
\* The types of the state, row, GitHub, cluster and everything under way.
LifeTypeOK ==
  /\ row \in [status : Status, spec : BOOLEAN, branch : {"no", "named", "reserved"},
              pr : BOOLEAN, image : BOOLEAN, dev : {"none", "stopped", "active"}]
  /\ hub \in [head : Nat, pull : {"none", "draft", "ready", "closed", "merged"}, merged : Nat]
  /\ env \in BOOLEAN /\ disk \in BOOLEAN /\ live \in BOOLEAN /\ gen \in BOOLEAN
  /\ run \in [at : {"none", "start", "branch", "turn", "push", "image", "deploy", "open", "check"},
              kind : {"build", "iterate"}, try : 0..MaxAttempts]
  /\ agent \in [on : BOOLEAN, pending : BOOLEAN]
  /\ revive \in 0..MaxAsk
  /\ ship \in [at : {"free", "ready", "gate", "merge", "done"}, head : Nat]
  /\ closing \in {"free", "env", "disk"}
  /\ tear \in [Kind -> [at : {"free", "pull", "env", "branch", "disk"}, branch : BOOLEAN,
                        pr : BOOLEAN, ns : BOOLEAN, alone : BOOLEAN, since : Nat]]
  /\ boot \in [resume : BOOLEAN, purge : BOOLEAN]
  /\ bounds \in [asks : 0..MaxAsk, mishaps : 0..MaxMishap, crashes : 0..MaxCrash]
  /\ verified \subseteq Nat

\* A task that says it is being worked on is being worked on, or waits for
\* its user -- across every overlap of runs, ships and restarts.
InProgressIsWorked ==
  /\ row.status \in {"building", "deploying"} => run.at # "none"
  /\ row.status = "shipping" => ship.at # "free"
  /\ row.status = "specifying" => gen \/ row.spec

\* The row never claims work that nobody does, nor holds what it cannot.
LifeInv == LifeTypeOK /\ InProgressIsWorked

\* Direct mode merges only a head whose checks it saw pass, although a run
\* may push to the branch while the checks are polled.
MergedWasVerified == hub.merged # 0 => hub.merged \in verified

\* Deleting a task that nothing else is at work on leaves no branch, no open
\* pull request and no workspace behind -- whichever step an earlier build or
\* restart broke off at.  (Calls that fail are not tried again.)
DeletedLeavesNothing ==
  [][~Gone /\ Gone' /\ tear["purge"].alone /\ tear["purge"].since = bounds.asks + bounds.mishaps
       => hub'.head = 0 /\ hub'.pull \notin {"draft", "ready"} /\ ~disk']_lifeVars

\* Whatever a task is in the middle of ends.
Settles == (Busy \/ row.status = "deleting") ~> ~(Busy \/ row.status = "deleting")

\* "'failed' tasks still have a real branch + workspace, so the user can chat
\* their way back": a chat message restarts a task that failed.
FailedIsIterable ==
  row.status = "failed" /\ run.at = "none"
    => Asleep \/ CanIterate \/ (row.spec /\ row.branch = "no")
=============================================================================
