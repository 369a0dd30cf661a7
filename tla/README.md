# Liliput: a verification project

TLA+ models of the parts of Liliput that are hard to test, configurations that
check them with TLC, and proofs checked by TLAPS. Liliput is one API process in
which agents specify, build, review, deploy and merge changes to repositories:
for users who talk to a task, for features that become GitHub issues and then
tasks, and for *autonomous campaigns*, which propose features and deliver them
one after the other for weeks without anybody watching. Source paths are
relative to the repository root; `api` is short for `src/api/src`.

## 1. The system

| Part | State | Operations | Talks to |
| --- | --- | --- | --- |
| Campaign store `api/stores/autonomous-campaign-store.ts`, `db.ts` | rows `autonomous_campaigns` (status, lease, current cycle, next sequence), `autonomous_cycles` (status, proposal, task, gates, merge sha, `next_retry_at`, `last_error`), `autonomous_attempts` | `claimCampaignLease`, `createCycle`, `updateCycleDelivery`, `createAttempt`, `advanceCampaignAfterCooldown`, `transitionCampaign`; each a synchronous `BEGIN IMMEDIATE` transaction | SQLite |
| Campaign control `api/engine/autonomous-campaign-control.ts` | – | start, pause, resume, stop | store, attempt manager, task runs |
| Attempt manager `...-attempt-manager.ts` | attempts' counters and stopwatch | `evaluateBeforeAction`, `recordUsage`, `failAttempt`, `waitForExternal`, `resumeExternalWait`, `pause`, `resume`, `stop`, `startDueRetry` | store |
| Coordinator `...-coordinator.ts` | preparations, last campaign processed | `runOnce` on a timer: claim the lease, then prepare a proposal, resume a wait, start a retry, hand off, reconcile, release or advance | store, attempt manager, proposal, task runs, GitHub |
| Proposal, evidence `...-proposal.ts`, `...-evidence.ts` | `activeProposalExecutions` | capture evidence, generate candidates, critique, persist the decision, cancel | models, GitHub, store |
| Task runs `api/engine/agent-engine.ts` | `activeTaskRuns`, `inFlightAgents`, `pendingChatMessages`, `liveSessions`, `pendingCampaignResumes` | `startBuild`, `iterateTask`, `shipTask`, `closeTask`, `discardTask`, `purgeTask`, automatic resume; for campaigns `revalidateCampaignTask`, `resumeCampaignTask`; `runFullPipeline` and `runIteration` behind them | task store, sessions, git, GitHub, registry, Kubernetes |
| Delivery of a round: `agent-engine.ts` (`runFullPipeline`, `buildWithFixer`, `deployWithFixer`, `validateAndHealLoop`), `checkpoint-writer.ts`, `git-client.ts`, `git-fixer.ts`, `ops-fixer.ts`, `conflict-guard.ts`, `azure-builder.ts` | workspace, branch, images, checkpoint timer | edit, checkpoint, squash, push, confirm, merge the base, build, roll out, probe, heal | git, registry, Kubernetes, models |
| Preview environments: `agent-engine.ts`, `k8s-deployer.ts`, `nginx-patcher.ts` | `devEnvs`, `taskLifecycleLocks`, `routesSyncChain`, the gateway's config map | stop, start, delete, delete many, sync routes, restore at boot | Kubernetes |
| Agent sessions: `agent-loop.ts`, `copilot-client.ts`, `force-effort.ts`, `pipeline-stages.ts`, `reviewer-loop.ts` | `clientPromise`, sessions, `/tmp/liliput-current-effort`, idle watchdog | get and reset the client, open a session, a turn, a retry, a one-shot call | models |
| Turns and costs `turn-store.ts`, `cost-store.ts` | turns, usage | open and close a turn, count a call | SQLite |
| Task store and routes `task-store.ts`, `routes/tasks.ts`, `routes/workstreams.ts` | tasks, chat, agents | create, chat, specification, approve, ship, close, cancel, discard, delete; `reconcileOrphanedRuns` at boot | task runs |
| Feature decomposition `feature-decomposer*.ts`, `pm-issue-flow.ts`, `target-repo-bootstrap.ts` | `features`, `target_repos` | split a specification, persist, emit issues, label them | models, GitHub |
| Webhooks and reconciler `routes/github-webhook.ts`, `webhook-dispatcher.ts`, `loop-reconciler.ts` | `github_deliveries`, `github_jobs` with a unique state key | deduplicate, claim a job, turn an issue into a task, start a review | task runs, GitHub |
| Release manager `rm-review.ts` | – (labels and comments on GitHub) | review a pull request: merge, send back, escalate | GitHub |
| Check gate `github-check-gate.ts` | – | poll the checks of a head until stable | GitHub |
| Reviewer `reviewer-trigger.ts` | queued feedback | review of a head, bounded by a timeout | models, task store |
| Auth, projects, settings, prompts; web portal, CLI, infrastructure | – | requests | all of the above |

**Scheduling.** One Node process; `k8s/liliput.yaml` deploys one replica with
strategy `Recreate`, so at most one process lives at a time, but it can be
killed at any point and come back under another pod name, which is the name
under which it holds leases. Within the process everything is interleaved at
`await`: ticks, passes, runs, checkpoints and requests. Nothing can come between
two synchronous statements except a crash. The database survives a crash; the
maps named above do not. (`CampaignStore` and `CampaignProposal` allow several
pods at once, which is what the lease is for.)

**Hard behaviours.** Whoever awaits works on with a snapshot: a tick, a review,
a ship, a teardown, a proposal, a sync of routes. A run that was interrupted goes
on unwinding while the next one is asked for. GitHub may act and the answer be
lost. A job stays claimed by a process that died. A client that everybody shares
is discarded by whoever sees it fail. A pushed branch is rewritten by a squash
while people push to it. Runs, ticks and passes end in many ways, and each must
leave rows that somebody acts on. `PROJECT.json` lists the hazards, each at its line.

**What makes it correct.**

* Campaign store: features are delivered one by one; the three rows agree; timers are set.
* Coordinator and runs: only a head a reviewer accepted is merged; what counts as
  landed was; a task is never left waiting for a run nobody starts; a pause or stop ends runs.
* Proposal: one decision per cycle, on its evidence, never a feature known already.
* Feature loop: an issue becomes one task, traceable to its feature, and is not overlooked.
* Release manager and direct mode: what is merged is what was looked at.
* Task life: a task in progress has somebody at work on it; deletion leaves nothing.
* Delivery: an image is its commit (unless the git fixer of a push or a merge of the
  base left something in the workspace), what is built was pushed, no work and nobody's
  commit is lost, a verdict is about what runs, and rounds end.
* Preview environments: row, cluster and gateway agree when nothing is under way.
* Sessions: no client process is left over, a retry begins on a fresh session, each call is counted once.

## 2. The modules

| Module | Models | State |
| --- | --- | --- |
| `SerialDelivery` | abstract: features proposed, delivered, landed, in order, only while running; pauses lose nothing; a stop is final | `mode, feature, stage, done` |
| `CampaignStore` | the store's rows and every transaction that steers them | `campaign, cycle, attempt` |
| `CampaignRun` (extends it) | a campaign task's row, its pull request, its runs in `agent-engine.ts` | `task, run, pr, accepted` |
| `Campaign` (extends it) | operator, tick, GitHub, crash and boot, composed | `proc, tick, requests` |
| `CampaignLiveness` (extends it) | fairness and liveness of the composition | – |
| `CampaignProposal` | picking a feature: pods, leases, evidence, two model calls, a decision | `campaign, cycle, tip, prep, up` |
| `JobBoard` | abstract: of all who ask for a job one gets it, for good | `job` |
| `FeatureLoop` | features to issues to tasks: decomposition, emission, webhook, reconciler; implements `JobBoard` | `feature, repo, emit, issue, mail, delivered, job, spawned, pass` |
| `MergeReview` | the release manager over passes that overlap; implements `JobBoard` | `pull, checks, thread, bounced, closed, job, pass` |
| `TaskLife` | one user's task: every route, its runs, ship, close, teardowns, boot | `row, hub, env, disk, live, run, agent, gen, revive, ship, closing, tear, boot` |
| `Delivery` | one round from edit to verdict | `run, cp, tree, local, remote, behind, built, deployed, row, live, chat` |
| `DevEnv` | preview environments, their locks and routes | `dev, table, config, gateway, env, proc, lockq, chain, writer` |
| `AgentSessions` | the shared client, the effort file, sessions, retries, turns and calls | `current, process, stopping, file, session, wants, run, shot, turns` |
| `MC...` | what TLC loads | – |
| `CampaignProofs`, `CampaignProposalProofs`, `FeatureLoopProofs`, `MergeReviewProofs`, `TaskLifeProofs`, `DeliveryProofs`, `DevEnvProofs`, `AgentSessionsProofs` | proofs about the module of that name; `CampaignProofs` is also about `CampaignStore` and `CampaignRun` | – |

Variables that are called *history* in a module record what properties speak of;
no guard reads them. Counters named by a bound (`bounds`, `mishaps`, `outside`,
`crashes`) only limit how often requests and faults come.

The engine appears in several modules at different grains. A task's *run* is a
sequence of segments in `CampaignRun` (where a campaign may pause it), of steps
in `TaskLife` (where requests overlap it), of git, image and probe operations in
`Delivery`, of deployments in `DevEnv` and of turns and retries in
`AgentSessions`. Each module leaves to nondeterminism what another one refines:
a step of a run in `TaskLife` fails at will because `Delivery` says it may.

### From code to model: campaigns

* **Time.** A lease is `none`, `live` or `expired`; `next_retry_at` is `unset`,
  `later` or `due`. The code only ever compares them with the clock.
* **`pausedFromStatus`** writes the status into `last_error` and
  `previousCycleStatus` reads it back: the field `from` of a cycle.
* **Gates.** `release_gates` is `none`, `evaluated`, or `revalidate` when the
  flag `revalidationRequired` is in it.
* **Pipeline.** The eight stages of a task are two: `front` (up to the coder)
  and `back` (build to review). `taskPassedReleaseReview`, which asks for all of
  them, is `Passed`.
* **Commits** are numbers along the branch; the squash merge of head *h* is
  merge commit *h*. `accepted` is a history variable: heads for which a reviewer's
  acceptance was ever recorded.
* **A run** is a phase and what launched it. A step of a run is the segment from
  one guard (`guardCampaignTaskStage`) to the next, with the guard's three
  answers: go on (`Allowed`), stop and leave the task alone (`Blocked`), stop and
  fail it. `Ends` is `endTaskRun`, with the resume queued by `queueIfActive`.
  A launch while a run is active changes nothing, as `beginTaskRun` returning
  false does. The history `missed` notes that the task was to go on while an
  interrupted run unwound and that nothing was queued: the coordinator's own
  launches (`LaunchUnqueued`), and a wait for the registry that goes on only to
  its next guard (`RetryBuild`). Pushes of the validation loop's healing are part of `Push`.
* **The tick** is `tick.pc`, the await it is at, and the snapshot it holds. One
  action per stretch between awaits. An exception in a tick is `TickFails`.
  Writes carry the status the snapshot was taken at, as the code's
  `expectedStatus` does.
* **The hand-off** has no await in it but four transactions, so it is four steps
  that only a crash (or GitHub, or the clock) may separate.
* **GitHub** takes up a merge request at some later time, if the head still is
  the tip, whether or not the sender is still there.
* **Faults.** The constant `Faults` says what may go wrong in a run: segments
  that throw (`fail`), unhealthy previews, missing infrastructure (`wait`), a
  turn without a price (`unpriced`), a reviewer that does not answer
  (`not-run`), iterations without changes, failing calls, foreign pushes and
  merges, late renewals of the lease (`expire`), crashes, pauses and stops.
* **Proposals** (`CampaignProposal`). A preparation is `prep[o]` of its pod: the
  await it is at, the base of the evidence, what was known when it began, its
  candidates, the decision on its way. `Known` is read before the calls
  (`Generating`) and the rows are tested again when the decision is written
  (`Persist`). A lost heartbeat, a pause or a stop set `cancelled`, which the
  execution notices where the code looks at the signal.

### From code to model: the loop on GitHub

* **A job** is the row of `github_jobs` under its state key: `free` until
  `recordJob` inserts it. Whoever inserts it works on it; a failure marks it
  `failed`, a death leaves it `claimed`.
* **Emission** (`FeatureLoop`). `emit[b]` is one `decomposeAndPersist`, at its
  next await: create an issue, map it to the feature's row, add the label. A
  call may fail (`api`) or be carried out and its answer lost (`reply`).
* **Deliveries** stay in `mail`: each may be delivered again, late or never.
  `delivered` is `github_deliveries`, written before the event is dispatched.
* **A pass** of the reconciler holds what it has listed. A pass of
  `MergeReview` holds the copy of the pull request it judges. Two of them
  overlap, since the timer does not wait.
* **Checks, labels, bodies, pushes** are other people's, as is the undrafting of
  a pull request. The label on GitHub is read when a pull request is listed, and
  again when it is loaded.

### From code to model: tasks

* **The row** (`TaskLife`) is the fields routes and runs test: status, whether a
  specification, a branch, a pull request, an image are recorded, and the state
  of its environment. `branch` is `named` once the row has the name and `reserved`
  once it was pushed. `run` is the entry in `activeTaskRuns`, its place
  and its attempt; `BeginRun` refused is a request without effect.
* **Snapshots.** `tear[k]` carries what the teardown read of the row when it was
  called; `ship` the head whose checks it waits for; `boot` the tasks that
  `reconcileOrphanedRuns` found, whose resumption comes later.
* **A tree** (`Delivery`) is the number of the edit that made it; a commit has an
  id, its tree and whether a person made it; a branch is the sequence of its
  commits. An image is the commit in its tag and the tree it was built from:
  whether these agree is a property. `lease` is the remote tip that
  `--force-with-lease` names. The ops fixers of build and rollout only edit.
* **Handled workspaces** (`Delivery`). After the git fixer of a failed push only the
  heads are compared (`agent-engine.ts:4505`), and its prompt allows it to edit, to
  stash and to take back a commit (`FixerLeaves`); it may also rebase and leave
  something beside its commit (`FixerRebases`). The conflict guard may leave
  behind a merge that nobody has verified, or files beside it: aborting a merge that is
  not under way does nothing (`GuardMerges`, `GuardGivesUp`). In all of these the
  round goes on to build with the workspace as it is. The history `handled` notes
  it, an image carries it, and the next commit of the code itself ends it. The
  fixer is taken to rebase onto what is on GitHub, as its prompt asks; the prompt
  does not forbid it a `--force-with-lease` of its own, which is not modelled.
* **The checkpoint writer** is `cp`: armed, what it is doing, whether it was asked
  again meanwhile, stopped.
* **Locks and chains** (`DevEnv`). `lockq[t]` is who holds the promise chain of
  `withTaskLifecycleLock` and who waits; `chain` is `routesSyncChain`. A sync
  computes the routes when its turn comes (`SyncReads`) and writes and reloads
  later (`SyncWrites`); the two writers beside the chain carry a snapshot.
* **A client** (`AgentSessions`) is the process behind a `CopilotClient`, known by
  a number that is used again once nobody refers to it. `Reset` discards the
  client that is current, as `resetClient` does, whoever calls. The effort file is
  one value; a call of the model goes out with what it holds then.
* **Messages during a run** (`AgentSessions`). A message is queued for the agent in
  flight (`queued`); before an agent is registered, which happens once per attempt,
  it is not, and the registration empties the queue. After the turn each message
  has a turn of its own, on the run's session and counted for the run's agent
  (`FollowsUp`, with `drained` set). Such a turn may fail: the failure is logged, the
  client is discarded, and the next message runs on the session that is now
  broken, or the run goes on to build. Only the first turn of an attempt fails the
  attempt. What follows the turns is one place, `delivering`, with the messages that
  wait when the preview is validated (`Delivered`); the rest of it is `Delivery`.

### Over-approximations

Lease renewal and the creation of a missing attempt are steps of their own
though the code does them on the way into a tick. An SDK session may be started
over any number of times in `CampaignRun`; the bound is in `TaskLife` and
`AgentSessions`. In `CampaignStore` alone, any owner issues any transaction with
any status it might have read; `Campaign` says which are really issued. A model's
answer, a check, a probe and a fixer's success are free choices.

## 3. Runs

| Run | Asks | States, minutes |
| --- | --- | --- |
| `campaign_store` | do two owners issuing store transactions in any order keep the rows consistent (`SerialCycles`, `StatusesAgree`, `TimersArmed`, `LandedIsMerged`) and deliver serially (`DeliversSerially`)? | 156 000 |
| `campaign_faults` | with all 15 faults: do tick, runs and operator use the store as specified (`StoreSteps`), request merges only of accepted heads (`OnlyAcceptedIsMerged`), are the rows well formed and is what landed what was accepted and merged (`CampaignInv`), and is no run lost (`NoRunIsLost`)? | 1.7 million, 3 |
| `campaign_quiesces` | do runs end after a pause or a stop (`Quiesces`), under pauses, failures and a crash? | 396 000, 2 |
| `campaign_lands` | does a feature land (`Lands`), and the next one? | 15 600 |
| `feature_loop` | is an issue one task at most (`OneTaskPerIssue`), mapped and traceable (`LoopInv`), picked up in the end (`PickedUp`), and is the job board kept (`KeepsBoard`)? | 167 000, 1 |
| `merge_review` | is only a judged head merged (`MergedWasReviewed`), each head judged by one pass at a time and each issue closed after its merge (`ReviewInv`), is a head given to one review for good (`ReviewKeepsBoard`), and does each new head get its review (`ReviewStarts`)? | 508 000, 2 |
| `task_life` | is a task in progress worked on (`LifeInv`), is what direct mode merges what it checked (`MergedWasVerified`), does deletion clean up (`DeletedLeavesNothing`), does everything end (`Settles`)? | 738 000, 2 |
| `dev_env` | do gateway and table agree once the chain is empty (`DevInv`), row and cluster once nothing is under way (`EnvAsRecorded`), and is every lock released (`OpsEnd`)? | 536 000, 1 |
| `delivery` | is an image its commit unless the workspace was handled, what is built pushed, work kept, the verdict about what runs, other people's commits safe, and does a round end? (the seven properties in `Delivery`) | 2.2 million, 3 |
| `agent_sessions` | is no client left over (`NoStrayClient`), does a retry begin fresh, are efforts one's own when alone, calls counted once (`SessionsInv`), do runs end (`RunsEnd`)? | 796 000, 2 |
| `proposal` | one decision (`DecidedOnce`), nothing known again (`NeverAgain`), on its evidence (`ProposalInv`), and is a campaign never forgotten (`SomebodyPrepares`)? | 363 000, 1 |
| `retry_forever` | expects a violation, see below | |

Properties with `Inv` in their name (and `StatusesAgree`, `NeverAgain`)
are conjunctions; the module states each part on its own, with its own comment,
so that a failing part is found by asking for it in the `.cfg`. Each property has
a *mutant* in `PROJECT.json`: a changed definition, kept beside the one it
changes, under which TLC finds the property violated.

**Bounds: campaigns.** One feature suffices where the property concerns one; the
hand-over to the next is in `campaign_store` (3) and `campaign_lands` and
`proposal` (2). Two attempts are the first and one retry: a third differs in
its number only. Commits are a build, a foreign push or retry, and one more;
`campaign_faults` makes do with two. One crash can hit any step.
`proposal` has two pods, two candidates, two cycles and two outside events, which
is what it takes for a preparation to outlive its lease and meet its successor,
in the same cycle and in the next.

**Bounds: the loop.** Three slices of one feature list, one of them the
integration feature that gets no issue; three issues, so that a lost answer may
leave one that is emitted again; two deliveries and two overlapping passes. A
second decomposition of the same workstream is possible in the code and in the
model but not in this run: it makes it too large, and what goes wrong then is
described below. One pull request with two heads meets two passes, one crash
and an attempt limit of one.

**Bounds: tasks.** `task_life`: one task, two requests, two failing calls, one crash, two
attempts; one ship, close, discard and purge at a time. `delivery`: two rounds,
three edits, one person's commit, one chat message, two failures, one crash, and
limits of the nested loops of 2 (git), 1 (fixers, transient errors) and 2
(probes): each is reached. `dev_env`: two environments and two things under way
at once, one failure, one restart. `agent_sessions`: one task and a
one-shot call, two faults, five outside events and two attempts, which is what it
takes for the second attempt to lose a message's turn with another message
waiting. The one-shot call is the other user of client and file. With two tasks,
one fault and three outside events (`Task = {t1, t2}`, 283 000 states) the
properties hold too; the theorems are about any number of tasks.

`campaign_quiesces` leaves out failing calls of the tick (`api`), which multiply its
states and end no run; `campaign_faults` has them.

TLC checks no deadlock: a stopped campaign, a deleted task and a system at its
bounds really have no next step.

**Fairness.** Everywhere it is weak fairness of steps the process takes by
itself, and never of people, faults, GitHub's news or requests.

* `CampaignLiveness`: the tick is rescheduled in a `finally`; runs are
  promise chains whose calls have timeouts; Kubernetes restarts the pod; clocks
  go on. Checks turning green is strong fairness: the tick asks again and again,
  and GitHub is assumed not to answer "red" every time. `Lands` gives up at
  `pr[c].tip = MaxHead`: the bound, not the code, stops a branch from growing there.
* `FeatureLoop`, `MergeReview`: the interval timer starts passes and a pass goes
  on (calls have time limits); deliveries and emissions are under no fairness.
* `TaskLife`, `Delivery`, `DevEnv`: what was begun goes on, by the time limit of
  its command, turn or rollout; the sweeper of deletions ticks; the automatic
  resumption at boot is called.
* `AgentSessions`: processes start or fail, the idle watchdog fires.
* `CampaignProposal`: ticks come, model calls end, leases expire.

### Where code and documents disagree

`retry_forever` is a run: FRD 486 (`specs/liliput/frd-autonomous-workstream-campaigns.md`)
says "Retry continues indefinitely until success, pause, or stop", but a build
that fails after naming its branch and before opening the draft pull request is
retried by `runIteration`, which opens none; the accepted task has no pull
request number and the cycle stays `delivering`.

The others are stated as definitions, each of which TLC refutes when it is asked
for in place of the properties of a `.cfg`:

| Definition | In | Promise | What happens |
| --- | --- | --- | --- |
| `NotStranded`, faults `{"not-run"}` | `MCRetryForever.cfg` | `reviewer-trigger.ts` 18-19 "a wedged reviewer can't stall ship/review" | a reviewer that times out leaves `not-run`; no branch of the tick acts on it |
| `NotStranded`, `{"no-change"}` | same | FRD 86 "Retry the same feature indefinitely" | an iteration that edits nothing leaves build, deploy and validate pending and the feedback consumed |
| `StopRecordsMerge`, `{"stop"}` | same | FRD 533 "Stop arrives after merge but before cycle commit: [...] record the successful merge, then stop" | the write of the merge sha is rejected after the stop and never made up for |
| `NoRunIsEverLost`, `{"unpriced"}` or `{"pause", "fail"}` | same | FRD 526 "block the next model turn until pricing is restored"; FRD 388 "Resume continues the same cycle and attempt when safe" | the price is restored, or the retry is due, before the interrupted run has unwound: the relaunch is skipped (`coordinator.ts:1359`, 1426) and nobody is at work on a task that says `building` |
| the same, `{"pause", "wait"}` | same | same | pause and resume during the back-off of the registry: the waiting run ends the external wait itself, and its next guard, which still knows of the pause, ends the run |
| the same, `{"pause", "push"}` | same | same | a resume queued behind a run that just had its work accepted starts one more run; paused and resumed again it still unwinds when a foreign push makes the coordinator ask for a revalidation, which is skipped |
| `EscalatesInTime` | `MCMergeReview.cfg` | `rm-review.ts` 10 and its comment: "After 3 failed attempts, the PR is escalated" | attempts are counted on the linked issue (122-130) but written on the pull request (310, 321), so that one that names an issue is sent back for ever; and overlapping passes count before either has written |
| `FailedIsIterable` | `MCTaskLife.cfg` | `agent-engine.ts` 5138-5140 "the user can chat their way back" | a task that fails or is cancelled before it has a branch takes none of the paths of the chat route |
| `ReviewWasValidated` | `MCDelivery.cfg` | `agent-engine.ts`, before the heal loop of the first round: "once we've confirmed the preview is actually healthy (or once the heal loop has exhausted itself [...])" (3593-3595) | an iteration that changes no file sets `review` though the round before never got a preview up (4405-4423) |
| `NeverPastTheLoop` | `MCDelivery.cfg` | `agent-engine.ts` 2908 "unreachable" | a chat message or a probe that throws in the last attempt ends in `continue` (2655, 2678), and the loop is left past its end |
| `GivenUpAfterFaults` | `MCAgentSessions.cfg` | `agent-engine.ts` 4078-4082: "we keep trying with backoff rather than failing the task on transient SDK problems" | whoever else met the dead client resets the one a retry has just begun on: one fault uses up several attempts |
| `OwnEffort` | `MCAgentSessions.cfg` | `force-effort.ts` 15-18 "processes turns serially"; `reviewer-loop.ts` 458-460 | a one-shot call, or a turn of another task, writes its effort while a turn is under way, whose next call goes out with it |
| `SilentTurnRetried` | `MCAgentSessions.cfg` | `agent-loop.ts` 46-48 "abort the turn so the iteration layer can resurrect and retry" | the turn of a message that goes silent is logged and forgotten (`agent-engine.ts` 891-895): the iteration layer never hears of it, and the run goes on without what the message asked for |
| `BuiltFromItsCommit` | `MCDelivery.cfg` | `agent-engine.ts` 1946 "Final commit SHA the image was built from" | the git fixer of the push leaves edits or takes back a commit, and only heads are compared (4505-4510); or the guard gives up on a merge that the resolver has committed (`conflict-guard.ts` 259-295), which cannot be aborted any more |

Smaller ones, met while modelling and part of the models' behaviour:

* *Features.* When the call that adds `pm:ready` fails, the row already knows the
  issue and nothing labels it again, though `pm-issue-flow.ts` 138-164 leaves it
  to the reconciler; two tasks that decompose one workstream at once both persist
  their lists (`routes/tasks.ts` 23-28 "idempotent"); `task.featureId` is never
  set, so `linkPrToFeatureForTask` (`agent-engine.ts` 5318-5348) never writes a
  mapping and the dispatcher drops every pull request.
* *Release manager.* A head without any checks passes; a review that sends back a
  stale copy strips a label asked for meanwhile; a head that was sent back is not
  judged again when its checks turn green; a job stays claimed after a crash. In
  a campaign a pull request merged by hand at an unaccepted head is held in
  `releasing` (`coordinator.ts:1024`).
* *Tasks.* A chat acknowledged just before a restart, a cancel or a failing
  environment is dropped; a run, or a generator that fails, may overwrite
  `deleting`, which a restart then does not resume; teardown never throws; an
  iteration whose deployment fails before the namespace is recorded leaks it.
* *Environments.* The buttons test that no run is active, then await; a run may
  begin to deploy meanwhile (`agent-engine.ts` 983-986 says it cannot), and
  `EnvAsRecorded` says nothing of a task this has happened to. Teardown
  and the restore at boot write routes past the chain. A reload that fails
  leaves the gateway stale.
* *Delivery.* The rebuild of a clean workspace records a commit that may not be
  on GitHub; a heal whose rollout fails leaves `commitSha` and `imageRef` naming
  what is not deployed; a force-push retried after a lost answer is refused as stale.
* *Sessions.* A start that fails late clears a newer client's promise
  (`copilot-client.ts:95`), which leaks its process. A message that arrives while a
  run begins, or begins again, opens a turn of the user's and never reaches an agent.
* *Proposals.* Two pods that prepare one cycle at once may accept what one of
  them has just rejected in it; the snapshot is stored even when every source of
  evidence failed; repeated rejections may go on for ever.

## 4. Proofs

All theorems hold for every value of the constants: any owners, features,
attempts, commits, crashes and any set of faults.

* `CampaignProofs`, first the store: `StoreInvariant` shows that the conjunction of
  `campaign_store`'s invariants with the rows' types is inductive. Most
  transactions rewrite the
  current cycle's row and its attempt's and leave earlier cycles alone; `Agree`
  says what campaign status, cycle row and attempt row owe each other, `CurrentStep`
  that any step into rows that agree keeps the invariant, and there is one lemma
  per action that its rows do. None of the invariants is inductive alone:
  `TimersArmed` needs `ControlAgrees` across a resume, `LandedIsMerged` needs
  `SerialCycles`. `StoreTypeCorrect`, `StoreSerial`, `StoreAgrees`,
  `StoreTimersArmed` and `StoreLandedIsMerged` follow. So does the refinement,
  `StoreDeliversSerially`: given the invariant, every transaction is one step of
  `SerialDelivery` or a stutter (the refinement mapping reads the saved status of
  a paused cycle).
* `CampaignProofs`, then `CampaignInvariant` for the composed system. To the store's
  invariant it adds `RowsOK` (a verdict `accepted` on a task row was recorded for
  its head in `accepted`) and `TickOK` (the same of the tick's snapshot, and of the requests it sent).
  From it: `CampaignTypeCorrect`, `CampaignMergesAccepted`
  (`OnlyAcceptedIsMerged`), and `CampaignImplementsStore` (`StoreSteps`): each
  step of `Campaign` is a transaction of the store or leaves it alone. The
  store's theorems thereby carry over: `CampaignStoreSafe`,
  `CampaignDeliversSerially`. `CampaignLandsAccepted` (`LandedWasAccepted`, which with
  `TypeOK` makes the `CampaignInv` of `CampaignCorrect`) adds `MergeOK`: a recorded
  merge commit is the pull request's own and was accepted, and a snapshot that
  says merged says so of that commit.
* `CampaignProofs`, last `CampaignLosesNoRun` (`NoRunIsLost`), under any pauses,
  crashes and faults. The property speaks of the moment when nobody is at work; the
  invariant, `Attended`, of everything before it. Of the current cycle's
  rows it says: before the first attempt the task is untouched; a cycle in
  release has a task the release can act on, and at most a run that has not begun
  and will not pass its first guard (`ReleaseRow`); a run whose task has already
  passed has just been launched (`Unjudged`), so that no other run revises a
  verdict; a cycle that delivers while an interrupted run unwinds has a resume
  queued, or `missed` (`Remembered`); and a row in progress without a run is one
  that the tick revalidates (`RowLeft`). `TickAt` says what the tick relies on from
  one await to the next. There is one lemma per operation, on top of a few on how a
  row changes (`RowsStep`, `LaunchAttended`, `EndsAttended`...); with `Inv` it is
  inductive.
* `FeatureLoopProofs`: `LoopInvariant` for any number of decompositions, issues,
  deliveries and overlapping passes. `LoopInv` is not inductive: an issue is
  traced to its feature by the marker in its body, by the feature's row and by
  what an emission remembers between two calls. `EmitOK` and `MapOK` say that
  the three agree, and `MarkedOK` that whatever is labelled, delivered or listed
  has a marker. Dispatcher and reconciler only ask whether *some* row knows an
  issue; with `MapOK` that is the row its marker names. From it: `LoopCorrect`
  (`LoopInv`), `LoopOneTask` (`OneTaskPerIssue`: a task is made only in the step
  that claims its key) and `LoopKeepsBoard` (`KeepsBoard`, the refinement).

* `MergeReviewProofs`: `ReviewInvariant` for any number of pull requests, heads,
  passes and crashes. A review acts on a copy of the pull request; `AtMerge` says
  what the copy is worth when the merge is asked for: its head was cleared by the
  check that has just passed, and a review about to close has merged. From it: `ReviewCorrect`
  (`ReviewInv`), `ReviewMergesCleared` (`MergedWasReviewed`), and `ReviewOnBoard`
  (`ReviewKeepsBoard`): with `ReviewsApart`, the end of a review is the end of
  *its* job.
* `CampaignProposalProofs`: `ProposalInvariant` for any pods, candidates and cycles.
  What a preparation knows was read before two model calls and is written after
  them. `Settled` names the cycles whose decisions cannot change meanwhile: the
  earlier ones, since only the current row is written and only while it is
  proposing, and the cycle itself unless another pod prepares it too. `PrepOK`
  says that these decisions are known to the generator, barred from the critic
  and no part of what leaves for the database. From it: `ProposalCorrect`
  (`ProposalInv`), `ProposalNeverAgain` (`NeverAgain`) and, of every step,
  `ProposalDecidedOnce` (`DecidedOnce`).
* `TaskLifeProofs`: `LifeInvariant` for any number of requests, failing calls,
  attempts and restarts. For deletion `LifeInv` does not suffice: a teardown deletes the branch only if the row names one, so
  `Named` says that whatever was pushed, or may be (a run past its start, a live session),
  has a row that names it, and `PurgeAlone` what a teardown that nothing disturbs
  has found and left by the place it has come to. From it: `LifeCorrect`
  (`LifeInv`), `ShipMergesVerified` (`MergedWasVerified`, by `AtMerge`: a ship about
  to merge saw the checks of the head it names) and, of every step,
  `DeleteLeavesNothing` (`DeletedLeavesNothing`).
* `DeliveryProofs`: `DeliveryInvariant` for any number of rounds, edits, people's
  commits, failures and crashes and any limits of the nested loops. None of the
  properties is inductive: each rests on a fact that a round carries from one
  command to the next. `Clean`: from a commit to its image the workspace stays
  the branch's tip, as long as it is not `handled`; images carry the flag, so that
  `DeliveryImages` is about every other image, also those of a round whose
  handled workspace was committed again by a repair. `Confirmed`: what is built was found on GitHub. `Healing`:
  the heal loop answers for what is deployed, or the cluster was left torn.
  `Writing`: a checkpoint that is being pushed knows of any edit made meanwhile.
  `Saves`: the first turn's branch is its own (`Own`), and a fold waiting to be
  pushed holds what the checkpoints did (`Folded`). Forty-two actions touch the
  branch in only ten ways (`BranchMoves`, lemma `Moving`), and GitHub's copy in
  three (`RemoteMoves`): nothing, more commits, or a fold by force. From
  it: `DeliveryCorrect` (`DeliveryInv`), `DeliveryImages`, `DeliveryBuildsPushed`,
  `DeliveryKeepsWork`, `DeliveryVerdict` and, of every step,
  `DeliveryKeepsPeoplesWork` (`LateCommitsKept`): the numbers of commits grow along
  a branch (`Lines`), so a tip that equals the lease has nothing of anybody after it.
* `DevEnvProofs`: `DevInvariant` for any tasks, requests, failures and restarts. A
  step writes the row of one process, gives it a place in the queue of a lock or
  in the chain, and moves one task's preview; the lemma `Step` says that this
  keeps `DevIInv` if it is good for four parts. The locks (`LockOK`): who is in a
  queue is who asked, and only its head is past the lock. The chain (`ChainOK`).
  The routes (`RoutesOK`): what the sync in progress will write is the table, or
  another sync is queued behind it, unless somebody wrote past the chain. And every task that
  nothing has spoiled (`TaskOK`): at most one process is at work on it, it has
  done what its place says (`Progress`: a stop past the cluster has taken the app
  down, a start before its route has it up), and when none is, row, cluster and table agree
  (`Settled`). From it: `DevCorrect` (`DevInv`) and `DevEnvAsRecorded` (`EnvAsRecorded`).
* `AgentSessionsProofs`: `SessionsInvariant` for any tasks, efforts, attempts and
  faults. Its state falls into three parts: the clients (`ClientMoves`), the turns
  with what is counted on them (`TurnMoves`) and the runs with their sessions. A
  step moves one run and at most notes on the others that it wrote the file
  (`Beside`); `RunOK` says that an unnoted file still holds the effort of the
  session, that a retry drops the broken session on the way to its turn, not
  only in it, that only turns of messages (`drained`) may be on a broken one, and
  that the agent of an attempt belongs to a turn of its task. Counting is stated by the cardinality of the calls counted
  (`Counted`). From it: `SessionsCorrect` (`SessionsInv`) and
  `SessionsLeaveNoStray` (`NoStrayClient`).

TLC checked `LifeIInv`, `DeliveryIInv`, `SessionsIInv`, `DevIInv` and `Attended` on the
constants of their runs (`campaign_faults` for the last) before they were proved. Assumptions are the named ones on constants, which TLC
evaluates in the runs.

Only model-checked: the liveness properties (`Quiesces`, `Lands`, `PickedUp`,
`ReviewStarts`, `Settles`, `OpsEnd`, `RoundEnds`, `RunsEnd`, `SomebodyPrepares`),
which, like anything with `ENABLED`, are out of the prover's reach. Every other
property of the passing runs is a theorem.

## 5. Not modelled

* Limits, usage, prices and the length of the back-off: a limit is a
  nondeterministic `fail`, a price a nondeterministic wait. The documents also
  list attempt limits and the conflict guard among the release gates;
  `releaseCycle` does not evaluate these two, and neither does the model.
* The preparation of a proposal within the composed campaign: there it is one
  step, and `CampaignProposal` has it in detail with delivery as one step.
* Closed pull requests, deleted, discarded or cancelled tasks, and chats of users
  on a campaign's task (on a user's own task they are in `TaskLife`).
* A campaign without a reviewer model, which the route accepts: its tasks are
  never reviewed, which is the outcome `not-run`.
* Several campaigns, and in `TaskLife` and `Delivery` several tasks, at once: what
  they share is the client and the effort file (`AgentSessions`), the gateway
  (`DevEnv`) and the job board.
* The stuck detector and the autopilot, which are heuristics on the text of a
  reply; prompts, parsing, Dockerfile detection, manifests.
* Authentication, projects, settings, cost reports, the web portal, the CLI and
  the infrastructure: see `PROJECT.json`, "components".

## 6. Plan

Done, in this order: the store and what it promises; the runs; the composed
campaign; liveness; the proofs about it; the loop on GitHub, with its proofs; the life of a task,
its delivery, its environment, its sessions; proposals; the proofs about release manager,
proposals, task life, delivery, sessions, environments and lost runs. Left:

* `CampaignBudget`: usage reports (late, repeated, unpriced, pending), sums and
  limits, the stopwatch, the back-off; abstract: each report is counted once.

## 7. Running

    tlc -config MCFaults.cfg MCCampaign.tla
    tlc -config MCDelivery.cfg MCDelivery.tla
    tlapm CampaignProofs.tla
    tlapm FeatureLoopProofs.tla
    tlapm DeliveryProofs.tla
    tlapm DevEnvProofs.tla

Every run takes at most about three minutes with two workers.
