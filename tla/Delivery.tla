------------------------------ MODULE Delivery ------------------------------
(***************************************************************************)
(* One delivery round of a task, from the agent's edits to the verdict on  *)
(* its preview (engine/agent-engine.ts: runFullPipeline, runIteration,     *)
(* runRebuildOnly, buildWithFixer, deployWithFixer, validateAndHealLoop;   *)
(* checkpoint-writer.ts, git-client.ts, git-fixer.ts, conflict-guard.ts):  *)
(* the workspace, its branch here and on GitHub, the images, what is       *)
(* deployed, and what the task's row says of them.  A tree is the number   *)
(* of the edit that made it; agents, people and the cluster do as they     *)
(* please.                                                                 *)
(***************************************************************************)
EXTENDS Naturals, Sequences, FiniteSets

CONSTANTS
  MaxRun,     \* bound: rounds of the task
  MaxEdit,    \* bound: trees that anybody makes
  MaxHuman,   \* bound: commits that people push to the task's branch
  MaxChat,    \* bound: messages of the user during a round
  MaxMishap,  \* bound: calls that fail
  MaxCrash,   \* bound: process deaths
  MaxGit,     \* maxAttempts of runGitOpWithFixer
  MaxFix,     \* MAX_BUILD_FIX_ATTEMPTS, MAX_DEPLOY_FIX_ATTEMPTS
  MaxTransient, \* TRANSIENT_BUILD_RETRIES
  MaxProbe    \* MAX_VALIDATE_ATTEMPTS

ASSUME DeliveryAssumption ==
  /\ {MaxRun, MaxEdit, MaxHuman, MaxChat, MaxMishap, MaxCrash, MaxFix, MaxTransient} \subseteq Nat
  /\ {MaxGit, MaxProbe} \subseteq Nat \ {0}

VARIABLES
  run,       \* the round under way
  cp,        \* the CheckpointWriter of its first turn
  tree,      \* the workspace's files
  local,     \* the workspace's branch: its commits, oldest first
  remote,    \* the same branch on GitHub
  behind,    \* the base branch has what the task's lacks
  built,     \* the registry: images by the commit in their tag, and the tree they hold
  deployed,  \* the image that runs as the preview
  row,       \* the task's row: status, commitSha and imageRef
  live,      \* liveSessions has the task
  chat,      \* pendingChatMessages
  bounds,    \* what the bounds count
  pushed,    \* history: commits that were the branch's tip on GitHub
  kept,      \* history: the newest tree a checkpoint of this round pushed
  torn,      \* history: the last deployApp failed when it had replaced the deployment
  validated  \* history: the last preview found healthy

\* The state of git, and of the preview.
gitVars == <<tree, local, remote, behind, pushed>>
previewVars == <<built, deployed, torn>>
deliveryVars == <<run, cp, gitVars, previewVars, row, live, chat, bounds, kept, validated>>

Commit == [id : Nat, tree : Nat, human : BOOLEAN]
Base == [id |-> 0, tree |-> 0, human |-> FALSE]
NoImage == [tag |-> Base, tree |-> 0, handled |-> FALSE]

\* .handled, a history: the git fixer or the merge of the base came after the commit.
Resting == [at |-> "idle", kind |-> "first", for |-> "main", git |-> 1, fix |-> 1, transient |-> 0,
            probe |-> 1, sha |-> Base, out |-> Base, lease |-> Base, squashed |-> FALSE,
            handled |-> FALSE, ok |-> TRUE]
\* Neither a timer nor a commit under way.
Quiet == [armed |-> FALSE, doing |-> "none", again |-> FALSE, stopped |-> FALSE]

DeliveryInit ==
  /\ run = Resting /\ cp = Quiet
  /\ tree = 0 /\ local = <<Base>> /\ remote = <<>> /\ behind = FALSE
  /\ built = {} /\ deployed = NoImage
  /\ row = [status |-> "building", commit |-> Base, image |-> Base]
  /\ live = FALSE /\ chat = 0
  /\ bounds = [runs |-> 0, edits |-> 0, ids |-> 0, humans |-> 0, chats |-> 0, mishaps |-> 0,
               crashes |-> 0]
  /\ pushed = {} /\ kept = 0 /\ torn = FALSE /\ validated = NoImage

Tip(branch) == branch[Len(branch)]
Dirty == tree # Tip(local).tree
\* A push without force: the remote branch is part of the local one.
FastForward == Len(remote) <= Len(local) /\ SubSeq(local, 1, Len(remote)) = remote

At(place) == run.at = place
Go(place) == run' = [run EXCEPT !.at = place, !.git = 1]
Mishap == bounds.mishaps < MaxMishap /\ bounds' = [bounds EXCEPT !.mishaps = @ + 1]

\* A tree and a commit nobody had before.
NewTree == bounds.edits + 1
NewCommit(t) == [id |-> bounds.ids + 1, tree |-> t, human |-> FALSE]
Edited == bounds.edits < MaxEdit
Counted(edits, ids, mishaps) ==
  bounds' = [bounds EXCEPT !.edits = @ + edits, !.ids = @ + ids, !.mishaps = @ + mishaps]
MayEdit(mishaps) == \/ UNCHANGED tree /\ Counted(0, 0, mishaps)
                    \/ Edited /\ tree' = NewTree /\ Counted(1, 0, mishaps)
Pushes(branch) == remote' = branch /\ pushed' = pushed \cup {Tip(branch)}

\* The round ends: clearInFlightAgent forgets the messages that wait.
EndsAs(status) ==
  /\ run' = Resting /\ cp' = Quiet /\ chat' = 0
  /\ row' = [row EXCEPT !.status = status]
Fails == EndsAs("failed")

-----------------------------------------------------------------------------
(* How a round begins                                                      *)

\* runFullPipeline: a fresh clone of the base, and the branch reserved on
\* GitHub -- which fails without harm when the branch has more than the base.
BeginFirst ==
  /\ At("idle") /\ row.status \in {"building", "failed"}
  /\ bounds.runs < MaxRun
  /\ local' = <<Base>> /\ tree' = 0
  /\ \/ /\ bounds' = [bounds EXCEPT !.runs = @ + 1]
        /\ IF remote = <<>> THEN Pushes(<<Base>>) ELSE UNCHANGED <<remote, pushed>>
     \/ /\ bounds.mishaps < MaxMishap /\ remote = <<>>
        /\ bounds' = [bounds EXCEPT !.runs = @ + 1, !.mishaps = @ + 1]
        /\ UNCHANGED <<remote, pushed>>
  /\ run' = [Resting EXCEPT !.at = "turn"]
  /\ row' = [row EXCEPT !.status = "building"]
  /\ kept' = 0
  /\ UNCHANGED <<cp, behind, previewVars, live, chat, validated>>

\* A message of the user: runIteration, or runRebuildOnly for a plain rebuild.
\* A session that was lost is opened again at the branch GitHub has.
BeginAgain == \E kind \in {"iterate", "rebuild"} :
  /\ At("idle") /\ row.status \in {"review", "failed"} /\ remote # <<>>
  /\ bounds.runs < MaxRun /\ bounds' = [bounds EXCEPT !.runs = @ + 1]
  /\ IF live THEN UNCHANGED <<local, tree>> ELSE local' = remote /\ tree' = Tip(remote).tree
  /\ live' = TRUE
  /\ row' = [row EXCEPT !.status = "building"]
  /\ run' = [Resting EXCEPT !.kind = kind, !.at = IF kind = "iterate" THEN "turn" ELSE "pending"]
  /\ kept' = 0
  /\ UNCHANGED <<cp, remote, behind, pushed, previewVars, chat, validated>>

\* commitAndPushRebuild: what is pending is committed; a clean tree is built
\* as it is.
Rebuild ==
  /\ At("pending")
  /\ IF Dirty THEN Go("commit") /\ UNCHANGED row
     ELSE /\ run' = [run EXCEPT !.at = "build", !.sha = Tip(local)]
          /\ row' = [row EXCEPT !.commit = Tip(local)]
  /\ UNCHANGED <<cp, gitVars, previewVars, live, chat, bounds, kept, validated>>

-----------------------------------------------------------------------------
(* The agent's turn, and the checkpoints of the first one.                 *)

Edit ==
  /\ At("turn") /\ Edited
  /\ tree' = NewTree /\ Counted(1, 0, 0)
  /\ cp' = IF run.kind = "first" THEN [cp EXCEPT !.armed = TRUE] ELSE cp
  /\ UNCHANGED <<run, local, remote, behind, pushed, previewVars, row, live, chat, kept, validated>>

\* commitAndPush while one is under way only leaves word.
TimerFires ==
  /\ cp.armed
  /\ cp' = IF cp.doing = "none" THEN [cp EXCEPT !.armed = FALSE, !.doing = "commit"]
                                ELSE [cp EXCEPT !.armed = FALSE, !.again = TRUE]
  /\ UNCHANGED <<run, gitVars, previewVars, row, live, chat, bounds, kept, validated>>

\* performCommitAndPush ends: word left is taken up at once, by flush if it
\* waits, and otherwise by a timer.
CheckpointOver ==
  cp' = IF cp.again /\ ~cp.stopped THEN [cp EXCEPT !.doing = "none", !.again = FALSE, !.armed = TRUE]
                                   ELSE [cp EXCEPT !.doing = "none"]

CheckpointCommits ==
  /\ cp.doing = "commit"
  /\ \/ /\ Dirty /\ Counted(0, 1, 0)
        /\ local' = Append(local, NewCommit(tree))
        /\ cp' = [cp EXCEPT !.doing = "push"]
     \/ ~Dirty /\ CheckpointOver /\ UNCHANGED <<local, bounds>>
     \/ Dirty /\ Mishap /\ CheckpointOver /\ UNCHANGED local
  /\ UNCHANGED <<run, tree, remote, behind, pushed, previewVars, row, live, chat, kept, validated>>

\* A push that fails keeps the commit here.
CheckpointPushes ==
  /\ cp.doing = "push" /\ CheckpointOver
  /\ \/ /\ FastForward /\ Pushes(local) /\ kept' = Tip(local).tree
        /\ UNCHANGED bounds
     \/ /\ IF FastForward THEN Mishap ELSE UNCHANGED bounds
        /\ UNCHANGED <<remote, pushed, kept>>
  /\ UNCHANGED <<run, tree, local, behind, previewVars, row, live, chat, validated>>

\* Mutant: no flush; the timer runs on.
TurnEndsArmed ==
  /\ At("turn") /\ (\/ UNCHANGED bounds /\ run' = [run EXCEPT !.at = "drain"]
                    \/ Mishap /\ run' = [run EXCEPT !.at = "drain", !.ok = FALSE])
  /\ UNCHANGED <<cp, gitVars, previewVars, row, live, chat, kept, validated>>

\* The turn ends, well or not.  flush: no timer any more; what is under way
\* is waited for, and followed by a last commit unless nothing came since.
TurnEnds ==
  /\ At("turn")
  /\ \/ UNCHANGED bounds /\ run' = [run EXCEPT !.at = "flush"]
     \/ Mishap /\ run' = [run EXCEPT !.at = "flush", !.ok = FALSE]
  /\ cp' = IF run.kind # "first" THEN cp
           ELSE IF cp.doing = "none"
           THEN [cp EXCEPT !.armed = FALSE, !.stopped = TRUE, !.doing = "commit"]
           ELSE [cp EXCEPT !.armed = FALSE, !.stopped = TRUE, !.again = @ \/ cp.armed]
  /\ UNCHANGED <<gitVars, previewVars, row, live, chat, kept, validated>>

Flushed ==
  /\ At("flush") /\ cp.doing = "none"
  /\ IF cp.again THEN /\ cp' = [cp EXCEPT !.again = FALSE, !.doing = "commit"]
                      /\ UNCHANGED <<run, row, chat>>
     ELSE IF run.ok THEN Go("drain") /\ cp' = Quiet /\ UNCHANGED <<row, chat>>
     ELSE Fails
  /\ UNCHANGED <<gitVars, previewVars, live, bounds, kept, validated>>

-----------------------------------------------------------------------------
(* After the turn: the messages that came meanwhile, then the commits.     *)

\* A follow-up turn per message, which may edit.
Drain ==
  /\ At("drain") /\ chat > 0 /\ chat' = chat - 1 /\ MayEdit(0)
  /\ UNCHANGED <<run, cp, local, remote, behind, pushed, previewVars, row, live, kept, validated>>

\* A first turn that changed nothing fails; an iteration that changed nothing
\* leaves the preview as it is, and rebuilds it when the message asks so.
TurnOver ==
  /\ At("drain") /\ chat = 0
  /\ CASE run.kind = "first" /\ (Dirty \/ Tip(local) # Base) ->
            Go("squash") /\ UNCHANGED <<cp, row, chat>>
       [] run.kind = "first" /\ ~(Dirty \/ Tip(local) # Base) -> Fails
       [] run.kind = "iterate" /\ Dirty -> Go("commit") /\ UNCHANGED <<cp, row, chat>>
       [] OTHER -> \/ EndsAs("review")
                   \/ /\ run' = [run EXCEPT !.at = "pending", !.kind = "rebuild"]
                      /\ UNCHANGED <<cp, row, chat>>
  /\ UNCHANGED <<gitVars, previewVars, live, bounds, kept, validated>>

\* Mutant: reset --hard.
SquashHard ==
  /\ At("squash")
  /\ IF Tip(local) = Base THEN Go("commit") /\ UNCHANGED <<local, tree>>
     ELSE /\ remote # <<>> /\ local' = <<Base>> /\ tree' = 0
          /\ run' = [run EXCEPT !.at = "commit", !.squashed = TRUE, !.lease = Tip(remote)]
  /\ UNCHANGED <<cp, remote, behind, pushed, previewVars, row, live, chat, bounds, kept, validated>>

\* Checkpoints are folded into one commit; the lease of the push to come is
\* whatever GitHub has now.  Without an answer the history stays as it is.
Squash ==
  /\ At("squash")
  /\ \/ /\ Tip(local) # Base /\ remote # <<>>
        /\ run' = [run EXCEPT !.at = "commit", !.squashed = TRUE, !.lease = Tip(remote)]
        /\ local' = <<Base>>
        /\ UNCHANGED bounds
     \/ /\ IF Tip(local) = Base \/ remote = <<>> THEN UNCHANGED bounds ELSE Mishap
        /\ Go("commit") /\ UNCHANGED local
  /\ UNCHANGED <<cp, tree, remote, behind, pushed, previewVars, row, live, chat, kept, validated>>

\* What a step of git that fails for good does to its caller: the heal loop
\* probes anyway.
GivesUp == IF run.for = "heal" THEN /\ run' = [run EXCEPT !.at = "probe", !.probe = @ + 1, !.git = 1]
                                    /\ UNCHANGED <<cp, row, chat>>
           ELSE Fails

\* Mutant: the fixer's word is taken for it.
CommitsTrusting ==
  /\ At("commit")
  /\ \/ /\ Dirty /\ local' = Append(local, NewCommit(tree)) /\ Counted(0, 1, 0)
     \/ run.git < MaxGit /\ Mishap /\ UNCHANGED local
  /\ run' = [run EXCEPT !.at = "push", !.git = 1, !.handled = FALSE]
  /\ UNCHANGED <<cp, tree, remote, behind, pushed, previewVars, row, live, chat, kept, validated>>

\* What a turn of the git fixer may leave that did not do the job itself: nothing
\* new, edited files, or the last commit taken back with its files as they are.
FixerLeaves(mishaps) ==
  \/ MayEdit(mishaps) /\ UNCHANGED local
  \/ /\ Len(local) > 1 /\ local' = SubSeq(local, 1, Len(local) - 1)
     /\ UNCHANGED tree /\ Counted(0, 0, mishaps)

\* git commit: when it fails, or finds nothing to commit, the git fixer has a
\* turn, in which it may commit; a clean tree then counts as committed.
Commits ==
  /\ At("commit")
  /\ \/ /\ Dirty /\ local' = Append(local, NewCommit(tree))
        /\ \/ Counted(0, 1, 0)
           \/ run.git < MaxGit /\ bounds.mishaps < MaxMishap /\ Counted(0, 1, 1)
     \/ ~Dirty /\ run.git < MaxGit /\ UNCHANGED <<local, bounds>>
  /\ run' = [run EXCEPT !.at = "push", !.git = 1, !.handled = FALSE]
  /\ UNCHANGED <<cp, tree, remote, behind, pushed, previewVars, row, live, chat, kept, validated>>

\* The commit fails, and so does the fixer; after the last attempt for good.
CommitFails ==
  /\ At("commit") /\ (Dirty => bounds.mishaps < MaxMishap)
  /\ LET mishaps == IF Dirty THEN 1 ELSE 0 IN
     IF run.git = MaxGit THEN GivesUp /\ UNCHANGED <<tree, local>> /\ Counted(0, 0, mishaps)
     ELSE /\ FixerLeaves(mishaps) /\ tree' # Tip(local').tree
          /\ run' = [run EXCEPT !.git = @ + 1] /\ UNCHANGED <<cp, row, chat>>
  /\ UNCHANGED <<remote, behind, pushed, previewVars, live, kept, validated>>

\* Mutant: a force without the lease.
ForcePushAnyway ==
  /\ At("push") /\ run.squashed
  /\ Pushes(local) /\ run' = [run EXCEPT !.at = "confirm", !.squashed = FALSE]
  /\ UNCHANGED <<cp, tree, local, behind, previewVars, row, live, chat, bounds, kept, validated>>

\* pushForceWithLease; no fixer.  A push whose answer is lost is repeated
\* with the same lease, and refused.
ForcePush ==
  /\ At("push") /\ run.squashed
  /\ \/ /\ Tip(remote) = run.lease /\ Pushes(local)
        /\ \/ /\ run' = [run EXCEPT !.at = "confirm", !.squashed = FALSE]
              /\ UNCHANGED <<cp, row, chat, bounds>>
           \/ Mishap /\ Fails
     \/ /\ IF Tip(remote) = run.lease THEN Mishap ELSE UNCHANGED bounds
        /\ Fails /\ UNCHANGED <<remote, pushed>>
  /\ UNCHANGED <<tree, local, behind, previewVars, live, kept, validated>>

\* git push, by Liliput or by the git fixer: the heads agree.
PushDone ==
  /\ At("push") /\ ~run.squashed
  /\ FastForward /\ Pushes(local) /\ Go("confirm")
  /\ UNCHANGED <<cp, tree, local, behind, previewVars, row, live, chat, bounds, kept, validated>>

\* The fixer rebases onto what is on GitHub; what it left beside its commit, or
\* stashed and took out again, stays in the workspace.
FixerRebases(mishaps) ==
  /\ ~FastForward /\ \E left \in {0, 1} :
       /\ bounds.edits + left < MaxEdit
       /\ tree' = NewTree + left /\ Counted(1 + left, 1, mishaps)
  /\ local' = Append(remote, NewCommit(NewTree))

\* GitHub refuses the push or cannot be reached.  The fixer has a turn before
\* the next attempt; nobody looks at the files after it, only at the heads.
PushFails ==
  /\ At("push") /\ ~run.squashed /\ (FastForward => bounds.mishaps < MaxMishap)
  /\ LET mishaps == IF FastForward THEN 1 ELSE 0 IN
     IF run.git = MaxGit THEN GivesUp /\ UNCHANGED <<tree, local>> /\ Counted(0, 0, mishaps)
     ELSE /\ FixerLeaves(mishaps) \/ FixerRebases(mishaps)
          /\ run' = [run EXCEPT !.git = @ + 1, !.handled = TRUE] /\ UNCHANGED <<cp, row, chat>>
  /\ UNCHANGED <<remote, behind, pushed, previewVars, live, kept, validated>>

\* Where a confirmed commit goes on.
After == CASE run.for = "main" -> IF run.kind = "iterate" THEN "guard" ELSE "build"
           [] run.for = "build" -> "build"
           [] OTHER -> "rebuild"

\* Mutant: the local head is taken at its word.
ConfirmLocal ==
  /\ At("confirm")
  /\ run' = [run EXCEPT !.at = IF run.for = "guard" THEN "build" ELSE After, !.sha = Tip(local),
                        !.for = IF @ = "guard" THEN "main" ELSE @]
  /\ row' = [row EXCEPT !.commit = Tip(local)]
  /\ UNCHANGED <<cp, chat, gitVars, previewVars, live, bounds, kept, validated>>

\* confirmedPushedHead
Confirm ==
  /\ At("confirm")
  /\ IF remote # <<>> /\ Tip(local) = Tip(remote)
     THEN /\ run' = [run EXCEPT !.at = IF run.for = "guard" THEN "build" ELSE After,
                                !.sha = Tip(local), !.for = IF @ = "guard" THEN "main" ELSE @]
          /\ row' = [row EXCEPT !.commit = Tip(local)]
          /\ UNCHANGED <<cp, chat>>
     ELSE GivesUp
  /\ UNCHANGED <<gitVars, previewVars, live, bounds, kept, validated>>

-----------------------------------------------------------------------------
(* guardMainConflicts, in an iteration: merges the base when it conflicts. *)

Merged == /\ Edited /\ tree' = NewTree /\ Counted(1, 1, 0)
          /\ local' = Append(local, NewCommit(NewTree))

\* pushResolved logs its failure.
PushResolved == \/ FastForward /\ Pushes(local')
                \/ UNCHANGED <<remote, pushed>>

\* The round goes on with the commit it had, whatever the workspace is by now.
GuardHandled == run' = [run EXCEPT !.at = "build", !.git = 1, !.handled = TRUE]

\* Nothing to reconcile, no answer, a merge that would be clean, or conflicts
\* nobody resolved and a merge that was aborted without a trace.
GuardLeaves ==
  /\ At("guard") /\ Go("build")
  /\ UNCHANGED <<cp, gitVars, previewVars, row, live, chat, bounds, kept, validated>>

\* A git older than 2.38 cannot tell a conflict without merging, and the merge
\* stays; so does one that the resolver committed before the guard failed.
GuardMerges ==
  /\ At("guard") /\ behind /\ GuardHandled
  /\ Merged /\ PushResolved /\ behind' = FALSE
  /\ UNCHANGED <<cp, previewVars, row, live, chat, kept, validated>>

\* The resolver's last turn leaves files that are not in a commit.  The merge
\* is aborted, which leaves such files alone, and does nothing to a merge that
\* the resolver has committed.
GuardGivesUp ==
  /\ At("guard") /\ behind /\ GuardHandled
  /\ \/ Edited /\ tree' = NewTree /\ Counted(1, 0, 0) /\ UNCHANGED <<local, behind>>
     \/ /\ bounds.edits + 1 < MaxEdit /\ tree' = NewTree + 1 /\ Counted(2, 1, 0)
        /\ local' = Append(local, NewCommit(NewTree)) /\ behind' = FALSE
  /\ UNCHANGED <<cp, remote, pushed, previewVars, row, live, chat, kept, validated>>

\* The merge is committed and nothing is left beside it.
GuardResolves ==
  /\ At("guard") /\ behind
  /\ Merged /\ PushResolved /\ behind' = FALSE
  /\ run' = [run EXCEPT !.at = "confirm", !.for = "guard", !.handled = FALSE]
  /\ UNCHANGED <<cp, previewVars, row, live, chat, kept, validated>>

-----------------------------------------------------------------------------
(* buildWithFixer and deployWithFixer                                      *)

\* The row names the image before it is built.
BuildStarts ==
  /\ At("build") /\ Go("building")
  /\ row' = [row EXCEPT !.commit = run.sha, !.image = run.sha]
  /\ UNCHANGED <<cp, gitVars, previewVars, live, chat, bounds, kept, validated>>

\* az acr build: the workspace as it is, under the commit's tag.
Image == [tag |-> run.sha, tree |-> tree, handled |-> run.handled]
Registers == built' = {i \in built : i.tag # run.sha} \cup {Image}

Built ==
  /\ At("building") /\ Registers
  /\ run' = [run EXCEPT !.at = "deploy", !.fix = 1]
  /\ UNCHANGED <<cp, gitVars, deployed, torn, row, live, chat, bounds, kept, validated>>

\* A failure of the network is tried again and costs no attempt.
BuildAgain ==
  /\ At("building") /\ run.transient < MaxTransient /\ Mishap
  /\ run' = [run EXCEPT !.at = "build", !.transient = @ + 1]
  /\ UNCHANGED <<cp, gitVars, previewVars, row, live, chat, kept, validated>>

\* The ops fixer has a turn, and what has changed in the workspace by then is
\* committed; when nothing has, or after the last attempt, the round fails.
Fixed(for) ==
  \/ /\ run.fix <= MaxFix /\ MayEdit(1) /\ tree' # Tip(local).tree
     /\ run' = [run EXCEPT !.at = "commit", !.for = for, !.fix = @ + 1, !.git = 1]
     /\ UNCHANGED <<cp, row, chat>>
  \/ Fails /\ Counted(0, 0, 1) /\ UNCHANGED tree

BuildFails ==
  /\ At("building") /\ bounds.mishaps < MaxMishap /\ Fixed("build")
  /\ UNCHANGED <<local, remote, behind, pushed, previewVars, live, kept, validated>>

\* deployApp replaces the deployment, then the service.  The preview is
\* published and the task's session kept for what follows.
Deploy ==
  /\ At("deploy")
  /\ \E i \in built : i.tag = run.sha /\ deployed' = i
  /\ torn' = FALSE /\ live' = TRUE
  /\ row' = [row EXCEPT !.commit = run.sha, !.image = run.sha]
  /\ run' = [run EXCEPT !.at = "probe", !.out = run.sha]
  /\ UNCHANGED <<cp, gitVars, built, chat, bounds, kept, validated>>

\* It fails before or after the deployment is replaced, or the pod does not
\* get ready.
DeployFails ==
  /\ At("deploy") /\ bounds.mishaps < MaxMishap /\ Fixed("deploy")
  /\ \/ UNCHANGED <<deployed, torn>>
     \/ \E i \in built : i.tag = run.sha /\ deployed' = i /\ torn' = TRUE
  /\ UNCHANGED <<local, remote, behind, pushed, built, live, kept, validated>>

\* After a fix: the image of the new commit; then the deployment's next
\* attempt, or the heal loop's only one.
Rebuilt ==
  /\ At("rebuild") /\ Registers
  /\ row' = [row EXCEPT !.image = run.sha]
  /\ Go(IF run.for = "heal" THEN "redeploy" ELSE "deploy")
  /\ UNCHANGED <<cp, gitVars, deployed, torn, live, chat, bounds, kept, validated>>

RebuildFails ==
  /\ At("rebuild") /\ Mishap /\ GivesUp
  /\ UNCHANGED <<gitVars, previewVars, live, kept, validated>>

\* Mutant: what the loop answers for is settled before the deployment.
RedeploySettled ==
  /\ At("redeploy")
  /\ run' = [run EXCEPT !.at = "probe", !.probe = @ + 1, !.out = run.sha]
  /\ \/ /\ \E i \in built : i.tag = run.sha /\ deployed' = i
        /\ torn' = FALSE /\ UNCHANGED bounds
     \/ Mishap /\ UNCHANGED <<deployed, torn>>
  /\ UNCHANGED <<cp, gitVars, built, row, live, chat, kept, validated>>

\* A pod that is not ready is probed all the same.
Redeploy ==
  /\ At("redeploy")
  /\ \/ /\ \E i \in built : i.tag = run.sha /\ deployed' = i
        /\ run' = [run EXCEPT !.at = "probe", !.probe = @ + 1, !.out = run.sha]
        /\ torn' = FALSE /\ UNCHANGED bounds
     \/ /\ Mishap
        /\ run' = [run EXCEPT !.at = "probe", !.probe = @ + 1]
        /\ \/ UNCHANGED <<deployed, torn>>
           \/ \E i \in built : i.tag = run.sha /\ deployed' = i /\ torn' = TRUE
  /\ UNCHANGED <<cp, gitVars, built, row, live, chat, kept, validated>>

-----------------------------------------------------------------------------
(* validateAndHealLoop: every way round it costs an attempt.               *)

Probing == At("probe") /\ run.probe <= MaxProbe
\* What a turn of the coder or of the fixer leaves is delivered; without a
\* change the preview is probed again.
Heals ==
  run' = IF tree' # Tip(local).tree THEN [run EXCEPT !.at = "commit", !.for = "heal", !.git = 1]
                                    ELSE [run EXCEPT !.probe = @ + 1]

\* Messages come first: a turn for each, before the next probe.
HealChat ==
  /\ Probing /\ chat > 0 /\ chat' = 0
  /\ MayEdit(0) /\ Heals
  /\ UNCHANGED <<cp, local, remote, behind, pushed, previewVars, row, live, kept, validated>>

Healthy ==
  /\ Probing /\ chat = 0
  /\ run' = [run EXCEPT !.at = "review"]
  /\ validated' = deployed
  /\ UNCHANGED <<cp, gitVars, previewVars, row, live, chat, bounds, kept>>

Unhealthy ==
  /\ Probing /\ chat = 0
  /\ IF run.probe < MaxProbe THEN MayEdit(0) /\ Heals
     ELSE run' = [run EXCEPT !.at = "review", !.ok = FALSE] /\ UNCHANGED <<tree, bounds>>
  /\ UNCHANGED <<cp, local, remote, behind, pushed, previewVars, row, live, chat, kept, validated>>

\* The fixer's turn fails.
HealFails ==
  /\ Probing /\ chat = 0 /\ run.probe < MaxProbe /\ Mishap
  /\ run' = [run EXCEPT !.at = "review", !.ok = FALSE]
  /\ UNCHANGED <<cp, gitVars, previewVars, row, live, chat, kept, validated>>

\* The probe itself does not answer.
ProbeErrs ==
  /\ Probing /\ chat = 0 /\ Mishap
  /\ run' = [run EXCEPT !.probe = @ + 1]
  /\ UNCHANGED <<cp, gitVars, previewVars, row, live, chat, kept, validated>>

\* Mutant: the loop is left an attempt too late.
ProbesRunOutLate ==
  /\ At("probe") /\ run.probe > MaxProbe + 1
  /\ run' = [run EXCEPT !.at = "review", !.ok = FALSE]
  /\ UNCHANGED <<cp, gitVars, previewVars, row, live, chat, bounds, kept, validated>>

\* The line after the loop.
ProbesRunOut ==
  /\ At("probe") /\ run.probe > MaxProbe
  /\ run' = [run EXCEPT !.at = "review", !.ok = FALSE]
  /\ UNCHANGED <<cp, gitVars, previewVars, row, live, chat, bounds, kept, validated>>

\* The reviewer has its say and the round is over.
Review ==
  /\ At("review") /\ EndsAs(IF run.ok THEN "review" ELSE "failed")
  /\ UNCHANGED <<gitVars, previewVars, live, bounds, kept, validated>>

-----------------------------------------------------------------------------
(* Everybody else                                                          *)

Message ==
  /\ run.at # "idle" /\ bounds.chats < MaxChat
  /\ chat' = chat + 1 /\ bounds' = [bounds EXCEPT !.chats = @ + 1]
  /\ UNCHANGED <<run, cp, gitVars, previewVars, row, live, kept, validated>>

\* Somebody commits on top of the task's branch, or on the base.
HumanPushes ==
  /\ remote # <<>> /\ bounds.humans < MaxHuman /\ Edited
  /\ Pushes(Append(remote, [NewCommit(NewTree) EXCEPT !.human = TRUE]))
  /\ bounds' = [bounds EXCEPT !.humans = @ + 1, !.edits = @ + 1, !.ids = @ + 1]
  /\ UNCHANGED <<run, cp, tree, local, behind, previewVars, row, live, chat, kept, validated>>

BaseMoves ==
  /\ ~behind /\ bounds.humans < MaxHuman
  /\ behind' = TRUE /\ bounds' = [bounds EXCEPT !.humans = @ + 1]
  /\ UNCHANGED <<run, cp, tree, local, remote, pushed, previewVars, row, live, chat, kept, validated>>

\* The process dies: what was under way is failed at boot and the sessions
\* are gone, the workspace with them (it is reset when it is opened again).
Crash ==
  /\ run.at # "idle" /\ bounds.crashes < MaxCrash
  /\ bounds' = [bounds EXCEPT !.crashes = @ + 1]
  /\ Fails /\ live' = FALSE
  /\ UNCHANGED <<gitVars, previewVars, kept, validated>>

-----------------------------------------------------------------------------
TurnSteps == TurnEnds \/ Flushed \/ Drain \/ TurnOver \/ Squash
GitSteps == \/ Commits \/ CommitFails \/ ForcePush \/ PushDone \/ PushFails \/ Confirm
            \/ GuardLeaves \/ GuardMerges \/ GuardGivesUp \/ GuardResolves
ImageSteps == \/ BuildStarts \/ Built \/ BuildAgain \/ BuildFails \/ Deploy \/ DeployFails
              \/ Rebuilt \/ RebuildFails \/ Redeploy
HealSteps == HealChat \/ Healthy \/ Unhealthy \/ HealFails \/ ProbeErrs \/ ProbesRunOut \/ Review
RoundSteps == Rebuild \/ TurnSteps \/ GitSteps \/ ImageSteps \/ HealSteps
Checkpoints == TimerFires \/ CheckpointCommits \/ CheckpointPushes

DeliveryNext ==
  \/ BeginFirst \/ BeginAgain \/ Edit \/ Checkpoints \/ RoundSteps
  \/ Message \/ HumanPushes \/ BaseMoves \/ Crash

\* A round goes on, and so does a commit under way: every command and every
\* turn ends, by its time limit if nothing else.
DeliveryFairness == WF_deliveryVars(RoundSteps) /\ WF_deliveryVars(Checkpoints)

DeliverySpec == DeliveryInit /\ [][DeliveryNext]_deliveryVars /\ DeliveryFairness

-----------------------------------------------------------------------------
(* Properties *)

\* The types of the state, and that a round under way has a branch with commits.
DeliveryTypeOK ==
  /\ local \in Seq(Commit) /\ local # <<>> /\ remote \in Seq(Commit)
  /\ tree \in Nat /\ run.sha \in Commit /\ run.out \in Commit
  /\ (built \cup {deployed}) \subseteq [tag : Commit, tree : Nat, handled : BOOLEAN]
  /\ row.status \in {"building", "review", "failed"} /\ row.commit \in Commit
  /\ run.git \in 1..MaxGit /\ run.fix \in 1..MaxFix + 1 /\ run.probe \in 1..MaxProbe + 1
  /\ cp.doing \in {"none", "commit", "push"} /\ live \in BOOLEAN

\* An image holds the tree of the commit it is tagged with, unless the git fixer
\* of the push or the conflict guard's merge had its turn between the two: what
\* checkpoint writer, messages, repairs, repeated builds, people's commits and
\* earlier rounds leave in the workspace is committed before it is sent to the
\* registry, or was never there.
ImageIsItsCommit == \A i \in built : ~i.handled => i.tree = i.tag.tree

\* What a round builds, deploys and probes was the tip of the branch on
\* GitHub -- but for the rebuild of a clean workspace, which nobody compares.
BuiltWasPushed ==
  run.kind # "rebuild" /\ run.at \in {"build", "building", "deploy", "redeploy", "rebuild"}
    => run.sha \in pushed

\* Once the turn is over nothing of the checkpoint writer touches the
\* workspace, and unless the commit failed all that the turn edited is in a commit.
CheckpointsEnd ==
  /\ run.at \notin {"turn", "flush"} => cp = Quiet
  /\ At("flush") /\ cp.doing = "none" /\ ~cp.again /\ run.kind = "first" /\ bounds.mishaps = 0
       => ~Dirty

\* The state is well formed, and turn and checkpoint writer do not overlap
\* beyond the end of the turn.
DeliveryInv == DeliveryTypeOK /\ CheckpointsEnd

\* What a checkpoint of the round saved on GitHub stays there, in the commits
\* of the round: the squash rewrites the history and keeps the work.
KeptByCheckpoint ==
  kept > 0 => \E i \in DOMAIN remote : ~remote[i].human /\ remote[i].tree >= kept

\* The commit a healthy verdict is about is the one that is deployed, however
\* many repairs failed half-way before it -- unless the cluster itself was
\* left in the middle of a replacement.
VerdictOnDeployed == At("review") /\ run.ok /\ ~torn => deployed.tag = run.out

\* A commit that somebody pushed to the branch after the round looked at it is
\* never overwritten.
LateCommitsKept == [][
  \A i \in DOMAIN remote :
    (\E j \in 1..i - 1 : remote[j] = run.lease) /\ remote[i].human
      => \E k \in DOMAIN remote' : remote'[k] = remote[i]]_deliveryVars

\* Every round ends: all its loops are bounded, whoever keeps talking to it.
RoundEnds == []<>(At("idle"))

\* "Users will only see 'review' once we've confirmed the preview is actually
\* healthy (or once the heal loop has exhausted itself ...)" (agent-engine.ts,
\* before the heal loop of the first round, which then fails the task).
ReviewWasValidated == row.status = "review" => validated = deployed

\* "Final commit SHA the image was built from" (agent-engine.ts, BuildOutcome):
\* also when a git fixer or a resolver had the workspace after the commit.
BuiltFromItsCommit == \A i \in built : i.tree = i.tag.tree

\* "unreachable" (agent-engine.ts, after the heal loop).
NeverPastTheLoop == At("probe") => run.probe <= MaxProbe

=============================================================================
