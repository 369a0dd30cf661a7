--------------------------- MODULE DeliveryProofs ---------------------------
(***************************************************************************)
(* What holds of the delivery of a task for any number of rounds, edits,   *)
(* commits of other people, failures and process deaths.                   *)
(*                                                                         *)
(* A round carries one fact from each command to the next: after a commit  *)
(* the workspace is the branch's tip, and then the commit that is built,   *)
(* until a git fixer or a merge handles it (Clean); what is built was      *)
(* confirmed on GitHub (Confirmed), what is probed is what the heal loop   *)
(* answers for (Healing), and a squash that will rewrite the branch still  *)
(* holds the work a checkpoint saved (Saves).                              *)
(***************************************************************************)
EXTENDS Delivery, TLAPS

Place == {"idle", "turn", "pending", "flush", "drain", "squash", "commit", "push", "confirm",
          "guard", "build", "building", "deploy", "rebuild", "redeploy", "probe", "review"}
Gits == 1..MaxGit
Fixes == 1..MaxFix + 1
Probes == 1..MaxProbe + 1
Round == [at : Place, kind : {"first", "iterate", "rebuild"},
          for : {"main", "guard", "build", "deploy", "heal"},
          git : Gits, fix : Fixes, transient : Nat, probe : Probes,
          sha : Commit, out : Commit, lease : Commit,
          squashed : BOOLEAN, handled : BOOLEAN, ok : BOOLEAN]
Writer == [armed : BOOLEAN, doing : {"none", "commit", "push"}, again : BOOLEAN, stopped : BOOLEAN]
Counts == [runs : Nat, edits : Nat, ids : Nat, humans : Nat, chats : Nat, mishaps : Nat, crashes : Nat]
Row == [status : {"building", "review", "failed"}, commit : Commit, image : Commit]
Registry == [tag : Commit, tree : Nat, handled : BOOLEAN]

\* The types of the whole state.
Types ==
  /\ run \in Round /\ cp \in Writer /\ bounds \in Counts /\ row \in Row
  /\ built \in SUBSET Registry /\ deployed \in Registry
  /\ local \in Seq(Commit) /\ local # <<>> /\ remote \in Seq(Commit)
  /\ tree \in Nat /\ kept \in Nat /\ chat \in Nat
  /\ live \in BOOLEAN /\ behind \in BOOLEAN /\ torn \in BOOLEAN

\* A branch is a line of commits nobody had before.
Line(s, ids, edits) ==
  /\ \A i \in DOMAIN s : s[i].id <= ids /\ s[i].tree <= edits
  /\ \A i, j \in DOMAIN s : i < j => s[i].id < s[j].id

Lines ==
  /\ Line(local, bounds.ids, bounds.edits) /\ Line(remote, bounds.ids, bounds.edits)
  /\ tree <= bounds.edits /\ kept <= bounds.edits

\* The tip of the branch on GitHub was pushed.
Known == remote # <<>> => Tip(remote) \in pushed

\* What a round builds was confirmed there.
Confirmed ==
  /\ At("pending") => run.kind = "rebuild"
  /\ run.kind # "rebuild" /\ run.at \in {"guard", "build", "building", "deploy", "redeploy", "rebuild"}
       => run.sha \in pushed

\* The workspace is the commit that is pushed, confirmed and built, until a git
\* fixer or a merge handles it.
Clean == ~run.handled =>
  /\ run.at \in {"push", "confirm"} => ~Dirty
  /\ run.at \in {"guard", "build", "building", "rebuild"} => tree = run.sha.tree

\* The heal loop waits for a repair to be delivered.
Repairing == run.for = "heal" /\ run.at \in {"commit", "push", "confirm", "rebuild", "redeploy"}

\* The heal loop answers for what is deployed, and has attempts left.
Healing ==
  /\ run.at \in {"probe", "review"} \/ Repairing => torn \/ deployed.tag = run.out
  /\ Repairing => run.probe <= MaxProbe
  /\ At("redeploy") => run.for = "heal"
  /\ run.at \in {"turn", "flush", "drain", "squash", "pending"} => run.for = "main"

\* The checkpoint writer is heard of in the first turn only, and knows of
\* every edit it has not committed.
Writing ==
  /\ run.kind # "first" => cp = Quiet
  /\ At("flush") /\ run.kind = "first" => cp.stopped /\ ~cp.armed
  /\ cp.doing = "push" /\ Dirty => cp.armed \/ cp.again

\* The branch of a first turn, and a fold of it, hold the work of the turn.
Own(s, n, k) == k <= n /\ \A i \in DOMAIN s : ~s[i].human /\ s[i].tree <= n
Folded == kept <= tree /\ (local = <<Base>> \/ ~Tip(local).human)

\* The first turn works on commits of its own, and a squash keeps what they
\* held.
Saves ==
  /\ run.kind = "first" /\ run.at \in {"turn", "flush", "drain", "squash"} => Own(local, tree, kept)
  /\ At("squash") => run.kind = "first"
  /\ run.squashed => /\ run.at \in {"commit", "push"} /\ run.for = "main" /\ Folded
                     /\ IF At("commit") THEN local = <<Base>> ELSE ~run.handled

\* The inductive invariant.
DeliveryIInv ==
  /\ Types /\ CheckpointsEnd
  /\ ImageIsItsCommit /\ BuiltWasPushed /\ KeptByCheckpoint /\ VerdictOnDeployed
  /\ Lines /\ Known /\ Confirmed /\ Clean /\ Healing /\ Writing /\ Saves
-----------------------------------------------------------------------------
\* What a round counts by.
LEMMA Limits ==
  /\ 1 \in Gits /\ \A g \in Gits : g # MaxGit => g + 1 \in Gits
  /\ 1 \in Fixes /\ \A n \in Fixes : n <= MaxFix => n + 1 \in Fixes
  /\ 1 \in Probes /\ \A p \in Probes : p <= MaxProbe => p + 1 \in Probes
  /\ \A p \in Probes : p < MaxProbe => p <= MaxProbe
  /\ \A n \in Nat : n + 1 \in Nat
<1>1. MaxGit \in Nat \ {0} /\ MaxFix \in Nat /\ MaxProbe \in Nat \ {0}
  BY DeliveryAssumption
<1>2. QED BY <1>1 DEF Gits, Fixes, Probes

\* Nothing is under way.
LEMMA Fresh ==
  /\ Base \in Commit /\ Resting \in Round /\ Quiet \in Writer /\ NoImage \in Registry
<1>1. Base \in Commit
  BY DEF Base, Commit
<1>2. Resting \in Round /\ Quiet \in Writer /\ NoImage \in Registry
  BY <1>1, Limits DEF Resting, Round, Place, Quiet, Writer, NoImage, Registry
<1>3. QED BY <1>1, <1>2

\* The end of a round.
Ended == run' = Resting /\ cp' = Quiet

\* However it ends, the same is left.
LEMMA Ending == (Fails => Ended) /\ \A status : EndsAs(status) => Ended
BY DEF Fails, EndsAs, Ended

\* A commit on top of a branch is its tip.
LEMMA Tips ==
  ASSUME NEW s \in Seq(Commit), NEW c \in Commit
  PROVE  /\ Append(s, c) \in Seq(Commit) /\ Append(s, c) # <<>> /\ Tip(Append(s, c)) = c
         /\ s # <<>> => Tip(s) \in Commit
BY DEF Tip

\* What a commit is, and a tree nobody had.
LEMMA Made ==
  ASSUME bounds \in Counts
  PROVE  /\ NewTree \in Nat /\ NewTree = bounds.edits + 1 /\ bounds.edits \in Nat /\ bounds.ids \in Nat
         /\ \A n \in Nat : /\ NewCommit(n) \in Commit /\ NewCommit(n).id = bounds.ids + 1
                         /\ NewCommit(n).tree = n /\ NewCommit(n).human = FALSE
BY DEF Counts, NewTree, NewCommit, Commit

\* Branches grow by commits of a new number.
LEMMA Growing ==
  ASSUME NEW s \in Seq(Commit), NEW c \in Commit, NEW n \in Nat, NEW e \in Nat, NEW m \in Nat,
         NEW d \in Nat, Line(s, n, e), n < m, e <= d, c.id = n + 1, c.tree <= d
  PROVE  Line(Append(s, c), m, d)
<1> DEFINE t == Append(s, c)
<1>1. /\ DOMAIN t = 1..Len(s) + 1 /\ t[Len(s) + 1] = c /\ DOMAIN s = 1..Len(s) /\ Len(s) \in Nat
      /\ \A i \in DOMAIN s : t[i] = s[i] /\ s[i] \in Commit
  OBVIOUS
<1>2. \A i \in DOMAIN s : s[i].id \in Nat /\ s[i].tree \in Nat
  BY <1>1 DEF Commit
<1> HIDE DEF t
<1>3. ASSUME NEW i \in DOMAIN t PROVE t[i].id <= m /\ t[i].tree <= d
  BY <1>1, <1>2 DEF Line
<1>4. ASSUME NEW i \in DOMAIN t, NEW j \in DOMAIN t, i < j PROVE t[i].id < t[j].id
  <2>1. i \in DOMAIN s
    BY <1>1, <1>4
  <2>2. CASE j \in DOMAIN s
    BY <1>1, <1>4, <2>1, <2>2 DEF Line
  <2>3. CASE j = Len(s) + 1
    BY <1>1, <1>2, <2>1, <2>3 DEF Line
  <2>4. QED BY <1>1, <2>2, <2>3
<1>5. Line(t, m, d)
  BY <1>3, <1>4 DEF Line
<1>6. QED BY <1>5 DEF t

\* And stay lines as more commits and edits are made elsewhere.
LEMMA Ageing ==
  ASSUME NEW s \in Seq(Commit), NEW n \in Nat, NEW e \in Nat, NEW m \in Nat, NEW d \in Nat,
         n <= m, e <= d
  PROVE  /\ Line(s, n, e) => Line(s, m, d)
         /\ Line(<<Base>>, m, d) /\ <<Base>> \in Seq(Commit)
<1>0. \A i \in DOMAIN s : s[i] \in Commit
  OBVIOUS
<1>1. \A i \in DOMAIN s : s[i].id \in Nat /\ s[i].tree \in Nat
  BY <1>0 DEF Commit
<1>2. Line(s, n, e) => Line(s, m, d)
  BY <1>1 DEF Line
<1>3. Base \in Commit /\ Base.id = 0 /\ Base.tree = 0
  BY DEF Base, Commit
<1>4. Line(<<Base>>, m, d)
  BY <1>3 DEF Line
<1>5. QED BY <1>2, <1>3, <1>4

\* A branch that goes on from another.
Extends(s, t) == \A i \in DOMAIN s : i \in DOMAIN t /\ t[i] = s[i]

\* A push without force only adds commits, and so does a commit.
LEMMA Extended ==
  ASSUME local \in Seq(Commit), remote \in Seq(Commit), NEW c \in Commit
  PROVE  /\ FastForward => Extends(remote, local) /\ Extends(remote, Append(local, c))
         /\ Extends(remote, Append(remote, c)) /\ Extends(remote, remote)
<1>1. Extends(local, Append(local, c)) /\ Extends(remote, Append(remote, c)) /\ Extends(remote, remote)
  BY DEF Extends
<1>2. FastForward => Extends(remote, local)
  BY DEF Extends, FastForward
<1>3. QED BY <1>1, <1>2 DEF Extends

\* The kinds of steps of a delivery.
Begins == BeginFirst \/ BeginAgain \/ Rebuild
Turns == Edit \/ Checkpoints \/ TurnSteps
Outside == Message \/ HumanPushes \/ BaseMoves \/ Crash
DeliveryStep == DeliveryNext \/ UNCHANGED deliveryVars

\* Every step is of one of them.
LEMMA Steps ==
  ASSUME DeliveryStep
  PROVE  Begins \/ Turns \/ GitSteps \/ ImageSteps \/ HealSteps \/ Outside \/ UNCHANGED deliveryVars
BY DEF DeliveryStep, DeliveryNext, RoundSteps, Begins, Turns, Outside

-----------------------------------------------------------------------------
(* The round *)

\* What a round, and GitHub, are after a step of git was given up.
GaveUp == \/ Ended
          \/ /\ run.for = "heal" /\ run'.at = "probe" /\ run'.probe = run.probe + 1
             /\ run'.for = "heal" /\ run'.kind = run.kind /\ run'.squashed = run.squashed
             /\ run'.out = run.out /\ run'.handled = run.handled /\ run'.ok = run.ok
             /\ run' \in Round /\ cp' = cp

\* A step of git that fails for good ends the round, or an attempt to heal.
LEMMA GivingUp ==
  ASSUME run \in Round, Healing, run.at \in {"commit", "push", "confirm", "rebuild"}, GivesUp
  PROVE  GaveUp
<1>1. CASE run.for = "heal"
  <2>1. run' = [run EXCEPT !.at = "probe", !.probe = @ + 1, !.git = 1] /\ cp' = cp
    BY <1>1 DEF GivesUp
  <2>2. run.probe <= MaxProbe /\ run.probe \in Probes
    BY <1>1 DEF Healing, Repairing, Round
  <2>3. run' \in Round
    BY <2>1, <2>2, Limits DEF Round, Place
  <2>4. QED BY <1>1, <2>1, <2>3 DEF Round, GaveUp
<1>2. QED BY <1>1, Ending DEF GivesUp, GaveUp

\* A turn of the git fixer that did not do its job, or that has yet to push.
FixerTurn == \E m \in {0, 1} : FixerLeaves(m) \/ FixerRebases(m)

\* Another attempt, after a turn of the git fixer.
Retried ==
  /\ run' \in Round /\ cp' = cp /\ FixerTurn
  /\ run'.at = run.at /\ run'.kind = run.kind /\ run'.for = run.for /\ run'.probe = run.probe
  /\ run'.sha = run.sha /\ run'.out = run.out /\ run'.squashed = run.squashed
  /\ At("push") => run'.handled

\* The fixer of a commit does not rebase.
LEMMA Fixing ==
  ASSUME run \in Round, Healing, CommitFails, Retried
  PROVE  FixerLeaves(0) \/ FixerLeaves(1) \/ GaveUp
BY GivingUp DEF CommitFails, At

\* What is left when a command of git fails: another attempt, or none.
LEMMA Retrying ==
  ASSUME run \in Round, Healing, CommitFails \/ PushFails
  PROVE  \/ GaveUp /\ UNCHANGED <<tree, local>>
         \/ Retried
<1>1. CASE run.git = MaxGit
  <2>1. GivesUp /\ UNCHANGED <<tree, local>> /\ run.at \in {"commit", "push"}
    BY <1>1 DEF CommitFails, PushFails, At
  <2>2. QED BY <2>1, GivingUp
<1>2. CASE CommitFails /\ run.git # MaxGit
  <2>1. /\ FixerTurn /\ run' = [run EXCEPT !.git = @ + 1] /\ cp' = cp
        /\ run.at = "commit"
    BY <1>2 DEF CommitFails, FixerTurn, At
  <2>2. QED BY <1>2, <2>1, Limits DEF Retried, Round, At
<1>3. CASE PushFails /\ run.git # MaxGit
  <2>1. /\ FixerTurn
        /\ run' = [run EXCEPT !.git = @ + 1, !.handled = TRUE] /\ cp' = cp
    BY <1>3 DEF PushFails, FixerTurn
  <2>2. QED BY <1>3, <2>1, Limits DEF Retried, Round
<1>4. QED BY <1>1, <1>2, <1>3

\* A turn is over: nothing was changed, or it is delivered.
LEMMA TurnOverIs ==
  ASSUME run \in Round, TurnOver
  PROVE  \/ Ended
         \/ /\ UNCHANGED cp
            /\ \/ run.kind = "first" /\ run' = [run EXCEPT !.at = "squash", !.git = 1]
               \/ run.kind = "iterate" /\ run' = [run EXCEPT !.at = "commit", !.git = 1]
               \/ run.kind # "first" /\ run' = [run EXCEPT !.at = "pending", !.kind = "rebuild"]
<1>1. CASE run.kind = "first"
  BY <1>1, Ending DEF TurnOver, Go
<1>2. CASE run.kind = "iterate" /\ Dirty
  BY <1>2, Ending DEF TurnOver, Go
<1>3. CASE run.kind # "first" /\ ~(run.kind = "iterate" /\ Dirty)
  BY <1>3, Ending DEF TurnOver, Go
<1>4. QED BY <1>1, <1>2, <1>3

\* A commit is confirmed on GitHub, and the round goes on with it.
WasConfirmed ==
  /\ remote # <<>> /\ Tip(local) = Tip(remote) /\ run'.sha = Tip(local) /\ cp' = cp
  /\ run'.at = IF run.for = "guard" THEN "build" ELSE After
  /\ run'.for = IF run.for = "guard" THEN "main" ELSE run.for
  /\ run'.kind = run.kind /\ run'.squashed = run.squashed /\ run'.out = run.out
  /\ run'.handled = run.handled /\ run'.probe = run.probe /\ run' \in Round

\* Or it is not, and is given up.
LEMMA Confirming ==
  ASSUME run \in Round, Healing, Confirm, Tip(local) \in Commit
  PROVE  GaveUp \/ WasConfirmed
<1>1. CASE remote # <<>> /\ Tip(local) = Tip(remote)
  <2>1. /\ run' = [run EXCEPT !.at = IF run.for = "guard" THEN "build" ELSE After, !.sha = Tip(local),
                              !.for = IF @ = "guard" THEN "main" ELSE @]
        /\ UNCHANGED cp
    BY <1>1 DEF Confirm
  <2>2. (IF run.for = "guard" THEN "build" ELSE After) \in Place
    BY DEF After, Place
  <2>3. /\ run' \in Round /\ run'.sha = Tip(local)
        /\ run'.at = IF run.for = "guard" THEN "build" ELSE After
        /\ run'.for = IF run.for = "guard" THEN "main" ELSE run.for
        /\ run'.kind = run.kind /\ run'.squashed = run.squashed /\ run'.out = run.out
        /\ run'.handled = run.handled /\ run'.probe = run.probe
    BY <2>1, <2>2 DEF Round
  <2>4. QED BY <1>1, <2>1, <2>3 DEF WasConfirmed
<1>2. CASE ~(remote # <<>> /\ Tip(local) = Tip(remote))
  BY <1>2, GivingUp DEF Confirm, At
<1>3. QED BY <1>1, <1>2

\* A turn of the heal loop: its work is delivered, or the preview probed again.
LEMMA HealsIs ==
  ASSUME run \in Round, Heals, run.probe <= MaxProbe
  PROVE  /\ run' \in Round
         /\ \/ run' = [run EXCEPT !.at = "commit", !.for = "heal", !.git = 1]
            \/ run' = [run EXCEPT !.probe = @ + 1]
<1>1. \/ run' = [run EXCEPT !.at = "commit", !.for = "heal", !.git = 1]
      \/ run' = [run EXCEPT !.probe = @ + 1]
  BY DEF Heals
<1>2. run.probe \in Probes
  BY DEF Round
<1>3. QED BY <1>1, <1>2, Limits DEF Round, Place

\* A round is at one of its places, within its attempts.
LEMMA RoundKeeps ==
  ASSUME Types, Healing, DeliveryStep
  PROVE  run' \in Round
<1> USE DEF At, Go, gitVars, previewVars
<1>0. /\ run \in Round /\ Tip(local) \in Commit /\ Base \in Commit
      /\ remote # <<>> => Tip(remote) \in Commit
  BY Tips, Fresh DEF Types
<1>1. CASE Ended
  BY Fresh, <1>1 DEF Ended, Round
<1> SUFFICES ASSUME ~Ended PROVE run' \in Round
  BY <1>1
<1>2. CASE Begins
  <2>1. CASE BeginFirst BY <1>0, <2>1, Limits, Fresh, Ending DEF BeginFirst, Pushes, Round,
       Place
  <2>2. CASE BeginAgain
    <3>1. PICK kind \in {"iterate", "rebuild"} :
            run' = [Resting EXCEPT !.kind = kind, !.at = IF kind = "iterate" THEN "turn" ELSE "pending"]
      BY <2>2 DEF BeginAgain
    <3>2. QED BY <1>0, <3>1, Fresh DEF Round, Place
  <2>3. CASE Rebuild BY <1>0, <2>3, Limits, Fresh, Ending DEF Rebuild, Round, Place
  <2>4. QED BY <1>2, <2>1, <2>2, <2>3 DEF Begins
<1>3. CASE Turns
  <2>1. CASE Edit BY <1>0, <2>1 DEF Edit
  <2>2. CASE TimerFires BY <1>0, <2>2 DEF TimerFires
  <2>3. CASE CheckpointCommits BY <1>0, <2>3 DEF CheckpointCommits
  <2>4. CASE CheckpointPushes BY <1>0, <2>4 DEF CheckpointPushes
  <2>5. CASE TurnEnds BY <1>0, <2>5 DEF TurnEnds, Mishap, Round, Place
  <2>6. CASE Flushed BY <1>0, <2>6, Limits, Fresh, Ending DEF Flushed, Round, Place
  <2>7. CASE Drain BY <1>0, <2>7 DEF Drain
  <2>8. CASE TurnOver
    <3>1. CASE \E at \in {"squash", "commit"} : run' = [run EXCEPT !.at = at, !.git = 1]
      BY <1>0, <2>8, <3>1, TurnOverIs, Limits DEF TurnOver, At, Round, Place
    <3>2. CASE run' = [run EXCEPT !.at = "pending", !.kind = "rebuild"]
      BY <1>0, <2>8, <3>2, TurnOverIs DEF TurnOver, At, Round, Place
    <3>3. QED BY <1>0, <2>8, <3>1, <3>2, TurnOverIs
  <2>9. CASE Squash BY <1>0, <2>9, Limits DEF Squash, Mishap, Round, Place
  <2>10. QED BY <1>3, <2>1, <2>2, <2>3, <2>4, <2>5, <2>6, <2>7, <2>8, <2>9 DEF Turns,
       Checkpoints, TurnSteps
<1>4. CASE GitSteps
  <2>1. CASE Commits BY <1>0, <2>1, Limits DEF Commits, Counted, NewCommit, Round, Place
  <2>2. CASE CommitFails
    <3>1. GaveUp => run' \in Round
      BY Fresh DEF GaveUp, Ended
    <3>2. QED BY <1>0, <2>2, <3>1, Retrying DEF Retried
  <2>3. CASE ForcePush BY <1>0, <2>3, Ending DEF ForcePush, Pushes, Mishap, Round, Place
  <2>4. CASE PushDone BY <1>0, <2>4, Limits DEF PushDone, Pushes, Edited, NewTree, NewCommit,
       Counted, Round, Place
  <2>5. CASE PushFails
    <3>1. GaveUp => run' \in Round
      BY Fresh DEF GaveUp, Ended
    <3>2. QED BY <1>0, <2>5, <3>1, Retrying DEF Retried
  <2>6. CASE Confirm
    BY <1>0, <2>6, Confirming DEF GaveUp, WasConfirmed
  <2>7. CASE GuardLeaves BY <1>0, <2>7, Limits DEF GuardLeaves, Round, Place
  <2>8. CASE GuardMerges BY <1>0, <2>8, Limits DEF GuardMerges, GuardHandled, Merged, PushResolved, Pushes,
       Edited, NewTree, NewCommit, Counted, Round, Place
  <2>9. CASE GuardResolves BY <1>0, <2>9 DEF GuardResolves, Merged, PushResolved, Pushes,
       Edited, NewTree, NewCommit, Counted, Round, Place
  <2>10. CASE GuardGivesUp BY <1>0, <2>10, Limits DEF GuardGivesUp, GuardHandled, Pushes,
       Edited, NewTree, NewCommit, Counted, Round, Place
  <2>11. QED BY <1>4, <2>1, <2>2, <2>3, <2>4, <2>5, <2>6, <2>7, <2>8, <2>9, <2>10 DEF GitSteps
<1>5. CASE ImageSteps
  <2>1. CASE BuildStarts BY <1>0, <2>1, Limits DEF BuildStarts, Round, Place
  <2>2. CASE Built BY <1>0, <2>2, Limits DEF Built, Registers, Image, Round, Place
  <2>3. CASE BuildAgain BY <1>0, <2>3, Limits DEF BuildAgain, Mishap, Round, Place
  <2>4. CASE BuildFails BY <1>0, <2>4, Limits, Fresh, Ending DEF BuildFails, Fixed,
       Round, Place
  <2>5. CASE Deploy BY <1>0, <2>5 DEF Deploy, Round, Place
  <2>6. CASE DeployFails BY <1>0, <2>6, Limits, Fresh, Ending DEF DeployFails, Fixed,
       Round, Place
  <2>7. CASE Rebuilt BY <1>0, <2>7, Limits DEF Rebuilt, Registers, Image, Round, Place
  <2>8. CASE RebuildFails
    BY <1>0, <2>8, GivingUp DEF RebuildFails, GaveUp
  <2>9. CASE Redeploy
    <3>1. run.probe \in Probes /\ run.probe <= MaxProbe /\ run.sha \in Commit
      BY <1>0, <2>9 DEF Redeploy, Healing, Repairing, Round
    <3>2. \/ run' = [run EXCEPT !.at = "probe", !.probe = @ + 1, !.out = run.sha]
          \/ run' = [run EXCEPT !.at = "probe", !.probe = @ + 1]
      BY <2>9 DEF Redeploy
    <3>3. QED BY <1>0, <3>1, <3>2, Limits DEF Round, Place
  <2>10. QED BY <1>5, <2>1, <2>2, <2>3, <2>4, <2>5, <2>6, <2>7, <2>8, <2>9 DEF ImageSteps
<1>6. CASE HealSteps
  <2>1. CASE HealChat
    BY <1>0, <2>1, HealsIs DEF HealChat, Probing
  <2>2. CASE Healthy BY <1>0, <2>2 DEF Healthy, Probing, Round, Place
  <2>3. CASE Unhealthy
    <3>1. CASE run.probe < MaxProbe
      <4>1. run.probe <= MaxProbe
        BY <1>0, <3>1, Limits DEF Round
      <4>2. QED BY <1>0, <2>3, <3>1, <4>1, HealsIs DEF Unhealthy
    <3>2. CASE ~(run.probe < MaxProbe)
      BY <1>0, <2>3, <3>2 DEF Unhealthy, Round, Place
    <3>3. QED BY <3>1, <3>2
  <2>4. CASE HealFails BY <1>0, <2>4 DEF HealFails, Probing, Mishap, Round, Place
  <2>5. CASE ProbeErrs BY <1>0, <2>5, Limits DEF ProbeErrs, Probing, Mishap, Round, Place
  <2>6. CASE ProbesRunOut BY <1>0, <2>6 DEF ProbesRunOut, Round, Place
  <2>7. CASE Review BY <1>0, <2>7, Ending DEF Review, Round, Place
  <2>8. QED BY <1>6, <2>1, <2>2, <2>3, <2>4, <2>5, <2>6, <2>7 DEF HealSteps
<1>7. CASE Outside
  <2>1. CASE Message BY <1>0, <2>1 DEF Message
  <2>2. CASE HumanPushes BY <1>0, <2>2 DEF HumanPushes
  <2>3. CASE BaseMoves BY <1>0, <2>3 DEF BaseMoves
  <2>4. CASE Crash BY <1>0, <2>4, Ending DEF Crash, Round, Place
  <2>5. QED BY <1>7, <2>1, <2>2, <2>3, <2>4 DEF Outside
<1>8. CASE UNCHANGED deliveryVars
  BY <1>0, <1>8 DEF deliveryVars, Round
<1>9. QED BY <1>2, <1>3, <1>4, <1>5, <1>6, <1>7, <1>8, Steps

\* The heal loop answers for what is deployed.
LEMMA HealingKeeps ==
  ASSUME Types, Healing, DeliveryStep
  PROVE  Healing'
<1> USE DEF At, Go, gitVars, previewVars
<1>0. /\ run \in Round /\ deployed \in Registry /\ Tip(local) \in Commit /\ Healing
      /\ Resting.at = "idle" /\ Resting.for = "main"
  BY Tips DEF Types, Resting
<1>1. CASE Ended
  BY <1>0, <1>1 DEF Ended, Resting, Healing, Repairing, At
<1> SUFFICES ASSUME ~Ended PROVE Healing'
  BY <1>1
<1>2. CASE Begins
  <2>1. CASE BeginFirst BY <1>0, <2>1 DEF BeginFirst, Pushes, Healing, Repairing, Round
  <2>2. CASE BeginAgain BY <1>0, <2>2 DEF BeginAgain, Healing, Repairing, Round
  <2>3. CASE Rebuild BY <1>0, <2>3 DEF Rebuild, Healing, Repairing, Round
  <2>4. QED BY <1>2, <2>1, <2>2, <2>3 DEF Begins
<1>3. CASE Turns
  <2>1. CASE Edit BY <1>0, <2>1 DEF Edit, Edited, NewTree, Counted, Healing, Repairing, Round
  <2>2. CASE TimerFires BY <1>0, <2>2 DEF TimerFires, Healing, Repairing, Round
  <2>3. CASE CheckpointCommits BY <1>0, <2>3 DEF CheckpointCommits, Counted, NewCommit,
       CheckpointOver, Mishap, Healing, Repairing, Round
  <2>4. CASE CheckpointPushes BY <1>0, <2>4 DEF CheckpointPushes, CheckpointOver, Pushes,
       Mishap, Healing, Repairing, Round
  <2>5. CASE TurnEnds BY <1>0, <2>5 DEF TurnEnds, Mishap, Healing, Repairing, Round
  <2>6. CASE Flushed BY <1>0, <2>6, Ending DEF Flushed, Healing, Repairing, Round
  <2>7. CASE Drain BY <1>0, <2>7 DEF Drain, MayEdit, Edited, NewTree, Counted, Healing,
       Repairing, Round
  <2>8. CASE TurnOver
    <3>1. CASE \E at \in {"squash", "commit"} : run' = [run EXCEPT !.at = at, !.git = 1]
      BY <1>0, <2>8, <3>1, TurnOverIs, Limits DEF TurnOver, At, Healing, Repairing, Round
    <3>2. CASE run' = [run EXCEPT !.at = "pending", !.kind = "rebuild"]
      BY <1>0, <2>8, <3>2, TurnOverIs DEF TurnOver, At, Healing, Repairing, Round
    <3>3. QED BY <1>0, <2>8, <3>1, <3>2, TurnOverIs
  <2>9. CASE Squash BY <1>0, <2>9 DEF Squash, Mishap, Healing, Repairing, Round
  <2>10. QED BY <1>3, <2>1, <2>2, <2>3, <2>4, <2>5, <2>6, <2>7, <2>8, <2>9 DEF Turns,
       Checkpoints, TurnSteps
<1>4. CASE GitSteps
  <2>1. CASE Commits BY <1>0, <2>1 DEF Commits, Counted, NewCommit, Healing, Repairing, Round
  <2>2. CASE CommitFails
    <3>1. CASE GaveUp
      BY <1>0, <2>2, <3>1, Ending DEF GaveUp, CommitFails, PushFails, Healing, Repairing, Round
    <3>2. CASE Retried
      BY <1>0, <2>2, <3>2 DEF Retried, CommitFails, PushFails, Healing, Repairing, Round
    <3>3. QED BY <1>0, <2>2, <3>1, <3>2, Retrying
  <2>3. CASE ForcePush BY <1>0, <2>3, Ending DEF ForcePush, Pushes, Mishap, Healing,
       Repairing, Round
  <2>4. CASE PushDone BY <1>0, <2>4 DEF PushDone, Pushes, Edited, NewTree, NewCommit, Counted,
       Healing, Repairing, Round
  <2>5. CASE PushFails
    <3>1. CASE GaveUp
      BY <1>0, <2>5, <3>1, Ending DEF GaveUp, CommitFails, PushFails, Healing, Repairing, Round
    <3>2. CASE Retried
      BY <1>0, <2>5, <3>2 DEF Retried, CommitFails, PushFails, Healing, Repairing, Round
    <3>3. QED BY <1>0, <2>5, <3>1, <3>2, Retrying
  <2>6. CASE Confirm
    <3>1. CASE GaveUp
      BY <1>0, <2>6, <3>1 DEF GaveUp, Confirm, Healing, Repairing
    <3>2. CASE WasConfirmed
      BY <1>0, <2>6, <3>2 DEF WasConfirmed, After, Confirm, Healing, Repairing, Round
    <3>3. QED BY <1>0, <2>6, <3>1, <3>2, Confirming
  <2>7. CASE GuardLeaves BY <1>0, <2>7 DEF GuardLeaves, Healing, Repairing, Round
  <2>8. CASE GuardMerges BY <1>0, <2>8 DEF GuardMerges, GuardHandled, Merged, PushResolved, Pushes, Edited,
       NewTree, NewCommit, Counted, Healing, Repairing, Round
  <2>9. CASE GuardResolves BY <1>0, <2>9 DEF GuardResolves, Merged, PushResolved, Pushes,
       Edited, NewTree, NewCommit, Counted, Healing, Repairing, Round
  <2>10. CASE GuardGivesUp BY <1>0, <2>10 DEF GuardGivesUp, GuardHandled, Edited,
       NewTree, NewCommit, Counted, Healing, Repairing, Round
  <2>11. QED BY <1>4, <2>1, <2>2, <2>3, <2>4, <2>5, <2>6, <2>7, <2>8, <2>9, <2>10 DEF GitSteps
<1>5. CASE ImageSteps
  <2>1. CASE BuildStarts BY <1>0, <2>1 DEF BuildStarts, Healing, Repairing, Round
  <2>2. CASE Built BY <1>0, <2>2 DEF Built, Registers, Image, Healing, Repairing, Round
  <2>3. CASE BuildAgain BY <1>0, <2>3 DEF BuildAgain, Mishap, Healing, Repairing, Round
  <2>4. CASE BuildFails BY <1>0, <2>4, Ending DEF BuildFails, Fixed,
       Healing, Repairing, Round
  <2>5. CASE Deploy BY <1>0, <2>5 DEF Deploy, Healing, Repairing, Round
  <2>6. CASE DeployFails BY <1>0, <2>6, Ending DEF DeployFails, Fixed,
       Healing, Repairing, Round
  <2>7. CASE Rebuilt BY <1>0, <2>7 DEF Rebuilt, Registers, Image, Healing, Repairing, Round
  <2>8. CASE RebuildFails BY <1>0, <2>8, Ending DEF RebuildFails, Mishap, GivesUp, Healing,
       Repairing, Round
  <2>9. CASE Redeploy BY <1>0, <2>9 DEF Redeploy, Mishap, Healing, Repairing, Round
  <2>10. QED BY <1>5, <2>1, <2>2, <2>3, <2>4, <2>5, <2>6, <2>7, <2>8, <2>9 DEF ImageSteps
<1>6. CASE HealSteps
  <2>1. CASE HealChat BY <1>0, <2>1 DEF HealChat, Probing, MayEdit, Edited, NewTree, Counted,
       Heals, Healing, Repairing, Round
  <2>2. CASE Healthy BY <1>0, <2>2 DEF Healthy, Probing, Healing, Repairing, Round
  <2>3. CASE Unhealthy BY <1>0, <2>3 DEF Unhealthy, Probing, MayEdit, Edited, NewTree,
       Counted, Heals, Healing, Repairing, Round
  <2>4. CASE HealFails BY <1>0, <2>4 DEF HealFails, Probing, Mishap, Healing, Repairing, Round
  <2>5. CASE ProbeErrs BY <1>0, <2>5 DEF ProbeErrs, Probing, Mishap, Healing, Repairing, Round
  <2>6. CASE ProbesRunOut BY <1>0, <2>6 DEF ProbesRunOut, Healing, Repairing, Round
  <2>7. CASE Review BY <1>0, <2>7, Ending DEF Review, Healing, Repairing, Round
  <2>8. QED BY <1>6, <2>1, <2>2, <2>3, <2>4, <2>5, <2>6, <2>7 DEF HealSteps
<1>7. CASE Outside
  <2>1. CASE Message BY <1>0, <2>1 DEF Message, Healing, Repairing, Round
  <2>2. CASE HumanPushes BY <1>0, <2>2 DEF HumanPushes, Edited, Pushes, NewCommit, NewTree,
       Healing, Repairing, Round
  <2>3. CASE BaseMoves BY <1>0, <2>3 DEF BaseMoves, Healing, Repairing, Round
  <2>4. CASE Crash BY <1>0, <2>4, Ending DEF Crash, Healing, Repairing, Round
  <2>5. QED BY <1>7, <2>1, <2>2, <2>3, <2>4 DEF Outside
<1>8. CASE UNCHANGED deliveryVars
  BY <1>0, <1>8 DEF deliveryVars, Healing, Repairing, Round
<1>9. QED BY <1>2, <1>3, <1>4, <1>5, <1>6, <1>7, <1>8, Steps

\* From a commit to its image the workspace stays as it is.
LEMMA CleanKeeps ==
  ASSUME Types, Healing, Clean, DeliveryStep
  PROVE  Clean'
<1> USE DEF At, Go, gitVars, previewVars
<1>0. /\ run \in Round /\ local \in Seq(Commit) /\ remote \in Seq(Commit) /\ local # <<>> /\ Tip(local) \in Commit
      /\ Healing /\ Clean
      /\ tree \in Nat /\ bounds \in Counts
      /\ \A n \in Nat : NewCommit(n) \in Commit /\ NewCommit(n).tree = n /\ ~NewCommit(n).human
      /\ NewTree \in Nat /\ \A c \in Commit : Tip(Append(local, c)) = c /\ Tip(Append(remote, c)) = c
  BY Tips, Made DEF Types
<1>1. CASE Ended
  BY <1>0, <1>1 DEF Ended, Resting, Clean, At
<1> SUFFICES ASSUME ~Ended PROVE Clean'
  BY <1>1
<1>2. CASE Begins
  <2>1. CASE BeginFirst BY <1>0, <2>1 DEF BeginFirst, Pushes, Clean, Round, Dirty
  <2>2. CASE BeginAgain BY <1>0, <2>2 DEF BeginAgain, Clean, Round, Dirty
  <2>3. CASE Rebuild BY <1>0, <2>3 DEF Rebuild, Clean, Round, Dirty
  <2>4. QED BY <1>2, <2>1, <2>2, <2>3 DEF Begins
<1>3. CASE Turns
  <2>1. CASE Edit BY <1>0, <2>1 DEF Edit, Clean, Round, Dirty
  <2>2. CASE TimerFires BY <1>0, <2>2 DEF TimerFires, Clean, Round, Dirty
  <2>3. CASE CheckpointCommits BY <1>0, <2>3 DEF CheckpointCommits, CheckpointOver, Mishap,
       Clean, Round, Dirty
  <2>4. CASE CheckpointPushes BY <1>0, <2>4 DEF CheckpointPushes, CheckpointOver, Pushes,
       Mishap, Clean, Round, Dirty
  <2>5. CASE TurnEnds BY <1>0, <2>5 DEF TurnEnds, Mishap, Clean, Round, Dirty
  <2>6. CASE Flushed BY <1>0, <2>6, Ending DEF Flushed, Clean, Round, Dirty
  <2>7. CASE Drain BY <1>0, <2>7 DEF Drain, MayEdit, Clean, Round, Dirty
  <2>8. CASE TurnOver
    <3>1. CASE \E at \in {"squash", "commit"} : run' = [run EXCEPT !.at = at, !.git = 1]
      BY <1>0, <2>8, <3>1, TurnOverIs, Limits DEF TurnOver, At, Clean, Dirty, Round
    <3>2. CASE run' = [run EXCEPT !.at = "pending", !.kind = "rebuild"]
      BY <1>0, <2>8, <3>2, TurnOverIs DEF TurnOver, At, Clean, Dirty, Round
    <3>3. QED BY <1>0, <2>8, <3>1, <3>2, TurnOverIs
  <2>9. CASE Squash BY <1>0, <2>9 DEF Squash, Mishap, Clean, Round, Dirty
  <2>10. QED BY <1>3, <2>1, <2>2, <2>3, <2>4, <2>5, <2>6, <2>7, <2>8, <2>9 DEF Turns,
       Checkpoints, TurnSteps
<1>4. CASE GitSteps
  <2>1. CASE Commits
    <3>1. /\ run' = [run EXCEPT !.at = "push", !.git = 1, !.handled = FALSE] /\ UNCHANGED tree
          /\ local' = Append(local, NewCommit(tree)) \/ (~Dirty /\ UNCHANGED local)
      BY <2>1 DEF Commits
    <3>2. run'.at = "push"
      BY <1>0, <3>1 DEF Round
    <3>3. QED BY <1>0, <3>1, <3>2 DEF Clean, Dirty
  <2>2. CASE CommitFails
    <3>1. CASE GaveUp
      BY <1>0, <2>2, <3>1, Ending DEF GaveUp, CommitFails, PushFails, Clean, Dirty, Round
    <3>2. CASE Retried
      BY <1>0, <2>2, <3>2 DEF Retried, CommitFails, PushFails, Clean, Dirty, Round
    <3>3. QED BY <1>0, <2>2, <3>1, <3>2, Retrying
  <2>3. CASE ForcePush BY <1>0, <2>3, Ending DEF ForcePush, Pushes, Mishap, Clean, Round,
       Dirty
  <2>4. CASE PushDone
    <3>1. run' = [run EXCEPT !.at = "confirm", !.git = 1] /\ run.at = "push" /\ UNCHANGED <<tree, local>>
      BY <2>4 DEF PushDone
    <3>2. run'.at = "confirm" /\ run'.handled = run.handled
      BY <1>0, <3>1 DEF Round
    <3>3. QED BY <1>0, <3>1, <3>2 DEF Clean, Dirty
  <2>5. CASE PushFails
    <3>1. CASE GaveUp
      BY <1>0, <2>5, <3>1, Ending DEF GaveUp, CommitFails, PushFails, Clean, Dirty, Round
    <3>2. CASE Retried
      BY <1>0, <2>5, <3>2 DEF Retried, CommitFails, PushFails, Clean, Dirty, Round
    <3>3. QED BY <1>0, <2>5, <3>1, <3>2, Retrying
  <2>6. CASE Confirm
    <3>1. CASE GaveUp
      BY <1>0, <2>6, <3>1 DEF GaveUp, Confirm, Clean
    <3>2. CASE WasConfirmed
      BY <1>0, <2>6, <3>2 DEF WasConfirmed, After, Confirm, Clean, Dirty
    <3>3. QED BY <1>0, <2>6, <3>1, <3>2, Confirming
  <2>7. CASE GuardLeaves BY <1>0, <2>7 DEF GuardLeaves, Clean, Round, Dirty
  <2>8. CASE GuardMerges BY <1>0, <2>8 DEF GuardMerges, GuardHandled, Merged, PushResolved, Pushes, Clean,
       Round, Dirty
  <2>9. CASE GuardResolves BY <1>0, <2>9 DEF GuardResolves, Merged, PushResolved, Pushes,
       Clean, Round, Dirty
  <2>10. CASE GuardGivesUp BY <1>0, <2>10 DEF GuardGivesUp, GuardHandled, Clean,
       Round, Dirty
  <2>11. QED BY <1>4, <2>1, <2>2, <2>3, <2>4, <2>5, <2>6, <2>7, <2>8, <2>9, <2>10 DEF GitSteps
<1>5. CASE ImageSteps
  <2>1. CASE BuildStarts BY <1>0, <2>1 DEF BuildStarts, Clean, Round, Dirty
  <2>2. CASE Built BY <1>0, <2>2 DEF Built, Registers, Image, Clean, Round, Dirty
  <2>3. CASE BuildAgain BY <1>0, <2>3 DEF BuildAgain, Mishap, Clean, Round, Dirty
  <2>4. CASE BuildFails BY <1>0, <2>4, Ending DEF BuildFails, Fixed, Clean, Round, Dirty
  <2>5. CASE Deploy BY <1>0, <2>5 DEF Deploy, Clean, Round, Dirty
  <2>6. CASE DeployFails BY <1>0, <2>6, Ending DEF DeployFails, Fixed, Clean, Round, Dirty
  <2>7. CASE Rebuilt BY <1>0, <2>7 DEF Rebuilt, Registers, Image, Clean, Round, Dirty
  <2>8. CASE RebuildFails BY <1>0, <2>8, Ending DEF RebuildFails, Mishap, GivesUp, Clean,
       Round, Dirty
  <2>9. CASE Redeploy BY <1>0, <2>9 DEF Redeploy, Mishap, Clean, Round, Dirty
  <2>10. QED BY <1>5, <2>1, <2>2, <2>3, <2>4, <2>5, <2>6, <2>7, <2>8, <2>9 DEF ImageSteps
<1>6. CASE HealSteps
  <2>1. CASE HealChat BY <1>0, <2>1 DEF HealChat, Probing, MayEdit, Heals, Clean, Round, Dirty
  <2>2. CASE Healthy BY <1>0, <2>2 DEF Healthy, Probing, Clean, Round, Dirty
  <2>3. CASE Unhealthy BY <1>0, <2>3 DEF Unhealthy, Probing, MayEdit, Heals, Clean, Round,
       Dirty
  <2>4. CASE HealFails BY <1>0, <2>4 DEF HealFails, Probing, Mishap, Clean, Round, Dirty
  <2>5. CASE ProbeErrs BY <1>0, <2>5 DEF ProbeErrs, Probing, Mishap, Clean, Round, Dirty
  <2>6. CASE ProbesRunOut BY <1>0, <2>6 DEF ProbesRunOut, Clean, Round, Dirty
  <2>7. CASE Review BY <1>0, <2>7, Ending DEF Review, Clean, Round, Dirty
  <2>8. QED BY <1>6, <2>1, <2>2, <2>3, <2>4, <2>5, <2>6, <2>7 DEF HealSteps
<1>7. CASE Outside
  <2>1. CASE Message BY <1>0, <2>1 DEF Message, Clean, Round, Dirty
  <2>2. CASE HumanPushes BY <1>0, <2>2 DEF HumanPushes, Pushes, Clean, Round, Dirty
  <2>3. CASE BaseMoves BY <1>0, <2>3 DEF BaseMoves, Clean, Round, Dirty
  <2>4. CASE Crash BY <1>0, <2>4, Ending DEF Crash, Clean, Round, Dirty
  <2>5. QED BY <1>7, <2>1, <2>2, <2>3, <2>4 DEF Outside
<1>8. CASE UNCHANGED deliveryVars
  BY <1>0, <1>8 DEF deliveryVars, Clean, Round, Dirty
<1>9. QED BY <1>2, <1>3, <1>4, <1>5, <1>6, <1>7, <1>8, Steps

\* The counts have grown, or are as they were.
Grown == /\ bounds' \in Counts
         /\ bounds'.edits >= bounds.edits /\ bounds'.ids >= bounds.ids
         /\ bounds'.mishaps >= bounds.mishaps

\* Whatever is counted, the counts grow.
LEMMA Counting ==
  ASSUME bounds \in Counts
  PROVE  /\ UNCHANGED bounds => Grown
         /\ Mishap => Grown /\ bounds'.mishaps = bounds.mishaps + 1
         /\ \A e \in 0..2, i, m \in {0, 1} :
              Counted(e, i, m) => /\ Grown /\ bounds'.edits = bounds.edits + e
                                  /\ bounds'.ids = bounds.ids + i
                                  /\ bounds'.mishaps = bounds.mishaps + m
<1>1. UNCHANGED bounds => Grown
  BY DEF Grown, Counts
<1>2. Mishap => Grown /\ bounds'.mishaps = bounds.mishaps + 1
  BY DEF Grown, Counts, Mishap
<1>3. ASSUME NEW e \in 0..2, NEW i \in {0, 1}, NEW m \in {0, 1}, Counted(e, i, m)
      PROVE  /\ Grown /\ bounds'.edits = bounds.edits + e /\ bounds'.ids = bounds.ids + i
             /\ bounds'.mishaps = bounds.mishaps + m
  <2>1. /\ bounds.edits \in Nat /\ bounds.ids \in Nat /\ bounds.mishaps \in Nat
        /\ bounds.runs \in Nat /\ bounds.humans \in Nat /\ bounds.chats \in Nat
        /\ bounds.crashes \in Nat
    BY DEF Counts
  <2>2. bounds' = [bounds EXCEPT !.edits = @ + e, !.ids = @ + i, !.mishaps = @ + m]
    BY <1>3 DEF Counted
  <2>3. bounds' \in Counts
    <3>1. bounds.edits + e \in Nat /\ bounds.ids + i \in Nat /\ bounds.mishaps + m \in Nat
      BY <2>1
    <3>2. bounds' = [bounds EXCEPT !.edits = bounds.edits + e, !.ids = bounds.ids + i,
                                   !.mishaps = bounds.mishaps + m]
      BY <2>2
    <3>3. QED BY <3>1, <3>2 DEF Counts
  <2>4. /\ bounds'.edits = bounds.edits + e /\ bounds'.ids = bounds.ids + i
        /\ bounds'.mishaps = bounds.mishaps + m
    BY <2>2 DEF Counts
  <2>5. QED BY <2>1, <2>3, <2>4 DEF Grown
<1>4. QED BY <1>1, <1>2, <1>3

\* The counts of every step only grow: the numbers of commits, the edits and the
\* failures so far.
LEMMA CountsKeep ==
  ASSUME Types, DeliveryStep
  PROVE  Grown
<1> USE DEF At, Go, gitVars, previewVars
<1>0. /\ bounds \in Counts
      /\ UNCHANGED bounds => Grown
      /\ Mishap => Grown
      /\ \A e \in 0..2, i, m \in {0, 1} : Counted(e, i, m) => Grown
      /\ \A m \in {0, 1} : MayEdit(m) \/ FixerLeaves(m) \/ FixerRebases(m) => Grown
  <2>1. \A e \in 0..2, i, m \in {0, 1} : Counted(e, i, m) => Grown
    BY Counting DEF Types
  <2>2. ASSUME NEW m \in {0, 1}, MayEdit(m) \/ FixerLeaves(m) \/ FixerRebases(m) PROVE Grown
    <3>1. PICK e \in 0..2, i \in {0, 1} : Counted(e, i, m)
      BY <2>2 DEF MayEdit, FixerLeaves, FixerRebases
    <3>2. QED BY <2>1, <3>1
  <2>3. QED BY <2>1, <2>2, Counting DEF Types
<1>2. CASE Begins
  <2>1. CASE BeginFirst
    <3>1. \/ bounds' = [bounds EXCEPT !.runs = @ + 1]
          \/ bounds' = [bounds EXCEPT !.runs = @ + 1, !.mishaps = @ + 1]
      BY <2>1 DEF BeginFirst
    <3>2. /\ bounds.runs + 1 \in Nat /\ bounds.mishaps + 1 \in Nat /\ bounds.humans + 1 \in Nat
          /\ bounds.edits + 1 \in Nat /\ bounds.ids + 1 \in Nat
          /\ bounds.edits \in Nat /\ bounds.ids \in Nat /\ bounds.mishaps \in Nat
      BY <1>0 DEF Counts
    <3>3. bounds' \in Counts
      BY <1>0, <3>1, <3>2 DEF Counts
    <3>4. /\ bounds'.edits = bounds.edits /\ bounds'.ids = bounds.ids
          /\ bounds'.mishaps \in {bounds.mishaps, bounds.mishaps + 1}
      BY <1>0, <3>1 DEF Counts
    <3>5. QED BY ONLY <3>2, <3>3, <3>4 DEF Grown
  <2>2. CASE BeginAgain
    <3>1. bounds' = [bounds EXCEPT !.runs = @ + 1]
      BY <2>2 DEF BeginAgain
    <3>2. QED BY <1>0, <3>1 DEF Grown, Counts
  <2>3. CASE Rebuild BY <1>0, <2>3 DEF Rebuild
  <2>4. QED BY <1>2, <2>1, <2>2, <2>3 DEF Begins
<1>3. CASE Turns
  <2>1. CASE Edit BY <1>0, <2>1 DEF Edit
  <2>2. CASE TimerFires BY <1>0, <2>2 DEF TimerFires
  <2>3. CASE CheckpointCommits BY <1>0, <2>3 DEF CheckpointCommits
  <2>4. CASE CheckpointPushes BY <1>0, <2>4 DEF CheckpointPushes
  <2>5. CASE TurnEnds BY <1>0, <2>5 DEF TurnEnds
  <2>6. CASE Flushed BY <1>0, <2>6 DEF Flushed
  <2>7. CASE Drain BY <1>0, <2>7 DEF Drain
  <2>8. CASE TurnOver BY <1>0, <2>8 DEF TurnOver
  <2>9. CASE Squash BY <1>0, <2>9 DEF Squash
  <2>10. QED BY <1>3, <2>1, <2>2, <2>3, <2>4, <2>5, <2>6, <2>7, <2>8, <2>9 DEF Turns,
       Checkpoints, TurnSteps
<1>4. CASE GitSteps
  <2>1. CASE Commits BY <1>0, <2>1 DEF Commits
  <2>2. CASE CommitFails BY <1>0, <2>2 DEF CommitFails
  <2>3. CASE ForcePush BY <1>0, <2>3 DEF ForcePush
  <2>4. CASE PushDone BY <1>0, <2>4 DEF PushDone
  <2>5. CASE PushFails BY <1>0, <2>5 DEF PushFails
  <2>6. CASE Confirm BY <1>0, <2>6 DEF Confirm
  <2>7. CASE GuardLeaves BY <1>0, <2>7 DEF GuardLeaves
  <2>8. CASE GuardMerges BY <1>0, <2>8 DEF GuardMerges, GuardHandled, Merged
  <2>9. CASE GuardResolves BY <1>0, <2>9 DEF GuardResolves, Merged
  <2>10. CASE GuardGivesUp
    <3>1. Counted(1, 0, 0) \/ Counted(2, 1, 0)
      BY <2>10 DEF GuardGivesUp
    <3>2. 1 \in 0..2 /\ 2 \in 0..2
      OBVIOUS
    <3>3. QED BY <1>0, <3>1, <3>2
  <2>11. QED BY <1>4, <2>1, <2>2, <2>3, <2>4, <2>5, <2>6, <2>7, <2>8, <2>9, <2>10 DEF GitSteps
<1>5. CASE ImageSteps
  <2>1. CASE BuildStarts BY <1>0, <2>1 DEF BuildStarts
  <2>2. CASE Built BY <1>0, <2>2 DEF Built
  <2>3. CASE BuildAgain BY <1>0, <2>3 DEF BuildAgain
  <2>4. CASE BuildFails BY <1>0, <2>4 DEF BuildFails, Fixed
  <2>5. CASE Deploy BY <1>0, <2>5 DEF Deploy
  <2>6. CASE DeployFails BY <1>0, <2>6 DEF DeployFails, Fixed
  <2>7. CASE Rebuilt BY <1>0, <2>7 DEF Rebuilt
  <2>8. CASE RebuildFails BY <1>0, <2>8 DEF RebuildFails
  <2>9. CASE Redeploy BY <1>0, <2>9 DEF Redeploy
  <2>10. QED BY <1>5, <2>1, <2>2, <2>3, <2>4, <2>5, <2>6, <2>7, <2>8, <2>9 DEF ImageSteps
<1>6. CASE HealSteps
  <2>1. CASE HealChat BY <1>0, <2>1 DEF HealChat
  <2>2. CASE Healthy BY <1>0, <2>2 DEF Healthy
  <2>3. CASE Unhealthy BY <1>0, <2>3 DEF Unhealthy
  <2>4. CASE HealFails BY <1>0, <2>4 DEF HealFails
  <2>5. CASE ProbeErrs BY <1>0, <2>5 DEF ProbeErrs
  <2>6. CASE ProbesRunOut BY <1>0, <2>6 DEF ProbesRunOut
  <2>7. CASE Review BY <1>0, <2>7 DEF Review
  <2>8. QED BY <1>6, <2>1, <2>2, <2>3, <2>4, <2>5, <2>6, <2>7 DEF HealSteps
<1>7. CASE Outside
  <2>1. CASE Message
    <3>1. bounds' = [bounds EXCEPT !.chats = @ + 1]
      BY <2>1 DEF Message
    <3>2. QED BY <1>0, <3>1 DEF Grown, Counts
  <2>2. CASE HumanPushes
    <3>1. bounds' = [bounds EXCEPT !.humans = @ + 1, !.edits = @ + 1, !.ids = @ + 1]
      BY <2>2 DEF HumanPushes
    <3>2. /\ bounds.runs + 1 \in Nat /\ bounds.mishaps + 1 \in Nat /\ bounds.humans + 1 \in Nat
          /\ bounds.edits + 1 \in Nat /\ bounds.ids + 1 \in Nat
          /\ bounds.edits \in Nat /\ bounds.ids \in Nat /\ bounds.mishaps \in Nat
      BY <1>0 DEF Counts
    <3>3. bounds' \in Counts
      BY <1>0, <3>1, <3>2 DEF Counts
    <3>4. /\ bounds'.edits = bounds.edits + 1 /\ bounds'.ids = bounds.ids + 1
          /\ bounds'.mishaps = bounds.mishaps
      BY <1>0, <3>1 DEF Counts
    <3>5. QED BY ONLY <3>2, <3>3, <3>4 DEF Grown
  <2>3. CASE BaseMoves
    <3>1. bounds' = [bounds EXCEPT !.humans = @ + 1]
      BY <2>3 DEF BaseMoves
    <3>2. QED BY <1>0, <3>1 DEF Grown, Counts
  <2>4. CASE Crash
    <3>1. bounds' = [bounds EXCEPT !.crashes = @ + 1]
      BY <2>4 DEF Crash
    <3>2. QED BY <1>0, <3>1 DEF Grown, Counts
  <2>5. QED BY <1>7, <2>1, <2>2, <2>3, <2>4 DEF Outside
<1>8. CASE UNCHANGED deliveryVars
  BY <1>0, <1>8 DEF deliveryVars
<1>9. QED BY <1>2, <1>3, <1>4, <1>5, <1>6, <1>7, <1>8, Steps

-----------------------------------------------------------------------------
(* The branch *)

\* What a step may do to the workspace and to the branch, here and on GitHub.
OneMore(edits, ids) == bounds'.edits = bounds.edits + edits /\ bounds'.ids = bounds.ids + ids
Stays == UNCHANGED <<tree, local, remote, pushed, kept>>
Restarts ==
  /\ kept' = 0
  /\ \/ local' = <<Base>> /\ tree' = 0
     \/ UNCHANGED <<local, tree>>
     \/ remote # <<>> /\ local' = remote /\ tree' = Tip(remote).tree
  /\ UNCHANGED <<remote, pushed>> \/ (remote = <<>> /\ Pushes(<<Base>>))
Edits == tree' = NewTree /\ bounds'.edits = bounds.edits + 1 /\ UNCHANGED <<local, remote, pushed, kept>>
CommitsTree ==
  /\ local' = Append(local, NewCommit(tree)) /\ OneMore(0, 1)
  /\ UNCHANGED <<tree, remote, pushed, kept>>
Folds == local' = <<Base>> /\ UNCHANGED <<tree, remote, pushed, kept>>
PushesOn ==
  /\ FastForward /\ Pushes(local) /\ UNCHANGED <<tree, local>>
  /\ UNCHANGED kept \/ (cp.doing = "push" /\ kept' = Tip(local).tree)
Overwrites ==
  /\ At("push") /\ run.squashed /\ Tip(remote) = run.lease /\ Pushes(local)
  /\ UNCHANGED <<tree, local, kept>>
Leaves(left) == left \in {0, 1} /\ tree' = NewTree + left /\ OneMore(1 + left, 1)
Uncommits ==
  /\ Len(local) > 1 /\ local' = SubSeq(local, 1, Len(local) - 1)
  /\ UNCHANGED <<tree, remote, pushed, kept>>
Rebases ==
  /\ Leaves(0) \/ Leaves(1)
  /\ local' = Append(remote, NewCommit(NewTree)) /\ UNCHANGED <<remote, pushed, kept>>
MergesBase ==
  /\ Leaves(0) \/ Leaves(1)
  /\ local' = Append(local, NewCommit(NewTree))
  /\ (FastForward /\ Pushes(local')) \/ UNCHANGED <<remote, pushed>>
  /\ UNCHANGED kept
PeoplePush ==
  /\ Pushes(Append(remote, [NewCommit(NewTree) EXCEPT !.human = TRUE])) /\ OneMore(1, 1)
  /\ UNCHANGED <<tree, local, kept>>
BranchMoves == \/ Stays \/ Restarts \/ Edits \/ CommitsTree \/ Folds \/ PushesOn \/ Overwrites
               \/ Uncommits \/ Rebases \/ MergesBase \/ PeoplePush

\* Every step does one of these.
LEMMA Moving ==
  ASSUME Types, DeliveryStep
  PROVE  BranchMoves
<1> USE DEF At
<1>0. /\ \A e \in 0..2, i, m \in {0, 1} : Counted(e, i, m) => bounds'.edits = bounds.edits + e
                                                            /\ bounds'.ids = bounds.ids + i
      /\ bounds \in Counts
  BY Counting DEF Types
<1>1. ASSUME NEW m \in {0, 1}, MayEdit(m), UNCHANGED <<local, remote, pushed, kept>> PROVE BranchMoves
  <2>1. UNCHANGED tree \/ (tree' = NewTree /\ Counted(1, 0, m))
    BY <1>1 DEF MayEdit
  <2>2. QED BY <1>0, <1>1, <2>1 DEF BranchMoves, Stays, Edits
<1>10. ASSUME FixerTurn, UNCHANGED <<remote, pushed, kept>> PROVE BranchMoves
  <2>1. PICK m \in {0, 1} : FixerLeaves(m) \/ FixerRebases(m)
    BY <1>10 DEF FixerTurn
  <2>2. CASE MayEdit(m) /\ UNCHANGED local
    BY <1>1, <1>10, <2>2
  <2>3. CASE FixerLeaves(m) /\ ~(MayEdit(m) /\ UNCHANGED local)
    BY <1>10, <2>3 DEF FixerLeaves, BranchMoves, Uncommits
  <2>4. CASE FixerRebases(m)
    <3>1. PICK left \in {0, 1} : tree' = NewTree + left /\ Counted(1 + left, 1, m)
      BY <2>4 DEF FixerRebases
    <3>2. 1 + left \in 0..2
      BY <3>1
    <3>3. Leaves(left)
      BY <1>0, <3>1, <3>2 DEF Leaves, OneMore
    <3>4. local' = Append(remote, NewCommit(NewTree))
      BY <2>4 DEF FixerRebases
    <3>5. left = 0 \/ left = 1
      BY <3>1
    <3>6. Rebases
      BY <1>10, <3>3, <3>4, <3>5 DEF Rebases
    <3>7. QED BY <3>6 DEF BranchMoves
  <2>5. QED BY <2>1, <2>2, <2>3, <2>4
<1>2. CASE Begins
  <2>1. CASE BeginFirst
    BY <1>0, <2>1 DEF BeginFirst, BranchMoves, Restarts
  <2>2. CASE BeginAgain
    BY <1>0, <2>2 DEF BeginAgain, BranchMoves, Restarts
  <2>3. CASE Rebuild BY <1>0, <2>3 DEF Rebuild, gitVars, BranchMoves, Stays
  <2>4. QED BY <1>2, <2>1, <2>2, <2>3 DEF Begins
<1>3. CASE Turns
  <2>1. CASE Edit
    <3>1. UNCHANGED <<local, remote, pushed, kept>> /\ tree' = NewTree /\ Counted(1, 0, 0)
      BY <2>1 DEF Edit
    <3>2. QED BY <1>0, <3>1 DEF BranchMoves, Edits
  <2>2. CASE TimerFires BY <1>0, <2>2 DEF TimerFires, gitVars, BranchMoves, Stays
  <2>3. CASE CheckpointCommits
    <3>1. UNCHANGED <<tree, remote, pushed, kept>>
      BY <2>3 DEF CheckpointCommits
    <3>2. UNCHANGED local \/ (local' = Append(local, NewCommit(tree)) /\ Counted(0, 1, 0))
      BY <2>3 DEF CheckpointCommits
    <3>3. QED BY <1>0, <3>1, <3>2 DEF BranchMoves, Stays, CommitsTree, OneMore
  <2>4. CASE CheckpointPushes
    BY <1>0, <2>4 DEF CheckpointPushes, BranchMoves, Stays, PushesOn
  <2>5. CASE TurnEnds BY <1>0, <2>5 DEF TurnEnds, gitVars, BranchMoves, Stays
  <2>6. CASE Flushed BY <1>0, <2>6 DEF Flushed, gitVars, BranchMoves, Stays
  <2>7. CASE Drain
    <3>1. UNCHANGED <<local, remote, pushed, kept>>
      BY <2>7 DEF Drain
    <3>2. MayEdit(0)
      BY <2>7 DEF Drain
    <3>3. QED BY <1>1, <3>1, <3>2
  <2>8. CASE TurnOver BY <1>0, <2>8 DEF TurnOver, gitVars, BranchMoves, Stays
  <2>9. CASE Squash
    BY <1>0, <2>9 DEF Squash, BranchMoves, Stays, Folds
  <2>10. QED BY <1>3, <2>1, <2>2, <2>3, <2>4, <2>5, <2>6, <2>7, <2>8, <2>9 DEF Turns,
       Checkpoints, TurnSteps
<1>4. CASE GitSteps
  <2>1. CASE Commits
    <3>1. UNCHANGED <<tree, remote, pushed, kept>>
      BY <2>1 DEF Commits
    <3>2. \/ UNCHANGED local
          \/ \E m \in {0, 1} : local' = Append(local, NewCommit(tree)) /\ Counted(0, 1, m)
      BY <2>1 DEF Commits
    <3>3. QED BY <1>0, <3>1, <3>2 DEF BranchMoves, Stays, CommitsTree, OneMore
  <2>2. CASE CommitFails
    <3>1. UNCHANGED <<remote, pushed, kept>>
      BY <2>2 DEF CommitFails
    <3>2. FixerTurn \/ UNCHANGED <<tree, local>>
      BY <2>2 DEF CommitFails, FixerTurn
    <3>3. QED BY <1>10, <3>1, <3>2 DEF BranchMoves, Stays
  <2>3. CASE ForcePush
    BY <1>0, <2>3 DEF ForcePush, BranchMoves, Stays, Overwrites, At
  <2>4. CASE PushDone
    <3>1. FastForward /\ Pushes(local) /\ UNCHANGED <<tree, local, kept>>
      BY <2>4 DEF PushDone
    <3>2. QED BY <3>1 DEF BranchMoves, PushesOn
  <2>5. CASE PushFails
    <3>1. UNCHANGED <<remote, pushed, kept>>
      BY <2>5 DEF PushFails
    <3>2. FixerTurn \/ UNCHANGED <<tree, local>>
      BY <2>5 DEF PushFails, FixerTurn
    <3>3. QED BY <1>10, <3>1, <3>2 DEF BranchMoves, Stays
  <2>6. CASE Confirm BY <1>0, <2>6 DEF Confirm, gitVars, BranchMoves, Stays
  <2>7. CASE GuardLeaves BY <1>0, <2>7 DEF GuardLeaves, gitVars, BranchMoves, Stays
  <2>8. CASE GuardMerges
    <3>1. /\ tree' = NewTree + 0 /\ local' = Append(local, NewCommit(NewTree)) /\ Counted(1, 1, 0)
          /\ (FastForward /\ Pushes(local')) \/ UNCHANGED <<remote, pushed>>
          /\ UNCHANGED kept
      BY <1>0, <2>8, Made DEF GuardMerges, Merged, PushResolved
    <3>2. Leaves(0)
      BY <1>0, <3>1 DEF Leaves, OneMore
    <3>3. QED BY <3>1, <3>2 DEF BranchMoves, MergesBase
  <2>9. CASE GuardResolves
    <3>1. /\ tree' = NewTree + 0 /\ local' = Append(local, NewCommit(NewTree)) /\ Counted(1, 1, 0)
          /\ (FastForward /\ Pushes(local')) \/ UNCHANGED <<remote, pushed>>
          /\ UNCHANGED kept
      BY <1>0, <2>9, Made DEF GuardResolves, Merged, PushResolved
    <3>2. Leaves(0)
      BY <1>0, <3>1 DEF Leaves, OneMore
    <3>3. QED BY <3>1, <3>2 DEF BranchMoves, MergesBase
  <2>10. CASE GuardGivesUp
    <3>1. UNCHANGED <<remote, pushed, kept>>
      BY <2>10 DEF GuardGivesUp
    <3>2. CASE tree' = NewTree /\ Counted(1, 0, 0) /\ UNCHANGED local
      BY <1>0, <3>1, <3>2 DEF BranchMoves, Edits
    <3>3. CASE tree' = NewTree + 1 /\ Counted(2, 1, 0) /\ local' = Append(local, NewCommit(NewTree))
      <4>1. Leaves(1)
        BY <1>0, <3>3 DEF Leaves, OneMore
      <4>2. QED BY <3>1, <3>3, <4>1 DEF BranchMoves, MergesBase
    <3>4. QED BY <2>10, <3>2, <3>3 DEF GuardGivesUp
  <2>11. QED BY <1>4, <2>1, <2>2, <2>3, <2>4, <2>5, <2>6, <2>7, <2>8, <2>9, <2>10 DEF GitSteps
<1>5. CASE ImageSteps
  <2>1. CASE BuildStarts BY <1>0, <2>1 DEF BuildStarts, gitVars, BranchMoves, Stays
  <2>2. CASE Built BY <1>0, <2>2 DEF Built, gitVars, BranchMoves, Stays
  <2>3. CASE BuildAgain BY <1>0, <2>3 DEF BuildAgain, gitVars, BranchMoves, Stays
  <2>4. CASE BuildFails
    <3>1. UNCHANGED <<local, remote, pushed, kept>>
      BY <2>4 DEF BuildFails
    <3>2. MayEdit(1) \/ UNCHANGED tree
      BY <2>4 DEF BuildFails, Fixed
    <3>3. QED BY <1>1, <3>1, <3>2 DEF BranchMoves, Stays
  <2>5. CASE Deploy BY <1>0, <2>5 DEF Deploy, gitVars, BranchMoves, Stays
  <2>6. CASE DeployFails
    <3>1. UNCHANGED <<local, remote, pushed, kept>>
      BY <2>6 DEF DeployFails
    <3>2. MayEdit(1) \/ UNCHANGED tree
      BY <2>6 DEF DeployFails, Fixed
    <3>3. QED BY <1>1, <3>1, <3>2 DEF BranchMoves, Stays
  <2>7. CASE Rebuilt BY <1>0, <2>7 DEF Rebuilt, gitVars, BranchMoves, Stays
  <2>8. CASE RebuildFails BY <1>0, <2>8 DEF RebuildFails, gitVars, BranchMoves, Stays
  <2>9. CASE Redeploy BY <1>0, <2>9 DEF Redeploy, gitVars, BranchMoves, Stays
  <2>10. QED BY <1>5, <2>1, <2>2, <2>3, <2>4, <2>5, <2>6, <2>7, <2>8, <2>9 DEF ImageSteps
<1>6. CASE HealSteps
  <2>1. CASE HealChat
    <3>1. UNCHANGED <<local, remote, pushed, kept>>
      BY <2>1 DEF HealChat
    <3>2. MayEdit(0)
      BY <2>1 DEF HealChat
    <3>3. QED BY <1>1, <3>1, <3>2
  <2>2. CASE Healthy BY <1>0, <2>2 DEF Healthy, gitVars, BranchMoves, Stays
  <2>3. CASE Unhealthy
    <3>1. UNCHANGED <<local, remote, pushed, kept>>
      BY <2>3 DEF Unhealthy
    <3>2. MayEdit(0) \/ UNCHANGED tree
      BY <2>3 DEF Unhealthy
    <3>3. QED BY <1>1, <3>1, <3>2 DEF BranchMoves, Stays
  <2>4. CASE HealFails BY <1>0, <2>4 DEF HealFails, gitVars, BranchMoves, Stays
  <2>5. CASE ProbeErrs BY <1>0, <2>5 DEF ProbeErrs, gitVars, BranchMoves, Stays
  <2>6. CASE ProbesRunOut BY <1>0, <2>6 DEF ProbesRunOut, gitVars, BranchMoves, Stays
  <2>7. CASE Review BY <1>0, <2>7 DEF Review, gitVars, BranchMoves, Stays
  <2>8. QED BY <1>6, <2>1, <2>2, <2>3, <2>4, <2>5, <2>6, <2>7 DEF HealSteps
<1>7. CASE Outside
  <2>1. CASE Message BY <1>0, <2>1 DEF Message, gitVars, BranchMoves, Stays
  <2>2. CASE HumanPushes
    <3>1. bounds' = [bounds EXCEPT !.humans = @ + 1, !.edits = @ + 1, !.ids = @ + 1]
      BY <2>2 DEF HumanPushes
    <3>2. OneMore(1, 1)
      BY <1>0, <3>1 DEF Counts, OneMore
    <3>3. QED BY <3>2, <2>2 DEF HumanPushes, BranchMoves, PeoplePush
  <2>3. CASE BaseMoves BY <1>0, <2>3 DEF BaseMoves, gitVars, BranchMoves, Stays
  <2>4. CASE Crash BY <1>0, <2>4 DEF Crash, gitVars, BranchMoves, Stays
  <2>5. QED BY <1>7, <2>1, <2>2, <2>3, <2>4 DEF Outside
<1>8. CASE UNCHANGED deliveryVars
  BY <1>0, <1>8 DEF deliveryVars, gitVars, previewVars, BranchMoves, Stays
<1>9. QED BY <1>2, <1>3, <1>4, <1>5, <1>6, <1>7, <1>8, Steps

\* What the cases of a step's effect on the branch rest on.
BranchFacts ==
  /\ local \in Seq(Commit) /\ local # <<>> /\ remote \in Seq(Commit)
  /\ tree \in Nat /\ kept \in Nat
  /\ NewTree \in Nat /\ NewTree = bounds.edits + 1 /\ bounds.edits \in Nat /\ bounds.ids \in Nat
  /\ bounds'.edits \in Nat /\ bounds'.ids \in Nat
  /\ bounds'.edits >= bounds.edits /\ bounds'.ids >= bounds.ids
  /\ Base \in Commit /\ Base.tree = 0 /\ ~Base.human
  /\ <<Base>> \in Seq(Commit) /\ <<Base>> # <<>> /\ Tip(<<Base>>) = Base
  /\ Tip(local) \in Commit /\ Tip(local).tree \in Nat
  /\ remote # <<>> => Tip(remote) \in Commit /\ Tip(remote).tree \in Nat

\* They hold before every step.
LEMMA BranchFactsHold ==
  ASSUME Types, DeliveryStep
  PROVE  BranchFacts
<1>1. /\ NewTree \in Nat /\ NewTree = bounds.edits + 1 /\ bounds.edits \in Nat /\ bounds.ids \in Nat
      /\ bounds'.edits \in Nat /\ bounds'.ids \in Nat
      /\ bounds'.edits >= bounds.edits /\ bounds'.ids >= bounds.ids
  BY CountsKeep, Made DEF Types, Grown, Counts
<1>2. /\ Base \in Commit /\ Base.tree = 0 /\ ~Base.human
      /\ <<Base>> \in Seq(Commit) /\ <<Base>> # <<>> /\ Tip(<<Base>>) = Base
  BY DEF Base, Commit, Tip
<1>3. Tip(local) \in Commit /\ (remote # <<>> => Tip(remote) \in Commit)
  BY Tips, <1>2 DEF Types
<1>4. QED BY <1>1, <1>2, <1>3 DEF Types, BranchFacts, Commit

PersonsCommit == [NewCommit(NewTree) EXCEPT !.human = TRUE]

\* A commit made now, and a branch that ends in it.
LEMMA Committed ==
  ASSUME Types, NEW n \in Nat
  PROVE  /\ NewCommit(n) \in Commit /\ NewCommit(n).tree = n /\ ~NewCommit(n).human
         /\ NewCommit(n).id = bounds.ids + 1
         /\ PersonsCommit \in Commit /\ PersonsCommit.tree = NewTree /\ PersonsCommit.human
         /\ PersonsCommit.id = bounds.ids + 1
         /\ \A s \in {local, remote}, c \in {NewCommit(n), PersonsCommit} :
              /\ Append(s, c) \in Seq(Commit) /\ Append(s, c) # <<>> /\ Tip(Append(s, c)) = c
<1>1. /\ NewCommit(n) \in Commit /\ NewCommit(n).tree = n /\ ~NewCommit(n).human
      /\ NewCommit(n).id = bounds.ids + 1
  BY Made DEF Types
<1>2. /\ PersonsCommit \in Commit /\ PersonsCommit.tree = NewTree /\ PersonsCommit.human
      /\ PersonsCommit.id = bounds.ids + 1
  BY Made DEF Types, PersonsCommit, Commit
<1>3. QED BY <1>1, <1>2, Tips DEF Types

\* GitHub's branch is as it was, or has more commits, or is overwritten by a
\* round that folded its checkpoints.
Adds == Extends(remote, remote') /\ remote' # <<>> /\ remote' \in Seq(Commit)
          /\ pushed' = pushed \cup {Tip(remote')}
RemoteMoves == UNCHANGED <<remote, pushed>> \/ Adds \/ Overwrites

\* No step does anything else to GitHub's branch.
LEMMA RemoteKeeps ==
  ASSUME Types, DeliveryStep
  PROVE  RemoteMoves
<1>0. BranchFacts
  BY BranchFactsHold
<1>1. CASE Restarts
  <2>1. CASE UNCHANGED <<remote, pushed>>
    BY <2>1 DEF RemoteMoves
  <2>2. CASE remote = <<>> /\ Pushes(<<Base>>)
    <3>1. remote' = <<Base>> /\ pushed' = pushed \cup {Tip(remote')} /\ DOMAIN remote = {}
      BY <2>2 DEF Pushes
    <3>2. QED BY <1>0, <3>1 DEF RemoteMoves, Adds, Extends, BranchFacts
  <2>3. QED BY <1>1, <2>1, <2>2 DEF Restarts
<1>2. CASE PushesOn
  BY <1>0, <1>2, Extended DEF PushesOn, RemoteMoves, Adds, Pushes, BranchFacts
<1>3. CASE MergesBase
  <2>1. CASE UNCHANGED <<remote, pushed>>
    BY <2>1 DEF RemoteMoves
  <2>2. CASE FastForward /\ Pushes(local')
    <3>1. /\ remote' = Append(local, NewCommit(NewTree)) /\ FastForward
          /\ pushed' = pushed \cup {Tip(remote')}
      BY <1>3, <2>2 DEF MergesBase, Pushes
    <3>2. QED BY <1>0, <3>1, Committed, Extended DEF RemoteMoves, Adds, BranchFacts
  <2>3. QED BY <1>3, <2>1, <2>2 DEF MergesBase
<1>4. CASE PeoplePush
  <2>1. /\ remote' = Append(remote, PersonsCommit)
        /\ pushed' = pushed \cup {Tip(remote')}
    BY <1>4 DEF PeoplePush, Pushes, PersonsCommit
  <2>2. QED BY <1>0, <2>1, Committed, Extended DEF RemoteMoves, Adds, BranchFacts
<1>5. QED BY Moving, <1>1, <1>2, <1>3, <1>4
      DEF BranchMoves, Stays, Edits, CommitsTree, Folds, Uncommits, Rebases, RemoteMoves

\* The tip of the branch on GitHub stays known, and what was pushed stays so.
LEMMA KnownKeeps ==
  ASSUME Types, Known, DeliveryStep
  PROVE  Known' /\ pushed \subseteq pushed' /\ remote' \in Seq(Commit)
BY RemoteKeeps DEF Types, Known, RemoteMoves, Adds, Overwrites, Pushes

\* A branch whose last commit is taken back.
LEMMA Shortened ==
  ASSUME local \in Seq(Commit), Len(local) > 1
  PROVE  /\ SubSeq(local, 1, Len(local) - 1) \in Seq(Commit)
         /\ SubSeq(local, 1, Len(local) - 1) # <<>>
         /\ \A n, e \in Nat : Line(local, n, e) => Line(SubSeq(local, 1, Len(local) - 1), n, e)
<1> DEFINE s == SubSeq(local, 1, Len(local) - 1)
<1>1. /\ s \in Seq(Commit) /\ Len(s) = Len(local) - 1 /\ DOMAIN s = 1..Len(local) - 1
      /\ \A i \in DOMAIN s : s[i] = local[i]
      /\ DOMAIN local = 1..Len(local) /\ Len(local) \in Nat
  OBVIOUS
<1> HIDE DEF s
<1>2. s # <<>> /\ DOMAIN s \subseteq DOMAIN local
  BY <1>1
<1>3. \A n, e \in Nat : Line(local, n, e) => Line(s, n, e)
  BY <1>1, <1>2 DEF Line
<1>4. QED BY <1>1, <1>2, <1>3 DEF s

\* The branch here is one of commits, and the workspace a tree.
LEMMA LocalKeeps ==
  ASSUME Types, DeliveryStep
  PROVE  local' \in Seq(Commit) /\ local' # <<>> /\ tree' \in Nat /\ kept' \in Nat
<1>0. BranchFacts
  BY BranchFactsHold
<1>1. CASE Stays \/ Edits \/ Folds \/ PushesOn \/ Overwrites \/ PeoplePush
  BY <1>0, <1>1 DEF Stays, Edits, Folds, PushesOn, Overwrites, PeoplePush, BranchFacts
<1>2. CASE CommitsTree
  BY <1>0, <1>2, Committed DEF CommitsTree, BranchFacts
<1>3. CASE Rebases \/ MergesBase
  <2>1. tree' \in Nat
    BY <1>0, <1>3 DEF Rebases, MergesBase, Leaves, BranchFacts
  <2>2. QED BY <1>0, <1>3, <2>1, Committed DEF Rebases, MergesBase, BranchFacts
<1>4. CASE Uncommits
  BY <1>0, <1>4, Shortened DEF Uncommits, BranchFacts
<1>5. CASE Restarts
  <2>1. /\ kept' = 0
        /\ \/ local' = <<Base>> /\ tree' = 0
           \/ local' = local /\ tree' = tree
           \/ remote # <<>> /\ local' = remote /\ tree' = Tip(remote).tree
    BY <1>5 DEF Restarts
  <2>2. CASE local' = <<Base>> /\ tree' = 0
    BY <1>0, <2>1, <2>2 DEF BranchFacts
  <2>3. CASE local' = local /\ tree' = tree
    BY <1>0, <2>1, <2>3 DEF BranchFacts
  <2>4. CASE remote # <<>> /\ local' = remote /\ tree' = Tip(remote).tree
    BY <1>0, <2>1, <2>4 DEF BranchFacts
  <2>5. QED BY <2>1, <2>2, <2>3, <2>4
<1>6. QED BY Moving, <1>1, <1>2, <1>3, <1>4, <1>5 DEF BranchMoves

\* A line as the counts are after a step.
Aged(s) == Line(s, bounds'.ids, bounds'.edits)

\* Lines stay lines, and grow by a commit made now.
LEMMA AgedLines ==
  ASSUME Types, Lines, DeliveryStep
  PROVE  /\ Aged(local) /\ Aged(remote) /\ Aged(<<Base>>)
         /\ \A s \in {local, remote}, c \in Commit :
              c.id = bounds.ids + 1 /\ bounds.ids < bounds'.ids /\ c.tree <= bounds'.edits
                => Aged(Append(s, c))
<1>0. BranchFacts
  BY BranchFactsHold
<1>1. Line(local, bounds.ids, bounds.edits) /\ Line(remote, bounds.ids, bounds.edits)
  BY DEF Lines
<1>2. /\ local \in Seq(Commit) /\ remote \in Seq(Commit)
      /\ bounds.edits \in Nat /\ bounds.ids \in Nat /\ bounds'.edits \in Nat /\ bounds'.ids \in Nat
      /\ bounds.edits <= bounds'.edits /\ bounds.ids <= bounds'.ids
  BY <1>0 DEF BranchFacts
<1>3. Aged(local) /\ Aged(remote) /\ Aged(<<Base>>)
  BY <1>1, <1>2, Ageing DEF Aged
<1>4. ASSUME NEW s \in {local, remote}, NEW c \in Commit, c.id = bounds.ids + 1,
             bounds.ids < bounds'.ids, c.tree <= bounds'.edits
      PROVE  Aged(Append(s, c))
  <2>1. s \in Seq(Commit) /\ Line(s, bounds.ids, bounds.edits)
    BY <1>1, <1>2
  <2>2. QED BY <1>2, <1>4, <2>1, Growing DEF Aged
<1>5. QED BY <1>3, <1>4

\* Both branches stay lines of commits nobody had before.
LEMMA LinesKeep ==
  ASSUME Types, Lines, DeliveryStep
  PROVE  Aged(local') /\ Aged(remote') /\ tree' <= bounds'.edits /\ kept' <= bounds'.edits
<1>0. BranchFacts
  BY BranchFactsHold
<1>1. /\ Aged(local) /\ Aged(remote) /\ Aged(<<Base>>)
      /\ \A s \in {local, remote}, c \in Commit :
              c.id = bounds.ids + 1 /\ bounds.ids < bounds'.ids /\ c.tree <= bounds'.edits
                => Aged(Append(s, c))
  BY AgedLines
<1>2. tree <= bounds'.edits /\ kept <= bounds'.edits /\ tree <= bounds.edits /\ 0 <= bounds'.edits
  BY <1>0 DEF Lines, BranchFacts
<1>3. /\ Tip(local).tree <= bounds'.edits
      /\ remote # <<>> => Tip(remote).tree <= bounds'.edits
  BY <1>0, <1>1 DEF Aged, Line, Tip, BranchFacts
<1>4. CASE Stays \/ Folds \/ PushesOn \/ Overwrites
  BY <1>1, <1>2, <1>3, <1>4 DEF Stays, Folds, PushesOn, Overwrites, Pushes
<1>5. CASE Restarts
  BY <1>0, <1>1, <1>2, <1>3, <1>5 DEF Restarts, Pushes, BranchFacts
<1>6. CASE Edits
  BY <1>0, <1>1, <1>2, <1>6 DEF Edits, BranchFacts
<1>7. CASE CommitsTree
  <2>1. bounds.ids < bounds'.ids
    BY <1>0, <1>7 DEF CommitsTree, OneMore, BranchFacts
  <2>2. Aged(Append(local, NewCommit(tree)))
    BY <1>0, <1>1, <1>2, <2>1, Committed DEF BranchFacts
  <2>3. QED BY <1>1, <1>2, <1>7, <2>2 DEF CommitsTree
<1>8. CASE Rebases \/ MergesBase \/ PeoplePush
  <2>0. Rebases \/ MergesBase => tree' <= bounds'.edits
    BY <1>0 DEF Rebases, MergesBase, Leaves, OneMore, BranchFacts
  <2>1. bounds.ids < bounds'.ids /\ NewTree <= bounds'.edits /\ NewTree \in Nat
    BY <1>0, <1>8 DEF Rebases, MergesBase, PeoplePush, Leaves, OneMore, BranchFacts
  <2>2. /\ NewCommit(NewTree) \in Commit /\ NewCommit(NewTree).tree = NewTree
        /\ NewCommit(NewTree).id = bounds.ids + 1
        /\ PersonsCommit \in Commit /\ PersonsCommit.tree = NewTree
        /\ PersonsCommit.id = bounds.ids + 1
    BY <2>1, Committed
  <2>3. \A s \in {local, remote}, c \in {NewCommit(NewTree), PersonsCommit} : Aged(Append(s, c))
    BY <1>1, <2>1, <2>2
  <2>4. CASE Rebases
    BY <1>1, <1>2, <2>0, <2>3, <2>4 DEF Rebases
  <2>5. CASE MergesBase
    BY <1>1, <1>2, <2>0, <2>3, <2>5 DEF MergesBase, Pushes
  <2>6. CASE PeoplePush
    BY <1>1, <1>2, <2>3, <2>6 DEF PeoplePush, Pushes, PersonsCommit
  <2>7. QED BY <1>8, <2>4, <2>5, <2>6
<1>9. CASE Uncommits
  <2>1. Aged(SubSeq(local, 1, Len(local) - 1))
    BY <1>0, <1>1, <1>9, Shortened DEF Uncommits, Aged, BranchFacts
  <2>2. QED BY <1>1, <1>2, <1>9, <2>1 DEF Uncommits
<1>10. QED BY Moving, <1>4, <1>5, <1>6, <1>7, <1>8, <1>9 DEF BranchMoves

-----------------------------------------------------------------------------
(* The row, the writer, the images *)

\* The row names commits.
LEMMA RowKeeps ==
  ASSUME Types, DeliveryStep
  PROVE  row' \in Row
<1> USE DEF At, Go, gitVars, previewVars
<1>0. /\ row \in Row /\ run \in Round /\ Tip(local) \in Commit
      /\ Fails => row' \in Row
      /\ \A s \in {"review", "failed"} : EndsAs(s) => row' \in Row
  BY Tips DEF Types, Fails, EndsAs, Row
<1>2. CASE Begins
  <2>1. CASE BeginFirst BY <1>0, <2>1 DEF BeginFirst, Round, Row
  <2>2. CASE BeginAgain BY <1>0, <2>2 DEF BeginAgain, Round, Row
  <2>3. CASE Rebuild BY <1>0, <2>3 DEF Rebuild, Round, Row
  <2>4. QED BY <1>2, <2>1, <2>2, <2>3 DEF Begins
<1>3. CASE Turns
  <2>1. CASE Edit BY <1>0, <2>1 DEF Edit
  <2>2. CASE TimerFires BY <1>0, <2>2 DEF TimerFires
  <2>3. CASE CheckpointCommits BY <1>0, <2>3 DEF CheckpointCommits
  <2>4. CASE CheckpointPushes BY <1>0, <2>4 DEF CheckpointPushes
  <2>5. CASE TurnEnds BY <1>0, <2>5 DEF TurnEnds
  <2>6. CASE Flushed BY <1>0, <2>6 DEF Flushed
  <2>7. CASE Drain BY <1>0, <2>7 DEF Drain
  <2>8. CASE TurnOver BY <1>0, <2>8 DEF TurnOver
  <2>9. CASE Squash BY <1>0, <2>9 DEF Squash
  <2>10. QED BY <1>3, <2>1, <2>2, <2>3, <2>4, <2>5, <2>6, <2>7, <2>8, <2>9 DEF Turns,
       Checkpoints, TurnSteps
<1>4. CASE GitSteps
  <2>1. CASE Commits BY <1>0, <2>1 DEF Commits
  <2>2. CASE CommitFails BY <1>0, <2>2 DEF CommitFails, GivesUp, Round, Row
  <2>3. CASE ForcePush BY <1>0, <2>3 DEF ForcePush
  <2>4. CASE PushDone BY <1>0, <2>4 DEF PushDone
  <2>5. CASE PushFails BY <1>0, <2>5 DEF PushFails, GivesUp, Round, Row
  <2>6. CASE Confirm BY <1>0, <2>6 DEF Confirm, GivesUp, Round, Row
  <2>7. CASE GuardLeaves BY <1>0, <2>7 DEF GuardLeaves
  <2>8. CASE GuardMerges BY <1>0, <2>8 DEF GuardMerges, GuardHandled
  <2>9. CASE GuardResolves BY <1>0, <2>9 DEF GuardResolves
  <2>10. CASE GuardGivesUp BY <1>0, <2>10 DEF GuardGivesUp, GuardHandled
  <2>11. QED BY <1>4, <2>1, <2>2, <2>3, <2>4, <2>5, <2>6, <2>7, <2>8, <2>9, <2>10 DEF GitSteps
<1>5. CASE ImageSteps
  <2>1. CASE BuildStarts BY <1>0, <2>1 DEF BuildStarts, Round, Row
  <2>2. CASE Built BY <1>0, <2>2 DEF Built
  <2>3. CASE BuildAgain BY <1>0, <2>3 DEF BuildAgain
  <2>4. CASE BuildFails BY <1>0, <2>4 DEF BuildFails, Fixed, Round, Row
  <2>5. CASE Deploy BY <1>0, <2>5 DEF Deploy, Round, Row
  <2>6. CASE DeployFails BY <1>0, <2>6 DEF DeployFails, Fixed, Round, Row
  <2>7. CASE Rebuilt BY <1>0, <2>7 DEF Rebuilt, Round, Row
  <2>8. CASE RebuildFails BY <1>0, <2>8 DEF RebuildFails, GivesUp, Round, Row
  <2>9. CASE Redeploy BY <1>0, <2>9 DEF Redeploy
  <2>10. QED BY <1>5, <2>1, <2>2, <2>3, <2>4, <2>5, <2>6, <2>7, <2>8, <2>9 DEF ImageSteps
<1>6. CASE HealSteps
  <2>1. CASE HealChat BY <1>0, <2>1 DEF HealChat
  <2>2. CASE Healthy BY <1>0, <2>2 DEF Healthy
  <2>3. CASE Unhealthy BY <1>0, <2>3 DEF Unhealthy
  <2>4. CASE HealFails BY <1>0, <2>4 DEF HealFails
  <2>5. CASE ProbeErrs BY <1>0, <2>5 DEF ProbeErrs
  <2>6. CASE ProbesRunOut BY <1>0, <2>6 DEF ProbesRunOut
  <2>7. CASE Review BY <1>0, <2>7 DEF Review
  <2>8. QED BY <1>6, <2>1, <2>2, <2>3, <2>4, <2>5, <2>6, <2>7 DEF HealSteps
<1>7. CASE Outside
  <2>1. CASE Message BY <1>0, <2>1 DEF Message
  <2>2. CASE HumanPushes BY <1>0, <2>2 DEF HumanPushes
  <2>3. CASE BaseMoves BY <1>0, <2>3 DEF BaseMoves
  <2>4. CASE Crash BY <1>0, <2>4 DEF Crash
  <2>5. QED BY <1>7, <2>1, <2>2, <2>3, <2>4 DEF Outside
<1>8. CASE UNCHANGED deliveryVars
  BY <1>0, <1>8 DEF deliveryVars
<1>9. QED BY <1>2, <1>3, <1>4, <1>5, <1>6, <1>7, <1>8, Steps

\* The checkpoint writer keeps its type.
LEMMA WriterKeeps ==
  ASSUME Types, DeliveryStep
  PROVE  cp' \in Writer
<1> USE DEF At, Go, gitVars, previewVars
<1>0. cp \in Writer
  BY DEF Types
<1>1. CASE Ended
  BY Fresh, <1>1 DEF Ended, Writer
<1> SUFFICES ASSUME ~Ended PROVE cp' \in Writer
  BY <1>1
<1>2. CASE Begins
  <2>1. CASE BeginFirst BY <1>0, <2>1 DEF BeginFirst
  <2>2. CASE BeginAgain BY <1>0, <2>2 DEF BeginAgain
  <2>3. CASE Rebuild BY <1>0, <2>3 DEF Rebuild
  <2>4. QED BY <1>2, <2>1, <2>2, <2>3 DEF Begins
<1>3. CASE Turns
  <2>1. CASE Edit BY <1>0, <2>1 DEF Edit, Writer
  <2>2. CASE TimerFires BY <1>0, <2>2 DEF TimerFires, Writer
  <2>3. CASE CheckpointCommits BY <1>0, <2>3 DEF CheckpointCommits, CheckpointOver, Writer
  <2>4. CASE CheckpointPushes BY <1>0, <2>4 DEF CheckpointPushes, CheckpointOver, Writer
  <2>5. CASE TurnEnds BY <1>0, <2>5 DEF TurnEnds, Writer
  <2>6. CASE Flushed BY <1>0, <2>6, Limits, Fresh, Ending DEF Flushed, Writer
  <2>7. CASE Drain BY <1>0, <2>7 DEF Drain
  <2>8. CASE TurnOver BY <1>0, <2>8, Ending DEF TurnOver, Writer
  <2>9. CASE Squash BY <1>0, <2>9 DEF Squash
  <2>10. QED BY <1>3, <2>1, <2>2, <2>3, <2>4, <2>5, <2>6, <2>7, <2>8, <2>9 DEF Turns,
       Checkpoints, TurnSteps
<1>4. CASE GitSteps
  <2>1. CASE Commits BY <1>0, <2>1 DEF Commits
  <2>2. CASE CommitFails BY <1>0, <2>2, Ending DEF CommitFails, GivesUp, Writer
  <2>3. CASE ForcePush BY <1>0, <2>3, Ending DEF ForcePush, Writer
  <2>4. CASE PushDone BY <1>0, <2>4 DEF PushDone
  <2>5. CASE PushFails BY <1>0, <2>5, Ending DEF PushFails, GivesUp, Writer
  <2>6. CASE Confirm BY <1>0, <2>6, Ending DEF Confirm, GivesUp, Writer
  <2>7. CASE GuardLeaves BY <1>0, <2>7 DEF GuardLeaves
  <2>8. CASE GuardMerges BY <1>0, <2>8 DEF GuardMerges, GuardHandled
  <2>9. CASE GuardResolves BY <1>0, <2>9 DEF GuardResolves
  <2>10. CASE GuardGivesUp BY <1>0, <2>10 DEF GuardGivesUp, GuardHandled
  <2>11. QED BY <1>4, <2>1, <2>2, <2>3, <2>4, <2>5, <2>6, <2>7, <2>8, <2>9, <2>10 DEF GitSteps
<1>5. CASE ImageSteps
  <2>1. CASE BuildStarts BY <1>0, <2>1 DEF BuildStarts
  <2>2. CASE Built BY <1>0, <2>2 DEF Built
  <2>3. CASE BuildAgain BY <1>0, <2>3 DEF BuildAgain
  <2>4. CASE BuildFails BY <1>0, <2>4, Ending DEF BuildFails, Fixed, Writer
  <2>5. CASE Deploy BY <1>0, <2>5 DEF Deploy
  <2>6. CASE DeployFails BY <1>0, <2>6, Ending DEF DeployFails, Fixed, Writer
  <2>7. CASE Rebuilt BY <1>0, <2>7 DEF Rebuilt
  <2>8. CASE RebuildFails BY <1>0, <2>8, Ending DEF RebuildFails, GivesUp, Writer
  <2>9. CASE Redeploy BY <1>0, <2>9 DEF Redeploy
  <2>10. QED BY <1>5, <2>1, <2>2, <2>3, <2>4, <2>5, <2>6, <2>7, <2>8, <2>9 DEF ImageSteps
<1>6. CASE HealSteps
  <2>1. CASE HealChat BY <1>0, <2>1 DEF HealChat
  <2>2. CASE Healthy BY <1>0, <2>2 DEF Healthy
  <2>3. CASE Unhealthy BY <1>0, <2>3 DEF Unhealthy
  <2>4. CASE HealFails BY <1>0, <2>4 DEF HealFails
  <2>5. CASE ProbeErrs BY <1>0, <2>5 DEF ProbeErrs
  <2>6. CASE ProbesRunOut BY <1>0, <2>6 DEF ProbesRunOut
  <2>7. CASE Review BY <1>0, <2>7, Ending DEF Review, Writer
  <2>8. QED BY <1>6, <2>1, <2>2, <2>3, <2>4, <2>5, <2>6, <2>7 DEF HealSteps
<1>7. CASE Outside
  <2>1. CASE Message BY <1>0, <2>1 DEF Message
  <2>2. CASE HumanPushes BY <1>0, <2>2 DEF HumanPushes
  <2>3. CASE BaseMoves BY <1>0, <2>3 DEF BaseMoves
  <2>4. CASE Crash BY <1>0, <2>4, Ending DEF Crash, Writer
  <2>5. QED BY <1>7, <2>1, <2>2, <2>3, <2>4 DEF Outside
<1>8. CASE UNCHANGED deliveryVars
  BY <1>0, <1>8 DEF deliveryVars
<1>9. QED BY <1>2, <1>3, <1>4, <1>5, <1>6, <1>7, <1>8, Steps

\* The session, the base, a torn deployment and the messages keep their types.
LEMMA FlagsKeep ==
  ASSUME Types, DeliveryStep
  PROVE  live' \in BOOLEAN /\ behind' \in BOOLEAN /\ torn' \in BOOLEAN /\ chat' \in Nat
<1> USE DEF At, Go, gitVars, previewVars
<1>0. /\ live \in BOOLEAN /\ behind \in BOOLEAN /\ torn \in BOOLEAN /\ chat \in Nat
      /\ chat + 1 \in Nat /\ (chat > 0 => chat - 1 \in Nat)
      /\ Fails => chat' = 0
      /\ \A s : EndsAs(s) => chat' = 0
  BY DEF Types, Fails, EndsAs
<1>2. CASE Begins
  <2>1. CASE BeginFirst BY <1>0, <2>1 DEF BeginFirst
  <2>2. CASE BeginAgain BY <1>0, <2>2 DEF BeginAgain
  <2>3. CASE Rebuild BY <1>0, <2>3 DEF Rebuild
  <2>4. QED BY <1>2, <2>1, <2>2, <2>3 DEF Begins
<1>3. CASE Turns
  <2>1. CASE Edit BY <1>0, <2>1 DEF Edit
  <2>2. CASE TimerFires BY <1>0, <2>2 DEF TimerFires
  <2>3. CASE CheckpointCommits BY <1>0, <2>3 DEF CheckpointCommits
  <2>4. CASE CheckpointPushes BY <1>0, <2>4 DEF CheckpointPushes
  <2>5. CASE TurnEnds BY <1>0, <2>5 DEF TurnEnds
  <2>6. CASE Flushed BY <1>0, <2>6 DEF Flushed
  <2>7. CASE Drain BY <1>0, <2>7 DEF Drain
  <2>8. CASE TurnOver BY <1>0, <2>8 DEF TurnOver
  <2>9. CASE Squash BY <1>0, <2>9 DEF Squash
  <2>10. QED BY <1>3, <2>1, <2>2, <2>3, <2>4, <2>5, <2>6, <2>7, <2>8, <2>9 DEF Turns,
       Checkpoints, TurnSteps
<1>4. CASE GitSteps
  <2>1. CASE Commits BY <1>0, <2>1 DEF Commits
  <2>2. CASE CommitFails BY <1>0, <2>2 DEF CommitFails, GivesUp
  <2>3. CASE ForcePush BY <1>0, <2>3 DEF ForcePush
  <2>4. CASE PushDone BY <1>0, <2>4 DEF PushDone
  <2>5. CASE PushFails BY <1>0, <2>5 DEF PushFails, GivesUp
  <2>6. CASE Confirm BY <1>0, <2>6 DEF Confirm, GivesUp
  <2>7. CASE GuardLeaves BY <1>0, <2>7 DEF GuardLeaves
  <2>8. CASE GuardMerges BY <1>0, <2>8 DEF GuardMerges, GuardHandled
  <2>9. CASE GuardResolves BY <1>0, <2>9 DEF GuardResolves
  <2>10. CASE GuardGivesUp BY <1>0, <2>10 DEF GuardGivesUp, GuardHandled
  <2>11. QED BY <1>4, <2>1, <2>2, <2>3, <2>4, <2>5, <2>6, <2>7, <2>8, <2>9, <2>10 DEF GitSteps
<1>5. CASE ImageSteps
  <2>1. CASE BuildStarts BY <1>0, <2>1 DEF BuildStarts
  <2>2. CASE Built BY <1>0, <2>2 DEF Built
  <2>3. CASE BuildAgain BY <1>0, <2>3 DEF BuildAgain
  <2>4. CASE BuildFails BY <1>0, <2>4 DEF BuildFails, Fixed
  <2>5. CASE Deploy BY <1>0, <2>5 DEF Deploy
  <2>6. CASE DeployFails
    <3>1. live' = live /\ behind' = behind /\ (torn' = torn \/ torn' = TRUE)
      BY <2>6 DEF DeployFails
    <3>2. Fails \/ chat' = chat
      BY <2>6 DEF DeployFails, Fixed
    <3>3. live' \in BOOLEAN /\ behind' \in BOOLEAN /\ torn' \in BOOLEAN
      BY <1>0, <3>1
    <3>4. chat' \in Nat
      BY <1>0, <3>2
    <3>5. QED BY <3>3, <3>4
  <2>7. CASE Rebuilt BY <1>0, <2>7 DEF Rebuilt
  <2>8. CASE RebuildFails BY <1>0, <2>8 DEF RebuildFails, GivesUp
  <2>9. CASE Redeploy BY <1>0, <2>9 DEF Redeploy
  <2>10. QED BY <1>5, <2>1, <2>2, <2>3, <2>4, <2>5, <2>6, <2>7, <2>8, <2>9 DEF ImageSteps
<1>6. CASE HealSteps
  <2>1. CASE HealChat BY <1>0, <2>1 DEF HealChat
  <2>2. CASE Healthy BY <1>0, <2>2 DEF Healthy
  <2>3. CASE Unhealthy BY <1>0, <2>3 DEF Unhealthy
  <2>4. CASE HealFails BY <1>0, <2>4 DEF HealFails
  <2>5. CASE ProbeErrs BY <1>0, <2>5 DEF ProbeErrs
  <2>6. CASE ProbesRunOut BY <1>0, <2>6 DEF ProbesRunOut
  <2>7. CASE Review BY <1>0, <2>7 DEF Review
  <2>8. QED BY <1>6, <2>1, <2>2, <2>3, <2>4, <2>5, <2>6, <2>7 DEF HealSteps
<1>7. CASE Outside
  <2>1. CASE Message BY <1>0, <2>1 DEF Message
  <2>2. CASE HumanPushes BY <1>0, <2>2 DEF HumanPushes
  <2>3. CASE BaseMoves BY <1>0, <2>3 DEF BaseMoves
  <2>4. CASE Crash
    <3>1. live' = FALSE /\ behind' = behind /\ torn' = torn /\ Fails
      BY <2>4 DEF Crash
    <3>2. live' \in BOOLEAN /\ behind' \in BOOLEAN /\ torn' \in BOOLEAN
      BY <1>0, <3>1
    <3>3. chat' \in Nat
      BY <1>0, <3>1
    <3>4. QED BY <3>2, <3>3
  <2>5. QED BY <1>7, <2>1, <2>2, <2>3, <2>4 DEF Outside
<1>8. CASE UNCHANGED deliveryVars
  BY <1>0, <1>8 DEF deliveryVars
<1>9. QED BY <1>2, <1>3, <1>4, <1>5, <1>6, <1>7, <1>8, Steps

\* Images are of commits, and are what their commits are.
LEMMA ImagesKeep ==
  ASSUME Types, Clean, ImageIsItsCommit, DeliveryStep
  PROVE  /\ built' \in SUBSET Registry /\ deployed' \in Registry
         /\ ImageIsItsCommit'
<1> USE DEF At, Go, gitVars
<1>0. /\ run \in Round /\ built \in SUBSET Registry /\ deployed \in Registry /\ tree \in Nat
      /\ Clean /\ ImageIsItsCommit
  BY DEF Types
<1>2. CASE Begins
  <2>1. CASE BeginFirst BY <1>0, <2>1 DEF BeginFirst, previewVars, Registers, Image, Registry,
       Round, Clean, ImageIsItsCommit
  <2>2. CASE BeginAgain BY <1>0, <2>2 DEF BeginAgain, previewVars, Registers, Image, Registry,
       Round, Clean, ImageIsItsCommit
  <2>3. CASE Rebuild BY <1>0, <2>3 DEF Rebuild, previewVars, Registers, Image, Registry,
       Round, Clean, ImageIsItsCommit
  <2>4. QED BY <1>2, <2>1, <2>2, <2>3 DEF Begins
<1>3. CASE Turns
  <2>1. CASE Edit BY <1>0, <2>1 DEF Edit, previewVars, Registers, Image, Registry, Round,
       Clean, ImageIsItsCommit
  <2>2. CASE TimerFires BY <1>0, <2>2 DEF TimerFires, previewVars, Registers, Image, Registry,
       Round, Clean, ImageIsItsCommit
  <2>3. CASE CheckpointCommits BY <1>0, <2>3 DEF CheckpointCommits, previewVars, Registers,
       Image, Registry, Round, Clean, ImageIsItsCommit
  <2>4. CASE CheckpointPushes BY <1>0, <2>4 DEF CheckpointPushes, previewVars, Registers,
       Image, Registry, Round, Clean, ImageIsItsCommit
  <2>5. CASE TurnEnds BY <1>0, <2>5 DEF TurnEnds, previewVars, Registers, Image, Registry,
       Round, Clean, ImageIsItsCommit
  <2>6. CASE Flushed BY <1>0, <2>6 DEF Flushed, previewVars, Registers, Image, Registry,
       Round, Clean, ImageIsItsCommit
  <2>7. CASE Drain BY <1>0, <2>7 DEF Drain, previewVars, Registers, Image, Registry, Round,
       Clean, ImageIsItsCommit
  <2>8. CASE TurnOver BY <1>0, <2>8 DEF TurnOver, previewVars, Registers, Image, Registry,
       Round, Clean, ImageIsItsCommit
  <2>9. CASE Squash BY <1>0, <2>9 DEF Squash, previewVars, Registers, Image, Registry, Round,
       Clean, ImageIsItsCommit
  <2>10. QED BY <1>3, <2>1, <2>2, <2>3, <2>4, <2>5, <2>6, <2>7, <2>8, <2>9 DEF Turns,
       Checkpoints, TurnSteps
<1>4. CASE GitSteps
  <2>1. CASE Commits BY <1>0, <2>1 DEF Commits, previewVars, Registers, Image, Registry,
       Round, Clean, ImageIsItsCommit
  <2>2. CASE CommitFails BY <1>0, <2>2 DEF CommitFails, previewVars, Registers, Image,
       Registry, Round, Clean, ImageIsItsCommit
  <2>3. CASE ForcePush BY <1>0, <2>3 DEF ForcePush, previewVars, Registers, Image, Registry,
       Round, Clean, ImageIsItsCommit
  <2>4. CASE PushDone BY <1>0, <2>4 DEF PushDone, previewVars, Registers, Image, Registry,
       Round, Clean, ImageIsItsCommit
  <2>5. CASE PushFails BY <1>0, <2>5 DEF PushFails, previewVars, Registers, Image, Registry,
       Round, Clean, ImageIsItsCommit
  <2>6. CASE Confirm BY <1>0, <2>6 DEF Confirm, previewVars, Registers, Image, Registry,
       Round, Clean, ImageIsItsCommit
  <2>7. CASE GuardLeaves BY <1>0, <2>7 DEF GuardLeaves, previewVars, Registers, Image,
       Registry, Round, Clean, ImageIsItsCommit
  <2>8. CASE GuardMerges BY <1>0, <2>8 DEF GuardMerges, GuardHandled, previewVars, Registers, Image,
       Registry, Round, Clean, ImageIsItsCommit
  <2>9. CASE GuardResolves BY <1>0, <2>9 DEF GuardResolves, previewVars, Registers, Image,
       Registry, Round, Clean, ImageIsItsCommit
  <2>10. CASE GuardGivesUp BY <1>0, <2>10 DEF GuardGivesUp, GuardHandled, previewVars, Registers, Image,
       Registry, Round, Clean, ImageIsItsCommit
  <2>11. QED BY <1>4, <2>1, <2>2, <2>3, <2>4, <2>5, <2>6, <2>7, <2>8, <2>9, <2>10 DEF GitSteps
<1>5. CASE ImageSteps
  <2>1. CASE BuildStarts BY <1>0, <2>1 DEF BuildStarts, previewVars, Registers, Image,
       Registry, Round, Clean, ImageIsItsCommit
  <2>2. CASE Built BY <1>0, <2>2 DEF Built, Registers, Image, previewVars, Registry, Round,
       Clean, ImageIsItsCommit
  <2>3. CASE BuildAgain BY <1>0, <2>3 DEF BuildAgain, previewVars, Registers, Image, Registry,
       Round, Clean, ImageIsItsCommit
  <2>4. CASE BuildFails BY <1>0, <2>4 DEF BuildFails, previewVars, Registers, Image, Registry,
       Round, Clean, ImageIsItsCommit
  <2>5. CASE Deploy BY <1>0, <2>5 DEF Deploy, previewVars, Registers, Image, Registry, Round,
       Clean, ImageIsItsCommit
  <2>6. CASE DeployFails BY <1>0, <2>6 DEF DeployFails, previewVars, Registers, Image,
       Registry, Round, Clean, ImageIsItsCommit
  <2>7. CASE Rebuilt BY <1>0, <2>7 DEF Rebuilt, Registers, Image, previewVars, Registry,
       Round, Clean, ImageIsItsCommit
  <2>8. CASE RebuildFails BY <1>0, <2>8 DEF RebuildFails, previewVars, Registers, Image,
       Registry, Round, Clean, ImageIsItsCommit
  <2>9. CASE Redeploy BY <1>0, <2>9 DEF Redeploy, previewVars, Registers, Image, Registry,
       Round, Clean, ImageIsItsCommit
  <2>10. QED BY <1>5, <2>1, <2>2, <2>3, <2>4, <2>5, <2>6, <2>7, <2>8, <2>9 DEF ImageSteps
<1>6. CASE HealSteps
  <2>1. CASE HealChat BY <1>0, <2>1 DEF HealChat, previewVars, Registers, Image, Registry,
       Round, Clean, ImageIsItsCommit
  <2>2. CASE Healthy BY <1>0, <2>2 DEF Healthy, previewVars, Registers, Image, Registry,
       Round, Clean, ImageIsItsCommit
  <2>3. CASE Unhealthy BY <1>0, <2>3 DEF Unhealthy, previewVars, Registers, Image, Registry,
       Round, Clean, ImageIsItsCommit
  <2>4. CASE HealFails BY <1>0, <2>4 DEF HealFails, previewVars, Registers, Image, Registry,
       Round, Clean, ImageIsItsCommit
  <2>5. CASE ProbeErrs BY <1>0, <2>5 DEF ProbeErrs, previewVars, Registers, Image, Registry,
       Round, Clean, ImageIsItsCommit
  <2>6. CASE ProbesRunOut BY <1>0, <2>6 DEF ProbesRunOut, previewVars, Registers, Image,
       Registry, Round, Clean, ImageIsItsCommit
  <2>7. CASE Review BY <1>0, <2>7 DEF Review, previewVars, Registers, Image, Registry, Round,
       Clean, ImageIsItsCommit
  <2>8. QED BY <1>6, <2>1, <2>2, <2>3, <2>4, <2>5, <2>6, <2>7 DEF HealSteps
<1>7. CASE Outside
  <2>1. CASE Message BY <1>0, <2>1 DEF Message, previewVars, Registers, Image, Registry,
       Round, Clean, ImageIsItsCommit
  <2>2. CASE HumanPushes BY <1>0, <2>2 DEF HumanPushes, previewVars, Registers, Image,
       Registry, Round, Clean, ImageIsItsCommit
  <2>3. CASE BaseMoves BY <1>0, <2>3 DEF BaseMoves, previewVars, Registers, Image, Registry,
       Round, Clean, ImageIsItsCommit
  <2>4. CASE Crash BY <1>0, <2>4 DEF Crash, previewVars, Registers, Image, Registry, Round,
       Clean, ImageIsItsCommit
  <2>5. QED BY <1>7, <2>1, <2>2, <2>3, <2>4 DEF Outside
<1>8. CASE UNCHANGED deliveryVars
  BY <1>0, <1>8 DEF deliveryVars, previewVars, previewVars, ImageIsItsCommit
<1>9. QED BY <1>2, <1>3, <1>4, <1>5, <1>6, <1>7, <1>8, Steps

\* What is built stays confirmed.
LEMMA ConfirmedKeeps ==
  ASSUME Types, Healing, Known, Confirmed, DeliveryStep
  PROVE  Confirmed'
<1> USE DEF At, Go, gitVars, previewVars
<1>0. /\ run \in Round /\ Healing /\ Confirmed /\ Known /\ Tip(local) \in Commit
      /\ Resting.at = "idle" /\ pushed \subseteq pushed'
  BY Tips, KnownKeeps DEF Types, Resting
<1>1. CASE Ended
  BY <1>0, <1>1 DEF Ended, Resting, Confirmed, At
<1> SUFFICES ASSUME ~Ended PROVE Confirmed'
  BY <1>1
<1>2. CASE Begins
  <2>1. CASE BeginFirst BY <1>0, <2>1 DEF BeginFirst, Confirmed, Round
  <2>2. CASE BeginAgain BY <1>0, <2>2 DEF BeginAgain, Confirmed, Round
  <2>3. CASE Rebuild BY <1>0, <2>3 DEF Rebuild, Confirmed, Round
  <2>4. QED BY <1>2, <2>1, <2>2, <2>3 DEF Begins
<1>3. CASE Turns
  <2>1. CASE Edit BY <1>0, <2>1 DEF Edit, Confirmed, Round
  <2>2. CASE TimerFires BY <1>0, <2>2 DEF TimerFires, Confirmed, Round
  <2>3. CASE CheckpointCommits BY <1>0, <2>3 DEF CheckpointCommits, Confirmed, Round
  <2>4. CASE CheckpointPushes BY <1>0, <2>4 DEF CheckpointPushes, Confirmed, Round
  <2>5. CASE TurnEnds BY <1>0, <2>5 DEF TurnEnds, Confirmed, Round
  <2>6. CASE Flushed BY <1>0, <2>6, Ending DEF Flushed, Confirmed, Round
  <2>7. CASE Drain BY <1>0, <2>7 DEF Drain, Confirmed, Round
  <2>8. CASE TurnOver
    <3>1. CASE \E at \in {"squash", "commit"} : run' = [run EXCEPT !.at = at, !.git = 1]
      BY <1>0, <2>8, <3>1, TurnOverIs, Limits DEF TurnOver, At, Confirmed, Round
    <3>2. CASE run' = [run EXCEPT !.at = "pending", !.kind = "rebuild"]
      BY <1>0, <2>8, <3>2, TurnOverIs DEF TurnOver, At, Confirmed, Round
    <3>3. QED BY <1>0, <2>8, <3>1, <3>2, TurnOverIs
  <2>9. CASE Squash BY <1>0, <2>9 DEF Squash, Confirmed, Round
  <2>10. QED BY <1>3, <2>1, <2>2, <2>3, <2>4, <2>5, <2>6, <2>7, <2>8, <2>9 DEF Turns,
       Checkpoints, TurnSteps
<1>4. CASE GitSteps
  <2>1. CASE Commits BY <1>0, <2>1 DEF Commits, Confirmed, Round
  <2>2. CASE CommitFails
    <3>1. CASE GaveUp
      BY <1>0, <2>2, <3>1, Ending DEF GaveUp, CommitFails, PushFails, Confirmed, Round
    <3>2. CASE Retried
      BY <1>0, <2>2, <3>2 DEF Retried, CommitFails, PushFails, Confirmed, Round
    <3>3. QED BY <1>0, <2>2, <3>1, <3>2, Retrying
  <2>3. CASE ForcePush BY <1>0, <2>3, Ending DEF ForcePush, Confirmed, Round
  <2>4. CASE PushDone BY <1>0, <2>4 DEF PushDone, Confirmed, Round
  <2>5. CASE PushFails
    <3>1. CASE GaveUp
      BY <1>0, <2>5, <3>1, Ending DEF GaveUp, CommitFails, PushFails, Confirmed, Round
    <3>2. CASE Retried
      BY <1>0, <2>5, <3>2 DEF Retried, CommitFails, PushFails, Confirmed, Round
    <3>3. QED BY <1>0, <2>5, <3>1, <3>2, Retrying
  <2>6. CASE Confirm
    <3>1. CASE GaveUp
      BY <1>0, <2>6, <3>1 DEF GaveUp, Confirm, Confirmed
    <3>2. CASE WasConfirmed
      BY <1>0, <2>6, <3>2 DEF WasConfirmed, After, Confirm, Confirmed, Known, Round
    <3>3. QED BY <1>0, <2>6, <3>1, <3>2, Confirming
  <2>7. CASE GuardLeaves BY <1>0, <2>7 DEF GuardLeaves, Confirmed, Round
  <2>8. CASE GuardMerges BY <1>0, <2>8 DEF GuardMerges, GuardHandled, Confirmed, Round
  <2>9. CASE GuardResolves BY <1>0, <2>9 DEF GuardResolves, Confirmed, Round
  <2>10. CASE GuardGivesUp BY <1>0, <2>10 DEF GuardGivesUp, GuardHandled, Confirmed, Round
  <2>11. QED BY <1>4, <2>1, <2>2, <2>3, <2>4, <2>5, <2>6, <2>7, <2>8, <2>9, <2>10 DEF GitSteps
<1>5. CASE ImageSteps
  <2>1. CASE BuildStarts BY <1>0, <2>1 DEF BuildStarts, Confirmed, Round
  <2>2. CASE Built BY <1>0, <2>2 DEF Built, Confirmed, Round
  <2>3. CASE BuildAgain BY <1>0, <2>3 DEF BuildAgain, Confirmed, Round
  <2>4. CASE BuildFails BY <1>0, <2>4, Ending DEF BuildFails, Fixed, Confirmed, Round
  <2>5. CASE Deploy BY <1>0, <2>5 DEF Deploy, Confirmed, Round
  <2>6. CASE DeployFails BY <1>0, <2>6, Ending DEF DeployFails, Fixed, Confirmed, Round
  <2>7. CASE Rebuilt BY <1>0, <2>7 DEF Rebuilt, Confirmed, Round
  <2>8. CASE RebuildFails BY <1>0, <2>8, Ending DEF RebuildFails, GivesUp, Confirmed, Round
  <2>9. CASE Redeploy BY <1>0, <2>9 DEF Redeploy, Confirmed, Round
  <2>10. QED BY <1>5, <2>1, <2>2, <2>3, <2>4, <2>5, <2>6, <2>7, <2>8, <2>9 DEF ImageSteps
<1>6. CASE HealSteps
  <2>1. CASE HealChat BY <1>0, <2>1 DEF HealChat, Heals, Confirmed, Round
  <2>2. CASE Healthy BY <1>0, <2>2 DEF Healthy, Confirmed, Round
  <2>3. CASE Unhealthy
    <3>1. \/ run' = [run EXCEPT !.at = "commit", !.for = "heal", !.git = 1]
          \/ run' = [run EXCEPT !.probe = @ + 1]
          \/ run' = [run EXCEPT !.at = "review", !.ok = FALSE]
      BY <2>3 DEF Unhealthy, Heals
    <3>2. run.at = "probe"
      BY <2>3 DEF Unhealthy, Probing
    <3>3. run'.at \in {"commit", "probe", "review"}
      BY <1>0, <3>1, <3>2 DEF Round
    <3>4. QED BY <3>3 DEF Confirmed
  <2>4. CASE HealFails BY <1>0, <2>4 DEF HealFails, Confirmed, Round
  <2>5. CASE ProbeErrs BY <1>0, <2>5 DEF ProbeErrs, Confirmed, Round
  <2>6. CASE ProbesRunOut BY <1>0, <2>6 DEF ProbesRunOut, Confirmed, Round
  <2>7. CASE Review BY <1>0, <2>7, Ending DEF Review, Confirmed, Round
  <2>8. QED BY <1>6, <2>1, <2>2, <2>3, <2>4, <2>5, <2>6, <2>7 DEF HealSteps
<1>7. CASE Outside
  <2>1. CASE Message BY <1>0, <2>1 DEF Message, Confirmed, Round
  <2>2. CASE HumanPushes BY <1>0, <2>2 DEF HumanPushes, Confirmed, Round
  <2>3. CASE BaseMoves BY <1>0, <2>3 DEF BaseMoves, Confirmed, Round
  <2>4. CASE Crash BY <1>0, <2>4, Ending DEF Crash, Confirmed, Round
  <2>5. QED BY <1>7, <2>1, <2>2, <2>3, <2>4 DEF Outside
<1>8. CASE UNCHANGED deliveryVars
  BY <1>0, <1>8 DEF deliveryVars, Confirmed
<1>9. QED BY <1>2, <1>3, <1>4, <1>5, <1>6, <1>7, <1>8, Steps

\* No checkpoint is under way, and none is about to be.
Settled == cp' = Quiet /\ run'.at # "flush"

\* Outside the turn nothing wakes the checkpoint writer.
LEMMA OutsideTheTurn ==
  ASSUME Types, Healing, CheckpointsEnd, run.at \notin {"turn", "flush"}, DeliveryStep
  PROVE  Settled
<1> USE DEF At, Go, gitVars, previewVars
<1>0. /\ run \in Round /\ cp = Quiet /\ Healing /\ run.at \notin {"turn", "flush"}
      /\ Resting.at = "idle" /\ ~Quiet.armed /\ Quiet.doing = "none" /\ Tip(local) \in Commit
  BY Tips DEF Types, CheckpointsEnd, Resting, Quiet
<1>1. CASE Ended
  BY <1>0, <1>1 DEF Ended, Settled, Resting
<1> SUFFICES ASSUME ~Ended PROVE Settled
  BY <1>1
<1>2. CASE Begins
  <2>1. CASE BeginFirst BY <1>0, <2>1 DEF BeginFirst, Settled, Round
  <2>2. CASE BeginAgain BY <1>0, <2>2 DEF BeginAgain, Settled, Round
  <2>3. CASE Rebuild BY <1>0, <2>3 DEF Rebuild, Settled, Round
  <2>4. QED BY <1>2, <2>1, <2>2, <2>3 DEF Begins
<1>3. CASE Turns
  <2>1. CASE Edit BY <1>0, <2>1 DEF Edit
  <2>2. CASE TimerFires BY <1>0, <2>2 DEF TimerFires
  <2>3. CASE CheckpointCommits BY <1>0, <2>3 DEF CheckpointCommits
  <2>4. CASE CheckpointPushes BY <1>0, <2>4 DEF CheckpointPushes
  <2>5. CASE TurnEnds BY <1>0, <2>5 DEF TurnEnds
  <2>6. CASE Flushed BY <1>0, <2>6 DEF Flushed
  <2>7. CASE Drain BY <1>0, <2>7 DEF Drain, Settled, Round
  <2>8. CASE TurnOver
    <3>1. CASE \E at \in {"squash", "commit"} : run' = [run EXCEPT !.at = at, !.git = 1]
      BY <1>0, <2>8, <3>1, TurnOverIs, Limits DEF TurnOver, At, Settled, Round
    <3>2. CASE run' = [run EXCEPT !.at = "pending", !.kind = "rebuild"]
      BY <1>0, <2>8, <3>2, TurnOverIs DEF TurnOver, At, Settled, Round
    <3>3. QED BY <1>0, <2>8, <3>1, <3>2, TurnOverIs
  <2>9. CASE Squash BY <1>0, <2>9 DEF Squash, Settled, Round
  <2>10. QED BY <1>3, <2>1, <2>2, <2>3, <2>4, <2>5, <2>6, <2>7, <2>8, <2>9 DEF Turns,
       Checkpoints, TurnSteps
<1>4. CASE GitSteps
  <2>1. CASE Commits BY <1>0, <2>1 DEF Commits, Settled, Round
  <2>2. CASE CommitFails
    <3>1. CASE GaveUp
      BY <1>0, <2>2, <3>1, Ending DEF GaveUp, CommitFails, PushFails, Settled, Round
    <3>2. CASE Retried
      BY <1>0, <2>2, <3>2 DEF Retried, CommitFails, PushFails, Settled, Round
    <3>3. QED BY <1>0, <2>2, <3>1, <3>2, Retrying
  <2>3. CASE ForcePush BY <1>0, <2>3, Ending DEF ForcePush, Settled, Round
  <2>4. CASE PushDone BY <1>0, <2>4 DEF PushDone, Settled, Round
  <2>5. CASE PushFails
    <3>1. CASE GaveUp
      BY <1>0, <2>5, <3>1, Ending DEF GaveUp, CommitFails, PushFails, Settled, Round
    <3>2. CASE Retried
      BY <1>0, <2>5, <3>2 DEF Retried, CommitFails, PushFails, Settled, Round
    <3>3. QED BY <1>0, <2>5, <3>1, <3>2, Retrying
  <2>6. CASE Confirm
    <3>1. CASE GaveUp
      BY <1>0, <2>6, <3>1 DEF GaveUp, Confirm, Settled
    <3>2. CASE WasConfirmed
      BY <1>0, <2>6, <3>2 DEF WasConfirmed, After, Confirm, Settled
    <3>3. QED BY <1>0, <2>6, <3>1, <3>2, Confirming
  <2>7. CASE GuardLeaves BY <1>0, <2>7 DEF GuardLeaves, Settled, Round
  <2>8. CASE GuardMerges BY <1>0, <2>8 DEF GuardMerges, GuardHandled, Settled, Round
  <2>9. CASE GuardResolves BY <1>0, <2>9 DEF GuardResolves, Settled, Round
  <2>10. CASE GuardGivesUp BY <1>0, <2>10 DEF GuardGivesUp, GuardHandled, Settled, Round
  <2>11. QED BY <1>4, <2>1, <2>2, <2>3, <2>4, <2>5, <2>6, <2>7, <2>8, <2>9, <2>10 DEF GitSteps
<1>5. CASE ImageSteps
  <2>1. CASE BuildStarts BY <1>0, <2>1 DEF BuildStarts, Settled, Round
  <2>2. CASE Built BY <1>0, <2>2 DEF Built, Settled, Round
  <2>3. CASE BuildAgain BY <1>0, <2>3 DEF BuildAgain, Settled, Round
  <2>4. CASE BuildFails BY <1>0, <2>4, Ending DEF BuildFails, Fixed, Settled, Round
  <2>5. CASE Deploy BY <1>0, <2>5 DEF Deploy, Settled, Round
  <2>6. CASE DeployFails BY <1>0, <2>6, Ending DEF DeployFails, Fixed, Settled, Round
  <2>7. CASE Rebuilt BY <1>0, <2>7 DEF Rebuilt, Settled, Round
  <2>8. CASE RebuildFails BY <1>0, <2>8, Ending DEF RebuildFails, GivesUp, Settled, Round
  <2>9. CASE Redeploy BY <1>0, <2>9 DEF Redeploy, Settled, Round
  <2>10. QED BY <1>5, <2>1, <2>2, <2>3, <2>4, <2>5, <2>6, <2>7, <2>8, <2>9 DEF ImageSteps
<1>6. CASE HealSteps
  <2>1. CASE HealChat BY <1>0, <2>1 DEF HealChat, Heals, Settled, Round
  <2>2. CASE Healthy BY <1>0, <2>2 DEF Healthy, Settled, Round
  <2>3. CASE Unhealthy
    <3>1. \/ run' = [run EXCEPT !.at = "commit", !.for = "heal", !.git = 1]
          \/ run' = [run EXCEPT !.probe = @ + 1]
          \/ run' = [run EXCEPT !.at = "review", !.ok = FALSE]
      BY <2>3 DEF Unhealthy, Heals
    <3>2. run.at = "probe" /\ UNCHANGED cp
      BY <2>3 DEF Unhealthy, Probing
    <3>3. run'.at \in {"commit", "probe", "review"}
      BY <1>0, <3>1, <3>2 DEF Round
    <3>4. QED BY <1>0, <3>2, <3>3 DEF Settled
  <2>4. CASE HealFails BY <1>0, <2>4 DEF HealFails, Settled, Round
  <2>5. CASE ProbeErrs BY <1>0, <2>5 DEF ProbeErrs, Settled, Round
  <2>6. CASE ProbesRunOut BY <1>0, <2>6 DEF ProbesRunOut, Settled, Round
  <2>7. CASE Review BY <1>0, <2>7, Ending DEF Review, Settled, Round
  <2>8. QED BY <1>6, <2>1, <2>2, <2>3, <2>4, <2>5, <2>6, <2>7 DEF HealSteps
<1>7. CASE Outside
  <2>1. CASE Message BY <1>0, <2>1 DEF Message, Settled, Round
  <2>2. CASE HumanPushes BY <1>0, <2>2 DEF HumanPushes, Settled, Round
  <2>3. CASE BaseMoves BY <1>0, <2>3 DEF BaseMoves, Settled, Round
  <2>4. CASE Crash BY <1>0, <2>4, Ending DEF Crash, Settled, Round
  <2>5. QED BY <1>7, <2>1, <2>2, <2>3, <2>4 DEF Outside
<1>8. CASE UNCHANGED deliveryVars
  BY <1>0, <1>8 DEF deliveryVars, Settled
<1>9. QED BY <1>2, <1>3, <1>4, <1>5, <1>6, <1>7, <1>8, Steps

\* In the turn, and while its last commits are waited for, the writer knows of
\* every edit it has not committed.
LEMMA WithinTheTurn ==
  ASSUME Types, CheckpointsEnd, Writing, run.at \in {"turn", "flush"}, DeliveryStep
  PROVE  CheckpointsEnd' /\ Writing'
<1>0. /\ run \in Round /\ cp \in Writer /\ run.at \in {"turn", "flush"} /\ CheckpointsEnd /\ Writing
      /\ Resting.at = "idle" /\ Resting.kind = "first"
      /\ Quiet = [armed |-> FALSE, doing |-> "none", again |-> FALSE, stopped |-> FALSE]
  BY DEF Types, Resting, Quiet
<1>1. CASE Ended
  BY <1>0, <1>1 DEF Ended, CheckpointsEnd, Writing, At
<1>2. CASE Edit
  <2>1. /\ run.at = "turn" /\ run' = run /\ local' = local
        /\ cp' = IF run.kind = "first" THEN [cp EXCEPT !.armed = TRUE] ELSE cp
    BY <1>2 DEF Edit, At
  <2>2. CASE run.kind = "first"
    <3>1. cp'.armed
      BY <1>0, <2>1, <2>2 DEF Writer
    <3>2. QED BY <2>1, <2>2, <3>1 DEF CheckpointsEnd, Writing, At
  <2>3. CASE run.kind # "first"
    BY <1>0, <2>1, <2>3 DEF CheckpointsEnd, Writing, At
  <2>4. QED BY <2>2, <2>3
<1>3. CASE TimerFires
  <2>1. /\ run' = run /\ UNCHANGED <<tree, local>> /\ cp.armed
        /\ cp' = IF cp.doing = "none" THEN [cp EXCEPT !.armed = FALSE, !.doing = "commit"]
                                      ELSE [cp EXCEPT !.armed = FALSE, !.again = TRUE]
    BY <1>3 DEF TimerFires, gitVars
  <2>2. run.at = "turn" /\ run.kind = "first"
    BY <1>0, <2>1 DEF Writing, At, Round
  <2>3. \/ cp'.doing = "commit"
        \/ cp'.again
    BY <1>0, <2>1 DEF Writer
  <2>4. QED BY <2>1, <2>2, <2>3 DEF CheckpointsEnd, Writing, At
<1>4. CASE CheckpointCommits \/ CheckpointPushes
  <2>1. /\ run' = run /\ tree' = tree /\ run.kind = "first"
        /\ cp.doing \in {"commit", "push"}
        /\ run.at = "flush" => cp.stopped /\ ~cp.armed
        /\ cp.doing = "push" /\ Dirty => cp.armed \/ cp.again
    BY <1>0, <1>4 DEF CheckpointCommits, CheckpointPushes, Writing, At
  <2>2. ASSUME CheckpointOver, local' = local,
               bounds'.mishaps = 0 /\ cp.doing = "commit" => ~Dirty
        PROVE  CheckpointsEnd' /\ Writing'
    <3>1. /\ cp'.doing = "none" /\ cp'.stopped = cp.stopped
          /\ cp.stopped => cp'.armed = cp.armed /\ cp'.again = cp.again
      BY <1>0, <2>2 DEF CheckpointOver, Writer
    <3>2. Dirty' = Dirty
      BY <2>1, <2>2 DEF Dirty
    <3>3. CheckpointsEnd'
      BY <1>0, <2>1, <2>2, <3>1, <3>2 DEF CheckpointsEnd, At
    <3>4. Writing'
      BY <2>1, <3>1 DEF Writing, At
    <3>5. QED BY <3>3, <3>4
  <2>3. CASE CheckpointPushes
    <3>1. CheckpointOver /\ local' = local /\ cp.doing = "push"
      BY <2>3 DEF CheckpointPushes
    <3>2. QED BY <2>2, <3>1
  <2>4. CASE CheckpointCommits /\ local' = Append(local, NewCommit(tree)) /\ cp' = [cp EXCEPT !.doing = "push"]
    <3>1. ~Dirty'
      BY <2>1, <2>4, Committed DEF Types, Dirty
    <3>2. cp'.doing = "push" /\ cp'.stopped = cp.stopped /\ cp'.armed = cp.armed
      BY <1>0, <2>4 DEF Writer
    <3>3. QED BY <1>0, <2>1, <3>1, <3>2 DEF CheckpointsEnd, Writing, At
  <2>5. CASE CheckpointCommits /\ ~Dirty /\ CheckpointOver /\ local' = local
    BY <2>2, <2>5
  <2>6. CASE CheckpointCommits /\ Mishap /\ CheckpointOver /\ local' = local
    <3>1. bounds'.mishaps # 0
      BY <2>6, Counting DEF Types, Counts
    <3>2. QED BY <2>2, <2>6, <3>1
  <2>7. QED BY <1>4, <2>3, <2>4, <2>5, <2>6 DEF CheckpointCommits
<1>5. CASE TurnEnds
  <2>1. /\ run' \in {[run EXCEPT !.at = "flush"], [run EXCEPT !.at = "flush", !.ok = FALSE]}
        /\ UNCHANGED <<tree, local>>
        /\ cp' = IF run.kind # "first" THEN cp
                 ELSE IF cp.doing = "none"
                 THEN [cp EXCEPT !.armed = FALSE, !.stopped = TRUE, !.doing = "commit"]
                 ELSE [cp EXCEPT !.armed = FALSE, !.stopped = TRUE, !.again = @ \/ cp.armed]
    BY <1>5 DEF TurnEnds, gitVars
  <2>2. run'.at = "flush" /\ run'.kind = run.kind
    BY <1>0, <2>1 DEF Round
  <2>3. CASE run.kind # "first"
    BY <1>0, <2>1, <2>2, <2>3 DEF CheckpointsEnd, Writing, At
  <2>4. CASE run.kind = "first" /\ cp.doing = "none"
    <3>1. cp'.doing = "commit" /\ cp'.stopped /\ ~cp'.armed
      BY <1>0, <2>1, <2>4 DEF Writer
    <3>2. QED BY <2>2, <2>4, <3>1 DEF CheckpointsEnd, Writing, At
  <2>5. CASE run.kind = "first" /\ cp.doing # "none"
    <3>1. /\ cp'.doing = cp.doing /\ cp'.stopped /\ ~cp'.armed
          /\ cp.again \/ cp.armed => cp'.again
      BY <1>0, <2>1, <2>5 DEF Writer
    <3>2. Dirty' = Dirty
      BY <2>1 DEF Dirty
    <3>3. QED BY <1>0, <2>2, <2>5, <3>1, <3>2 DEF CheckpointsEnd, Writing, At
  <2>6. QED BY <2>3, <2>4, <2>5
<1>6. CASE Flushed /\ ~Ended
  <2>1. CASE cp.again
    <3>1. run' = run /\ cp' = [cp EXCEPT !.again = FALSE, !.doing = "commit"]
      BY <1>6, <2>1 DEF Flushed
    <3>2. run.at = "flush" /\ run.kind = "first" /\ cp.stopped /\ ~cp.armed
      BY <1>0, <1>6, <2>1 DEF Flushed, Writing, At
    <3>3. cp'.doing = "commit" /\ cp'.stopped /\ ~cp'.armed
      BY <1>0, <3>1, <3>2 DEF Writer
    <3>4. QED BY <3>1, <3>2, <3>3 DEF CheckpointsEnd, Writing, At
  <2>2. CASE ~cp.again
    <3>1. run' = [run EXCEPT !.at = "drain", !.git = 1] /\ cp' = Quiet
      BY <1>6, <2>2, Ending DEF Flushed, Go
    <3>2. QED BY <1>0, <3>1 DEF Round, CheckpointsEnd, Writing, At
  <2>3. QED BY <2>1, <2>2
<1>7. CASE Message \/ HumanPushes \/ BaseMoves \/ UNCHANGED deliveryVars
  <2>1. UNCHANGED <<run, cp, tree, local>> /\ bounds'.mishaps = bounds.mishaps
    BY <1>7 DEF Types, Counts, Message, HumanPushes, BaseMoves, deliveryVars, gitVars
  <2>2. Dirty' = Dirty
    BY <2>1 DEF Dirty
  <2>3. QED BY <1>0, <2>1, <2>2 DEF CheckpointsEnd, Writing, At
<1>8. CASE Begins \/ GitSteps \/ ImageSteps \/ HealSteps \/ Drain \/ TurnOver \/ Squash
  BY <1>0, <1>8
  DEF Begins, BeginFirst, BeginAgain, Rebuild, GitSteps, Commits, CommitFails, ForcePush, PushDone,
      PushFails, Confirm, GuardLeaves, GuardMerges, GuardGivesUp, GuardResolves, ImageSteps,
      BuildStarts, Built, BuildAgain, BuildFails, Deploy, DeployFails, Rebuilt, RebuildFails, Redeploy, HealSteps,
      HealChat, Healthy, Unhealthy, HealFails, ProbeErrs, ProbesRunOut, Review, Probing, Drain,
      TurnOver, Squash, At
<1>9. CASE Crash
  BY <1>1, <1>9, Ending DEF Crash
<1>10. QED BY Steps, <1>1, <1>2, <1>3, <1>4, <1>5, <1>6, <1>7, <1>8, <1>9
       DEF Turns, Checkpoints, TurnSteps, Outside

\* Turn and checkpoint writer do not overlap beyond the end of the turn.
LEMMA CheckpointsKeep ==
  ASSUME Types, Healing, CheckpointsEnd, Writing, DeliveryStep
  PROVE  CheckpointsEnd' /\ Writing'
<1>1. CASE run.at \in {"turn", "flush"}
  BY <1>1, WithinTheTurn
<1>2. CASE run.at \notin {"turn", "flush"}
  <2>1. Settled
    BY <1>2, OutsideTheTurn
  <2>2. QED BY <2>1 DEF Settled, CheckpointsEnd, Writing, At, Quiet
<1>3. QED BY <1>1, <1>2

-----------------------------------------------------------------------------
(* What a checkpoint saved *)

\* An edit, a checkpoint and its push keep the branch of a first turn its own.
LEMMA Owning ==
  ASSUME Types, Lines, DeliveryStep
  PROVE  /\ tree' = NewTree /\ Own(local, tree, kept) => Own(local, tree', kept)
         /\ Own(local, tree, kept) => /\ Own(Append(local, NewCommit(tree)), tree, kept)
                                      /\ Own(local, tree, Tip(local).tree)
                                      /\ kept <= tree
         /\ Own(<<Base>>, 0, 0)
<1>0. BranchFacts
  BY BranchFactsHold
<1>1. \A i \in DOMAIN local : local[i] \in Commit
  BY <1>0 DEF BranchFacts
<1>2. Own(<<Base>>, 0, 0)
  BY <1>0 DEF Own, BranchFacts
<1>3. ASSUME tree' = NewTree PROVE kept <= tree'
  BY <1>0, <1>3 DEF Lines, BranchFacts
<1>4. ASSUME Own(local, tree, kept)
      PROVE  /\ Own(Append(local, NewCommit(tree)), tree, kept)
             /\ Own(local, tree, Tip(local).tree) /\ kept <= tree
  <2>1. /\ NewCommit(tree) \in Commit /\ NewCommit(tree).tree = tree /\ ~NewCommit(tree).human
    BY <1>0, Committed DEF BranchFacts
  <2>2. Own(Append(local, NewCommit(tree)), tree, kept)
    <3> DEFINE s == Append(local, NewCommit(tree))
    <3>1. /\ DOMAIN s = 1..Len(local) + 1 /\ DOMAIN local = 1..Len(local) /\ Len(local) \in Nat
          /\ s[Len(local) + 1] = NewCommit(tree) /\ \A i \in DOMAIN local : s[i] = local[i]
      BY <1>0, <2>1 DEF BranchFacts
    <3> HIDE DEF s
    <3>2. ASSUME NEW i \in DOMAIN s PROVE ~s[i].human /\ s[i].tree <= tree
      <4>1. CASE i \in DOMAIN local
        BY <1>4, <3>1, <4>1 DEF Own
      <4>2. CASE i = Len(local) + 1
        BY <1>0, <2>1, <3>1, <4>2 DEF BranchFacts
      <4>3. QED BY <3>1, <4>1, <4>2
    <3>3. Own(s, tree, kept)
      BY <1>4, <3>2 DEF Own
    <3>4. QED BY <3>3 DEF s
  <2>3. Tip(local).tree <= tree
    BY <1>0, <1>4 DEF Own, Tip, BranchFacts
  <2>4. QED BY <1>4, <2>2, <2>3 DEF Own
<1>5. ASSUME tree' = NewTree, Own(local, tree, kept) PROVE Own(local, tree', kept)
  <2>1. bounds.edits <= tree' /\ bounds.edits \in Nat /\ tree' \in Nat
    BY <1>0, <1>5 DEF BranchFacts
  <2>2. ASSUME NEW i \in DOMAIN local PROVE local[i].tree <= tree'
    BY <1>1, <2>1 DEF Lines, Line, Commit
  <2>3. QED BY <1>3, <1>5, <2>2 DEF Own
<1>6. QED BY <1>2, <1>4, <1>5

\* The round is in its first turn.
InTurn == run.kind = "first" /\ run.at \in {"turn", "flush", "drain", "squash"}

\* They do so through every step.
LEMMA SavesKeep ==
  ASSUME Types, Lines, Healing, CheckpointsEnd, Saves, DeliveryStep
  PROVE  Saves'
<1> USE DEF At, Go, gitVars, previewVars
<1>0. /\ run \in Round /\ Healing /\ Tip(local) \in Commit
      /\ Resting.at = "idle" /\ Resting.squashed = FALSE /\ Resting.kind = "first"
      /\ run.squashed => /\ run.at \in {"commit", "push"} /\ run.for = "main" /\ Folded
                         /\ IF run.at = "commit" THEN local = <<Base>> ELSE ~run.handled
      /\ InTurn => Own(local, tree, kept)
      /\ At("squash") => run.kind = "first"
      /\ (UNCHANGED <<tree, local, kept>> /\ Folded) => Folded'
      /\ run.at \notin {"turn", "flush"} => cp.doing = "none"
  <2>1. (UNCHANGED <<tree, local, kept>> /\ Folded) => Folded'
    BY DEF Folded, Tip
  <2>2. InTurn => Own(local, tree, kept)
    BY DEF InTurn, Saves
  <2>3. run.at \notin {"turn", "flush"} => cp.doing = "none"
    BY DEF CheckpointsEnd, Quiet
  <2>4. QED BY Tips, <2>1, <2>2, <2>3 DEF Types, Resting, Saves
<1>1. CASE Ended
  BY <1>0, <1>1 DEF Ended, Saves, Resting
<1> SUFFICES ASSUME ~Ended PROVE Saves'
  BY <1>1
<1>2. CASE Begins
  <2>1. CASE BeginFirst
    <3>1. /\ run' = [Resting EXCEPT !.at = "turn"] /\ local' = <<Base>> /\ tree' = 0 /\ kept' = 0
      BY <2>1 DEF BeginFirst
    <3>2. run'.squashed = FALSE
      BY <1>0, <3>1 DEF Resting
    <3>3. QED BY <3>1, <3>2, Owning DEF Saves
  <2>2. CASE BeginAgain
    <3>1. PICK kind \in {"iterate", "rebuild"} :
            run' = [Resting EXCEPT !.kind = kind, !.at = IF kind = "iterate" THEN "turn" ELSE "pending"]
      BY <2>2 DEF BeginAgain
    <3>2. run'.squashed = FALSE /\ run'.kind # "first" /\ run'.at # "squash"
      BY <3>1 DEF Resting
    <3>3. QED BY <3>2 DEF Saves
  <2>3. CASE Rebuild BY <1>0, <2>3 DEF Rebuild, Saves, Round, InTurn
  <2>4. QED BY <1>2, <2>1, <2>2, <2>3 DEF Begins
<1>3. CASE Turns
  <2>1. CASE Edit
    <3>1. /\ run' = run /\ run.at = "turn" /\ local' = local /\ kept' = kept /\ tree' = NewTree
      BY <2>1 DEF Edit, At
    <3>2. ~run.squashed
      BY <1>0, <3>1
    <3>3. QED BY <1>0, <3>1, <3>2, Owning DEF Saves, InTurn
  <2>2. CASE TimerFires BY <1>0, <2>2 DEF TimerFires, Saves, Round, InTurn
  <2>3. CASE CheckpointCommits
    <3>1. /\ run' = run /\ kept' = kept /\ tree' = tree
          /\ local' = local \/ local' = Append(local, NewCommit(tree))
      BY <2>3 DEF CheckpointCommits
    <3>2. ~run.squashed
      BY <1>0, <2>3 DEF CheckpointCommits
    <3>3. QED BY <1>0, <3>1, <3>2, Owning DEF Saves, InTurn
  <2>4. CASE CheckpointPushes
    <3>1. /\ run' = run /\ tree' = tree /\ local' = local
          /\ kept' = kept \/ kept' = Tip(local).tree
      BY <2>4 DEF CheckpointPushes
    <3>2. ~run.squashed
      BY <1>0, <2>4 DEF CheckpointPushes
    <3>3. QED BY <1>0, <3>1, <3>2, Owning DEF Saves, InTurn
  <2>5. CASE TurnEnds BY <1>0, <2>5 DEF TurnEnds, Saves, Round, InTurn
  <2>6. CASE Flushed BY <1>0, <2>6, Ending DEF Flushed, Saves, Round, InTurn
  <2>7. CASE Drain
    <3>1. /\ run' = run /\ run.at = "drain" /\ local' = local /\ kept' = kept
          /\ tree' = NewTree \/ tree' = tree
      BY <2>7 DEF Drain, MayEdit, At
    <3>2. ~run.squashed
      BY <1>0, <3>1
    <3>3. QED BY <1>0, <3>1, <3>2, Owning DEF Saves, InTurn
  <2>8. CASE TurnOver
    <3>0. tree' = tree /\ local' = local /\ kept' = kept /\ run.at = "drain"
      BY <2>8 DEF TurnOver
    <3>1. UNCHANGED <<tree, local, kept>> /\ ~run.squashed /\ run.at = "drain"
      BY <1>0, <3>0
    <3>2. CASE run.kind = "first" /\ run' = [run EXCEPT !.at = "squash", !.git = 1]
      <4>1. run'.at = "squash" /\ run'.kind = "first" /\ ~run'.squashed
        BY <1>0, <3>1, <3>2 DEF Round
      <4>2. QED BY <1>0, <3>1, <3>2, <4>1 DEF Saves, InTurn
    <3>3. CASE run.kind = "iterate" /\ run' = [run EXCEPT !.at = "commit", !.git = 1]
      BY <1>0, <3>1, <3>3 DEF Saves, Round
    <3>4. CASE run' = [run EXCEPT !.at = "pending", !.kind = "rebuild"]
      BY <1>0, <3>1, <3>4 DEF Saves, Round
    <3>5. QED BY <1>0, <2>8, <3>2, <3>3, <3>4, TurnOverIs
  <2>9. CASE Squash
    <3>1. run.at = "squash" /\ kept' = kept /\ tree' = tree /\ ~run.squashed /\ run.for = "main"
      BY <1>0, <2>9 DEF Squash, At, Healing
    <3>2. \/ /\ run' = [run EXCEPT !.at = "commit", !.squashed = TRUE, !.lease = Tip(remote)]
             /\ local' = <<Base>>
          \/ run' = [run EXCEPT !.at = "commit", !.git = 1]
      BY <2>9 DEF Squash, Go
    <3>3. CASE run' = [run EXCEPT !.at = "commit", !.git = 1]
      BY <1>0, <3>1, <3>3 DEF Round, Saves
    <3>4. CASE /\ run' = [run EXCEPT !.at = "commit", !.squashed = TRUE, !.lease = Tip(remote)]
               /\ local' = <<Base>>
      <4>1. run'.at = "commit" /\ run'.for = "main"
        BY <1>0, <3>1, <3>4 DEF Round
      <4>2. kept <= tree
        BY <1>0, <3>1, Owning DEF InTurn
      <4>3. QED BY <3>1, <3>4, <4>1, <4>2 DEF Saves, Folded
    <3>5. QED BY <3>2, <3>3, <3>4
  <2>10. QED BY <1>3, <2>1, <2>2, <2>3, <2>4, <2>5, <2>6, <2>7, <2>8, <2>9 DEF Turns,
       Checkpoints, TurnSteps
<1>4. CASE GitSteps
  <2>1. CASE Commits
    <3>1. /\ run' = [run EXCEPT !.at = "push", !.git = 1, !.handled = FALSE] /\ kept' = kept /\ tree' = tree
          /\ local' = local \/ local' = Append(local, NewCommit(tree))
      BY <2>1 DEF Commits
    <3>2. Folded => Folded'
      BY <3>1, Committed DEF Folded, Types
    <3>3. run'.at = "push" /\ run'.for = run.for /\ run'.squashed = run.squashed /\ ~run'.handled
      BY <1>0, <3>1 DEF Round
    <3>4. QED BY <1>0, <3>2, <3>3 DEF Saves
  <2>2. CASE CommitFails
    <3>1. kept' = kept /\ run.at = "commit"
      BY <2>2 DEF CommitFails
    <3>2. CASE GaveUp
      BY <1>0, <3>1, <3>2 DEF GaveUp, Saves
    <3>3. CASE Retried /\ ~GaveUp
      <4>1. /\ run'.at = "commit" /\ run'.squashed = run.squashed /\ run'.for = run.for
        BY <3>1, <3>3 DEF Retried
      <4>2. CASE ~run.squashed
        BY <4>1, <4>2 DEF Saves
      <4>3. CASE run.squashed
        <5>1. local = <<Base>> /\ Len(<<Base>>) = 1 /\ kept <= tree
          BY <1>0, <3>1, <4>3 DEF Folded
        <5>2. FixerLeaves(0) \/ FixerLeaves(1)
          BY <1>0, <2>2, <3>3, Fixing
        <5>3. local' = local /\ (tree' = tree \/ tree' = NewTree)
          BY <5>1, <5>2 DEF FixerLeaves, MayEdit
        <5>4. kept' <= tree'
          BY <3>1, <5>1, <5>3, Made DEF Lines, Types
        <5>5. QED BY <1>0, <4>1, <4>3, <5>1, <5>3, <5>4 DEF Saves, Folded
      <4>4. QED BY <4>2, <4>3
    <3>4. QED BY <2>2, <1>0, <3>2, <3>3, Retrying
  <2>3. CASE ForcePush BY <1>0, <2>3, Ending DEF ForcePush, Saves, Round, InTurn
  <2>4. CASE PushDone BY <1>0, <2>4 DEF PushDone, Saves, Round, InTurn
  <2>5. CASE PushFails
    <3>1. run.at = "push" /\ ~run.squashed
      BY <2>5 DEF PushFails
    <3>2. CASE GaveUp
      BY <1>0, <3>1, <3>2 DEF GaveUp, Saves
    <3>3. CASE Retried /\ ~GaveUp
      BY <3>1, <3>3 DEF Retried, Saves
    <3>4. QED BY <1>0, <2>5, <3>2, <3>3, Retrying
  <2>6. CASE Confirm
    <3>0. ~run.squashed /\ run.at = "confirm"
      BY <1>0, <2>6 DEF Confirm, At
    <3>1. CASE GaveUp
      BY <1>0, <2>6, <3>0, <3>1 DEF GaveUp, Saves
    <3>2. CASE WasConfirmed
      BY <1>0, <2>6, <3>0, <3>2 DEF WasConfirmed, After, Saves
    <3>3. QED BY <1>0, <2>6, <3>1, <3>2, Confirming
  <2>7. CASE GuardLeaves BY <1>0, <2>7 DEF GuardLeaves, Saves, Round, InTurn
  <2>8. CASE GuardMerges BY <1>0, <2>8 DEF GuardMerges, GuardHandled, Saves, Round, InTurn
  <2>9. CASE GuardResolves BY <1>0, <2>9 DEF GuardResolves, Saves, Round, InTurn
  <2>10. CASE GuardGivesUp BY <1>0, <2>10 DEF GuardGivesUp, GuardHandled, Saves, Round, InTurn
  <2>11. QED BY <1>4, <2>1, <2>2, <2>3, <2>4, <2>5, <2>6, <2>7, <2>8, <2>9, <2>10 DEF GitSteps
<1>5. CASE ImageSteps
  <2>1. CASE BuildStarts BY <1>0, <2>1 DEF BuildStarts, Saves, Round, InTurn
  <2>2. CASE Built BY <1>0, <2>2 DEF Built, Saves, Round, InTurn
  <2>3. CASE BuildAgain BY <1>0, <2>3 DEF BuildAgain, Saves, Round, InTurn
  <2>4. CASE BuildFails BY <1>0, <2>4, Ending DEF BuildFails, Fixed, Saves, Round, InTurn
  <2>5. CASE Deploy BY <1>0, <2>5 DEF Deploy, Saves, Round, InTurn
  <2>6. CASE DeployFails BY <1>0, <2>6, Ending DEF DeployFails, Fixed, Saves, Round, InTurn
  <2>7. CASE Rebuilt BY <1>0, <2>7 DEF Rebuilt, Saves, Round, InTurn
  <2>8. CASE RebuildFails BY <1>0, <2>8, Ending DEF RebuildFails, GivesUp, Saves, Round,
       InTurn
  <2>9. CASE Redeploy BY <1>0, <2>9 DEF Redeploy, Saves, Round, InTurn
  <2>10. QED BY <1>5, <2>1, <2>2, <2>3, <2>4, <2>5, <2>6, <2>7, <2>8, <2>9 DEF ImageSteps
<1>6. CASE HealSteps
  <2>1. CASE HealChat BY <1>0, <2>1 DEF HealChat, Probing, Heals, Saves, Round, InTurn
  <2>2. CASE Healthy BY <1>0, <2>2 DEF Healthy, Probing, Saves, Round, InTurn
  <2>3. CASE Unhealthy BY <1>0, <2>3 DEF Unhealthy, Probing, Heals, Saves, Round, InTurn
  <2>4. CASE HealFails BY <1>0, <2>4 DEF HealFails, Probing, Saves, Round, InTurn
  <2>5. CASE ProbeErrs BY <1>0, <2>5 DEF ProbeErrs, Probing, Saves, Round, InTurn
  <2>6. CASE ProbesRunOut BY <1>0, <2>6 DEF ProbesRunOut, Saves, Round, InTurn
  <2>7. CASE Review BY <1>0, <2>7, Ending DEF Review, Saves, Round, InTurn
  <2>8. QED BY <1>6, <2>1, <2>2, <2>3, <2>4, <2>5, <2>6, <2>7 DEF HealSteps
<1>7. CASE Outside
  <2>1. CASE Message BY <1>0, <2>1 DEF Message, Saves, Round, InTurn
  <2>2. CASE HumanPushes BY <1>0, <2>2 DEF HumanPushes, Saves, Round, InTurn
  <2>3. CASE BaseMoves BY <1>0, <2>3 DEF BaseMoves, Saves, Round, InTurn
  <2>4. CASE Crash BY <1>0, <2>4, Ending DEF Crash, Saves, Round, InTurn
  <2>5. QED BY <1>7, <2>1, <2>2, <2>3, <2>4 DEF Outside
<1>8. CASE UNCHANGED deliveryVars
  BY <1>0, <1>8 DEF deliveryVars, Saves, InTurn
<1>9. QED BY <1>2, <1>3, <1>4, <1>5, <1>6, <1>7, <1>8, Steps

\* What a checkpoint of the round saved stays on GitHub: commits are only added
\* there, or overwritten by a fold that holds as much.
LEMMA SavedKeeps ==
  ASSUME Types, Lines, CheckpointsEnd, Clean, Writing, Saves, KeptByCheckpoint, DeliveryStep
  PROVE  KeptByCheckpoint'
<1>0. BranchFacts
  BY BranchFactsHold
<1>1. ASSUME Tip(local).tree >= kept', ~Tip(local).human, remote' = local
      PROVE  KeptByCheckpoint'
  <2>1. Len(local) \in DOMAIN local /\ Tip(local) = local[Len(local)]
    BY <1>0 DEF BranchFacts, Tip
  <2>2. QED BY <1>1, <2>1 DEF KeptByCheckpoint
<1>2. CASE kept' = kept /\ UNCHANGED <<remote, pushed>>
  BY <1>2 DEF KeptByCheckpoint
<1>3. CASE kept' = kept /\ Adds
  BY <1>3 DEF KeptByCheckpoint, Adds, Extends
<1>4. CASE Overwrites
  <2>1. tree = Tip(local).tree
    BY <1>4 DEF Overwrites, At, Clean, Dirty, Saves
  <2>2. kept <= tree /\ ~Tip(local).human
    BY <1>0, <1>4 DEF Overwrites, Saves, Folded, BranchFacts
  <2>3. Tip(local).tree >= kept' /\ ~Tip(local).human /\ remote' = local
    BY <1>0, <1>4, <2>1, <2>2 DEF Overwrites, Pushes, BranchFacts
  <2>4. QED BY <1>1, <2>3
<1>5. CASE PushesOn /\ cp.doing = "push" /\ kept' = Tip(local).tree
  <2>1. run.kind = "first" /\ run.at \in {"turn", "flush"}
    BY <1>5 DEF CheckpointsEnd, Writing, Quiet
  <2>2. ~Tip(local).human
    BY <1>0, <2>1 DEF Saves, Own, Tip, BranchFacts
  <2>3. QED BY <1>0, <1>1, <1>5, <2>2 DEF PushesOn, Pushes, BranchFacts
<1>6. CASE Restarts
  BY <1>6 DEF Restarts, KeptByCheckpoint
<1>7. kept' = kept \/ Restarts \/ (PushesOn /\ cp.doing = "push" /\ kept' = Tip(local).tree)
  BY Moving DEF BranchMoves, Stays, Edits, CommitsTree, Folds, PushesOn, Overwrites, Uncommits,
     Rebases, MergesBase, PeoplePush
<1>8. QED BY RemoteKeeps, <1>2, <1>3, <1>4, <1>5, <1>6, <1>7 DEF RemoteMoves

-----------------------------------------------------------------------------
(* The theorems *)

\* Nothing has been delivered yet.
LEMMA DeliveryBegins ==
  ASSUME DeliveryInit
  PROVE  DeliveryIInv
<1>1. /\ run = Resting /\ cp = Quiet /\ tree = 0 /\ local = <<Base>> /\ remote = <<>>
      /\ built = {} /\ deployed = NoImage /\ kept = 0
      /\ row = [status |-> "building", commit |-> Base, image |-> Base]
      /\ bounds = [runs |-> 0, edits |-> 0, ids |-> 0, humans |-> 0, chats |-> 0, mishaps |-> 0,
                   crashes |-> 0]
  BY DEF DeliveryInit
<1>2. live = FALSE /\ behind = FALSE /\ torn = FALSE /\ chat = 0
  BY DEF DeliveryInit
<1>3. /\ Resting.at = "idle" /\ Resting.kind = "first" /\ Resting.squashed = FALSE
      /\ Resting.for = "main" /\ Quiet.doing = "none"
      /\ Base.id = 0 /\ Base.tree = 0 /\ bounds.ids = 0 /\ bounds.edits = 0
  BY <1>1 DEF Resting, Quiet, Base
<1>4. Types
  <2>1. bounds \in Counts /\ row \in Row
    BY <1>1, Fresh DEF Counts, Row
  <2>2. live \in BOOLEAN /\ behind \in BOOLEAN /\ torn \in BOOLEAN /\ chat \in Nat
    BY <1>2
  <2>3. /\ local \in Seq(Commit) /\ local # <<>> /\ remote \in Seq(Commit)
        /\ tree \in Nat /\ kept \in Nat /\ built \in SUBSET Registry
    BY <1>1, Fresh
  <2>4. QED BY <1>1, <2>1, <2>2, <2>3, Fresh DEF Types
<1>5. Lines
  BY <1>1, <1>3 DEF Lines, Line
<1>6. CheckpointsEnd /\ Confirmed /\ Clean /\ Healing /\ Writing /\ Saves
  BY <1>1, <1>3 DEF CheckpointsEnd, Confirmed, Clean, Healing, Repairing, Writing, Saves, At
<1>7. ImageIsItsCommit /\ BuiltWasPushed /\ KeptByCheckpoint /\ VerdictOnDeployed /\ Known
  BY <1>1, <1>3 DEF ImageIsItsCommit, BuiltWasPushed, KeptByCheckpoint, VerdictOnDeployed, Known, At
<1>8. QED BY <1>4, <1>5, <1>6, <1>7 DEF DeliveryIInv

\* No step breaks what the round carries from command to command.
LEMMA DeliveryInductive ==
  ASSUME DeliveryIInv, [DeliveryNext]_deliveryVars
  PROVE  DeliveryIInv'
<1>0. /\ DeliveryStep /\ Types /\ CheckpointsEnd /\ ImageIsItsCommit /\ KeptByCheckpoint
      /\ Lines /\ Known /\ Confirmed /\ Clean /\ Healing /\ Writing /\ Saves
  BY DEF DeliveryIInv, DeliveryStep
<1>1. Types'
  <2>1. run' \in Round /\ cp' \in Writer /\ row' \in Row
    BY <1>0, RoundKeeps, WriterKeeps, RowKeeps
  <2>2. bounds' \in Counts
    BY <1>0, CountsKeep DEF Grown
  <2>3. built' \in SUBSET Registry /\ deployed' \in Registry
    BY <1>0, ImagesKeep
  <2>4. /\ local' \in Seq(Commit) /\ local' # <<>> /\ remote' \in Seq(Commit)
        /\ tree' \in Nat /\ kept' \in Nat
    BY <1>0, LocalKeeps, KnownKeeps
  <2>5. live' \in BOOLEAN /\ behind' \in BOOLEAN /\ torn' \in BOOLEAN /\ chat' \in Nat
    BY <1>0, FlagsKeep
  <2>6. QED BY <2>1, <2>2, <2>3, <2>4, <2>5 DEF Types
<1>2. Lines'
  BY <1>0, LinesKeep DEF Lines, Aged, Line
<1>3. Healing' /\ Clean' /\ Confirmed' /\ Known' /\ Saves' /\ CheckpointsEnd' /\ Writing'
  BY <1>0, HealingKeeps, CleanKeeps, ConfirmedKeeps, KnownKeeps, SavesKeep, CheckpointsKeep
<1>4. ImageIsItsCommit' /\ KeptByCheckpoint'
  BY <1>0, ImagesKeep, SavedKeeps
<1>5. BuiltWasPushed'
  BY <1>3 DEF BuiltWasPushed, Confirmed
<1>6. VerdictOnDeployed'
  BY <1>3 DEF VerdictOnDeployed, Healing, At
<1>7. QED BY <1>1, <1>2, <1>3, <1>4, <1>5, <1>6 DEF DeliveryIInv

\* The invariant of a delivery, for any number of rounds, edits, commits of
\* people, failures and crashes, and any limits of its loops.
THEOREM DeliveryInvariant == DeliverySpec => []DeliveryIInv
<1>1. DeliveryInit => DeliveryIInv
  BY DeliveryBegins
<1>2. DeliveryIInv /\ [DeliveryNext]_deliveryVars => DeliveryIInv'
  BY DeliveryInductive
<1>3. QED BY <1>1, <1>2, PTL DEF DeliverySpec

\* The state of a delivery is well formed, and the checkpoint writer of the
\* first turn is at rest when the turn is over.
THEOREM DeliveryCorrect == DeliverySpec => []DeliveryInv
<1>1. DeliveryIInv => DeliveryInv
  <2> SUFFICES ASSUME DeliveryIInv PROVE DeliveryInv
    OBVIOUS
  <2>1. Types /\ CheckpointsEnd
    BY DEF DeliveryIInv
  <2>2. DeliveryTypeOK
    BY <2>1 DEF Types, DeliveryTypeOK, Round, Gits, Fixes, Probes, Writer, Row, Registry
  <2>3. QED BY <2>1, <2>2 DEF DeliveryInv
<1>2. QED BY DeliveryInvariant, <1>1, PTL

\* An image holds the tree of the commit it is tagged with, in a round whose push
\* needed no git fixer and whose guard left nothing behind, whatever checkpoint
\* writer, messages, repairs, people and earlier rounds did.
THEOREM DeliveryImages == DeliverySpec => []ImageIsItsCommit
BY DeliveryInvariant, PTL DEF DeliveryIInv

\* What a round builds, deploys and probes was the tip of the branch on GitHub.
THEOREM DeliveryBuildsPushed == DeliverySpec => []BuiltWasPushed
BY DeliveryInvariant, PTL DEF DeliveryIInv

\* What a checkpoint saved survives the squash, and everything after it.
THEOREM DeliveryKeepsWork == DeliverySpec => []KeptByCheckpoint
BY DeliveryInvariant, PTL DEF DeliveryIInv

\* A healthy verdict is about the commit that is deployed.
THEOREM DeliveryVerdict == DeliverySpec => []VerdictOnDeployed
BY DeliveryInvariant, PTL DEF DeliveryIInv

\* A commit that people pushed after the round took its lease is in no step
\* overwritten: the lease is then no longer the tip, because the numbers along a
\* branch only grow.
THEOREM DeliveryKeepsPeoplesWork == DeliverySpec => LateCommitsKept
<1> DEFINE Kept == \A i \in DOMAIN remote :
                     (\E j \in 1..i - 1 : remote[j] = run.lease) /\ remote[i].human
                       => \E k \in DOMAIN remote' : remote'[k] = remote[i]
<1>1. ASSUME DeliveryIInv, [DeliveryNext]_deliveryVars PROVE Kept
  <2>1. Types /\ Lines /\ DeliveryStep
    BY <1>1 DEF DeliveryIInv, DeliveryStep
  <2>2. CASE UNCHANGED <<remote, pushed>>
    BY <2>2
  <2>3. CASE Adds
    BY <2>3 DEF Adds, Extends
  <2>4. CASE Overwrites
    <3>1. ASSUME NEW i \in DOMAIN remote, NEW j \in 1..i - 1, remote[j] = run.lease PROVE FALSE
      <4>1. remote \in Seq(Commit) /\ DOMAIN remote = 1..Len(remote) /\ Len(remote) \in Nat
        BY <2>1 DEF Types
      <4>2. /\ j \in DOMAIN remote /\ Len(remote) \in DOMAIN remote /\ j < Len(remote)
            /\ remote[j] \in Commit
        BY <3>1, <4>1
      <4>3. remote[j].id < remote[Len(remote)].id
        BY <2>1, <4>2 DEF Lines, Line
      <4>4. remote[Len(remote)] = remote[j]
        BY <2>4, <3>1 DEF Overwrites, Tip
      <4>5. QED BY <4>2, <4>3, <4>4 DEF Commit
    <3>2. QED BY <3>1
  <2>5. QED BY <2>1, <2>2, <2>3, <2>4, RemoteKeeps DEF RemoteMoves
<1>2. DeliveryIInv /\ [DeliveryNext]_deliveryVars => [Kept]_deliveryVars
  BY <1>1
<1>3. QED BY DeliveryInvariant, <1>2, PTL DEF DeliverySpec, LateCommitsKept
=============================================================================
