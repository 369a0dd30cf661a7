--------------------------- MODULE TaskLifeProofs ---------------------------
(***************************************************************************)
(* What holds of one task for any number of requests, failures, attempts   *)
(* and restarts: its row never claims work that nobody does, a ship in     *)
(* direct mode merges only a head whose checks passed, and a deletion that *)
(* nothing disturbs leaves nothing behind on GitHub or on the disk.        *)
(*                                                                         *)
(* The last one needs to know what the row is worth to teardownTask, which *)
(* deletes the branch only if the row names one.  Named says that whatever *)
(* may push -- a run past its start, a live session -- and whatever was    *)
(* pushed has a row that names its branch, because the row is written      *)
(* before GitHub hears of it.                                              *)
(***************************************************************************)
EXTENDS TaskLife, TLAPS

\* A ship about to merge saw the checks of the head it will name.
AtMerge == ship.at = "merge" => ship.head \in verified

\* Whatever was pushed, or may be, is named in the row.
Named ==
  hub.head # 0 \/ live \/ run.at \notin {"none", "start"} => Gone \/ row.branch # "no"

\* A pull request is open only while its branch exists.
OpenHasBranch == hub.pull \in {"draft", "ready"} => hub.head # 0

\* A purge that was alone when it began and that no request and no failure
\* has met since.
Undisturbed ==
  LET t == tear["purge"]
  IN  t.at # "free" /\ t.alone /\ t.since = bounds.asks + bounds.mishaps

\* It is still alone, and what it has been through is done.
PurgeAlone ==
  Undisturbed =>
    /\ row.status = "deleting"
    /\ run.at = "none" /\ ship.at = "free" /\ closing = "free" /\ tear["discard"].at = "free"
    /\ ~gen /\ revive = 0 /\ ~boot.resume
    /\ hub.head # 0 => tear["purge"].branch
    /\ tear["purge"].at = "disk" => hub.head = 0

\* A chat that waits was asked for; a purge began before now.
Counted == revive <= bounds.asks /\ tear["purge"].since <= bounds.asks + bounds.mishaps

\* The inductive invariant.
LifeIInv ==
  /\ LifeInv /\ MergedWasVerified
  /\ AtMerge /\ Named /\ OpenHasBranch /\ PurgeAlone /\ Counted

-----------------------------------------------------------------------------
(* The types of the state, part by part, and its steps, kind by kind *)

Rows == [status : Status, spec : BOOLEAN, branch : {"no", "named", "reserved"},
         pr : BOOLEAN, image : BOOLEAN, dev : {"none", "stopped", "active"}]
Hubs == [head : Nat, pull : {"none", "draft", "ready", "closed", "merged"}, merged : Nat]
Runs == [at : {"none", "start", "branch", "turn", "push", "image", "deploy", "open", "check"},
         kind : {"build", "iterate"}, try : 0..MaxAttempts]
Agents == [on : BOOLEAN, pending : BOOLEAN]
Shippings == [at : {"free", "ready", "gate", "merge", "done"}, head : Nat]
Tearings == [at : {"free", "pull", "env", "branch", "disk"}, branch : BOOLEAN,
             pr : BOOLEAN, ns : BOOLEAN, alone : BOOLEAN, since : Nat]
Bounds == [asks : 0..MaxAsk, mishaps : 0..MaxMishap, crashes : 0..MaxCrash]
Pending == [resume : BOOLEAN, purge : BOOLEAN]

\* The same, as a fact to cite.
LifeTypes ==
  /\ row \in Rows /\ hub \in Hubs /\ run \in Runs /\ agent \in Agents
  /\ ship \in Shippings /\ tear \in [Kind -> Tearings] /\ bounds \in Bounds
  /\ env \in BOOLEAN /\ disk \in BOOLEAN /\ live \in BOOLEAN /\ gen \in BOOLEAN
  /\ closing \in {"free", "env", "disk"} /\ boot \in Pending
  /\ revive \in 0..MaxAsk /\ verified \in SUBSET Nat

\* A specification is asked for, or answered.
Specs == SpecArrives \/ SpecFails \/ EditSpec \/ ApproveSpec \/ Revived
\* A run goes on to its next step.
GoesOn == \/ NameBranch \/ ReserveBranch \/ Checkpoint \/ Resurrect \/ Drain \/ TurnEnds
          \/ PushCommit \/ BuildImage \/ Deploy \/ OpenDraft
\* A run may end here.
EndsRun == \/ RunStumbles \/ RunFails \/ ResurrectFails \/ NothingChanged \/ DeployFails
           \/ Validated
Ships == Ship \/ ShipFails \/ PullReady \/ ChecksPass \/ MergePull \/ Shipped
Closes == Close \/ CloseEnv \/ Closed \/ Cancel
Purges == Discard \/ Delete \/ Sweep
TearsDown == \E k \in Kind : Teardown(k)
Boots == Crash \/ AutoResume \/ PurgeOrphanWorkspaces
LifeStep == LifeNext \/ UNCHANGED lifeVars

\* The type invariant, in parts.
LEMMA TypeIs == LifeTypeOK <=> LifeTypes
BY DEF LifeTypeOK, LifeTypes, Rows, Hubs, Runs, Agents, Shippings, Tearings, Bounds, Pending

\* Every step is of one of these kinds.
LEMMA Steps ==
  ASSUME LifeStep
  PROVE  \/ Chat \/ Specs \/ GoesOn \/ EndsRun \/ Ships \/ Closes \/ Purges \/ TearsDown \/ Boots
         \/ UNCHANGED lifeVars
BY DEF LifeStep, LifeNext, Routes, Work, Run, Specs, GoesOn, EndsRun, Ships, Closes, Purges,
       TearsDown, Boots

\* Every step writes a row that can be.
LEMMA RowKeeps ==
  ASSUME LifeTypeOK, LifeStep
  PROVE  row' \in Rows
<1> USE DEF Asks, Mishap, Chatty, SetTaskStatus, Saved, Begun, To, Ends, Fails, others, NoRun,
            NoAgent, Gone
<1>0. row \in Rows /\ run \in Runs
  BY TypeIs DEF LifeTypes
<1>1. CASE Chat
  BY <1>0, <1>1 DEF Chat, ChatRevives, ChatSpecifies, ChatIterates, ChatInterrupts,
     ChatRestarts, Rows, Status
<1>2. CASE Specs
  BY <1>0, <1>2 DEF Specs, SpecArrives, SpecFails, EditSpec, ApproveSpec, Revived, Rows,
     Status
<1>3. CASE GoesOn
  BY <1>0, <1>3 DEF GoesOn, NameBranch, ReserveBranch, Checkpoint, Resurrect, Drain, TurnEnds,
     PushCommit, BuildImage, Deploy, OpenDraft, Rows, Status
<1>4. CASE EndsRun
  BY <1>0, <1>4 DEF EndsRun, RunStumbles, RunFails, ResurrectFails, NothingChanged,
     DeployFails, Validated, Rows, Status
<1>5. CASE Ships
  BY <1>0, <1>5 DEF Ships, Ship, ShipFails, PullReady, ChecksPass, MergePull, CanMerge,
     Shipped, Rows, Status
<1>6. CASE Closes
  BY <1>0, <1>6 DEF Closes, Close, CloseEnv, Closed, Cancel, Rows, Status
<1>7. CASE Purges
  BY <1>0, <1>7 DEF Purges, Discard, Torn, Kind, Delete, Purge, Sweep, Rows, Status
<1>8. CASE TearsDown
  <2>1. ASSUME NEW k \in Kind, ClosePull(k) PROVE row' \in Rows
    BY <1>0, <2>1 DEF ClosePull, TearOn, Kind, Rows, Status
  <2>2. ASSUME NEW k \in Kind, DeleteNamespace(k) PROVE row' \in Rows
    BY <1>0, <2>2 DEF DeleteNamespace, TearOn, Kind, Rows, Status
  <2>3. ASSUME NEW k \in Kind, DeleteBranch(k) PROVE row' \in Rows
    BY <1>0, <2>3 DEF DeleteBranch, TearOn, Kind, Rows, Status
  <2>4. ASSUME NEW k \in Kind, TornDown(k) PROVE row' \in Rows
    BY <1>0, <2>4 DEF TornDown, NoTear, NoRow, Kind, Rows, Status
  <2>5. QED BY <1>8, <2>1, <2>2, <2>3, <2>4 DEF TearsDown, Teardown
<1>9. CASE Boots
  BY <1>0, <1>9 DEF Boots, Crash, Reconciled, NoTear, Kind, AutoResume, PurgeOrphanWorkspaces,
     Rows, Status
<1>10. CASE UNCHANGED lifeVars
  BY <1>0, <1>10 DEF lifeVars, Rows, Status
<1>11. QED BY <1>1, <1>2, <1>3, <1>4, <1>5, <1>6, <1>7, <1>8, <1>9, <1>10, Steps

\* Every step leaves GitHub and the ship in a state that can be.
LEMMA HubKeeps ==
  ASSUME LifeTypeOK, LifeStep
  PROVE  hub' \in Hubs /\ ship' \in Shippings /\ verified' \in SUBSET Nat
<1> USE DEF Asks, Mishap, Chatty, SetTaskStatus, Saved, Begun, To, Ends, Fails, others, NoRun,
            NoAgent, Gone
<1>0. /\ hub \in Hubs /\ ship \in Shippings /\ verified \in SUBSET Nat
      /\ disk \in BOOLEAN
  BY TypeIs DEF LifeTypes
<1>1. CASE Chat
  BY <1>0, <1>1 DEF Chat, ChatRevives, ChatSpecifies, ChatIterates, ChatInterrupts,
     ChatRestarts, Hubs, Shippings
<1>2. CASE Specs
  BY <1>0, <1>2 DEF Specs, SpecArrives, SpecFails, EditSpec, ApproveSpec, Revived, Hubs,
     Shippings
<1>3. CASE GoesOn
  BY <1>0, <1>3 DEF GoesOn, NameBranch, ReserveBranch, Checkpoint, Resurrect, Drain, TurnEnds,
     PushCommit, BuildImage, Deploy, OpenDraft, Hubs, Shippings
<1>4. CASE EndsRun
  BY <1>0, <1>4 DEF EndsRun, RunStumbles, RunFails, ResurrectFails, NothingChanged,
     DeployFails, Validated, Hubs, Shippings
<1>5. CASE Ships
  <2>1. CASE Ship
    BY <1>0, <2>1 DEF Ship, Hubs, Shippings
  <2>2. CASE ShipFails
    BY <1>0, <2>2 DEF ShipFails, Hubs, Shippings
  <2>3. CASE PullReady
    BY <1>0, <2>3 DEF PullReady, Hubs, Shippings
  <2>4. CASE ChecksPass
    BY <1>0, <2>4 DEF ChecksPass, Hubs, Shippings
  <2>5. CASE MergePull
    BY <1>0, <2>5 DEF MergePull, CanMerge, Hubs, Shippings
  <2>6. CASE Shipped
    BY <1>0, <2>6 DEF Shipped, Hubs, Shippings
  <2>7. QED BY <1>5, <2>1, <2>2, <2>3, <2>4, <2>5, <2>6 DEF Ships
<1>6. CASE Closes
  BY <1>0, <1>6 DEF Closes, Close, CloseEnv, Closed, Cancel, Hubs, Shippings
<1>7. CASE Purges
  BY <1>0, <1>7 DEF Purges, Discard, Torn, Kind, Delete, Purge, Sweep, Hubs, Shippings
<1>8. CASE TearsDown
  <2>1. ASSUME NEW k \in Kind, ClosePull(k)
        PROVE  hub' \in Hubs /\ ship' \in Shippings /\ verified' \in SUBSET Nat
    BY <1>0, <2>1 DEF ClosePull, TearOn, Kind, Hubs, Shippings
  <2>2. ASSUME NEW k \in Kind, DeleteNamespace(k)
        PROVE  hub' \in Hubs /\ ship' \in Shippings /\ verified' \in SUBSET Nat
    BY <1>0, <2>2 DEF DeleteNamespace, TearOn, Kind, Hubs, Shippings
  <2>3. ASSUME NEW k \in Kind, DeleteBranch(k)
        PROVE  hub' \in Hubs /\ ship' \in Shippings /\ verified' \in SUBSET Nat
    <3>1. \A p \in {"closed", hub.pull} : [hub EXCEPT !.head = 0, !.pull = p] \in Hubs
      BY <1>0 DEF Hubs
    <3>2. hub' \in Hubs /\ UNCHANGED <<ship, verified>>
      BY <1>0, <2>3, <3>1 DEF DeleteBranch
    <3>3. QED BY <1>0, <3>2
  <2>4. ASSUME NEW k \in Kind, TornDown(k)
        PROVE  hub' \in Hubs /\ ship' \in Shippings /\ verified' \in SUBSET Nat
    BY <1>0, <2>4 DEF TornDown, NoTear, NoRow, Kind, Hubs, Shippings
  <2>5. QED BY <1>8, <2>1, <2>2, <2>3, <2>4 DEF TearsDown, Teardown
<1>9. CASE Boots
  BY <1>0, <1>9 DEF Boots, Crash, Reconciled, NoTear, Kind, AutoResume, PurgeOrphanWorkspaces,
     Hubs, Shippings
<1>10. CASE UNCHANGED lifeVars
  BY <1>0, <1>10 DEF lifeVars, Hubs, Shippings
<1>11. QED BY <1>1, <1>2, <1>3, <1>4, <1>5, <1>6, <1>7, <1>8, <1>9, <1>10, Steps

\* A run and its agent are at a place there is, within the attempts it has.
LEMMA RunKeeps ==
  ASSUME LifeTypeOK, LifeStep
  PROVE  run' \in Runs /\ agent' \in Agents
<1> USE DEF Asks, Mishap, Chatty, SetTaskStatus, Saved, To, Ends, Fails, others, Gone
<1>0. run \in Runs /\ agent \in Agents /\ NoRun \in Runs /\ NoAgent \in Agents
      /\ \A kind \in {"build", "iterate"} : Begun(kind) \in Runs
  BY TypeIs, LifeAssumption DEF LifeTypes, Runs, Agents, Begun, NoRun, NoAgent
<1>1. CASE Chat
  BY <1>0, <1>1 DEF Chat, ChatRevives, ChatSpecifies, ChatIterates, ChatInterrupts,
     ChatRestarts, Runs, Agents
<1>2. CASE Specs
  <2>1. CASE SpecArrives
    BY <1>0, <2>1 DEF SpecArrives, Runs, Agents
  <2>2. CASE SpecFails
    BY <1>0, <2>2 DEF SpecFails, Runs, Agents
  <2>3. CASE EditSpec
    BY <1>0, <2>3 DEF EditSpec, Runs, Agents
  <2>4. CASE ApproveSpec
    BY <1>0, <2>4 DEF ApproveSpec, Runs, Agents
  <2>5. CASE Revived
    BY <1>0, <2>5 DEF Revived, Runs, Agents
  <2>6. QED BY <1>2, <2>1, <2>2, <2>3, <2>4, <2>5 DEF Specs
<1>3. CASE GoesOn
  <2>1. CASE NameBranch
    BY <1>0, <2>1 DEF NameBranch, Runs, Agents
  <2>2. CASE ReserveBranch
    BY <1>0, <2>2 DEF ReserveBranch, Runs, Agents
  <2>3. CASE Checkpoint
    BY <1>0, <2>3 DEF Checkpoint, Runs, Agents
  <2>4. CASE Resurrect
    BY <1>0, <2>4 DEF Resurrect, Runs, Agents
  <2>5. CASE Drain
    BY <1>0, <2>5 DEF Drain, Runs, Agents
  <2>6. CASE TurnEnds
    BY <1>0, <2>6 DEF TurnEnds, Runs, Agents
  <2>7. CASE PushCommit
    BY <1>0, <2>7 DEF PushCommit, Runs, Agents
  <2>8. CASE BuildImage
    BY <1>0, <2>8 DEF BuildImage, Runs, Agents
  <2>9. CASE Deploy
    BY <1>0, <2>9 DEF Deploy, Runs, Agents
  <2>10. CASE OpenDraft
    BY <1>0, <2>10 DEF OpenDraft, Runs, Agents
  <2>11. QED BY <1>3, <2>1, <2>2, <2>3, <2>4, <2>5, <2>6, <2>7, <2>8, <2>9, <2>10 DEF GoesOn
<1>4. CASE EndsRun
  <2>1. CASE RunStumbles
    BY <1>0, <2>1 DEF RunStumbles, Runs, Agents
  <2>2. CASE RunFails
    <3>1. CASE Fails
      BY <1>0, <3>1
    <3>2. CASE ~Fails
      <4>1. /\ run.try < MaxAttempts /\ run' = [run EXCEPT !.at = "start", !.try = @ + 1]
            /\ UNCHANGED agent
        BY <2>2, <3>2 DEF RunFails
      <4>2. run.try \in 0..MaxAttempts
        BY <1>0 DEF Runs
      <4>3. run.try + 1 \in 0..MaxAttempts
        BY ONLY <4>1, <4>2, LifeAssumption DEF LifeAssumption
      <4>4. QED BY <1>0, <4>1, <4>3 DEF Runs
    <3>3. QED BY <3>1, <3>2
  <2>3. CASE ResurrectFails
    BY <1>0, <2>3 DEF ResurrectFails, Runs, Agents
  <2>4. CASE NothingChanged
    BY <1>0, <2>4 DEF NothingChanged, Runs, Agents
  <2>5. CASE DeployFails
    BY <1>0, <2>5 DEF DeployFails, Runs, Agents
  <2>6. CASE Validated
    BY <1>0, <2>6 DEF Validated, Runs, Agents
  <2>7. QED BY <1>4, <2>1, <2>2, <2>3, <2>4, <2>5, <2>6 DEF EndsRun
<1>5. CASE Ships
  BY <1>0, <1>5 DEF Ships, Ship, ShipFails, PullReady, ChecksPass, MergePull, CanMerge,
     Shipped, Runs, Agents
<1>6. CASE Closes
  BY <1>0, <1>6 DEF Closes, Close, CloseEnv, Closed, Cancel, Runs, Agents
<1>7. CASE Purges
  BY <1>0, <1>7 DEF Purges, Discard, Torn, Kind, Delete, Purge, Sweep, Runs, Agents
<1>8. CASE TearsDown
  BY <1>0, <1>8 DEF TearsDown, Teardown, ClosePull, TearOn, Kind, DeleteNamespace,
     DeleteBranch, TornDown, NoTear, NoRow, Runs, Agents
<1>9. CASE Boots
  <2>1. CASE Crash
    BY <1>0, <2>1 DEF Crash, Reconciled, NoTear, Kind, Runs, Agents
  <2>2. CASE AutoResume
    BY <1>0, <2>2 DEF AutoResume, Runs, Agents
  <2>3. CASE PurgeOrphanWorkspaces
    BY <1>0, <2>3 DEF PurgeOrphanWorkspaces, Runs, Agents
  <2>4. QED BY <1>9, <2>1, <2>2, <2>3 DEF Boots
<1>10. CASE UNCHANGED lifeVars
  BY <1>0, <1>10 DEF lifeVars, Runs, Agents
<1>11. QED BY <1>1, <1>2, <1>3, <1>4, <1>5, <1>6, <1>7, <1>8, <1>9, <1>10, Steps

\* A teardown works from what it noted of the row.
LEMMA TearKeeps ==
  ASSUME LifeTypeOK, LifeStep
  PROVE  tear' \in [Kind -> Tearings]
<1> USE DEF Asks, Mishap, Chatty, SetTaskStatus, Saved, Begun, To, Ends, Fails, others, NoRun,
            NoAgent, Gone
<1>0. tear \in [Kind -> Tearings] /\ bounds \in Bounds /\ row \in Rows /\ Torn \in Tearings
  <2>1. tear \in [Kind -> Tearings] /\ bounds \in Bounds /\ row \in Rows
    BY TypeIs DEF LifeTypes
  <2>2. bounds.asks + bounds.mishaps \in Nat
    BY <2>1, LifeAssumption DEF Bounds
  <2>3. \A p, q, r, t \in BOOLEAN, n \in Nat :
          [at |-> "pull", branch |-> p, pr |-> q, ns |-> r, alone |-> t, since |-> n] \in Tearings
    BY DEF Tearings
  <2>4. row.pr \in BOOLEAN
    BY <2>1 DEF Rows
  <2>5. QED BY ONLY <2>1, <2>2, <2>3, <2>4, Zenon DEF Torn
<1>1. CASE Chat
  BY <1>0, <1>1 DEF Chat, ChatRevives, ChatSpecifies, ChatIterates, ChatInterrupts,
     ChatRestarts, Tearings
<1>2. CASE Specs
  BY <1>0, <1>2 DEF Specs, SpecArrives, SpecFails, EditSpec, ApproveSpec, Revived, Tearings
<1>3. CASE GoesOn
  BY <1>0, <1>3 DEF GoesOn, NameBranch, ReserveBranch, Checkpoint, Resurrect, Drain, TurnEnds,
     PushCommit, BuildImage, Deploy, OpenDraft, Tearings
<1>4. CASE EndsRun
  BY <1>0, <1>4 DEF EndsRun, RunStumbles, RunFails, ResurrectFails, NothingChanged,
     DeployFails, Validated, Tearings
<1>5. CASE Ships
  BY <1>0, <1>5 DEF Ships, Ship, ShipFails, PullReady, ChecksPass, MergePull, CanMerge,
     Shipped, Tearings
<1>6. CASE Closes
  BY <1>0, <1>6 DEF Closes, Close, CloseEnv, Closed, Cancel, Tearings
<1>7. CASE Purges
  <2>1. CASE Discard
    BY <1>0, <2>1 DEF Discard, Kind, Tearings
  <2>2. CASE Delete
    BY <1>0, <2>2 DEF Delete, Purge, Kind, Tearings
  <2>3. CASE Sweep
    BY <1>0, <2>3 DEF Sweep, Purge, Kind, Tearings
  <2>4. QED BY <1>7, <2>1, <2>2, <2>3 DEF Purges
<1>8. CASE TearsDown
  <2>1. ASSUME NEW k \in Kind, ClosePull(k) PROVE tear' \in [Kind -> Tearings]
    BY <1>0, <2>1 DEF ClosePull, TearOn, Kind, Tearings
  <2>2. ASSUME NEW k \in Kind, DeleteNamespace(k) PROVE tear' \in [Kind -> Tearings]
    BY <1>0, <2>2 DEF DeleteNamespace, TearOn, Kind, Tearings
  <2>3. ASSUME NEW k \in Kind, DeleteBranch(k) PROVE tear' \in [Kind -> Tearings]
    BY <1>0, <2>3 DEF DeleteBranch, TearOn, Kind, Tearings
  <2>4. ASSUME NEW k \in Kind, TornDown(k) PROVE tear' \in [Kind -> Tearings]
    BY <1>0, <2>4 DEF TornDown, NoTear, NoRow, Kind, Tearings
  <2>5. QED BY <1>8, <2>1, <2>2, <2>3, <2>4 DEF TearsDown, Teardown
<1>9. CASE Boots
  <2>1. CASE Crash
    BY <1>0, <2>1 DEF Crash, Reconciled, NoTear, Kind, Tearings
  <2>2. CASE AutoResume
    BY <1>0, <2>2 DEF AutoResume, Tearings
  <2>3. CASE PurgeOrphanWorkspaces
    BY <1>0, <2>3 DEF PurgeOrphanWorkspaces, Tearings
  <2>4. QED BY <1>9, <2>1, <2>2, <2>3 DEF Boots
<1>10. CASE UNCHANGED lifeVars
  BY <1>0, <1>10 DEF lifeVars, Tearings
<1>11. QED BY <1>1, <1>2, <1>3, <1>4, <1>5, <1>6, <1>7, <1>8, <1>9, <1>10, Steps

\* The rest of the state, but for the counts, keeps its type.
LEMMA FlagsKeep ==
  ASSUME LifeTypeOK, LifeStep
  PROVE  /\ env' \in BOOLEAN /\ disk' \in BOOLEAN /\ live' \in BOOLEAN /\ gen' \in BOOLEAN
         /\ closing' \in {"free", "env", "disk"} /\ boot' \in Pending
<1> USE DEF Asks, Mishap, Chatty, SetTaskStatus, Saved, Begun, To, Ends, Fails, others, NoRun,
            NoAgent, Gone
<1>0. /\ env \in BOOLEAN /\ disk \in BOOLEAN /\ live \in BOOLEAN /\ gen \in BOOLEAN
      /\ closing \in {"free", "env", "disk"} /\ boot \in Pending /\ tear \in [Kind -> Tearings]
  BY TypeIs DEF LifeTypes
<1>1. CASE Chat
  BY <1>0, <1>1 DEF Chat, ChatRevives, ChatSpecifies, ChatIterates, ChatInterrupts,
     ChatRestarts, Pending, Tearings
<1>2. CASE Specs
  BY <1>0, <1>2 DEF Specs, SpecArrives, SpecFails, EditSpec, ApproveSpec, Revived, Pending,
     Tearings
<1>3. CASE GoesOn
  BY <1>0, <1>3 DEF GoesOn, NameBranch, ReserveBranch, Checkpoint, Resurrect, Drain, TurnEnds,
     PushCommit, BuildImage, Deploy, OpenDraft, Pending, Tearings
<1>4. CASE EndsRun
  BY <1>0, <1>4 DEF EndsRun, RunStumbles, RunFails, ResurrectFails, NothingChanged,
     DeployFails, Validated, Pending, Tearings
<1>5. CASE Ships
  BY <1>0, <1>5 DEF Ships, Ship, ShipFails, PullReady, ChecksPass, MergePull, CanMerge,
     Shipped, Pending, Tearings
<1>6. CASE Closes
  BY <1>0, <1>6 DEF Closes, Close, CloseEnv, Closed, Cancel, Pending, Tearings
<1>7. CASE Purges
  BY <1>0, <1>7 DEF Purges, Discard, Torn, Kind, Delete, Purge, Sweep, Pending, Tearings
<1>8. CASE TearsDown
  BY <1>0, <1>8 DEF TearsDown, Teardown, ClosePull, TearOn, Kind, DeleteNamespace,
     DeleteBranch, TornDown, NoTear, NoRow, Pending, Tearings
<1>9. CASE Boots
  <2>1. CASE Crash
    BY <1>0, <2>1 DEF Crash, Reconciled, NoTear, Kind, Pending, Tearings
  <2>2. CASE AutoResume
    BY <1>0, <2>2 DEF AutoResume, Pending, Tearings
  <2>3. CASE PurgeOrphanWorkspaces
    BY <1>0, <2>3 DEF PurgeOrphanWorkspaces, Pending, Tearings
  <2>4. QED BY <1>9, <2>1, <2>2, <2>3 DEF Boots
<1>10. CASE UNCHANGED lifeVars
  BY <1>0, <1>10 DEF lifeVars, Pending, Tearings
<1>11. QED BY <1>1, <1>2, <1>3, <1>4, <1>5, <1>6, <1>7, <1>8, <1>9, <1>10, Steps

\* A row that claims work has somebody at it.
LEMMA WorkedKeeps ==
  ASSUME LifeTypeOK, InProgressIsWorked, LifeStep
  PROVE  InProgressIsWorked'
<1> USE DEF Asks, Mishap, Chatty, SetTaskStatus, Saved, Begun, To, Ends, Fails, others, NoRun,
            NoAgent, Gone
<1>0. row \in Rows /\ run \in Runs /\ ship \in Shippings
  BY TypeIs DEF LifeTypes
<1>1. CASE Chat
  BY <1>0, <1>1 DEF Chat, ChatRevives, ChatSpecifies, ChatIterates, ChatInterrupts,
     ChatRestarts, InProgressIsWorked, Rows, Runs, Shippings
<1>2. CASE Specs
  <2>1. CASE SpecArrives
    <3>1. Begun("build").at # "none"
      BY <1>0 DEF Runs
    <3>2. /\ UNCHANGED ship
          /\ \/ row.status # "specifying" /\ UNCHANGED <<row, run>>
             \/ row' = [row EXCEPT !.spec = TRUE] /\ row.status = "specifying" /\ UNCHANGED run
             \/ /\ row' = [row EXCEPT !.spec = TRUE, !.status = "building"]
                /\ run'.at # "none"
      BY <2>1, <3>1 DEF SpecArrives
    <3>3. QED BY <1>0, <3>2 DEF InProgressIsWorked, Rows
  <2>2. CASE SpecFails
    BY <1>0, <2>2 DEF SpecFails, InProgressIsWorked, Rows, Runs, Shippings
  <2>3. CASE EditSpec
    BY <1>0, <2>3 DEF EditSpec, InProgressIsWorked, Rows, Runs, Shippings
  <2>4. CASE ApproveSpec
    BY <1>0, <2>4 DEF ApproveSpec, InProgressIsWorked, Rows, Runs, Shippings
  <2>5. CASE Revived
    BY <1>0, <2>5 DEF Revived, InProgressIsWorked, Rows, Runs, Shippings
  <2>6. QED BY <1>2, <2>1, <2>2, <2>3, <2>4, <2>5 DEF Specs
<1>3. CASE GoesOn
  BY <1>0, <1>3 DEF GoesOn, NameBranch, ReserveBranch, Checkpoint, Resurrect, Drain, TurnEnds,
     PushCommit, BuildImage, Deploy, OpenDraft, InProgressIsWorked, Rows, Runs, Shippings
<1>4. CASE EndsRun
  BY <1>0, <1>4 DEF EndsRun, RunStumbles, RunFails, ResurrectFails, NothingChanged,
     DeployFails, Validated, InProgressIsWorked, Rows, Runs, Shippings
<1>5. CASE Ships
  <2>1. CASE Ship
    BY <1>0, <2>1 DEF Ship, InProgressIsWorked, Rows, Runs, Shippings
  <2>2. CASE ShipFails
    BY <1>0, <2>2 DEF ShipFails, InProgressIsWorked, Rows, Runs, Shippings
  <2>3. CASE PullReady
    BY <1>0, <2>3 DEF PullReady, InProgressIsWorked, Rows, Runs, Shippings
  <2>4. CASE ChecksPass
    BY <1>0, <2>4 DEF ChecksPass, InProgressIsWorked, Rows, Runs, Shippings
  <2>5. CASE MergePull
    BY <1>0, <2>5 DEF MergePull, CanMerge, InProgressIsWorked, Rows, Runs, Shippings
  <2>6. CASE Shipped
    BY <1>0, <2>6 DEF Shipped, InProgressIsWorked, Rows, Runs, Shippings
  <2>7. QED BY <1>5, <2>1, <2>2, <2>3, <2>4, <2>5, <2>6 DEF Ships
<1>6. CASE Closes
  BY <1>0, <1>6 DEF Closes, Close, CloseEnv, Closed, Cancel, InProgressIsWorked, Rows, Runs,
     Shippings
<1>7. CASE Purges
  BY <1>0, <1>7 DEF Purges, Discard, Torn, Kind, Delete, Purge, Sweep, InProgressIsWorked,
     Rows, Runs, Shippings
<1>8. CASE TearsDown
  BY <1>0, <1>8 DEF TearsDown, Teardown, ClosePull, TearOn, Kind, DeleteNamespace,
     DeleteBranch, TornDown, NoTear, NoRow, InProgressIsWorked, Rows, Runs, Shippings
<1>9. CASE Boots
  BY <1>0, <1>9 DEF Boots, Crash, Reconciled, NoTear, Kind, AutoResume, PurgeOrphanWorkspaces,
     InProgressIsWorked, Rows, Runs, Shippings
<1>10. CASE UNCHANGED lifeVars
  BY <1>0, <1>10 DEF lifeVars, InProgressIsWorked, Rows, Runs, Shippings
<1>11. QED BY <1>1, <1>2, <1>3, <1>4, <1>5, <1>6, <1>7, <1>8, <1>9, <1>10, Steps

\* A head is merged after its checks passed.
LEMMA MergedKeeps ==
  ASSUME LifeTypeOK, MergedWasVerified, AtMerge, LifeStep
  PROVE  MergedWasVerified' /\ AtMerge'
<1> USE DEF Asks, Mishap, Chatty, SetTaskStatus, Saved, Begun, To, Ends, Fails, others, NoRun,
            NoAgent, Gone
<1>0. hub \in Hubs /\ ship \in Shippings
  BY TypeIs DEF LifeTypes
<1>1. CASE Chat
  BY <1>0, <1>1 DEF Chat, ChatRevives, ChatSpecifies, ChatIterates, ChatInterrupts,
     ChatRestarts, MergedWasVerified, AtMerge, Hubs, Shippings, CanMerge
<1>2. CASE Specs
  BY <1>0, <1>2 DEF Specs, SpecArrives, SpecFails, EditSpec, ApproveSpec, Revived,
     MergedWasVerified, AtMerge, Hubs, Shippings, CanMerge
<1>3. CASE GoesOn
  BY <1>0, <1>3 DEF GoesOn, NameBranch, ReserveBranch, Checkpoint, Resurrect, Drain, TurnEnds,
     PushCommit, BuildImage, Deploy, OpenDraft, MergedWasVerified, AtMerge, Hubs, Shippings,
     CanMerge
<1>4. CASE EndsRun
  BY <1>0, <1>4 DEF EndsRun, RunStumbles, RunFails, ResurrectFails, NothingChanged,
     DeployFails, Validated, MergedWasVerified, AtMerge, Hubs, Shippings, CanMerge
<1>5. CASE Ships
  <2>1. CASE Ship
    BY <1>0, <2>1 DEF Ship, MergedWasVerified, AtMerge, Hubs, Shippings, CanMerge
  <2>2. CASE ShipFails
    BY <1>0, <2>2 DEF ShipFails, MergedWasVerified, AtMerge, Hubs, Shippings, CanMerge
  <2>3. CASE PullReady
    BY <1>0, <2>3 DEF PullReady, MergedWasVerified, AtMerge, Hubs, Shippings, CanMerge
  <2>4. CASE ChecksPass
    BY <1>0, <2>4 DEF ChecksPass, MergedWasVerified, AtMerge, Hubs, Shippings, CanMerge
  <2>5. CASE MergePull
    BY <1>0, <2>5 DEF MergePull, CanMerge, MergedWasVerified, AtMerge, Hubs, Shippings
  <2>6. CASE Shipped
    BY <1>0, <2>6 DEF Shipped, MergedWasVerified, AtMerge, Hubs, Shippings, CanMerge
  <2>7. QED BY <1>5, <2>1, <2>2, <2>3, <2>4, <2>5, <2>6 DEF Ships
<1>6. CASE Closes
  BY <1>0, <1>6 DEF Closes, Close, CloseEnv, Closed, Cancel, MergedWasVerified, AtMerge, Hubs,
     Shippings, CanMerge
<1>7. CASE Purges
  BY <1>0, <1>7 DEF Purges, Discard, Torn, Kind, Delete, Purge, Sweep, MergedWasVerified,
     AtMerge, Hubs, Shippings, CanMerge
<1>8. CASE TearsDown
  BY <1>0, <1>8 DEF TearsDown, Teardown, ClosePull, TearOn, Kind, DeleteNamespace,
     DeleteBranch, TornDown, NoTear, NoRow, MergedWasVerified, AtMerge, Hubs, Shippings,
     CanMerge
<1>9. CASE Boots
  BY <1>0, <1>9 DEF Boots, Crash, Reconciled, NoTear, Kind, AutoResume, PurgeOrphanWorkspaces,
     MergedWasVerified, AtMerge, Hubs, Shippings, CanMerge
<1>10. CASE UNCHANGED lifeVars
  BY <1>0, <1>10 DEF lifeVars, MergedWasVerified, AtMerge, Hubs, Shippings, CanMerge
<1>11. QED BY <1>1, <1>2, <1>3, <1>4, <1>5, <1>6, <1>7, <1>8, <1>9, <1>10, Steps

\* The row names a branch before anything is pushed.
LEMMA NamedKeeps ==
  ASSUME LifeTypeOK, Named, LifeStep
  PROVE  Named'
<1> USE DEF Asks, Mishap, Chatty, SetTaskStatus, Saved, Begun, To, Ends, Fails, others, NoRun,
            NoAgent, Gone
<1>0. row \in Rows /\ hub \in Hubs /\ run \in Runs
  BY TypeIs DEF LifeTypes
<1>1. CASE Chat
  BY <1>0, <1>1 DEF Chat, ChatRevives, ChatSpecifies, ChatIterates, ChatInterrupts,
     ChatRestarts, Named, Rows, Hubs, Runs
<1>2. CASE Specs
  <2>1. CASE SpecArrives
    <3>1. Begun("build").at \in {"start", run.at}
      BY <1>0 DEF Runs
    <3>2. /\ UNCHANGED <<hub, live>> /\ run'.at \in {"start", run.at}
          /\ \/ UNCHANGED row
             \/ row' = [row EXCEPT !.spec = TRUE] /\ row.status = "specifying"
             \/ /\ row' = [row EXCEPT !.spec = TRUE, !.status = "building"]
                /\ row.status = "specifying"
      BY <2>1, <3>1 DEF SpecArrives
    <3>3. QED BY <1>0, <3>2 DEF Named, Rows
  <2>2. CASE SpecFails
    BY <1>0, <2>2 DEF SpecFails, Named, Rows, Hubs, Runs
  <2>3. CASE EditSpec
    BY <1>0, <2>3 DEF EditSpec, Named, Rows, Hubs, Runs
  <2>4. CASE ApproveSpec
    BY <1>0, <2>4 DEF ApproveSpec, Named, Rows, Hubs, Runs
  <2>5. CASE Revived
    <3>0. Begun("iterate").at \in {"start", run.at}
      BY <1>0 DEF Runs
    <3>1. run'.at \in {"start", run.at}
      BY <2>5, <3>0 DEF Revived
    <3>2. UNCHANGED <<hub, live>> /\ row'.status = row.status /\ row'.branch = row.branch
      BY <1>0, <2>5 DEF Revived, Rows
    <3>3. QED BY <3>1, <3>2 DEF Named
  <2>6. QED BY <1>2, <2>1, <2>2, <2>3, <2>4, <2>5 DEF Specs
<1>3. CASE GoesOn
  BY <1>0, <1>3 DEF GoesOn, NameBranch, ReserveBranch, Checkpoint, Resurrect, Drain, TurnEnds,
     PushCommit, BuildImage, Deploy, OpenDraft, Named, Rows, Hubs, Runs
<1>4. CASE EndsRun
  <2>1. CASE RunStumbles
    BY <1>0, <2>1 DEF RunStumbles, Named, Rows, Hubs, Runs
  <2>2. CASE RunFails
    <3>1. CASE Fails
      BY <1>0, <3>1 DEF Named, Rows
    <3>2. CASE ~Fails
      BY <1>0, <2>2, <3>2 DEF RunFails, Named, Runs
    <3>3. QED BY <3>1, <3>2
  <2>3. CASE ResurrectFails
    BY <1>0, <2>3 DEF ResurrectFails, Named, Rows, Hubs, Runs
  <2>4. CASE NothingChanged
    BY <1>0, <2>4 DEF NothingChanged, Named, Rows, Hubs, Runs
  <2>5. CASE DeployFails
    BY <1>0, <2>5 DEF DeployFails, Named, Rows, Hubs, Runs
  <2>6. CASE Validated
    BY <1>0, <2>6 DEF Validated, Named, Rows, Hubs, Runs
  <2>7. QED BY <1>4, <2>1, <2>2, <2>3, <2>4, <2>5, <2>6 DEF EndsRun
<1>5. CASE Ships
  BY <1>0, <1>5 DEF Ships, Ship, ShipFails, PullReady, ChecksPass, MergePull, CanMerge,
     Shipped, Named, Rows, Hubs, Runs
<1>6. CASE Closes
  BY <1>0, <1>6 DEF Closes, Close, CloseEnv, Closed, Cancel, Named, Rows, Hubs, Runs
<1>7. CASE Purges
  BY <1>0, <1>7 DEF Purges, Discard, Torn, Kind, Delete, Purge, Sweep, Named, Rows, Hubs, Runs
<1>8. CASE TearsDown
  <2>1. ASSUME NEW k \in Kind, ClosePull(k) PROVE Named'
    BY <1>0, <2>1 DEF ClosePull, TearOn, Kind, Named, Rows, Hubs, Runs
  <2>2. ASSUME NEW k \in Kind, DeleteNamespace(k) PROVE Named'
    BY <1>0, <2>2 DEF DeleteNamespace, TearOn, Kind, Named, Rows, Hubs, Runs
  <2>3. ASSUME NEW k \in Kind, DeleteBranch(k) PROVE Named'
    BY <1>0, <2>3 DEF DeleteBranch, TearOn, Kind, Named, Rows, Hubs, Runs
  <2>4. ASSUME NEW k \in Kind, TornDown(k) PROVE Named'
    BY <1>0, <2>4 DEF TornDown, NoTear, NoRow, Kind, Named, Rows, Hubs, Runs
  <2>5. QED BY <1>8, <2>1, <2>2, <2>3, <2>4 DEF TearsDown, Teardown
<1>9. CASE Boots
  BY <1>0, <1>9 DEF Boots, Crash, Reconciled, NoTear, Kind, AutoResume, PurgeOrphanWorkspaces,
     Named, Rows, Hubs, Runs
<1>10. CASE UNCHANGED lifeVars
  BY <1>0, <1>10 DEF lifeVars, Named, Rows, Hubs, Runs
<1>11. QED BY <1>1, <1>2, <1>3, <1>4, <1>5, <1>6, <1>7, <1>8, <1>9, <1>10, Steps

\* GitHub keeps no pull request open without its branch.
LEMMA OpenKeeps ==
  ASSUME LifeTypeOK, OpenHasBranch, LifeStep
  PROVE  OpenHasBranch'
<1> USE DEF Asks, Mishap, Chatty, SetTaskStatus, Saved, Begun, To, Ends, Fails, others, NoRun,
            NoAgent, Gone
<1>0. hub \in Hubs
  BY TypeIs DEF LifeTypes
<1>1. CASE Chat
  BY <1>0, <1>1 DEF Chat, ChatRevives, ChatSpecifies, ChatIterates, ChatInterrupts,
     ChatRestarts, OpenHasBranch, Hubs, CanReady
<1>2. CASE Specs
  BY <1>0, <1>2 DEF Specs, SpecArrives, SpecFails, EditSpec, ApproveSpec, Revived,
     OpenHasBranch, Hubs, CanReady
<1>3. CASE GoesOn
  BY <1>0, <1>3 DEF GoesOn, NameBranch, ReserveBranch, Checkpoint, Resurrect, Drain, TurnEnds,
     PushCommit, BuildImage, Deploy, OpenDraft, OpenHasBranch, Hubs, CanReady
<1>4. CASE EndsRun
  BY <1>0, <1>4 DEF EndsRun, RunStumbles, RunFails, ResurrectFails, NothingChanged,
     DeployFails, Validated, OpenHasBranch, Hubs, CanReady
<1>5. CASE Ships
  BY <1>0, <1>5 DEF Ships, Ship, ShipFails, PullReady, ChecksPass, MergePull, CanMerge,
     Shipped, OpenHasBranch, Hubs, CanReady
<1>6. CASE Closes
  BY <1>0, <1>6 DEF Closes, Close, CloseEnv, Closed, Cancel, OpenHasBranch, Hubs, CanReady
<1>7. CASE Purges
  BY <1>0, <1>7 DEF Purges, Discard, Torn, Kind, Delete, Purge, Sweep, OpenHasBranch, Hubs,
     CanReady
<1>8. CASE TearsDown
  BY <1>0, <1>8 DEF TearsDown, Teardown, ClosePull, TearOn, Kind, DeleteNamespace,
     DeleteBranch, TornDown, NoTear, NoRow, OpenHasBranch, Hubs, CanReady
<1>9. CASE Boots
  BY <1>0, <1>9 DEF Boots, Crash, Reconciled, NoTear, Kind, AutoResume, PurgeOrphanWorkspaces,
     OpenHasBranch, Hubs, CanReady
<1>10. CASE UNCHANGED lifeVars
  BY <1>0, <1>10 DEF lifeVars, OpenHasBranch, Hubs, CanReady
<1>11. QED BY <1>1, <1>2, <1>3, <1>4, <1>5, <1>6, <1>7, <1>8, <1>9, <1>10, Steps

\* A purge that nothing disturbs stays alone.
LEMMA AloneKeeps ==
  ASSUME LifeTypeOK, PurgeAlone, Named, Counted, LifeStep
  PROVE  PurgeAlone'
<1> USE DEF Asks, Mishap, Chatty, SetTaskStatus, Saved, Begun, To, Ends, Fails, others, NoRun,
            NoAgent, Gone
<1>0. /\ row \in Rows /\ hub \in Hubs /\ run \in Runs /\ ship \in Shippings
      /\ tear \in [Kind -> Tearings] /\ bounds \in Bounds
  BY TypeIs DEF LifeTypes
<1>1. CASE Chat
  BY <1>0, <1>1 DEF Chat, ChatRevives, ChatSpecifies, ChatIterates, ChatInterrupts,
     ChatRestarts, PurgeAlone, Undisturbed, Named, Counted, Rows, Hubs, Runs, Shippings,
     Tearings, Bounds
<1>2. CASE Specs
  <2>1. CASE SpecArrives
    BY <1>0, <2>1 DEF SpecArrives, PurgeAlone, Undisturbed, Named, Counted, Rows, Hubs,
       Runs, Shippings, Tearings, Bounds
  <2>2. CASE SpecFails
    BY <1>0, <2>2 DEF SpecFails, PurgeAlone, Undisturbed, Named, Counted, Rows, Hubs, Runs,
       Shippings, Tearings, Bounds
  <2>3. CASE EditSpec
    BY <1>0, <2>3 DEF EditSpec, PurgeAlone, Undisturbed, Named, Counted, Rows, Hubs, Runs,
       Shippings, Tearings, Bounds
  <2>4. CASE ApproveSpec
    BY <1>0, <2>4 DEF ApproveSpec, PurgeAlone, Undisturbed, Named, Counted, Rows, Hubs,
       Runs, Shippings, Tearings, Bounds
  <2>5. CASE Revived
    <3>1. ~(Undisturbed /\ bounds' = bounds)
      BY <2>5 DEF Revived, PurgeAlone
    <3>2. UNCHANGED tear /\ (UNCHANGED bounds \/ Mishap)
      BY <2>5 DEF Revived
    <3>3. QED BY <1>0, <3>1, <3>2 DEF PurgeAlone, Undisturbed, Counted, Bounds, Tearings, Kind
  <2>6. QED BY <1>2, <2>1, <2>2, <2>3, <2>4, <2>5 DEF Specs
<1>3. CASE GoesOn
  BY <1>0, <1>3 DEF GoesOn, NameBranch, ReserveBranch, Checkpoint, Resurrect, Drain, TurnEnds,
     PushCommit, BuildImage, Deploy, OpenDraft, PurgeAlone, Undisturbed, Named, Counted, Rows,
     Hubs, Runs, Shippings, Tearings, Bounds
<1>4. CASE EndsRun
  BY <1>0, <1>4 DEF EndsRun, RunStumbles, RunFails, ResurrectFails, NothingChanged,
     DeployFails, Validated, PurgeAlone, Undisturbed, Named, Counted, Rows, Hubs, Runs,
     Shippings, Tearings, Bounds
<1>5. CASE Ships
  BY <1>0, <1>5 DEF Ships, Ship, ShipFails, PullReady, ChecksPass, MergePull, CanMerge,
     Shipped, PurgeAlone, Undisturbed, Named, Counted, Rows, Hubs, Runs, Shippings, Tearings,
     Bounds
<1>6. CASE Closes
  BY <1>0, <1>6 DEF Closes, Close, CloseEnv, Closed, Cancel, PurgeAlone, Undisturbed, Named,
     Counted, Rows, Hubs, Runs, Shippings, Tearings, Bounds
<1>7. CASE Purges
  <2>1. CASE Discard
    BY <1>0, <2>1 DEF Discard, Torn, Kind, PurgeAlone, Undisturbed, Named, Counted, Rows,
       Hubs, Runs, Shippings, Tearings, Bounds
  <2>2. CASE Delete
    BY <1>0, <2>2 DEF Delete, Purge, Torn, Kind, PurgeAlone, Undisturbed, Named, Counted,
       Rows, Hubs, Runs, Shippings, Tearings, Bounds
  <2>3. CASE Sweep
    BY <1>0, <2>3 DEF Sweep, Purge, Torn, Kind, PurgeAlone, Undisturbed, Named, Counted,
       Rows, Hubs, Runs, Shippings, Tearings, Bounds
  <2>4. QED BY <1>7, <2>1, <2>2, <2>3 DEF Purges
<1>8. CASE TearsDown
  <2>1. ASSUME NEW k \in Kind, ClosePull(k) PROVE PurgeAlone'
    BY <1>0, <2>1 DEF ClosePull, TearOn, Kind, PurgeAlone, Undisturbed, Named, Counted,
       Rows, Hubs, Runs, Shippings, Tearings, Bounds
  <2>2. ASSUME NEW k \in Kind, DeleteNamespace(k) PROVE PurgeAlone'
    BY <1>0, <2>2 DEF DeleteNamespace, TearOn, Kind, PurgeAlone, Undisturbed, Named,
       Counted, Rows, Hubs, Runs, Shippings, Tearings, Bounds
  <2>3. ASSUME NEW k \in Kind, DeleteBranch(k) PROVE PurgeAlone'
    <3>1. \/ tear[k].branch /\ hub'.head = 0 /\ UNCHANGED bounds
          \/ ~tear[k].branch /\ UNCHANGED <<hub, bounds>>
          \/ Mishap /\ UNCHANGED hub
      BY <1>0, <2>3 DEF DeleteBranch, Hubs
    <3>2. /\ tear' = [tear EXCEPT ![k].at = "disk"] /\ tear[k].at = "branch"
          /\ UNCHANGED <<row, run, gen, revive, ship, closing, boot>>
      BY <2>3 DEF DeleteBranch, TearOn
    <3>3. QED BY <1>0, <3>1, <3>2 DEF PurgeAlone, Undisturbed, Counted, Kind, Tearings, Bounds, Hubs
  <2>4. ASSUME NEW k \in Kind, TornDown(k) PROVE PurgeAlone'
    BY <1>0, <2>4 DEF TornDown, NoTear, NoRow, Kind, PurgeAlone, Undisturbed, Named,
       Counted, Rows, Hubs, Runs, Shippings, Tearings, Bounds
  <2>5. QED BY <1>8, <2>1, <2>2, <2>3, <2>4 DEF TearsDown, Teardown
<1>9. CASE Boots
  <2>1. CASE Crash
    BY <1>0, <2>1 DEF Crash, Reconciled, NoTear, Kind, PurgeAlone, Undisturbed, Named,
       Counted, Rows, Hubs, Runs, Shippings, Tearings, Bounds
  <2>2. CASE AutoResume
    BY <1>0, <2>2 DEF AutoResume, PurgeAlone, Undisturbed, Named, Counted, Rows, Hubs, Runs,
       Shippings, Tearings, Bounds
  <2>3. CASE PurgeOrphanWorkspaces
    BY <1>0, <2>3 DEF PurgeOrphanWorkspaces, PurgeAlone, Undisturbed, Named, Counted, Rows,
       Hubs, Runs, Shippings, Tearings, Bounds
  <2>4. QED BY <1>9, <2>1, <2>2, <2>3 DEF Boots
<1>10. CASE UNCHANGED lifeVars
  BY <1>0, <1>10 DEF lifeVars, PurgeAlone, Undisturbed, Named, Counted, Rows, Hubs, Runs,
     Shippings, Tearings, Bounds
<1>11. QED BY <1>1, <1>2, <1>3, <1>4, <1>5, <1>6, <1>7, <1>8, <1>9, <1>10, Steps
\* A request or a failure is counted, and so is a process death; nothing else is.
LEMMA WhoCounts ==
  ASSUME LifeStep
  PROVE  \/ UNCHANGED bounds \/ Asks \/ Mishap
         \/ /\ bounds.crashes < MaxCrash
            /\ bounds' = [bounds EXCEPT !.crashes = @ + 1]
<1> USE DEF Chatty, others
<1>1. CASE Chat
  BY <1>1 DEF Chat, ChatRevives, ChatSpecifies, ChatIterates, ChatInterrupts, ChatRestarts
<1>2. CASE Specs
  BY <1>2 DEF Specs, SpecArrives, SpecFails, EditSpec, ApproveSpec, Revived
<1>3. CASE GoesOn
  BY <1>3 DEF GoesOn, NameBranch, ReserveBranch, Checkpoint, Resurrect, Drain, TurnEnds,
     PushCommit, BuildImage, Deploy, OpenDraft
<1>4. CASE EndsRun
  BY <1>4 DEF EndsRun, RunStumbles, RunFails, ResurrectFails, NothingChanged, DeployFails,
     Validated
<1>5. CASE Ships
  BY <1>5 DEF Ships, Ship, ShipFails, PullReady, ChecksPass, MergePull, Shipped
<1>6. CASE Closes
  BY <1>6 DEF Closes, Close, CloseEnv, Closed, Cancel
<1>7. CASE Purges
  BY <1>7 DEF Purges, Discard, Delete, Sweep, Purge
<1>8. CASE TearsDown
  BY <1>8 DEF TearsDown, Teardown, ClosePull, DeleteNamespace, DeleteBranch, TornDown, TearOn
<1>9. CASE Boots
  BY <1>9 DEF Boots, Crash, AutoResume, PurgeOrphanWorkspaces
<1>10. CASE UNCHANGED lifeVars
  BY <1>10 DEF lifeVars
<1>11. QED BY <1>1, <1>2, <1>3, <1>4, <1>5, <1>6, <1>7, <1>8, <1>9, <1>10, Steps

\* A chat that waits was asked for.
LEMMA WhoRevives ==
  ASSUME LifeStep
  PROVE  \/ UNCHANGED revive
         \/ revive' = revive + 1 /\ Asks
         \/ revive > 0 /\ revive' = revive - 1
         \/ revive' = 0
<1> USE DEF Chatty, others
<1>1. CASE Chat
  BY <1>1 DEF Chat, ChatRevives, ChatSpecifies, ChatIterates, ChatInterrupts, ChatRestarts
<1>2. CASE Specs
  BY <1>2 DEF Specs, SpecArrives, SpecFails, EditSpec, ApproveSpec, Revived
<1>3. CASE GoesOn
  BY <1>3 DEF GoesOn, NameBranch, ReserveBranch, Checkpoint, Resurrect, Drain, TurnEnds,
     PushCommit, BuildImage, Deploy, OpenDraft
<1>4. CASE EndsRun
  <2>1. CASE RunStumbles
    BY <2>1 DEF RunStumbles, Fails
  <2>2. CASE RunFails
    BY <2>2 DEF RunFails, Fails
  <2>3. CASE ResurrectFails
    BY <2>3 DEF ResurrectFails, Fails
  <2>4. CASE NothingChanged
    BY <2>4 DEF NothingChanged, Fails
  <2>5. CASE DeployFails
    BY <2>5 DEF DeployFails
  <2>6. CASE Validated
    BY <2>6 DEF Validated
  <2>7. QED BY <1>4, <2>1, <2>2, <2>3, <2>4, <2>5, <2>6 DEF EndsRun
<1>5. CASE Ships
  BY <1>5 DEF Ships, Ship, ShipFails, PullReady, ChecksPass, MergePull, Shipped
<1>6. CASE Closes
  BY <1>6 DEF Closes, Close, CloseEnv, Closed, Cancel
<1>7. CASE Purges
  BY <1>7 DEF Purges, Discard, Delete, Sweep, Purge
<1>8. CASE TearsDown
  BY <1>8 DEF TearsDown, Teardown, ClosePull, DeleteNamespace, DeleteBranch, TornDown, TearOn
<1>9. CASE Boots
  BY <1>9 DEF Boots, Crash, AutoResume, PurgeOrphanWorkspaces
<1>10. CASE UNCHANGED lifeVars
  BY <1>10 DEF lifeVars
<1>11. QED BY <1>1, <1>2, <1>3, <1>4, <1>5, <1>6, <1>7, <1>8, <1>9, <1>10, Steps

\* A purge notes when it begins.
LEMMA WhoPurges ==
  ASSUME LifeTypeOK, LifeStep
  PROVE  tear'["purge"].since \in {0, tear["purge"].since, bounds.asks + bounds.mishaps}
<1> USE DEF Chatty, others
<1>0. tear \in [Kind -> Tearings]
  BY TypeIs DEF LifeTypes
<1>1. CASE Chat
  BY <1>0, <1>1 DEF Chat, ChatRevives, ChatSpecifies, ChatIterates, ChatInterrupts,
     ChatRestarts, Kind, NoTear, Torn, Asks
<1>2. CASE Specs
  BY <1>0, <1>2 DEF Specs, SpecArrives, SpecFails, EditSpec, ApproveSpec, Revived, Kind,
     NoTear, Torn, Asks
<1>3. CASE GoesOn
  BY <1>0, <1>3 DEF GoesOn, NameBranch, ReserveBranch, Checkpoint, Resurrect, Drain, TurnEnds,
     PushCommit, BuildImage, Deploy, OpenDraft, Kind, NoTear, Torn, Asks
<1>4. CASE EndsRun
  <2>1. CASE RunStumbles
    BY <1>0, <2>1 DEF RunStumbles, Fails
  <2>2. CASE RunFails
    BY <1>0, <2>2 DEF RunFails, Fails
  <2>3. CASE ResurrectFails
    BY <1>0, <2>3 DEF ResurrectFails, Fails
  <2>4. CASE NothingChanged
    BY <1>0, <2>4 DEF NothingChanged, Fails
  <2>5. CASE DeployFails
    BY <1>0, <2>5 DEF DeployFails
  <2>6. CASE Validated
    BY <1>0, <2>6 DEF Validated
  <2>7. QED BY <1>4, <2>1, <2>2, <2>3, <2>4, <2>5, <2>6 DEF EndsRun
<1>5. CASE Ships
  BY <1>0, <1>5 DEF Ships, Ship, ShipFails, PullReady, ChecksPass, MergePull, Shipped, Kind,
     NoTear, Torn, Asks
<1>6. CASE Closes
  BY <1>0, <1>6 DEF Closes, Close, CloseEnv, Closed, Cancel, Kind, NoTear, Torn, Asks
<1>7. CASE Purges
  BY <1>0, <1>7 DEF Purges, Discard, Delete, Sweep, Purge, Kind, NoTear, Torn, Asks
<1>8. CASE TearsDown
  <2>1. ASSUME NEW k \in Kind, ClosePull(k)
        PROVE  tear'["purge"].since \in {0, tear["purge"].since, bounds.asks + bounds.mishaps}
    BY <1>0, <2>1 DEF ClosePull, TearOn, Kind
  <2>2. ASSUME NEW k \in Kind, DeleteNamespace(k)
        PROVE  tear'["purge"].since \in {0, tear["purge"].since, bounds.asks + bounds.mishaps}
    BY <1>0, <2>2 DEF DeleteNamespace, TearOn, Kind
  <2>3. ASSUME NEW k \in Kind, DeleteBranch(k)
        PROVE  tear'["purge"].since \in {0, tear["purge"].since, bounds.asks + bounds.mishaps}
    BY <1>0, <2>3 DEF DeleteBranch, TearOn, Kind
  <2>4. ASSUME NEW k \in Kind, TornDown(k)
        PROVE  tear'["purge"].since \in {0, tear["purge"].since, bounds.asks + bounds.mishaps}
    BY <1>0, <2>4 DEF TornDown, NoTear, TearOn, Kind
  <2>5. QED BY <1>8, <2>1, <2>2, <2>3, <2>4 DEF TearsDown, Teardown
<1>9. CASE Boots
  BY <1>0, <1>9 DEF Boots, Crash, AutoResume, PurgeOrphanWorkspaces, Kind, NoTear, Torn, Asks
<1>10. CASE UNCHANGED lifeVars
  BY <1>10 DEF lifeVars
<1>11. QED BY <1>1, <1>2, <1>3, <1>4, <1>5, <1>6, <1>7, <1>8, <1>9, <1>10, Steps

\* The counts stay in their bounds, and so does what they bound.
LEMMA CountsKeep ==
  ASSUME LifeTypeOK, Counted, LifeStep
  PROVE  bounds' \in Bounds /\ revive' \in 0..MaxAsk /\ Counted'
<1>0. bounds \in Bounds /\ revive \in 0..MaxAsk /\ tear["purge"].since \in Nat
  BY TypeIs DEF LifeTypes, Tearings, Kind
<1>1. /\ bounds.asks \in 0..MaxAsk /\ bounds.mishaps \in 0..MaxMishap
      /\ bounds.crashes \in 0..MaxCrash
  BY <1>0 DEF Bounds
<1>2. /\ bounds' \in Bounds
      /\ bounds'.asks >= bounds.asks /\ bounds'.mishaps >= bounds.mishaps
      /\ Asks => bounds'.asks = bounds.asks + 1
  <2>1. CASE UNCHANGED bounds
    BY <1>0, <1>1, <2>1, LifeAssumption DEF Asks, Bounds
  <2>2. CASE Asks
    BY <1>0, <1>1, <2>2, LifeAssumption DEF Asks, Bounds
  <2>3. CASE Mishap
    BY <1>0, <1>1, <2>3, LifeAssumption DEF Asks, Mishap, Bounds
  <2>4. CASE bounds.crashes < MaxCrash /\ bounds' = [bounds EXCEPT !.crashes = @ + 1]
    BY <1>0, <1>1, <2>4, LifeAssumption DEF Asks, Bounds
  <2>5. QED BY <2>1, <2>2, <2>3, <2>4, WhoCounts
<1>3. /\ bounds'.asks \in 0..MaxAsk /\ bounds'.mishaps \in 0..MaxMishap
  BY <1>2 DEF Bounds
<1>4. revive' \in 0..MaxAsk /\ revive' <= bounds'.asks
  BY <1>0, <1>1, <1>2, <1>3, WhoRevives, LifeAssumption DEF Counted
<1>5. tear'["purge"].since <= bounds'.asks + bounds'.mishaps
  BY <1>0, <1>1, <1>2, <1>3, WhoPurges, LifeAssumption DEF Counted
<1>6. QED BY <1>2, <1>4, <1>5 DEF Counted

-----------------------------------------------------------------------------
(* The invariant *)

\* A new task, or one that was built before.
LEMMA InitLife == LifeInit => LifeIInv
<1> SUFFICES ASSUME LifeInit PROVE LifeIInv
  OBVIOUS
<1> USE DEF LifeInit
<1>1. LifeTypes
  <2>1. row \in Rows
    <3>1. Fresh \in Rows /\ Built \in Rows
      BY DEF Rows, Status, Fresh, Built, NoRow
    <3>2. QED BY <3>1
  <2>2. hub \in Hubs /\ ship \in Shippings
    BY DEF Hubs, Shippings
  <2>3. run \in Runs /\ agent \in Agents
    BY LifeAssumption DEF Runs, Agents, NoRun, Start, NoAgent
  <2>4. tear \in [Kind -> Tearings] /\ boot \in Pending
    BY DEF Tearings, NoTear, Pending
  <2>5. bounds \in Bounds /\ revive \in 0..MaxAsk
    BY LifeAssumption DEF Bounds
  <2>6. QED BY <2>1, <2>2, <2>3, <2>4, <2>5 DEF LifeTypes
<1>2. LifeInv
  BY <1>1, TypeIs DEF LifeInv, InProgressIsWorked, Fresh, Built, NoRow
<1>3. MergedWasVerified /\ AtMerge /\ Named /\ OpenHasBranch
  BY DEF MergedWasVerified, AtMerge, Named, OpenHasBranch, Gone, Fresh, Built, NoRow, NoRun, Start
<1>4. PurgeAlone /\ Counted
  BY DEF PurgeAlone, Undisturbed, Counted, NoTear, Kind
<1>5. QED BY <1>2, <1>3, <1>4 DEF LifeIInv

\* Every step keeps it.
LEMMA LifeKeeps == LifeIInv /\ [LifeNext]_lifeVars => LifeIInv'
<1> SUFFICES ASSUME LifeIInv, LifeStep PROVE LifeIInv'
  BY DEF LifeStep
<1> USE DEF LifeIInv, LifeInv
<1>1. LifeTypes'
  BY RowKeeps, HubKeeps, RunKeeps, TearKeeps, FlagsKeep, CountsKeep DEF LifeTypes
<1>2. LifeTypeOK'
  BY <1>1, TypeIs, PTL
<1>3. LifeInv'
  BY <1>2, WorkedKeeps
<1>4. (MergedWasVerified /\ AtMerge /\ Named /\ OpenHasBranch)'
  BY MergedKeeps, NamedKeeps, OpenKeeps
<1>5. (PurgeAlone /\ Counted)'
  BY AloneKeeps, CountsKeep
<1>6. QED BY <1>3, <1>4, <1>5

\* The invariant holds in every reachable state.
THEOREM LifeInvariant == LifeSpec => []LifeIInv
<1>1. LifeIInv /\ [LifeNext]_lifeVars => LifeIInv'
  BY LifeKeeps
<1>2. QED BY InitLife, <1>1, PTL DEF LifeSpec

\* A row that says it is building, deploying, shipping or specifying has
\* somebody at it, or a specification to approve, across every overlap of
\* runs, ships, chats and restarts.
THEOREM LifeCorrect == LifeSpec => []LifeInv
<1>1. LifeIInv => LifeInv
  BY DEF LifeIInv
<1>2. QED BY LifeInvariant, <1>1, PTL

\* shipTask merges at a head only after it saw that head's checks pass,
\* whatever is pushed while it waits.
THEOREM ShipMergesVerified == LifeSpec => []MergedWasVerified
<1>1. LifeIInv => MergedWasVerified
  BY DEF LifeIInv
<1>2. QED BY LifeInvariant, <1>1, PTL

\* Only the end of a purge takes a task's row away.
LEMMA WhoDeletes ==
  ASSUME LifeTypeOK, LifeStep, ~Gone, Gone'
  PROVE  TornDown("purge")
<1> USE DEF SetTaskStatus, Saved, Ends, Fails, others, To, Gone
<1>0. row \in Rows
  BY TypeIs DEF LifeTypes
<1>1. CASE Chat
  BY <1>0, <1>1 DEF Chat, ChatRevives, ChatSpecifies, ChatIterates, ChatInterrupts,
     ChatRestarts, Rows
<1>2. CASE Specs
  BY <1>0, <1>2 DEF Specs, SpecArrives, SpecFails, EditSpec, ApproveSpec, Revived, Rows
<1>3. CASE GoesOn
  BY <1>0, <1>3 DEF GoesOn, NameBranch, ReserveBranch, Checkpoint, Resurrect, Drain, TurnEnds,
     PushCommit, BuildImage, Deploy, OpenDraft, Rows
<1>4. CASE EndsRun
  BY <1>0, <1>4 DEF EndsRun, RunStumbles, RunFails, ResurrectFails, NothingChanged,
     DeployFails, Validated, Rows
<1>5. CASE Ships
  BY <1>0, <1>5 DEF Ships, Ship, ShipFails, PullReady, ChecksPass, MergePull, Shipped, Rows
<1>6. CASE Closes
  BY <1>0, <1>6 DEF Closes, Close, CloseEnv, Closed, Cancel, Rows
<1>7. CASE Purges
  BY <1>0, <1>7 DEF Purges, Discard, Delete, Purge, Sweep, Rows
<1>8. CASE TearsDown
  BY <1>0, <1>8 DEF TearsDown, Teardown, ClosePull, DeleteNamespace, DeleteBranch, TornDown,
     Kind, Rows
<1>9. CASE Boots
  BY <1>0, <1>9 DEF Boots, Crash, Reconciled, AutoResume, PurgeOrphanWorkspaces, Rows
<1>10. CASE UNCHANGED lifeVars
  BY <1>10 DEF lifeVars
<1>11. QED BY <1>1, <1>2, <1>3, <1>4, <1>5, <1>6, <1>7, <1>8, <1>9, <1>10, Steps

\* A purge nobody disturbs ends with no branch and no workspace.
LEMMA PurgeLeavesNothing ==
  LifeIInv /\ [LifeNext]_lifeVars =>
    [~Gone /\ Gone' /\ tear["purge"].alone /\ tear["purge"].since = bounds.asks + bounds.mishaps
       => hub'.head = 0 /\ hub'.pull \notin {"draft", "ready"} /\ ~disk']_lifeVars
<1> SUFFICES ASSUME LifeIInv, LifeStep, ~Gone, Gone', tear["purge"].alone,
                    tear["purge"].since = bounds.asks + bounds.mishaps
             PROVE  hub'.head = 0 /\ hub'.pull \notin {"draft", "ready"} /\ ~disk'
  BY DEF LifeStep
<1>1. TornDown("purge")
  BY WhoDeletes DEF LifeIInv, LifeInv
<1>2. UNCHANGED hub /\ disk' = FALSE /\ tear["purge"].at = "disk"
  BY <1>1 DEF TornDown
<1>3. hub.head = 0
  BY <1>2 DEF LifeIInv, PurgeAlone, Undisturbed
<1>4. QED BY <1>2, <1>3 DEF LifeIInv, OpenHasBranch

\* DELETE of a task on which nothing else is at work, and which no request and
\* no failing call meets, leaves no branch, no open pull request and no
\* workspace, however far an earlier build came and wherever a restart broke
\* it off.
THEOREM DeleteLeavesNothing == LifeSpec => DeletedLeavesNothing
<1>1. LifeIInv /\ [LifeNext]_lifeVars =>
        [~Gone /\ Gone' /\ tear["purge"].alone
           /\ tear["purge"].since = bounds.asks + bounds.mishaps
           => hub'.head = 0 /\ hub'.pull \notin {"draft", "ready"} /\ ~disk']_lifeVars
  BY PurgeLeavesNothing
<1>2. QED BY LifeInvariant, <1>1, PTL DEF LifeSpec, DeletedLeavesNothing
=============================================================================
