---------------------------- MODULE CampaignStore ----------------------------
(***************************************************************************)
(* The three SQLite rows an autonomous campaign is steered by: the         *)
(* campaign (control status and coordinator lease), its cycles (one per    *)
(* feature) and, for each cycle, the latest bounded attempt.  One action   *)
(* per database transaction that writes them:                              *)
(*   stores/autonomous-campaign-store.ts, the lease and delivery writes    *)
(*   engine/autonomous-campaign-control.ts, the operator's buttons         *)
(*   engine/autonomous-campaign-attempt-manager.ts, attempts and retries   *)
(*   engine/autonomous-campaign-proposal.ts, the accepted proposal         *)
(* A transaction is synchronous and runs under BEGIN IMMEDIATE, so it is   *)
(* one step.  Any owner may call any of them at any time here; which       *)
(* calls the coordinator and a task run really issue is in Campaign.tla.   *)
(*                                                                         *)
(* Clock readings are abstracted to what the code compares them with: a    *)
(* lease is absent, live or expired, a timer is unset, still running or due.   *)
(***************************************************************************)
EXTENDS Naturals

CONSTANTS
  Owner,      \* lease owners: the HOSTNAME of a pod
  NoOwner,    \* lease_owner IS NULL
  Commit,     \* merge commits
  NoCommit,   \* merge_sha IS NULL
  MaxCycle,   \* bound: features of the campaign
  MaxAttempt  \* bound: attempts of one cycle

ASSUME OwnerAssumption == NoOwner \notin Owner
ASSUME CommitAssumption == NoCommit \notin Commit
ASSUME BoundAssumption == MaxCycle \in Nat \ {0} /\ MaxAttempt \in Nat \ {0}

VARIABLES
  campaign,   \* the row of autonomous_campaigns
  cycle,      \* the rows of autonomous_cycles, by sequence
  attempt     \* the latest row of autonomous_attempts of each cycle

storeVars == <<campaign, cycle, attempt>>

Cycles == 1..MaxCycle

\* The statuses a pause can come from and a resume go back to.
LiveStatus == {"proposing", "delivering", "waiting_for_external", "retry_wait",
               "ready_to_release", "releasing", "cooldown"}
CycleStatus == LiveStatus \cup {"none", "paused", "succeeded", "stopped"}

NoCycle == [status |-> "none", from |-> "none", proposal |-> "none",
            task |-> "none", gates |-> "none", merge |-> NoCommit,
            timer |-> "unset"]
NewCycle == [NoCycle EXCEPT !.status = "proposing"]
NoAttempt == [n |-> 0, status |-> "none", clock |-> "off"]
NewAttempt(k) == [n |-> k, status |-> "running", clock |-> "on"]

StoreInit ==
  /\ campaign = [status |-> "draft", owner |-> NoOwner, lease |-> "none",
                 current |-> 0, next |-> 1]
  /\ cycle = [c \in Cycles |-> NoCycle]
  /\ attempt = [c \in Cycles |-> NoAttempt]

-----------------------------------------------------------------------------
(* The current cycle and its latest attempt; writes to them.               *)

cur == campaign.current
HasCycle == cur # 0
HasAttempt == HasCycle /\ attempt[cur].n # 0

SetCycle(row) == cycle' = [cycle EXCEPT ![cur] = row]
SetAttempt(row) == attempt' = [attempt EXCEPT ![cur] = row]

\* closeActiveElapsed: only a running attempt's stopwatch is closed.
Closed(a) == [a EXCEPT !.clock = IF a.status = "running" THEN "off" ELSE @]

(* The lease *)

\* assertActiveLeaseOwner, assertOwnedLease: o holds an unexpired lease.
LeasedTo(o) == campaign.lease = "live" /\ campaign.owner = o

\* assertLeaseOwner: nobody else holds an unexpired lease.
LeaseFree(o) == campaign.lease = "live" => campaign.owner = o

Leased(o) == [campaign EXCEPT !.owner = o, !.lease = "live"]

ClaimLease(o) ==
  /\ campaign.status # "stopped"
  /\ LeaseFree(o)
  /\ campaign' = Leased(o)
  /\ UNCHANGED <<cycle, attempt>>

LeaseExpires ==
  /\ campaign.lease = "live"
  /\ campaign' = [campaign EXCEPT !.lease = "expired"]
  /\ UNCHANGED <<cycle, attempt>>

\* The time in next_retry_at, the retry's or the cooldown's, has come.
TimerElapses ==
  /\ HasCycle
  /\ cycle[cur].timer = "later"
  /\ SetCycle([cycle[cur] EXCEPT !.timer = "due"])
  /\ UNCHANGED <<campaign, attempt>>

-----------------------------------------------------------------------------
(* The operator.  Once the cycle has an attempt, pause, resume and stop    *)
(* claim the lease and go through the attempt manager; before that they    *)
(* write the rows whatever the lease.                                      *)

StartCampaign ==
  /\ campaign.status = "draft"
  /\ campaign' = [campaign EXCEPT !.status = "running", !.current = campaign.next,
                                  !.next = @ + 1]
  /\ cycle' = [cycle EXCEPT ![campaign.next] = NewCycle]
  /\ UNCHANGED attempt

Pausable == cycle[cur].status \notin {"stopped", "succeeded"}

PausedCycle == [cycle[cur] EXCEPT !.status = "paused", !.from = cycle[cur].status]
\* Mutant of ResumedCycle: whatever was paused, delivery goes on.
ResumedDelivering == [cycle[cur] EXCEPT !.status = "delivering", !.from = "none"]

ResumedCycle == [cycle[cur] EXCEPT !.status = cycle[cur].from, !.from = "none"]

PauseProposal ==
  /\ campaign.status = "running"
  /\ HasCycle /\ ~HasAttempt
  /\ Pausable
  /\ campaign' = [campaign EXCEPT !.status = "paused"]
  /\ SetCycle(PausedCycle)
  /\ UNCHANGED attempt

PauseAttempt(o) ==
  /\ campaign.status = "running"
  /\ HasAttempt
  /\ LeaseFree(o)
  /\ Pausable /\ cycle[cur].status # "paused"
  /\ campaign' = [Leased(o) EXCEPT !.status = "paused"]
  /\ SetCycle(PausedCycle)
  /\ SetAttempt(IF attempt[cur].status = "running"
                THEN [attempt[cur] EXCEPT !.status = "paused", !.clock = "off"]
                ELSE attempt[cur])

ResumeProposal ==
  /\ campaign.status = "paused"
  /\ HasCycle /\ ~HasAttempt
  /\ cycle[cur].status = "paused"
  /\ campaign' = [campaign EXCEPT !.status = "running"]
  /\ SetCycle(ResumedCycle)
  /\ UNCHANGED attempt

ResumeAttempt(o) ==
  /\ campaign.status = "paused"
  /\ HasAttempt
  /\ LeaseFree(o)
  /\ cycle[cur].status = "paused"
  /\ campaign' = [Leased(o) EXCEPT !.status = "running"]
  /\ SetCycle(ResumedCycle)
  /\ SetAttempt(IF attempt[cur].status = "paused"
                THEN [attempt[cur] EXCEPT
                        !.status = "running",
                        !.clock = IF cycle[cur].from = "waiting_for_external"
                                  THEN "off" ELSE "on"]
                ELSE attempt[cur])

\* transitionCampaign and the manager's stop both clear the lease.
StoppedCampaign == [campaign EXCEPT !.status = "stopped", !.owner = NoOwner,
                                    !.lease = "none"]

StopProposal ==
  /\ campaign.status # "stopped"
  /\ ~HasAttempt
  /\ campaign' = StoppedCampaign
  /\ IF HasCycle /\ Pausable
     THEN SetCycle([cycle[cur] EXCEPT !.status = "stopped"])
     ELSE UNCHANGED cycle
  /\ UNCHANGED attempt

StopAttempt(o) ==
  /\ campaign.status # "stopped"
  /\ HasAttempt
  /\ LeaseFree(o)
  /\ campaign' = StoppedCampaign
  /\ SetCycle([cycle[cur] EXCEPT !.status = "stopped", !.timer = "unset"])
  /\ SetAttempt([attempt[cur] EXCEPT !.status = "stopped", !.clock = "off"])

-----------------------------------------------------------------------------
(* Delivery: proposal, hand-off, reconciliation, release, next feature.    *)

\* persistProposalDecision, which does not look at the lease.
AcceptProposal ==
  /\ campaign.status = "running"
  /\ HasCycle
  /\ cycle[cur].status = "proposing" /\ cycle[cur].proposal = "none"
  /\ SetCycle([cycle[cur] EXCEPT !.proposal = "accepted"])
  /\ UNCHANGED <<campaign, attempt>>

\* Mutant of Update: a write by cycle id alone, under the lease.
UpdateById(o, seen, row) ==
  /\ LeasedTo(o) /\ HasCycle
  /\ SetCycle(row)
  /\ UNCHANGED <<campaign, attempt>>

\* updateCycleDelivery with expectedStatus = seen.
Update(o, seen, row) ==
  /\ LeasedTo(o)
  /\ campaign.status = "running"
  /\ HasCycle
  /\ cycle[cur].status = seen
  /\ SetCycle(row)
  /\ UNCHANGED <<campaign, attempt>>

\* The hand-off's write: the task is linked and the cycle is delivering.
LinkTask(o) ==
  \E seen \in {"proposing", "delivering"} :
    /\ HasCycle /\ cycle[cur].proposal = "accepted"
    /\ Update(o, seen, [cycle[cur] EXCEPT !.status = "delivering", !.task = "linked"])

\* createAttempt for a delivering cycle that has none.
CreateFirstAttempt(o) ==
  /\ LeaseFree(o)
  /\ HasCycle /\ ~HasAttempt
  /\ cycle[cur].status = "delivering"
  /\ SetAttempt(NewAttempt(1))
  /\ UNCHANGED <<campaign, cycle>>

\* The last write of reconcileDelivery.  runOnce has made sure of an attempt
\* by then, unless the cycle is still proposing.
ReconcileDelivery(o, seen, to) ==
  /\ seen \in {"proposing", "delivering"}
  /\ to = "delivering" \/ (to = "ready_to_release" /\ seen = "delivering" /\ HasAttempt)
  /\ HasCycle /\ cycle[cur].proposal = "accepted"
  /\ Update(o, seen, [cycle[cur] EXCEPT !.status = to, !.task = "linked"])

Release == {"ready_to_release", "releasing"}

\* The release cannot conclude yet.  It writes the release gates or keeps the
\* old ones (and with them revalidationRequired, "revalidate" here).
HoldRelease(o, seen, to, evaluated) ==
  /\ {seen, to} \subseteq Release
  /\ Update(o, seen, [cycle[cur] EXCEPT !.status = to,
                                        !.gates = IF evaluated THEN "evaluated" ELSE @])

\* The accepted head is not the head of the pull request any more.
InvalidateRelease(o, seen, evaluated) ==
  /\ seen \in Release
  /\ Update(o, seen, [cycle[cur] EXCEPT !.status = "delivering",
                                        !.gates = IF evaluated THEN "revalidate" ELSE @])

RecordMerge(o, seen, h) ==
  /\ seen \in Release
  /\ Update(o, seen, [cycle[cur] EXCEPT !.status = "releasing", !.merge = h,
                                        !.gates = "evaluated"])

\* Mutant of ConfirmMerge: the merge commit is left to RecordMerge.
ConfirmWithoutMerge(o, seen, h) ==
  seen \in Release /\ Update(o, seen, [cycle[cur] EXCEPT !.status = "cooldown",
                                                       !.timer = "later"])

\* confirmMergedCycle found the merge commit on the base branch.
ConfirmMerge(o, seen, h) ==
  /\ seen \in Release
  /\ Update(o, seen, [cycle[cur] EXCEPT !.status = "cooldown", !.merge = h,
                                        !.timer = "later"])

\* Mutant of AdvanceAfterCooldown: the cycle that landed is not closed.
AdvanceUnclosed(o) ==
  /\ campaign.next <= MaxCycle /\ LeasedTo(o) /\ HasCycle
  /\ cycle[cur].status = "cooldown" /\ cycle[cur].timer = "due"
  /\ cycle' = [cycle EXCEPT ![campaign.next] = NewCycle]
  /\ campaign' = [campaign EXCEPT !.current = campaign.next, !.next = @ + 1]
  /\ UNCHANGED attempt

\* advanceCampaignAfterCooldown looks at the lease, not at the campaign's status.
AdvanceAfterCooldown(o) ==
  /\ campaign.next <= MaxCycle
  /\ LeasedTo(o)
  /\ HasCycle
  /\ cycle[cur].status = "cooldown" /\ cycle[cur].merge # NoCommit
  /\ cycle[cur].timer = "due"
  /\ cycle' = [cycle EXCEPT ![cur].status = "succeeded",
                            ![campaign.next] = NewCycle]
  /\ campaign' = [campaign EXCEPT !.current = campaign.next, !.next = @ + 1]
  /\ UNCHANGED attempt

-----------------------------------------------------------------------------
(* The attempt manager on behalf of a task run or the coordinator.         *)

Failable(o) ==
  /\ HasAttempt
  /\ LeasedTo(o)
  /\ campaign.status = "running"
  /\ attempt[cur].status = "running"
  /\ cycle[cur].status \in {"delivering", "waiting_for_external"}

\* Mutant of FailAttempt: no time is set for the retry.
FailWithoutTimer(o) ==
  /\ Failable(o)
  /\ SetAttempt([attempt[cur] EXCEPT !.status = "failed", !.clock = "off"])
  /\ SetCycle([cycle[cur] EXCEPT !.status = "retry_wait"])
  /\ UNCHANGED campaign

FailAttempt(o) ==
  /\ Failable(o)
  /\ SetAttempt([attempt[cur] EXCEPT !.status = "failed", !.clock = "off"])
  /\ SetCycle([cycle[cur] EXCEPT !.status = "retry_wait", !.timer = "later"])
  /\ UNCHANGED campaign

WaitForExternal(o) ==
  /\ HasAttempt
  /\ LeasedTo(o)
  /\ campaign.status = "running"
  /\ attempt[cur].status = "running"
  /\ cycle[cur].status = "delivering"
  /\ SetAttempt(Closed(attempt[cur]))
  /\ SetCycle([cycle[cur] EXCEPT !.status = "waiting_for_external"])
  /\ UNCHANGED campaign

ResumeExternalWait(o) ==
  /\ HasAttempt
  /\ LeasedTo(o)
  /\ campaign.status = "running"
  /\ attempt[cur].status = "running" /\ attempt[cur].clock = "off"
  /\ cycle[cur].status = "waiting_for_external"
  /\ SetAttempt([attempt[cur] EXCEPT !.clock = "on"])
  /\ SetCycle([cycle[cur] EXCEPT !.status = "delivering"])
  /\ UNCHANGED campaign

StartDueRetry(o) ==
  /\ HasAttempt
  /\ attempt[cur].n < MaxAttempt
  /\ LeasedTo(o)
  /\ campaign.status = "running"
  /\ cycle[cur].status = "retry_wait" /\ cycle[cur].timer = "due"
  /\ SetAttempt(NewAttempt(attempt[cur].n + 1))
  /\ SetCycle([cycle[cur] EXCEPT !.status = "delivering", !.timer = "unset"])
  /\ UNCHANGED campaign

-----------------------------------------------------------------------------

Control ==
  \/ StartCampaign \/ PauseProposal \/ ResumeProposal \/ StopProposal
  \/ \E o \in Owner : PauseAttempt(o) \/ ResumeAttempt(o) \/ StopAttempt(o)

Delivery(o) ==
  \/ LinkTask(o)
  \/ CreateFirstAttempt(o)
  \/ \E seen, to \in LiveStatus : ReconcileDelivery(o, seen, to)
  \/ \E seen, to \in Release, evaluated \in BOOLEAN : HoldRelease(o, seen, to, evaluated)
  \/ \E seen \in Release, evaluated \in BOOLEAN : InvalidateRelease(o, seen, evaluated)
  \/ \E seen \in Release, h \in Commit : RecordMerge(o, seen, h)
  \/ \E h \in Commit : ConfirmMerge(o, "releasing", h)
  \/ AdvanceAfterCooldown(o)

Attempts(o) ==
  FailAttempt(o) \/ WaitForExternal(o) \/ ResumeExternalWait(o) \/ StartDueRetry(o)

StoreNext ==
  \/ Control
  \/ AcceptProposal
  \/ LeaseExpires
  \/ TimerElapses
  \/ \E o \in Owner : ClaimLease(o) \/ Delivery(o) \/ Attempts(o)

StoreSpec == StoreInit /\ [][StoreNext]_storeVars

-----------------------------------------------------------------------------
(* Properties *)

CampaignRow ==
  [status : {"draft", "running", "paused", "stopped"}, owner : Owner \cup {NoOwner},
   lease : {"none", "live", "expired"}, current : 0..MaxCycle, next : 1..(MaxCycle + 1)]
CycleRow ==
  [status : CycleStatus, from : LiveStatus \cup {"none"},
   proposal : {"none", "accepted"}, task : {"none", "linked"},
   gates : {"none", "evaluated", "revalidate"}, merge : Commit \cup {NoCommit},
   timer : {"unset", "later", "due"}]
AttemptRow ==
  [n : 0..MaxAttempt, status : {"none", "running", "paused", "failed", "stopped"},
   clock : {"on", "off"}]

\* Type invariant.  The rows hold only values their writers put there.
StoreTypeOK ==
  /\ campaign \in CampaignRow
  /\ cycle \in [Cycles -> CycleRow]
  /\ attempt \in [Cycles -> AttemptRow]

\* What the current cycle is, or was before the campaign was paused.
Resting == IF cycle[cur].status = "paused" THEN cycle[cur].from ELSE cycle[cur].status

\* Cycles are serial: every cycle before the current one has succeeded, none
\* after it exists, and the next sequence number is free.  The two UNIQUE
\* indexes of autonomous_cycles (one active cycle per campaign, no sequence
\* number twice) therefore never reject a write of startCampaign or of
\* advanceCampaignAfterCooldown.
SerialCycles ==
  /\ campaign.next = cur + 1
  /\ \A c \in Cycles : c < cur => cycle[c].status = "succeeded"
  /\ \A c \in Cycles : c > cur => cycle[c] = NoCycle /\ attempt[c] = NoAttempt

\* The status of the campaign and that of its current cycle are written by
\* different statements of two control paths, and by delivery writes that look
\* at one of the two; they never drift apart.
ControlAgrees ==
  /\ campaign.status = "draft" => ~HasCycle
  /\ campaign.status \in {"running", "paused"} => HasCycle
  /\ HasCycle =>
       /\ cycle[cur].status \in LiveStatus <=> campaign.status = "running"
       /\ cycle[cur].status = "paused" <=> campaign.status = "paused"
       /\ cycle[cur].status = "stopped" <=> campaign.status = "stopped"
       /\ campaign.status = "paused" => cycle[cur].from \in LiveStatus

\* The attempt is in the state the manager's guards expect of it, also across
\* pauses: otherwise evaluateBeforeAction, failAttempt or resumeExternalWait
\* would reject every later call and the cycle could never move again.
AttemptAgrees ==
  HasCycle /\ campaign.status \in {"running", "paused"} =>
    LET a == attempt[cur]
        alive == IF campaign.status = "running" THEN "running" ELSE "paused"
    IN  CASE Resting = "proposing"  -> a.n = 0
          [] Resting = "delivering" -> a.n = 0 \/ a.status = alive
          [] Resting = "retry_wait" -> a.n # 0 /\ a.status = "failed"
          [] Resting = "waiting_for_external" ->
               a.n # 0 /\ a.status = alive /\ a.clock = "off"
          [] OTHER -> a.n # 0 /\ a.status = alive

\* Campaign, cycle and attempt, three tables that different calls write in
\* different orders, never contradict each other.
StatusesAgree == ControlAgrees /\ AttemptAgrees

\* A cycle that waits for a point in time has one: next_retry_at survives
\* pauses, and neither a retry nor the next feature waits for ever.
TimersArmed ==
  HasCycle /\ campaign.status \in {"running", "paused"}
           /\ Resting \in {"retry_wait", "cooldown"} => cycle[cur].timer # "unset"

\* A feature is left behind, or cools down, only with its merge commit recorded.
LandedIsMerged ==
  /\ \A c \in Cycles : cycle[c].status = "succeeded" => cycle[c].merge # NoCommit
  /\ HasCycle /\ campaign.status \in {"running", "paused"} /\ Resting = "cooldown" =>
       cycle[cur].merge # NoCommit

\* How far the current feature is, in the words of SerialDelivery.
Stage ==
  IF ~HasCycle \/ campaign.status = "stopped" THEN "none"
  ELSE IF Resting = "proposing" THEN "proposing"
  ELSE IF Resting = "cooldown" THEN "landed"
  ELSE "delivering"

Delivered == {c \in Cycles : cycle[c].status = "succeeded"}

Serial == INSTANCE SerialDelivery
            WITH mode <- campaign.status, feature <- cur,
                 stage <- Stage, done <- Delivered

\* Retries, waits, releases, invalidated releases, pauses and resumes, and two
\* owners that take the lease from each other, together look like a campaign
\* that delivers one feature after the other and loses nothing on a pause.
DeliversSerially == Serial!Spec

=============================================================================
