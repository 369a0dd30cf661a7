---------------------------- MODULE CampaignProofs ----------------------------
(***************************************************************************)
(* Proofs about CampaignStore for any owners, merge commits, features and  *)
(* attempts, and about Campaign for any pods, bounds and set of faults:    *)
(* its rows keep their types, every one of its steps is a transaction of   *)
(* CampaignStore or leaves the store alone, only heads a reviewer accepted *)
(* are ever sent to be merged, and what lands had been accepted and is     *)
(* what GitHub merged.                                                     *)
(*                                                                         *)
(* The inductive invariant says of each cycle that an accepted review is   *)
(* about a head the history knows as accepted and that whoever builds,     *)
(* reviews or revalidates has a commit to work on (RowsOK), and of the     *)
(* tick's snapshot that it still belongs to the current cycle and carries  *)
(* an accepted head from shipping on (TickOK).  Most steps write one task  *)
(* row and one run; the lemmas about Launch and Ends say that a good row   *)
(* leads to good rows.  What has landed needs one more conjunct, MergeOK:  *)
(* the merge that a cycle, or the tick on its way to record it, knows of   *)
(* is the one on GitHub; most steps record no merge at all (Keeps).        *)
(*                                                                         *)
(* The last part proves that no run is lost: whatever pauses, crashes and  *)
(* faults come in between, Attended says who will go on with each task.    *)
(***************************************************************************)
EXTENDS Campaign, TLAPS

(***************************************************************************)
(* The store                                                               *)
(*                                                                         *)
(* Most transactions leave the earlier cycles alone and rewrite the        *)
(* current cycle's row and its attempt's.  Whether they keep the invariant *)
(* is then a question about three values: the campaign's status and the    *)
(* two new rows.  Agree says what they owe each other, CurrentStep that a  *)
(* step which only rewrites the current rows, into rows that agree, keeps  *)
(* the invariant; each action then only shows that its rows agree.         *)
(***************************************************************************)

IInv == /\ StoreTypeOK /\ SerialCycles /\ ControlAgrees
        /\ AttemptAgrees /\ TimersArmed /\ LandedIsMerged

\* What the row r of a cycle stands for, also while it is paused.
Rest(r) == IF r.status = "paused" THEN r.from ELSE r.status

\* A campaign of status s, its current cycle r and that cycle's attempt a agree.
Agree(s, r, a) ==
  /\ s \in {"running", "paused", "stopped"}
  /\ r.status \in LiveStatus <=> s = "running"
  /\ r.status = "paused" <=> s = "paused"
  /\ r.status = "stopped" <=> s = "stopped"
  /\ s = "paused" => r.from \in LiveStatus
  /\ s # "stopped" =>
       /\ Rest(r) = "proposing" => a.n = 0
       /\ Rest(r) = "delivering" => a.n = 0 \/ a.status = s
       /\ Rest(r) = "retry_wait" => a.n # 0 /\ a.status = "failed" /\ r.timer # "unset"
       /\ Rest(r) = "waiting_for_external" => a.n # 0 /\ a.status = s /\ a.clock = "off"
       /\ Rest(r) \in {"ready_to_release", "releasing", "cooldown"} =>
            a.n # 0 /\ a.status = s
       /\ Rest(r) = "cooldown" => r.merge # NoCommit /\ r.timer # "unset"

-----------------------------------------------------------------------------
(* The rows agree exactly when the invariants about the current cycle hold. *)

\* What IInv says of the current cycle.
LEMMA CurrentAgrees ==
  ASSUME IInv, HasCycle
  PROVE  Agree(campaign.status, cycle[cur], attempt[cur])
  BY DEF IInv, Agree, Rest, Resting, ControlAgrees, AttemptAgrees, TimersArmed,
         LandedIsMerged, HasCycle, LiveStatus, StoreTypeOK, CampaignRow, cur

\* Rewriting the current rows into rows that agree keeps the invariant.
LEMMA CurrentStep ==
  ASSUME IInv, HasCycle,
         NEW r \in CycleRow, NEW a \in AttemptRow,
         SetCycle(r), SetAttempt(a),
         campaign' \in CampaignRow,
         campaign'.current = cur, campaign'.next = campaign.next,
         Agree(campaign'.status, r, a)
  PROVE  IInv'
<1>1. cur \in Cycles
  BY BoundAssumption DEF IInv, StoreTypeOK, CampaignRow, HasCycle, cur, Cycles
<1>2. StoreTypeOK'
  BY DEF IInv, StoreTypeOK, SetCycle, SetAttempt
<1>3. /\ cycle'[cur] = r /\ attempt'[cur] = a
      /\ \A c \in Cycles \ {cur} : cycle'[c] = cycle[c] /\ attempt'[c] = attempt[c]
  BY <1>1 DEF IInv, StoreTypeOK, SetCycle, SetAttempt
<1>4. cur' = cur /\ HasCycle'
  BY DEF cur, HasCycle
<1>5. SerialCycles'
  BY <1>1, <1>3, <1>4, BoundAssumption
  DEF IInv, SerialCycles, StoreTypeOK, CampaignRow, Cycles, cur
<1>6. ControlAgrees'
  BY <1>3, <1>4 DEF ControlAgrees, Agree
<1>7. AttemptAgrees'
  BY <1>3, <1>4 DEF AttemptAgrees, Resting, Agree, Rest, LiveStatus
<1>8. TimersArmed'
  BY <1>3, <1>4 DEF TimersArmed, Resting, Agree, Rest
<1>9. LandedIsMerged'
  <2>1. ASSUME NEW c \in Cycles, cycle'[c].status = "succeeded"
        PROVE  cycle'[c].merge # NoCommit
    BY <1>3, <2>1 DEF IInv, LandedIsMerged, Agree, LiveStatus
  <2>2. (HasCycle /\ campaign.status \in {"running", "paused"} /\ Resting = "cooldown"
           => cycle[cur].merge # NoCommit)'
    BY <1>3, <1>4 DEF Resting, Agree, Rest
  <2>3. QED BY <2>1, <2>2 DEF LandedIsMerged
<1>10. QED BY <1>2, <1>5, <1>6, <1>7, <1>8, <1>9 DEF IInv

\* The same for a transaction that writes the cycle alone.
LEMMA UpdateStep ==
  ASSUME IInv, NEW o, NEW seen, NEW r \in CycleRow, Update(o, seen, r),
         Agree("running", r, attempt[cur])
  PROVE  IInv'
<1>1. cur \in Cycles
  BY BoundAssumption
  DEF Update, IInv, StoreTypeOK, CampaignRow, HasCycle, cur, Cycles
<1>2. attempt[cur] \in AttemptRow /\ SetAttempt(attempt[cur])
  BY <1>1 DEF IInv, StoreTypeOK, Update, SetAttempt
<1>3. campaign' = campaign /\ campaign.status = "running"
  BY DEF Update
<1>4. QED
  BY <1>2, <1>3, CurrentStep DEF Update, IInv, StoreTypeOK, cur

\* The current rows have their types, and agree.
LEMMA CurrentRows ==
  ASSUME IInv, HasCycle
  PROVE  /\ cur \in Cycles
         /\ cycle[cur] \in CycleRow
         /\ attempt[cur] \in AttemptRow
         /\ Agree(campaign.status, cycle[cur], attempt[cur])
<1>1. cur \in Cycles
  BY BoundAssumption DEF IInv, StoreTypeOK, CampaignRow, HasCycle, cur, Cycles
<1>2. QED BY <1>1, CurrentAgrees DEF IInv, StoreTypeOK

\* Setting a cycle's status and its timer keeps the row's type.
LEMMA TimedRow ==
  ASSUME NEW x \in CycleRow, NEW s \in LiveStatus, NEW t \in {"unset", "later", "due"}
  PROVE  /\ [x EXCEPT !.status = s, !.timer = t] \in CycleRow
         /\ [x EXCEPT !.status = s, !.timer = t].status = s
         /\ [x EXCEPT !.status = s, !.timer = t].timer = t
  BY DEF CycleRow, CycleStatus

-----------------------------------------------------------------------------
(* The operator's transactions *)

\* The attempt manager's pause preserves IInv.
LEMMA PauseAttemptStep ==
  ASSUME IInv, NEW o \in Owner, PauseAttempt(o) PROVE IInv'
<1> DEFINE r == PausedCycle
           a == IF attempt[cur].status = "running"
                THEN [attempt[cur] EXCEPT !.status = "paused", !.clock = "off"]
                ELSE attempt[cur]
<1>1. HasCycle /\ campaign.status = "running"
  BY DEF PauseAttempt, HasAttempt
<1>2. /\ r \in CycleRow
      /\ r.status = "paused" /\ r.from = cycle[cur].status
      /\ r.merge = cycle[cur].merge /\ r.timer = cycle[cur].timer
  BY <1>1, CurrentRows DEF PausedCycle, CycleRow, CycleStatus, Agree, LiveStatus
<1>3. /\ a \in AttemptRow /\ a.n = attempt[cur].n
      /\ a.status = IF attempt[cur].status = "running" THEN "paused" ELSE attempt[cur].status
      /\ attempt[cur].status = "running" => a.clock = "off"
  BY <1>1, CurrentRows DEF AttemptRow
<1>4. /\ campaign' \in CampaignRow /\ campaign'.status = "paused"
      /\ campaign'.current = cur /\ campaign'.next = campaign.next
  BY DEF PauseAttempt, Leased, IInv, StoreTypeOK, CampaignRow, cur
<1>5. Agree("paused", r, a)
  BY <1>1, <1>2, <1>3, CurrentRows DEF Agree, Rest, LiveStatus
<1>6. QED
  <2>1. SetCycle(r) /\ SetAttempt(a) BY DEF PauseAttempt
  <2>2. QED BY <1>1, <1>2, <1>3, <1>4, <1>5, <2>1, CurrentStep

\* A pause before the first attempt preserves IInv.
LEMMA PauseProposalStep == ASSUME IInv, PauseProposal PROVE IInv'
<1> DEFINE r == PausedCycle
<1>1. HasCycle /\ campaign.status = "running" /\ attempt[cur].n = 0
  BY DEF PauseProposal, HasAttempt
<1>2. /\ r \in CycleRow
      /\ r.status = "paused" /\ r.from = cycle[cur].status
      /\ r.merge = cycle[cur].merge /\ r.timer = cycle[cur].timer
  BY <1>1, CurrentRows DEF PausedCycle, CycleRow, CycleStatus, Agree, LiveStatus
<1>3. /\ campaign' \in CampaignRow /\ campaign'.status = "paused"
      /\ campaign'.current = cur /\ campaign'.next = campaign.next
  BY DEF PauseProposal, IInv, StoreTypeOK, CampaignRow, cur
<1>4. Agree("paused", r, attempt[cur])
  BY <1>1, <1>2, CurrentRows DEF Agree, Rest, LiveStatus
<1>5. SetCycle(r) /\ SetAttempt(attempt[cur])
  BY <1>1, CurrentRows DEF PauseProposal, SetAttempt, IInv, StoreTypeOK
<1>6. QED BY <1>1, <1>2, <1>3, <1>4, <1>5, CurrentRows, CurrentStep

\* A resume before the first attempt preserves IInv.
LEMMA ResumeProposalStep == ASSUME IInv, ResumeProposal PROVE IInv'
<1> DEFINE r == ResumedCycle
<1>1. HasCycle /\ campaign.status = "paused" /\ attempt[cur].n = 0
  BY DEF ResumeProposal, HasAttempt
<1>2. /\ r \in CycleRow
      /\ r.status = cycle[cur].from /\ r.from = "none"
      /\ r.merge = cycle[cur].merge /\ r.timer = cycle[cur].timer
  BY <1>1, CurrentRows DEF ResumedCycle, CycleRow, CycleStatus, Agree, LiveStatus
<1>3. /\ campaign' \in CampaignRow /\ campaign'.status = "running"
      /\ campaign'.current = cur /\ campaign'.next = campaign.next
  BY DEF ResumeProposal, IInv, StoreTypeOK, CampaignRow, cur
<1>4. Agree("running", r, attempt[cur])
  BY <1>1, <1>2, CurrentRows DEF Agree, Rest, LiveStatus
<1>5. SetCycle(r) /\ SetAttempt(attempt[cur])
  BY <1>1, CurrentRows DEF ResumeProposal, SetAttempt, IInv, StoreTypeOK
<1>6. QED BY <1>1, <1>2, <1>3, <1>4, <1>5, CurrentRows, CurrentStep

\* The stopwatch stays closed exactly when the cycle goes back to waiting.
LEMMA ResumeAttemptStep ==
  ASSUME IInv, NEW o \in Owner, ResumeAttempt(o) PROVE IInv'
<1> DEFINE r == ResumedCycle
           a == IF attempt[cur].status = "paused"
                THEN [attempt[cur] EXCEPT
                        !.status = "running",
                        !.clock = IF cycle[cur].from = "waiting_for_external"
                                  THEN "off" ELSE "on"]
                ELSE attempt[cur]
<1>1. HasCycle /\ campaign.status = "paused" /\ attempt[cur].n # 0
  BY DEF ResumeAttempt, HasAttempt
<1>2. /\ r \in CycleRow
      /\ r.status = cycle[cur].from /\ r.from = "none"
      /\ r.merge = cycle[cur].merge /\ r.timer = cycle[cur].timer
  BY <1>1, CurrentRows DEF ResumedCycle, CycleRow, CycleStatus, Agree, LiveStatus
<1>3. /\ a \in AttemptRow /\ a.n = attempt[cur].n
      /\ a.status = IF attempt[cur].status = "paused" THEN "running" ELSE attempt[cur].status
      /\ attempt[cur].status = "paused" /\ cycle[cur].from = "waiting_for_external"
           => a.clock = "off"
  BY <1>1, CurrentRows DEF AttemptRow
<1>4. /\ campaign' \in CampaignRow /\ campaign'.status = "running"
      /\ campaign'.current = cur /\ campaign'.next = campaign.next
  BY DEF ResumeAttempt, Leased, IInv, StoreTypeOK, CampaignRow, cur
<1>5. Agree("running", r, a)
  BY <1>1, <1>2, <1>3, CurrentRows DEF Agree, Rest, LiveStatus
<1>6. SetCycle(r) /\ SetAttempt(a)
  BY DEF ResumeAttempt
<1>7. QED BY <1>1, <1>2, <1>3, <1>4, <1>5, <1>6, CurrentStep

\* The attempt manager's stop preserves IInv.
LEMMA StopAttemptStep ==
  ASSUME IInv, NEW o \in Owner, StopAttempt(o) PROVE IInv'
<1> DEFINE r == [cycle[cur] EXCEPT !.status = "stopped", !.timer = "unset"]
           a == [attempt[cur] EXCEPT !.status = "stopped", !.clock = "off"]
<1>1. HasCycle
  BY DEF StopAttempt, HasAttempt
<1>2. r \in CycleRow /\ r.status = "stopped" /\ a \in AttemptRow
  BY ZenonT(60), <1>1, CurrentRows DEF CycleRow, CycleStatus, AttemptRow
<1>3. /\ campaign' \in CampaignRow /\ campaign'.status = "stopped"
      /\ campaign'.current = cur /\ campaign'.next = campaign.next
  BY DEF StopAttempt, StoppedCampaign, IInv, StoreTypeOK, CampaignRow, cur
<1>4. Agree("stopped", r, a)
  BY <1>2 DEF Agree, LiveStatus
<1>5. SetCycle(r) /\ SetAttempt(a)
  BY DEF StopAttempt
<1>6. QED BY <1>1, <1>2, <1>3, <1>4, <1>5, CurrentStep

\* Also a draft can be stopped, and then there is no cycle to write.
LEMMA StopProposalStep == ASSUME IInv, StopProposal PROVE IInv'
<1>1. /\ campaign' \in CampaignRow /\ campaign'.status = "stopped"
      /\ campaign'.current = cur /\ campaign'.next = campaign.next
  BY DEF StopProposal, StoppedCampaign, IInv, StoreTypeOK, CampaignRow, cur
<1>2. CASE HasCycle
  <2> DEFINE r == [cycle[cur] EXCEPT !.status = "stopped"]
  <2>1. Pausable
    BY <1>2, CurrentRows DEF Pausable, Agree, StopProposal, LiveStatus
  <2>2. SetCycle(r) /\ SetAttempt(attempt[cur])
    BY <1>2, <2>1, CurrentRows DEF StopProposal, SetAttempt, IInv, StoreTypeOK
  <2>3. r \in CycleRow /\ r.status = "stopped"
    BY <1>2, CurrentRows DEF CycleRow, CycleStatus
  <2>4. Agree("stopped", r, attempt[cur])
    BY <2>3 DEF Agree, LiveStatus
  <2>5. QED BY <1>1, <1>2, <2>2, <2>3, <2>4, CurrentRows, CurrentStep
<1>3. CASE ~HasCycle
  <2>1. UNCHANGED <<cycle, attempt>> /\ cur' = cur /\ ~HasCycle'
    BY <1>1, <1>3 DEF StopProposal, HasCycle, cur
  <2>2. StoreTypeOK' /\ SerialCycles'
    BY <1>1, <2>1 DEF IInv, StoreTypeOK, SerialCycles
  <2>3. ControlAgrees' /\ AttemptAgrees' /\ TimersArmed'
    BY <1>1, <2>1 DEF ControlAgrees, AttemptAgrees, TimersArmed
  <2>4. LandedIsMerged'
    BY <2>1 DEF IInv, LandedIsMerged
  <2>5. QED BY <2>2, <2>3, <2>4 DEF IInv
<1>4. QED BY <1>2, <1>3

\* The first cycle takes the sequence number 1.
LEMMA StartStep == ASSUME IInv, StartCampaign PROVE IInv'
<1>1. cur = 0 /\ campaign.next = 1
  BY DEF StartCampaign, IInv, ControlAgrees, SerialCycles, HasCycle, StoreTypeOK,
         CampaignRow, cur
<1>2. /\ campaign' \in CampaignRow
      /\ campaign'.status = "running" /\ cur' = 1 /\ campaign'.next = 2 /\ HasCycle'
  <2>1. /\ campaign'.status = "running" /\ campaign'.owner = campaign.owner
        /\ campaign'.lease = campaign.lease /\ campaign'.current = 1
        /\ campaign'.next = 1 + 1
    BY <1>1 DEF StartCampaign, IInv, StoreTypeOK, CampaignRow
  <2>2. campaign' = [status |-> campaign'.status, owner |-> campaign'.owner,
                     lease |-> campaign'.lease, current |-> campaign'.current,
                     next |-> campaign'.next]
    BY DEF StartCampaign, IInv, StoreTypeOK, CampaignRow
  <2>3. campaign' \in CampaignRow
    BY <2>1, <2>2, BoundAssumption DEF IInv, StoreTypeOK, CampaignRow
  <2>4. QED BY <2>1, <2>3 DEF cur, HasCycle
<1>3. /\ NewCycle \in CycleRow
      /\ NewCycle.status = "proposing" /\ NewCycle.merge = NoCommit
  BY DEF NewCycle, NoCycle, CycleRow, CycleStatus, LiveStatus
<1>4. 1 \in Cycles
  BY BoundAssumption DEF Cycles
<1>5. cycle' = [cycle EXCEPT ![1] = NewCycle] /\ attempt' = attempt
  BY <1>1 DEF StartCampaign
<1>6. StoreTypeOK'
  BY <1>2, <1>3, <1>5 DEF IInv, StoreTypeOK
<1>7. attempt[1].n = 0
  BY <1>1, <1>4 DEF IInv, SerialCycles, NoAttempt
<1>8. SerialCycles'
  BY <1>1, <1>2, <1>5 DEF IInv, SerialCycles, StoreTypeOK, Cycles
<1>9. cycle'[1] = NewCycle /\ \A c \in Cycles \ {1} : cycle'[c] = cycle[c]
  BY <1>4, <1>5 DEF IInv, StoreTypeOK
<1>10. ControlAgrees'
  BY <1>2, <1>3, <1>9 DEF ControlAgrees, LiveStatus
<1>11. AttemptAgrees'
  BY <1>2, <1>3, <1>5, <1>7, <1>9 DEF AttemptAgrees, Resting
<1>12. TimersArmed' /\ LandedIsMerged'
  <2>1. TimersArmed'
    BY <1>2, <1>3, <1>9 DEF TimersArmed, Resting
  <2>2. \A c \in Cycles : cycle'[c].status = "succeeded" => cycle'[c].merge # NoCommit
    BY <1>3, <1>9 DEF IInv, LandedIsMerged
  <2>3. LandedIsMerged'
    BY <1>2, <1>3, <1>9, <2>2 DEF LandedIsMerged, Resting
  <2>4. QED BY <2>1, <2>3
<1>13. QED BY <1>6, <1>8, <1>10, <1>11, <1>12 DEF IInv

\* The next feature: the lease is checked, the campaign's status is not, but a
\* cycle that cools down has a running campaign.
LEMMA AdvanceStep ==
  ASSUME IInv, NEW o \in Owner, AdvanceAfterCooldown(o) PROVE IInv'
<1> DEFINE new == campaign.next
           r == [cycle[cur] EXCEPT !.status = "succeeded"]
<1>1. /\ HasCycle /\ cycle[cur].status = "cooldown" /\ cycle[cur].merge # NoCommit
      /\ new <= MaxCycle
  BY DEF AdvanceAfterCooldown
<1>2. campaign.status = "running"
  BY <1>1, CurrentRows DEF Agree, LiveStatus
<1>3. /\ cur \in Cycles /\ new \in Cycles /\ new = cur + 1 /\ cur # new
  BY <1>1, CurrentRows, BoundAssumption DEF IInv, SerialCycles, Cycles
<1>4. /\ campaign' \in CampaignRow
      /\ campaign'.status = "running" /\ cur' = new /\ campaign'.next = new + 1
      /\ HasCycle'
  <2>1. /\ campaign'.status = "running" /\ campaign'.owner = campaign.owner
        /\ campaign'.lease = campaign.lease /\ campaign'.current = new
        /\ campaign'.next = new + 1
    BY <1>2 DEF AdvanceAfterCooldown, IInv, StoreTypeOK, CampaignRow
  <2>2. campaign' = [status |-> campaign'.status, owner |-> campaign'.owner,
                     lease |-> campaign'.lease, current |-> campaign'.current,
                     next |-> campaign'.next]
    BY DEF AdvanceAfterCooldown, IInv, StoreTypeOK, CampaignRow
  <2>3. new \in 1..MaxCycle /\ new \in 0..MaxCycle /\ new + 1 \in 1..(MaxCycle + 1)
    BY <1>3, BoundAssumption DEF Cycles
  <2>4. campaign' \in CampaignRow
    BY <2>1, <2>2, <2>3 DEF IInv, StoreTypeOK, CampaignRow
  <2>5. new # 0
    BY <2>3
  <2>6. QED BY <2>1, <2>4, <2>5 DEF cur, HasCycle
<1>5. /\ NewCycle \in CycleRow
      /\ NewCycle.status = "proposing" /\ NewCycle.merge = NoCommit
  BY DEF NewCycle, NoCycle, CycleRow, CycleStatus, LiveStatus
<1>6. r \in CycleRow /\ r.status = "succeeded" /\ r.merge # NoCommit
  BY <1>1, CurrentRows DEF CycleRow, CycleStatus
<1>7. cycle' = [[cycle EXCEPT ![cur] = r] EXCEPT ![new] = NewCycle] /\ attempt' = attempt
  BY <1>3 DEF AdvanceAfterCooldown
<1>8. StoreTypeOK'
  BY <1>4, <1>5, <1>6, <1>7 DEF IInv, StoreTypeOK
<1>9. /\ cycle'[new] = NewCycle /\ cycle'[cur] = r
      /\ \A c \in Cycles \ {cur, new} : cycle'[c] = cycle[c]
  BY <1>3, <1>7 DEF IInv, StoreTypeOK
<1>10. attempt[new].n = 0
  BY <1>3, <1>1 DEF IInv, SerialCycles, NoAttempt, Cycles
<1>11. SerialCycles'
  <2>0. /\ cur \in Nat /\ new \in Nat /\ Cycles \subseteq Nat
    BY <1>3, BoundAssumption DEF Cycles
  <2>1. ASSUME NEW c \in Cycles, c < new PROVE cycle'[c].status = "succeeded"
    <3>1. CASE c = cur BY <3>1, <1>6, <1>9
    <3>2. CASE c # cur
      <4>1. c < cur /\ c # new BY <1>3, <2>0, <2>1, <3>2
      <4>2. QED BY <1>9, <3>2, <4>1 DEF IInv, SerialCycles
    <3>3. QED BY <3>1, <3>2
  <2>2. ASSUME NEW c \in Cycles, c > new
        PROVE  cycle'[c] = NoCycle /\ attempt'[c] = NoAttempt
    <3>1. c > cur /\ c # cur /\ c # new BY <1>3, <2>0, <2>2
    <3>2. QED BY <1>7, <1>9, <3>1 DEF IInv, SerialCycles
  <2>3. QED BY <1>4, <2>1, <2>2 DEF SerialCycles
<1>12. ControlAgrees'
  BY <1>4, <1>5, <1>9 DEF ControlAgrees, LiveStatus
<1>13. AttemptAgrees'
  BY <1>4, <1>5, <1>7, <1>9, <1>10 DEF AttemptAgrees, Resting
<1>14. TimersArmed' /\ LandedIsMerged'
  <2>1. TimersArmed'
    BY <1>4, <1>5, <1>9 DEF TimersArmed, Resting
  <2>2. \A c \in Cycles : cycle'[c].status = "succeeded" => cycle'[c].merge # NoCommit
    BY <1>5, <1>6, <1>9 DEF IInv, LandedIsMerged
  <2>3. LandedIsMerged'
    BY <1>4, <1>5, <1>9, <2>2 DEF LandedIsMerged, Resting
  <2>4. QED BY <2>1, <2>3
<1>15. QED BY <1>8, <1>11, <1>12, <1>13, <1>14 DEF IInv

\* Lease writes touch nothing the invariant speaks of.
LEMMA LeaseStep ==
  ASSUME IInv, campaign' \in CampaignRow, UNCHANGED <<cycle, attempt>>,
         campaign'.status = campaign.status, campaign'.current = campaign.current,
         campaign'.next = campaign.next
  PROVE  IInv'
<1>1. StoreTypeOK' /\ SerialCycles'
  BY DEF IInv, StoreTypeOK, SerialCycles, cur
<1>2. ControlAgrees' /\ AttemptAgrees'
  BY DEF IInv, ControlAgrees, AttemptAgrees, Resting, HasCycle, cur
<1>3. TimersArmed' /\ LandedIsMerged'
  BY DEF IInv, TimersArmed, LandedIsMerged, Resting, HasCycle, cur
<1>4. QED BY <1>1, <1>2, <1>3 DEF IInv

\* A timer that comes due stays armed.
LEMMA TimerStep == ASSUME IInv, TimerElapses PROVE IInv'
<1> DEFINE r == [cycle[cur] EXCEPT !.timer = "due"]
<1>1. HasCycle /\ campaign' = campaign
  BY DEF TimerElapses
<1>2. /\ r \in CycleRow /\ r.status = cycle[cur].status /\ r.from = cycle[cur].from
      /\ r.merge = cycle[cur].merge /\ r.timer = "due"
  BY <1>1, CurrentRows DEF CycleRow
<1>3. Agree(campaign'.status, r, attempt[cur])
  BY <1>1, <1>2, CurrentRows DEF Agree, Rest
<1>4. SetCycle(r) /\ SetAttempt(attempt[cur])
  BY <1>1, CurrentRows DEF TimerElapses, SetAttempt, IInv, StoreTypeOK
<1>5. QED
  BY <1>1, <1>2, <1>3, <1>4, CurrentRows, CurrentStep DEF IInv, StoreTypeOK, cur

-----------------------------------------------------------------------------
(* Delivery writes: each leaves the attempt and the campaign alone *)

\* An accepted proposal preserves IInv.
LEMMA AcceptStep == ASSUME IInv, AcceptProposal PROVE IInv'
<1> DEFINE r == [cycle[cur] EXCEPT !.proposal = "accepted"]
<1>1. HasCycle /\ campaign' = campaign
  BY DEF AcceptProposal
<1>2. /\ r \in CycleRow /\ r.status = cycle[cur].status /\ r.from = cycle[cur].from
      /\ r.merge = cycle[cur].merge /\ r.timer = cycle[cur].timer
  BY <1>1, CurrentRows DEF CycleRow
<1>3. Agree(campaign'.status, r, attempt[cur])
  BY <1>1, <1>2, CurrentRows DEF Agree, Rest
<1>4. SetCycle(r) /\ SetAttempt(attempt[cur])
  BY <1>1, CurrentRows DEF AcceptProposal, SetAttempt, IInv, StoreTypeOK
<1>5. QED
  BY <1>1, <1>2, <1>3, <1>4, CurrentRows, CurrentStep DEF IInv, StoreTypeOK, cur

\* The hand-off's write preserves IInv.
LEMMA LinkStep == ASSUME IInv, NEW o \in Owner, LinkTask(o) PROVE IInv'
<1> DEFINE r == [cycle[cur] EXCEPT !.status = "delivering", !.task = "linked"]
<1>1. PICK seen \in {"proposing", "delivering"} : Update(o, seen, r)
  BY DEF LinkTask
<1>2. HasCycle /\ campaign.status = "running" /\ cycle[cur].status = seen
  BY <1>1 DEF Update
<1>3. r \in CycleRow /\ r.status = "delivering"
  BY <1>2, CurrentRows DEF CycleRow, CycleStatus, LiveStatus
<1>4. Agree("running", r, attempt[cur])
  BY <1>2, <1>3, CurrentRows DEF Agree, Rest, LiveStatus
<1>5. QED BY <1>1, <1>3, <1>4, UpdateStep

\* The reconciliation's write preserves IInv.
LEMMA ReconcileStep ==
  ASSUME IInv, NEW o \in Owner, NEW seen \in LiveStatus, NEW to \in LiveStatus,
         ReconcileDelivery(o, seen, to)
  PROVE  IInv'
<1> DEFINE r == [cycle[cur] EXCEPT !.status = to, !.task = "linked"]
<1>1. /\ Update(o, seen, r) /\ seen \in {"proposing", "delivering"}
      /\ to = "delivering" \/ (to = "ready_to_release" /\ seen = "delivering" /\ attempt[cur].n # 0)
  BY DEF ReconcileDelivery, HasAttempt
<1>2. HasCycle /\ campaign.status = "running" /\ cycle[cur].status = seen
  BY <1>1 DEF Update
<1>3. r \in CycleRow /\ r.status = to
  BY <1>2, CurrentRows DEF CycleRow, CycleStatus
<1>4. Agree("running", r, attempt[cur])
  BY <1>1, <1>2, <1>3, CurrentRows DEF Agree, Rest, LiveStatus
<1>5. QED BY <1>1, <1>3, <1>4, UpdateStep

\* A held release preserves IInv.
LEMMA HoldStep ==
  ASSUME IInv, NEW o \in Owner, NEW seen \in Release, NEW to \in Release,
         NEW evaluated \in BOOLEAN, HoldRelease(o, seen, to, evaluated)
  PROVE  IInv'
<1> DEFINE r == [cycle[cur] EXCEPT !.status = to,
                                   !.gates = IF evaluated THEN "evaluated" ELSE @]
<1>1. Update(o, seen, r)
  BY DEF HoldRelease
<1>2. HasCycle /\ campaign.status = "running" /\ cycle[cur].status = seen
  BY <1>1 DEF Update
<1>3. r \in CycleRow /\ r.status = to
  BY ZenonT(60), <1>2, CurrentRows DEF CycleRow, CycleStatus, LiveStatus, Release
<1>4. Agree("running", r, attempt[cur])
  BY <1>2, <1>3, CurrentRows DEF Agree, Rest, LiveStatus, Release
<1>5. QED BY <1>1, <1>3, <1>4, UpdateStep

\* An invalidated release preserves IInv.
LEMMA InvalidateStep ==
  ASSUME IInv, NEW o \in Owner, NEW seen \in Release,
         NEW evaluated \in BOOLEAN, InvalidateRelease(o, seen, evaluated)
  PROVE  IInv'
<1> DEFINE r == [cycle[cur] EXCEPT !.status = "delivering",
                                   !.gates = IF evaluated THEN "revalidate" ELSE @]
<1>1. Update(o, seen, r)
  BY DEF InvalidateRelease
<1>2. HasCycle /\ campaign.status = "running" /\ cycle[cur].status = seen
  BY <1>1 DEF Update
<1>3. r \in CycleRow /\ r.status = "delivering"
  BY ZenonT(60), <1>2, CurrentRows DEF CycleRow, CycleStatus, LiveStatus
<1>4. Agree("running", r, attempt[cur])
  BY <1>2, <1>3, CurrentRows DEF Agree, Rest, LiveStatus, Release
<1>5. QED BY <1>1, <1>3, <1>4, UpdateStep

\* A recorded merge preserves IInv.
LEMMA RecordMergeStep ==
  ASSUME IInv, NEW o \in Owner, NEW seen \in Release, NEW h \in Commit,
         RecordMerge(o, seen, h)
  PROVE  IInv'
<1> DEFINE r == [cycle[cur] EXCEPT !.status = "releasing", !.merge = h,
                                   !.gates = "evaluated"]
<1>1. Update(o, seen, r)
  BY DEF RecordMerge
<1>2. HasCycle /\ campaign.status = "running" /\ cycle[cur].status = seen
  BY <1>1 DEF Update
<1>3. r \in CycleRow /\ r.status = "releasing"
  BY ZenonT(60), <1>2, CurrentRows DEF CycleRow, CycleStatus, LiveStatus
<1>4. Agree("running", r, attempt[cur])
  BY <1>2, <1>3, CurrentRows DEF Agree, Rest, LiveStatus, Release
<1>5. QED BY <1>1, <1>3, <1>4, UpdateStep

\* The row a confirmed merge leaves behind.
LEMMA ConfirmedRow ==
  ASSUME NEW x \in CycleRow, NEW h \in Commit
  PROVE  LET r == [x EXCEPT !.status = "cooldown", !.merge = h, !.timer = "later"]
         IN  r \in CycleRow /\ r.status = "cooldown" /\ r.merge = h /\ r.timer = "later"
<1>1. /\ [x EXCEPT !.status = "cooldown"] \in CycleRow
      /\ [x EXCEPT !.status = "cooldown"].status = "cooldown"
  BY DEF CycleRow, CycleStatus, LiveStatus
<1>2. ASSUME NEW y \in CycleRow, y.status = "cooldown"
      PROVE  /\ [y EXCEPT !.merge = h] \in CycleRow
             /\ [y EXCEPT !.merge = h].status = "cooldown"
             /\ [y EXCEPT !.merge = h].merge = h
  BY <1>2 DEF CycleRow
<1>3. ASSUME NEW y \in CycleRow, y.status = "cooldown", y.merge = h
      PROVE  /\ [y EXCEPT !.timer = "later"] \in CycleRow
             /\ [y EXCEPT !.timer = "later"].status = "cooldown"
             /\ [y EXCEPT !.timer = "later"].merge = h
             /\ [y EXCEPT !.timer = "later"].timer = "later"
  BY <1>3 DEF CycleRow
<1>4. QED BY <1>1, <1>2, <1>3

\* A confirmed merge preserves IInv: it arms the cooldown and records its commit.
LEMMA ConfirmStep ==
  ASSUME IInv, NEW o \in Owner, NEW seen \in Release, NEW h \in Commit,
         ConfirmMerge(o, seen, h)
  PROVE  IInv'
<1> DEFINE r == [cycle[cur] EXCEPT !.status = "cooldown", !.merge = h, !.timer = "later"]
<1>1. Update(o, seen, r)
  BY DEF ConfirmMerge
<1>2. HasCycle /\ campaign.status = "running" /\ cycle[cur].status = seen
  BY <1>1 DEF Update
<1>3. r \in CycleRow /\ r.status = "cooldown" /\ r.merge # NoCommit /\ r.timer = "later"
  BY ZenonT(60), <1>2, CurrentRows, CommitAssumption, ConfirmedRow
<1>4. Agree("running", r, attempt[cur])
  BY <1>2, <1>3, CurrentRows DEF Agree, Rest, LiveStatus, Release
<1>5. QED BY <1>1, <1>3, <1>4, UpdateStep

-----------------------------------------------------------------------------
(* Attempts *)

\* A step of the attempt manager: the campaign's row stays as it is.
LEMMA ManagerStep ==
  ASSUME IInv, HasCycle, NEW r \in CycleRow, NEW a \in AttemptRow,
         SetCycle(r), SetAttempt(a), UNCHANGED campaign,
         Agree(campaign.status, r, a)
  PROVE  IInv'
  BY CurrentStep DEF IInv, StoreTypeOK, cur

\* The first attempt preserves IInv.
LEMMA FirstAttemptStep ==
  ASSUME IInv, NEW o \in Owner, CreateFirstAttempt(o) PROVE IInv'
<1> DEFINE a == NewAttempt(1)
<1>1. HasCycle /\ cycle[cur].status = "delivering"
  BY DEF CreateFirstAttempt
<1>2. a \in AttemptRow /\ a.n = 1 /\ a.status = "running"
  BY BoundAssumption DEF NewAttempt, AttemptRow
<1>3. Agree(campaign.status, cycle[cur], a)
  BY <1>1, <1>2, CurrentRows DEF Agree, Rest, LiveStatus
<1>4. SetCycle(cycle[cur]) /\ SetAttempt(a) /\ UNCHANGED campaign
  BY <1>1, CurrentRows DEF CreateFirstAttempt, SetCycle, IInv, StoreTypeOK
<1>5. QED BY <1>1, <1>2, <1>3, <1>4, CurrentRows, ManagerStep

\* A failed attempt preserves IInv: it arms the retry.
LEMMA FailStep == ASSUME IInv, NEW o \in Owner, FailAttempt(o) PROVE IInv'
<1> DEFINE r == [cycle[cur] EXCEPT !.status = "retry_wait", !.timer = "later"]
           a == [attempt[cur] EXCEPT !.status = "failed", !.clock = "off"]
<1>1. HasCycle /\ attempt[cur].n # 0 /\ campaign.status = "running"
  BY DEF FailAttempt, Failable, HasAttempt
<1>2. r \in CycleRow /\ r.status = "retry_wait" /\ r.timer = "later"
  BY ZenonT(60), <1>1, CurrentRows, TimedRow DEF LiveStatus
<1>3. a \in AttemptRow /\ a.n = attempt[cur].n /\ a.status = "failed"
  BY <1>1, CurrentRows DEF AttemptRow
<1>4. Agree(campaign.status, r, a)
  BY <1>1, <1>2, <1>3 DEF Agree, Rest, LiveStatus
<1>5. QED BY <1>1, <1>2, <1>3, <1>4, ManagerStep DEF FailAttempt, Failable

\* An external wait preserves IInv: it stops the attempt's clock.
LEMMA WaitStep == ASSUME IInv, NEW o \in Owner, WaitForExternal(o) PROVE IInv'
<1> DEFINE r == [cycle[cur] EXCEPT !.status = "waiting_for_external"]
           a == Closed(attempt[cur])
<1>1. /\ HasCycle /\ attempt[cur].n # 0 /\ campaign.status = "running"
      /\ attempt[cur].status = "running"
  BY DEF WaitForExternal, HasAttempt
<1>2. r \in CycleRow /\ r.status = "waiting_for_external"
  BY <1>1, CurrentRows DEF CycleRow, CycleStatus, LiveStatus
<1>3. /\ a \in AttemptRow /\ a.n = attempt[cur].n
      /\ a.status = "running" /\ a.clock = "off"
  BY <1>1, CurrentRows DEF AttemptRow, Closed
<1>4. Agree(campaign.status, r, a)
  BY <1>1, <1>2, <1>3 DEF Agree, Rest, LiveStatus
<1>5. QED BY <1>1, <1>2, <1>3, <1>4, ManagerStep DEF WaitForExternal

\* The end of an external wait preserves IInv.
LEMMA ResumeWaitStep ==
  ASSUME IInv, NEW o \in Owner, ResumeExternalWait(o) PROVE IInv'
<1> DEFINE r == [cycle[cur] EXCEPT !.status = "delivering"]
           a == [attempt[cur] EXCEPT !.clock = "on"]
<1>1. /\ HasCycle /\ campaign.status = "running" /\ attempt[cur].status = "running"
  BY DEF ResumeExternalWait, HasAttempt
<1>2. r \in CycleRow /\ r.status = "delivering"
  BY <1>1, CurrentRows DEF CycleRow, CycleStatus, LiveStatus
<1>3. a \in AttemptRow /\ a.status = "running"
  BY <1>1, CurrentRows DEF AttemptRow
<1>4. Agree(campaign.status, r, a)
  BY <1>1, <1>2, <1>3 DEF Agree, Rest, LiveStatus
<1>5. QED BY <1>1, <1>2, <1>3, <1>4, ManagerStep DEF ResumeExternalWait

\* A due retry preserves IInv.
LEMMA RetryStep == ASSUME IInv, NEW o \in Owner, StartDueRetry(o) PROVE IInv'
<1> DEFINE r == [cycle[cur] EXCEPT !.status = "delivering", !.timer = "unset"]
           a == NewAttempt(attempt[cur].n + 1)
<1>1. HasCycle /\ campaign.status = "running" /\ attempt[cur].n < MaxAttempt
  BY DEF StartDueRetry, HasAttempt
<1>2. r \in CycleRow /\ r.status = "delivering"
  BY ZenonT(60), <1>1, CurrentRows, TimedRow DEF LiveStatus
<1>3. a \in AttemptRow /\ a.status = "running"
  BY <1>1, CurrentRows, BoundAssumption DEF AttemptRow, NewAttempt
<1>4. Agree(campaign.status, r, a)
  BY <1>1, <1>2, <1>3 DEF Agree, Rest, LiveStatus
<1>5. QED BY <1>1, <1>2, <1>3, <1>4, ManagerStep DEF StartDueRetry

-----------------------------------------------------------------------------
(* The theorems *)

\* IInv holds initially.
LEMMA InitIInv == StoreInit => IInv
<1> SUFFICES ASSUME StoreInit PROVE IInv
  OBVIOUS
<1>1. cur = 0 /\ ~HasCycle /\ campaign.status = "draft" /\ campaign.next = 1
  BY DEF StoreInit, cur, HasCycle
<1>2. \A c \in Cycles : cycle[c] = NoCycle /\ attempt[c] = NoAttempt
  BY DEF StoreInit
<1>3. StoreTypeOK
  <2>1. NoCycle \in CycleRow
    BY DEF NoCycle, CycleRow, CycleStatus
  <2>2. NoAttempt \in AttemptRow
    BY BoundAssumption DEF NoAttempt, AttemptRow
  <2>3. campaign \in CampaignRow
    BY BoundAssumption DEF StoreInit, CampaignRow
  <2>4. QED BY <2>1, <2>2, <2>3 DEF StoreInit, StoreTypeOK
<1>4. SerialCycles
  BY <1>1, <1>2, BoundAssumption DEF SerialCycles, Cycles
<1>5. ControlAgrees /\ AttemptAgrees /\ TimersArmed
  BY <1>1 DEF ControlAgrees, AttemptAgrees, TimersArmed
<1>6. LandedIsMerged
  BY <1>1, <1>2 DEF LandedIsMerged, NoCycle
<1>7. QED BY <1>3, <1>4, <1>5, <1>6 DEF IInv

\* IInv is inductive.
LEMMA NextIInv == IInv /\ [StoreNext]_storeVars => IInv'
<1> SUFFICES ASSUME IInv, [StoreNext]_storeVars PROVE IInv'
  OBVIOUS
<1>1. CASE Control
  BY <1>1, StartStep, PauseProposalStep, ResumeProposalStep, StopProposalStep,
     PauseAttemptStep, ResumeAttemptStep, StopAttemptStep DEF Control
<1>2. CASE AcceptProposal
  BY <1>2, AcceptStep
<1>3. CASE LeaseExpires
  BY <1>3, LeaseStep DEF LeaseExpires, IInv, StoreTypeOK, CampaignRow
<1>4. CASE TimerElapses
  BY <1>4, TimerStep
<1>5. ASSUME NEW o \in Owner, ClaimLease(o) PROVE IInv'
  BY <1>5, LeaseStep DEF ClaimLease, Leased, IInv, StoreTypeOK, CampaignRow
<1>6. ASSUME NEW o \in Owner, Delivery(o) PROVE IInv'
  <2>1. ASSUME NEW h \in Commit, ConfirmMerge(o, "releasing", h) PROVE IInv'
    BY <2>1, ConfirmStep DEF Release
  <2>2. QED
    BY <1>6, <2>1, LinkStep, FirstAttemptStep, ReconcileStep, HoldStep,
       InvalidateStep, RecordMergeStep, AdvanceStep DEF Delivery
<1>7. ASSUME NEW o \in Owner, Attempts(o) PROVE IInv'
  BY <1>7, FailStep, WaitStep, ResumeWaitStep, RetryStep DEF Attempts
<1>8. CASE UNCHANGED storeVars
  BY <1>8, LeaseStep DEF storeVars, IInv, StoreTypeOK
<1>9. QED
  BY <1>1, <1>2, <1>3, <1>4, <1>5, <1>6, <1>7, <1>8 DEF StoreNext

\* The conjunction of the invariants below is inductive; none of them is alone.
THEOREM StoreInvariant == StoreSpec => []IInv
  BY InitIInv, NextIInv, PTL DEF StoreSpec

\* The rows keep their types whoever calls the transactions.
THEOREM StoreTypeCorrect == StoreSpec => []StoreTypeOK
<1>1. IInv => StoreTypeOK BY DEF IInv
<1>2. QED BY <1>1, StoreInvariant, PTL

\* Cycles are serial: the unique indexes of autonomous_cycles never reject a
\* write of startCampaign or advanceCampaignAfterCooldown.
THEOREM StoreSerial == StoreSpec => []SerialCycles
<1>1. IInv => SerialCycles BY DEF IInv
<1>2. QED BY <1>1, StoreInvariant, PTL

\* Campaign, cycle and attempt never contradict each other, so that no guard of
\* the attempt manager can reject every later call.
THEOREM StoreAgrees == StoreSpec => []StatusesAgree
<1>1. IInv => StatusesAgree BY DEF IInv, StatusesAgree
<1>2. QED BY <1>1, StoreInvariant, PTL

\* A retry or a cooldown always has a time at which it ends, also across pauses.
THEOREM StoreTimersArmed == StoreSpec => []TimersArmed
<1>1. IInv => TimersArmed BY DEF IInv
<1>2. QED BY <1>1, StoreInvariant, PTL

\* No feature is left behind or cools down without its merge commit.
THEOREM StoreLandedIsMerged == StoreSpec => []LandedIsMerged
<1>1. IInv => LandedIsMerged BY DEF IInv
<1>2. QED BY <1>1, StoreInvariant, PTL

-----------------------------------------------------------------------------
(* The store implements SerialDelivery: every transaction is one step of   *)
(* the promise or leaves it unchanged.  A transaction on the current rows  *)
(* changes the stage only through what the new row rests in.               *)

StageOf(s, r) ==
  IF s = "stopped" THEN "none"
  ELSE IF Rest(r) = "proposing" THEN "proposing"
  ELSE IF Rest(r) = "cooldown" THEN "landed"
  ELSE "delivering"

\* The stage of the current feature, as a function of its row.
LEMMA CurrentStage ==
  ASSUME IInv, HasCycle
  PROVE  Stage = StageOf(campaign.status, cycle[cur])
  BY DEF Stage, StageOf, Resting, Rest

\* A step that rewrites the current row moves no other feature.
LEMMA CurrentStageStep ==
  ASSUME IInv, HasCycle, NEW r \in CycleRow, SetCycle(r),
         r.status # "succeeded", campaign'.current = cur
  PROVE  /\ cur' = cur
         /\ Stage' = StageOf(campaign'.status, r)
         /\ Delivered' = Delivered
<1>1. cur' = cur /\ HasCycle'
  BY DEF cur, HasCycle
<1>2. cur \in Cycles /\ cycle[cur].status # "succeeded"
  BY CurrentRows DEF Agree, LiveStatus
<1>3. cycle'[cur] = r /\ \A c \in Cycles \ {cur} : cycle'[c] = cycle[c]
  BY <1>2 DEF SetCycle, IInv, StoreTypeOK
<1>4. Delivered' = Delivered
  BY <1>2, <1>3 DEF Delivered
<1>5. Stage' = StageOf(campaign'.status, r)
  BY <1>1, <1>3 DEF Stage, StageOf, Resting, Rest
<1>6. QED BY <1>1, <1>4, <1>5

\* Steps within a stage: the campaign's status stays, the new row rests in the
\* same stage as the old one.
LEMMA StutterStep ==
  ASSUME IInv, HasCycle, NEW r \in CycleRow, SetCycle(r), r.status # "succeeded",
         campaign'.current = cur, campaign'.status = campaign.status,
         StageOf(campaign.status, r) = StageOf(campaign.status, cycle[cur])
  PROVE  UNCHANGED Serial!vars
  BY CurrentStageStep, CurrentStage DEF Serial!vars

\* A fresh campaign is a fresh SerialDelivery.
LEMMA InitSerial == StoreInit => Serial!Init
<1> SUFFICES ASSUME StoreInit PROVE Serial!Init
  OBVIOUS
<1>1. cur = 0 /\ campaign.status = "draft"
  BY DEF StoreInit, cur
<1>2. Delivered = {}
  BY DEF Delivered, StoreInit, NoCycle
<1>3. Stage = "none"
  BY <1>1 DEF Stage, HasCycle
<1>4. QED BY <1>1, <1>2, <1>3 DEF Serial!Init

-----------------------------------------------------------------------------
(* The operator *)

\* The operator's start is Start.
LEMMA StartSerial == ASSUME IInv, StartCampaign PROVE Serial!Start
<1>1. cur = 0 /\ campaign.next = 1
  BY DEF StartCampaign, IInv, ControlAgrees, SerialCycles, HasCycle, StoreTypeOK,
         CampaignRow, cur
<1>2. campaign'.status = "running" /\ cur' = 1 /\ campaign.status = "draft"
  <2>1. campaign'.status = "running" /\ campaign'.current = 1
    BY <1>1 DEF StartCampaign, IInv, StoreTypeOK, CampaignRow
  <2>2. QED BY <2>1 DEF StartCampaign, cur
<1>3. 1 \in Cycles
  BY BoundAssumption DEF Cycles
<1>4. cycle'[1] = NewCycle /\ \A c \in Cycles \ {1} : cycle'[c] = cycle[c]
  BY <1>1, <1>3 DEF StartCampaign, IInv, StoreTypeOK
<1>5. cycle[1].status = "none" /\ NewCycle.status = "proposing"
  BY <1>1, <1>3 DEF IInv, SerialCycles, NoCycle, NewCycle
<1>6. Delivered' = Delivered
  BY <1>3, <1>4, <1>5 DEF Delivered
<1>7. Stage' = "proposing"
  BY <1>2, <1>4, <1>5 DEF Stage, Resting, HasCycle
<1>8. QED BY <1>1, <1>2, <1>6, <1>7 DEF Serial!Start, Serial!Propose

\* Both ways to pause are Pause.
LEMMA PauseSerial ==
  ASSUME IInv, PauseProposal \/ \E o \in Owner : PauseAttempt(o)
  PROVE  Serial!Pause
<1> DEFINE r == PausedCycle
<1>1. /\ HasCycle /\ campaign.status = "running" /\ SetCycle(r)
      /\ campaign'.status = "paused" /\ campaign'.current = cur
  <2>1. CASE PauseProposal
    BY <2>1 DEF PauseProposal, IInv, StoreTypeOK, CampaignRow, cur
  <2>2. ASSUME NEW o \in Owner, PauseAttempt(o)
        PROVE  /\ HasCycle /\ campaign.status = "running" /\ SetCycle(r)
               /\ campaign'.status = "paused" /\ campaign'.current = cur
    BY <2>2 DEF PauseAttempt, HasAttempt, Leased, IInv, StoreTypeOK, CampaignRow, cur
  <2>3. QED BY <2>1, <2>2
<1>2. r \in CycleRow /\ r.status = "paused" /\ r.from = cycle[cur].status
  <2>1. cycle[cur].status \in LiveStatus
    BY <1>1, CurrentRows DEF Agree
  <2>2. QED BY <1>1, <2>1, CurrentRows DEF PausedCycle, CycleRow, CycleStatus
<1>3. StageOf("paused", r) = StageOf("running", cycle[cur])
  BY <1>1, <1>2, CurrentRows DEF StageOf, Rest, Agree, LiveStatus
<1>4. QED BY <1>1, <1>2, <1>3, CurrentStageStep, CurrentStage DEF Serial!Pause

\* Both ways to resume are Resume: the stage is the one before the pause.
LEMMA ResumeSerial ==
  ASSUME IInv, ResumeProposal \/ \E o \in Owner : ResumeAttempt(o)
  PROVE  Serial!Resume
<1> DEFINE r == ResumedCycle
<1>1. /\ HasCycle /\ campaign.status = "paused" /\ SetCycle(r)
      /\ campaign'.status = "running" /\ campaign'.current = cur
  BY DEF ResumeProposal, ResumeAttempt, HasAttempt, Leased, IInv, StoreTypeOK, CampaignRow, cur
<1>2. r \in CycleRow /\ r.status = cycle[cur].from
  BY ZenonT(60), <1>1, CurrentRows DEF ResumedCycle, CycleRow, CycleStatus, Agree, LiveStatus
<1>3. r.status \in LiveStatus
  BY <1>1, <1>2, CurrentRows DEF Agree
<1>4. StageOf("running", r) = StageOf("paused", cycle[cur])
  BY <1>1, <1>2, <1>3, CurrentRows DEF StageOf, Rest, Agree, LiveStatus
<1>5. QED
  BY <1>1, <1>2, <1>3, <1>4, CurrentStageStep, CurrentStage DEF Serial!Resume, LiveStatus

\* Both ways to stop are Stop.
LEMMA StopSerial ==
  ASSUME IInv, StopProposal \/ \E o \in Owner : StopAttempt(o)
  PROVE  Serial!Stop
<1>1. /\ campaign.status # "stopped" /\ campaign'.status = "stopped"
      /\ campaign'.current = cur /\ cur' = cur
  BY DEF StopProposal, StopAttempt, StoppedCampaign, IInv, StoreTypeOK, CampaignRow, cur
<1>2. Stage' = "none"
  BY <1>1 DEF Stage
<1>3. Delivered' = Delivered
  <2>1. CASE ~HasCycle
    BY <2>1 DEF StopProposal, StopAttempt, HasAttempt, Delivered
  <2>2. CASE HasCycle
    <3>1. Pausable
      BY <1>1, <2>2, CurrentRows DEF Pausable, Agree, LiveStatus
    <3>2. PICK r \in CycleRow : SetCycle(r) /\ r.status = "stopped"
      <4>1. CASE StopProposal
        BY <2>2, <3>1, <4>1, CurrentRows DEF StopProposal, CycleRow, CycleStatus
      <4>2. ASSUME NEW o \in Owner, StopAttempt(o)
            PROVE  \E r \in CycleRow : SetCycle(r) /\ r.status = "stopped"
        <5> DEFINE r == [cycle[cur] EXCEPT !.status = "stopped", !.timer = "unset"]
        <5>1. r \in CycleRow /\ r.status = "stopped"
          BY <2>2, CurrentRows DEF CycleRow, CycleStatus
        <5>2. SetCycle(r)
          BY <4>2 DEF StopAttempt
        <5>3. QED BY <5>1, <5>2
      <4>3. QED BY <4>1, <4>2
    <3>3. QED BY <1>1, <2>2, <3>2, CurrentStageStep
  <2>3. QED BY <2>1, <2>2
<1>4. QED BY <1>1, <1>2, <1>3 DEF Serial!Stop

-----------------------------------------------------------------------------
(* Delivery *)

\* A delivery write keeps the campaign's row.
LEMMA UpdateFacts ==
  ASSUME IInv, NEW o, NEW seen, NEW r, Update(o, seen, r)
  PROVE  /\ HasCycle /\ SetCycle(r) /\ campaign.status = "running"
         /\ cycle[cur].status = seen
         /\ campaign'.current = cur /\ campaign'.status = campaign.status
  BY DEF Update, cur

\* The hand-off's and the reconciliation's writes are Deliver or stutter.
LEMMA LinkSerial ==
  ASSUME IInv, NEW o \in Owner,
         \/ LinkTask(o)
         \/ \E seen, to \in LiveStatus : ReconcileDelivery(o, seen, to)
  PROVE  Serial!Deliver \/ UNCHANGED Serial!vars
<1>1. PICK seen \in {"proposing", "delivering"}, to \in {"delivering", "ready_to_release"} :
        Update(o, seen, [cycle[cur] EXCEPT !.status = to, !.task = "linked"])
  BY DEF LinkTask, ReconcileDelivery
<1> DEFINE r == [cycle[cur] EXCEPT !.status = to, !.task = "linked"]
<1>2. /\ HasCycle /\ SetCycle(r) /\ campaign.status = "running"
      /\ cycle[cur].status = seen
      /\ campaign'.current = cur /\ campaign'.status = campaign.status
  BY <1>1, UpdateFacts
<1>3. r \in CycleRow /\ r.status = to
  <2>1. to \in LiveStatus BY DEF LiveStatus
  <2>2. QED BY <1>2, <2>1, CurrentRows DEF CycleRow, CycleStatus
<1>4. StageOf("running", r) = "delivering"
  BY <1>3 DEF StageOf, Rest
<1>5. /\ cur' = cur /\ Stage' = "delivering" /\ Delivered' = Delivered
      /\ campaign'.status = "running"
  BY <1>2, <1>3, <1>4, CurrentStageStep
<1>6. Stage = IF seen = "proposing" THEN "proposing" ELSE "delivering"
  BY <1>2, CurrentStage DEF StageOf, Rest
<1>7. QED BY <1>2, <1>5, <1>6 DEF Serial!Deliver, Serial!vars

\* The release's writes stutter: the feature is still being delivered.
LEMMA ReleaseSerial ==
  ASSUME IInv, NEW o \in Owner,
         \/ \E seen, to \in Release, evaluated \in BOOLEAN : HoldRelease(o, seen, to, evaluated)
         \/ \E seen \in Release, evaluated \in BOOLEAN : InvalidateRelease(o, seen, evaluated)
         \/ \E seen \in Release, h \in Commit : RecordMerge(o, seen, h)
  PROVE  UNCHANGED Serial!vars
<1>1. PICK seen \in Release, r \in CycleRow :
        /\ Update(o, seen, r)
        /\ r.status \in {"ready_to_release", "releasing", "delivering"}
  <2>1. ASSUME NEW seen \in Release, NEW to \in Release, NEW evaluated \in BOOLEAN,
               HoldRelease(o, seen, to, evaluated), HasCycle
        PROVE  LET r == [cycle[cur] EXCEPT !.status = to,
                                           !.gates = IF evaluated THEN "evaluated" ELSE @]
               IN  Update(o, seen, r) /\ r \in CycleRow /\ r.status = to
    <3> DEFINE r == [cycle[cur] EXCEPT !.status = to,
                                       !.gates = IF evaluated THEN "evaluated" ELSE @]
    <3>1. Update(o, seen, r) BY <2>1 DEF HoldRelease
    <3>2. to \in LiveStatus BY DEF LiveStatus, Release
    <3>3. r \in CycleRow /\ r.status = to
      BY <2>1, <3>2, CurrentRows DEF CycleRow, CycleStatus
    <3>4. QED BY <3>1, <3>3
  <2>2. ASSUME NEW seen \in Release, NEW evaluated \in BOOLEAN,
               InvalidateRelease(o, seen, evaluated), HasCycle
        PROVE  LET r == [cycle[cur] EXCEPT !.status = "delivering",
                                           !.gates = IF evaluated THEN "revalidate" ELSE @]
               IN  Update(o, seen, r) /\ r \in CycleRow /\ r.status = "delivering"
    BY ZenonT(60), <2>2, CurrentRows DEF InvalidateRelease, CycleRow, CycleStatus, LiveStatus
  <2>3. ASSUME NEW seen \in Release, NEW h \in Commit, RecordMerge(o, seen, h), HasCycle
        PROVE  LET r == [cycle[cur] EXCEPT !.status = "releasing", !.merge = h,
                                           !.gates = "evaluated"]
               IN  Update(o, seen, r) /\ r \in CycleRow /\ r.status = "releasing"
    BY ZenonT(60), <2>3, CurrentRows DEF RecordMerge, CycleRow, CycleStatus, LiveStatus
  <2>4. HasCycle
    BY DEF HoldRelease, InvalidateRelease, RecordMerge, Update
  <2>5. QED BY <2>1, <2>2, <2>3, <2>4 DEF Release
<1>2. /\ HasCycle /\ SetCycle(r) /\ campaign.status = "running"
      /\ cycle[cur].status = seen
      /\ campaign'.current = cur /\ campaign'.status = campaign.status
  BY <1>1, UpdateFacts
<1>3. StageOf("running", r) = "delivering" /\ StageOf("running", cycle[cur]) = "delivering"
  BY <1>1, <1>2 DEF StageOf, Rest, Release
<1>4. QED BY <1>1, <1>2, <1>3, StutterStep

\* The confirmed merge is Land.
LEMMA ConfirmSerial ==
  ASSUME IInv, NEW o \in Owner, NEW h \in Commit, ConfirmMerge(o, "releasing", h)
  PROVE  Serial!Land
<1> DEFINE r == [cycle[cur] EXCEPT !.status = "cooldown", !.merge = h, !.timer = "later"]
<1>1. Update(o, "releasing", r)
  BY DEF ConfirmMerge
<1>2. /\ HasCycle /\ SetCycle(r) /\ campaign.status = "running"
      /\ cycle[cur].status = "releasing"
      /\ campaign'.current = cur /\ campaign'.status = campaign.status
  BY <1>1, UpdateFacts
<1>3. r \in CycleRow /\ r.status = "cooldown"
  BY <1>2, CurrentRows, ConfirmedRow
<1>4. StageOf("running", r) = "landed" /\ StageOf("running", cycle[cur]) = "delivering"
  BY <1>2, <1>3 DEF StageOf, Rest
<1>5. QED BY <1>2, <1>3, <1>4, CurrentStageStep, CurrentStage DEF Serial!Land

\* The end of the cooldown is Proceed.
LEMMA AdvanceSerial ==
  ASSUME IInv, NEW o \in Owner, AdvanceAfterCooldown(o)
  PROVE  Serial!Proceed
<1> DEFINE new == campaign.next
           r == [cycle[cur] EXCEPT !.status = "succeeded"]
<1>1. HasCycle /\ cycle[cur].status = "cooldown" /\ new <= MaxCycle
  BY DEF AdvanceAfterCooldown
<1>2. campaign.status = "running" /\ Stage = "landed"
  BY <1>1, CurrentRows, CurrentStage DEF Agree, LiveStatus, StageOf, Rest
<1>3. /\ cur \in Cycles /\ new \in Cycles /\ new = cur + 1 /\ cur # new /\ new # 0
  BY <1>1, CurrentRows, BoundAssumption DEF IInv, SerialCycles, Cycles
<1>4. campaign'.status = "running" /\ campaign'.current = new
  BY <1>2 DEF AdvanceAfterCooldown, IInv, StoreTypeOK, CampaignRow
<1>5. /\ cycle'[new].status = "proposing" /\ cycle'[cur].status = "succeeded"
      /\ \A c \in Cycles \ {cur, new} : cycle'[c] = cycle[c]
  <2>1. cycle' = [[cycle EXCEPT ![cur] = r] EXCEPT ![new] = NewCycle]
    BY <1>3 DEF AdvanceAfterCooldown
  <2>2. NewCycle.status = "proposing"
    BY DEF NewCycle, NoCycle
  <2>3. r.status = "succeeded"
    BY <1>1, CurrentRows DEF CycleRow
  <2>4. QED BY <1>3, <2>1, <2>2, <2>3 DEF IInv, StoreTypeOK
<1>6. Stage' = "proposing" /\ cur' = new
  BY <1>3, <1>4, <1>5 DEF Stage, Resting, HasCycle, cur
<1>7. cycle[new].status # "succeeded"
  <2>1. new > cur
    BY <1>3, BoundAssumption DEF Cycles
  <2>2. QED BY <1>3, <2>1 DEF IInv, SerialCycles, NoCycle
<1>8. Delivered' = Delivered \cup {cur}
  BY <1>3, <1>5, <1>7 DEF Delivered
<1>9. QED BY <1>2, <1>3, <1>4, <1>6, <1>8 DEF Serial!Proceed, Serial!Propose

-----------------------------------------------------------------------------
(* Attempts, waits, retries, leases and timers move no stage *)

\* Failures, waits and retries stutter.
LEMMA AttemptsSerial ==
  ASSUME IInv, NEW o \in Owner, Attempts(o)
  PROVE  UNCHANGED Serial!vars
<1>1. PICK r :
        /\ SetCycle(r)
        /\ HasCycle => /\ r \in CycleRow
                       /\ r.status \in {"delivering", "retry_wait", "waiting_for_external"}
  <2>1. CASE FailAttempt(o)
    <3> DEFINE r == [cycle[cur] EXCEPT !.status = "retry_wait", !.timer = "later"]
    <3>1. SetCycle(r) BY <2>1 DEF FailAttempt, Failable
    <3>2. HasCycle => r \in CycleRow /\ r.status = "retry_wait"
      BY ZenonT(60), CurrentRows, TimedRow DEF LiveStatus
    <3>3. QED BY <3>1, <3>2
  <2>2. CASE WaitForExternal(o) \/ ResumeExternalWait(o)
    BY <2>2, CurrentRows
    DEF WaitForExternal, ResumeExternalWait, CycleRow, CycleStatus, LiveStatus
  <2>3. CASE StartDueRetry(o)
    <3> DEFINE r == [cycle[cur] EXCEPT !.status = "delivering", !.timer = "unset"]
    <3>1. SetCycle(r) BY <2>3 DEF StartDueRetry
    <3>2. HasCycle => r \in CycleRow /\ r.status = "delivering"
      BY ZenonT(60), CurrentRows, TimedRow DEF LiveStatus
    <3>3. QED BY <3>1, <3>2
  <2>4. QED BY <2>1, <2>2, <2>3 DEF Attempts
<1>2. /\ HasCycle /\ campaign' = campaign /\ campaign.status = "running"
      /\ cycle[cur].status \in {"delivering", "retry_wait", "waiting_for_external"}
  BY DEF Attempts, FailAttempt, Failable, WaitForExternal, ResumeExternalWait, StartDueRetry, HasAttempt
<1>3. StageOf("running", r) = "delivering" /\ StageOf("running", cycle[cur]) = "delivering"
  BY <1>1, <1>2 DEF StageOf, Rest
<1>4. QED BY <1>1, <1>2, <1>3, StutterStep DEF cur

\* An accepted proposal and a timer that comes due stutter.
LEMMA TimerSerial == ASSUME IInv, AcceptProposal \/ TimerElapses PROVE UNCHANGED Serial!vars
<1>1. HasCycle /\ campaign' = campaign
  BY DEF AcceptProposal, TimerElapses
<1>2. PICK r \in CycleRow :
        SetCycle(r) /\ r.status = cycle[cur].status /\ r.from = cycle[cur].from
  BY <1>1, CurrentRows DEF AcceptProposal, TimerElapses, CycleRow
<1>3. r.status # "succeeded" /\ Rest(r) = Rest(cycle[cur])
  BY <1>1, <1>2, CurrentRows DEF Agree, LiveStatus, Rest
<1>4. QED BY <1>1, <1>2, <1>3, StutterStep DEF StageOf, cur

\* Writes of the lease stutter.
LEMMA LeaseSerial ==
  ASSUME IInv, UNCHANGED <<cycle, attempt>>,
         campaign'.status = campaign.status, campaign'.current = campaign.current
  PROVE  UNCHANGED Serial!vars
  BY DEF Serial!vars, Stage, Delivered, Resting, HasCycle, cur

\* Every step of the store is a step of SerialDelivery or stutters.
LEMMA NextSerial == IInv /\ [StoreNext]_storeVars => [Serial!Next]_(Serial!vars)
<1> SUFFICES ASSUME IInv, [StoreNext]_storeVars
             PROVE  Serial!Next \/ UNCHANGED Serial!vars
  OBVIOUS
<1> USE DEF Serial!Next
<1>1. CASE Control
  BY <1>1, StartSerial, PauseSerial, ResumeSerial, StopSerial DEF Control
<1>2. CASE AcceptProposal \/ TimerElapses
  BY <1>2, TimerSerial
<1>3. CASE LeaseExpires \/ \E o \in Owner : ClaimLease(o)
  BY <1>3, LeaseSerial DEF LeaseExpires, ClaimLease, Leased, IInv, StoreTypeOK, CampaignRow
<1>4. ASSUME NEW o \in Owner, Delivery(o) PROVE Serial!Next \/ UNCHANGED Serial!vars
  <2>1. CASE CreateFirstAttempt(o)
    BY <2>1 DEF CreateFirstAttempt, Serial!vars, Stage, Delivered, Resting, HasCycle, cur
  <2>2. QED
    BY <1>4, <2>1, LinkSerial, ReleaseSerial, ConfirmSerial, AdvanceSerial DEF Delivery
<1>5. ASSUME NEW o \in Owner, Attempts(o) PROVE UNCHANGED Serial!vars
  BY <1>5, AttemptsSerial
<1>6. CASE UNCHANGED storeVars
  BY <1>6, LeaseSerial DEF storeVars
<1>7. QED BY <1>1, <1>2, <1>3, <1>4, <1>5, <1>6 DEF StoreNext

\* The campaign store delivers one feature after the other: every run of the
\* transactions, by any owners in any order, is a run of SerialDelivery.
THEOREM StoreDeliversSerially == StoreSpec => DeliversSerially
  BY InitSerial, NextSerial, StoreInvariant, PTL DEF StoreSpec, DeliversSerially, Serial!Spec

-----------------------------------------------------------------------------
(***************************************************************************)
(* The composed campaign                                                   *)
(***************************************************************************)

\* The task rows of a cycle of which the heads S were accepted.
GoodFor(S) == {t \in TaskRow : t.review = "accepted" => t.reviewed \in S}

\* The rows that may take the place of the task's: a commit once made is kept.
Good(c) ==
  {t \in GoodFor(accepted[c]) : /\ pr[c].tip = 0 => t.head = 0
                                /\ task[c].head # 0 => t.head # 0}

Late == {"deploy", "backoff", "review", "verdict"}

RowsOK ==
  /\ task \in [Cycles -> TaskRow]
  /\ run \in [Cycles -> RunRow]
  /\ pr \in [Cycles -> PrRow]
  /\ accepted \in [Cycles -> SUBSET Head]
  /\ \A c \in Cycles :
       /\ task[c] \in Good(c)
       /\ run[c].phase \in Late \/ run[c].mode = "revalidate" => task[c].head # 0
       /\ pr[c].state # "none" => pr[c].tip # 0

Mode == {"build", "iterate", "revalidate"}

-----------------------------------------------------------------------------
(* The task rows and the runs *)

\* What the assumptions say about the commits of a branch.
LEMMA HeadFacts == MaxHead \in Nat /\ Head \subseteq 0..MaxHead /\ 0 \in 0..MaxHead
  BY HeadAssumption DEF Head

\* The typing facts RowsOK holds for one cycle.
LEMMA GoodRow ==
  ASSUME RowsOK, NEW c \in Cycles
  PROVE  /\ task[c] \in TaskRow /\ task[c] \in Good(c)
         /\ run[c] \in RunRow /\ pr[c] \in PrRow
  BY DEF RowsOK

\* A step that replaces the row and the run of one cycle.
LEMMA SetOK ==
  ASSUME RowsOK, NEW c \in Cycles, NEW t \in Good(c), NEW r \in RunRow,
         task' = [task EXCEPT ![c] = t], run' = [run EXCEPT ![c] = r],
         r.phase \in Late \/ r.mode = "revalidate" => t.head # 0,
         UNCHANGED <<pr, accepted>>
  PROVE  RowsOK'
<1>1. task' \in [Cycles -> TaskRow] /\ run' \in [Cycles -> RunRow]
  BY DEF RowsOK, Good, GoodFor
<1>2. ASSUME NEW d \in Cycles
      PROVE  /\ (task[d] \in Good(d))'
             /\ run'[d].phase \in Late \/ run'[d].mode = "revalidate" => task'[d].head # 0
  BY DEF RowsOK, Good, GoodFor
<1>3. QED BY <1>1, <1>2 DEF RowsOK

\* A step that writes the row of one task only.
LEMMA SetTaskOK ==
  ASSUME RowsOK, NEW c \in Cycles, NEW t \in Good(c),
         task' = [task EXCEPT ![c] = t], UNCHANGED <<run, pr, accepted>>
  PROVE  RowsOK'
<1>1. /\ run[c] \in RunRow /\ run' = [run EXCEPT ![c] = run[c]]
      /\ run[c].phase \in Late \/ run[c].mode = "revalidate" => t.head # 0
  BY DEF RowsOK, Good
<1>2. QED BY <1>1, SetOK

\* beginTaskRun makes a well-typed run.
LEMMA LaunchedRow ==
  ASSUME NEW mode \in Mode PROVE Launched(mode) \in RunRow
  BY DEF Mode, Launched, NoRun, RunRow

\* What a launch writes invalidates no accepted review, and keeps the head.
LEMMA AtLaunchGood ==
  ASSUME NEW S, NEW t \in GoodFor(S), NEW mode \in Mode
  PROVE  AtLaunch(t, mode) \in GoodFor(S) /\ AtLaunch(t, mode).head = t.head
<1>1. CASE mode = "build"
  BY <1>1 DEF AtLaunch, Reset, GoodFor, TaskRow
<1>2. CASE mode = "revalidate"
  BY <1>2, HeadFacts DEF AtLaunch, GoodFor, TaskRow
<1>3. CASE mode = "iterate"
  BY <1>3 DEF AtLaunch
<1>4. QED BY <1>1, <1>2, <1>3 DEF Mode

\* startBuild, iterateTask and revalidateCampaignTask, whether a run is active or not.
LEMMA LaunchOK ==
  ASSUME RowsOK, NEW c \in Cycles, NEW t \in Good(c), NEW mode \in Mode,
         mode = "revalidate" => t.head # 0,
         Launch(c, t, mode), UNCHANGED <<pr, accepted>>
  PROVE  RowsOK'
<1>1. CASE Active(c)
  BY <1>1, SetTaskOK DEF Launch
<1>2. CASE ~Active(c)
  <2>1. AtLaunch(t, mode) \in Good(c) /\ AtLaunch(t, mode).head = t.head
    BY AtLaunchGood DEF Good
  <2>2. Launched(mode).phase = "start" /\ Launched(mode).mode = mode
    BY DEF Launched, NoRun
  <2>3. QED BY <1>2, <2>1, <2>2, SetOK, LaunchedRow DEF Launch, Late
<1>3. QED BY <1>1, <1>2

\* A row and a note on the run, which is no part of what the rows owe each other.
LEMMA MissedOK ==
  ASSUME RowsOK, NEW c \in Cycles, NEW t \in Good(c),
         task' = [task EXCEPT ![c] = t],
         NEW phase \in {"off", "start", "code"} \cup Late,
         phase \in Late => t.head # 0, run[c].mode = "revalidate" => t.head # 0,
         run' = [run EXCEPT ![c].phase = phase, ![c].missed = Missed(c)],
         UNCHANGED <<pr, accepted>>
  PROVE  RowsOK'
<1> DEFINE r == [run[c] EXCEPT !.phase = phase, !.missed = Missed(c)]
<1>1. Missed(c) \in {"yes", "no"} BY GoodRow DEF Missed, RunRow
<1>2. r \in RunRow /\ r.phase = phase /\ r.mode = run[c].mode
  BY <1>1, GoodRow DEF RunRow, Late
<1>3. run' = [run EXCEPT ![c] = r] BY GoodRow DEF RowsOK, RunRow
<1> HIDE DEF r
<1>4. QED BY <1>2, <1>3, SetOK

\* The coordinator's launches, whether a run is active or not.
LEMMA LaunchUnqueuedOK ==
  ASSUME RowsOK, NEW c \in Cycles, NEW t \in Good(c), NEW mode \in Mode,
         mode = "revalidate" => t.head # 0,
         LaunchUnqueued(c, t, mode), UNCHANGED <<pr, accepted>>
  PROVE  RowsOK'
<1>1. CASE Active(c)
  <2>1. run[c].phase \in {"off", "start", "code"} \cup Late BY GoodRow DEF RunRow, Late
  <2>2. run' = [run EXCEPT ![c].phase = run[c].phase, ![c].missed = Missed(c)]
    BY <1>1, GoodRow DEF LaunchUnqueued, RowsOK, RunRow
  <2>3. run[c].phase \in Late \/ run[c].mode = "revalidate" => t.head # 0
    BY DEF RowsOK, Good
  <2>4. QED BY <1>1, <2>1, <2>2, <2>3, MissedOK DEF LaunchUnqueued
<1>2. CASE ~Active(c)
  BY <1>2, LaunchOK DEF LaunchUnqueued
<1>3. QED BY <1>1, <1>2

\* A resume builds or iterates, it never revalidates.
LEMMA ResumedMode == ASSUME NEW t PROVE Resumed(t) \in Mode \ {"revalidate"}
  BY DEF Resumed, Mode

\* What becomes of the run and of the row t of a run that ends.
LEMMA EndsRow ==
  ASSUME NEW c \in Cycles, run[c] \in RunRow, NEW S, NEW t \in GoodFor(S), Ends(c, t)
  PROVE  \E u \in GoodFor(S), r \in RunRow :
            /\ task' = [task EXCEPT ![c] = u] /\ run' = [run EXCEPT ![c] = r]
            /\ u.head = t.head
            /\ r.phase \notin Late /\ r.mode # "revalidate"
<1>1. CASE /\ task' = [task EXCEPT ![c] = t]
           /\ run' = [run EXCEPT ![c] = [NoRun EXCEPT !.missed = run[c].missed]]
  <2> DEFINE r == [NoRun EXCEPT !.missed = run[c].missed]
  <2>1. r \in RunRow /\ r.phase \notin Late /\ r.mode # "revalidate"
    BY DEF NoRun, RunRow, Late
  <2>2. QED BY <1>1, <2>1
<1>2. CASE /\ task' = [task EXCEPT ![c] = AtLaunch(t, Resumed(t))]
           /\ run' = [run EXCEPT ![c] = Launched(Resumed(t))]
  <2>1. /\ Launched(Resumed(t)) \in RunRow
        /\ Launched(Resumed(t)).phase = "start"
        /\ Launched(Resumed(t)).mode = Resumed(t)
    BY ResumedMode, LaunchedRow DEF Launched, NoRun
  <2>2. QED BY <1>2, <2>1, ResumedMode, AtLaunchGood DEF Late
<1>3. QED BY <1>1, <1>2 DEF Ends

\* endTaskRun, with the queued resume, after a segment that wrote the row t.
LEMMA EndsOK ==
  ASSUME RowsOK, NEW c \in Cycles, NEW t \in Good(c), Ends(c, t),
         UNCHANGED <<pr, accepted>>
  PROVE  RowsOK'
<1>1. PICK u \in GoodFor(accepted[c]), r \in RunRow :
         /\ task' = [task EXCEPT ![c] = u] /\ run' = [run EXCEPT ![c] = r]
         /\ u.head = t.head
         /\ r.phase \notin Late /\ r.mode # "revalidate"
  BY GoodRow, EndsRow DEF Good
<1>2. u \in Good(c) BY <1>1 DEF Good
<1>3. QED BY <1>1, <1>2, SetOK

\* A step that ends a run and may enlarge the set of accepted heads.
LEMMA AcceptingEndOK ==
  ASSUME RowsOK, NEW c \in Cycles, NEW S \in SUBSET Head, accepted[c] \subseteq S,
         accepted' = [accepted EXCEPT ![c] = S],
         NEW t \in GoodFor(S), t.head = task[c].head, Ends(c, t), UNCHANGED pr
  PROVE  RowsOK'
<1>1. PICK u \in GoodFor(S), r \in RunRow :
         /\ task' = [task EXCEPT ![c] = u] /\ run' = [run EXCEPT ![c] = r]
         /\ u.head = t.head
         /\ r.phase \notin Late /\ r.mode # "revalidate"
  BY GoodRow, EndsRow
<1>2. task' \in [Cycles -> TaskRow] /\ run' \in [Cycles -> RunRow]
  BY <1>1 DEF RowsOK, GoodFor
<1>3. ASSUME NEW d \in Cycles
      PROVE  /\ (task[d] \in Good(d))'
             /\ run'[d].phase \in Late \/ run'[d].mode = "revalidate" => task'[d].head # 0
  BY <1>1 DEF RowsOK, Good, GoodFor
<1>4. QED BY <1>2, <1>3 DEF RowsOK

-----------------------------------------------------------------------------
(* The segments of a run *)

StoreOK == [StoreNext]_storeVars

\* The attempt manager's writes are steps of the store.
LEMMA AttemptsOK == ASSUME NEW o \in Owner, Attempts(o) PROVE StoreOK
  BY DEF StoreOK, StoreNext

\* The run of cycle c goes on to its next segment with the row t.
LEMMA SegmentOK ==
  ASSUME RowsOK, NEW c \in Cycles, NEW t \in Good(c),
         NEW phase \in {"start", "code"} \cup Late, phase \in Late => t.head # 0,
         run[c].mode = "revalidate" => t.head # 0,
         task' = [task EXCEPT ![c] = t], Enters(c, phase), UNCHANGED <<pr, accepted>>
  PROVE  RowsOK'
<1> DEFINE r == [run[c] EXCEPT !.phase = phase]
<1>1. r \in RunRow /\ r.phase = phase /\ r.mode = run[c].mode
  BY GoodRow DEF RunRow, Late
<1>2. run' = [run EXCEPT ![c] = r] BY GoodRow DEF Enters, RowsOK
<1>3. QED BY <1>1, <1>2, SetOK

\* A row with the same head and review as a good one is good.
LEMMA SameReview ==
  ASSUME NEW c \in Cycles, NEW t \in Good(c), NEW u \in TaskRow,
         u.head = t.head, u.review = t.review, u.reviewed = t.reviewed
  PROVE  u \in Good(c)
  BY DEF Good, GoodFor

\* A task's status is no part of what its review rests on.
LEMMA StatusGood ==
  ASSUME NEW c \in Cycles, NEW t \in Good(c),
         NEW s \in {"none", "clarifying", "building", "deploying", "review", "shipping",
                   "completed", "failed"}
  PROVE  [t EXCEPT !.status = s] \in Good(c)
<1> DEFINE u == [t EXCEPT !.status = s]
<1>1. t \in TaskRow BY DEF Good, GoodFor
<1>2. u \in TaskRow /\ u.head = t.head /\ u.review = t.review /\ u.reviewed = t.reviewed
  BY <1>1 DEF TaskRow
<1> HIDE DEF u
<1>3. u \in Good(c) BY <1>2, SameReview
<1>4. QED BY <1>3 DEF u

\* initPipeline invalidates no accepted review: it only clears stages.
LEMMA ResetGood ==
  ASSUME NEW c \in Cycles, NEW t \in Good(c) PROVE Reset(t) \in Good(c)
<1>1. t \in TaskRow BY DEF Good, GoodFor
<1>2. /\ Reset(t) \in TaskRow /\ Reset(t).head = t.head
      /\ Reset(t).review = t.review /\ Reset(t).reviewed = t.reviewed
  BY <1>1 DEF Reset, TaskRow
<1>3. QED BY <1>2, SameReview

\* A task that knows a head has a branch with a commit.
LEMMA TipThere ==
  ASSUME NEW c, NEW t \in Good(c), t.head # 0 PROVE pr[c].tip # 0
  BY DEF Good

\* A guard that refuses ends the run without writing the store.
LEMMA HaltsOK ==
  ASSUME RowsOK, NEW o, NEW c \in Cycles, NEW t \in Good(c), Halts(o, c, t),
         UNCHANGED <<pr, accepted>>
  PROVE  RowsOK' /\ StoreOK
<1>1. [t EXCEPT !.status = "failed"] \in Good(c) BY StatusGood
<1>2. QED BY <1>1, EndsOK DEF Halts, StoreOK

\* The first segment of runFullPipeline.
LEMMA BeginBuildOK ==
  ASSUME RowsOK, NEW o \in Owner, NEW c \in Cycles, BeginBuild(o, c)
  PROVE  RowsOK' /\ StoreOK
<1> DEFINE t == Reset(task[c])
<1>1. t \in Good(c) /\ t.base \in {"none", "reserved"} /\ task[c].base \in {"none", "reserved"}
  <2>1. task[c] \in TaskRow /\ task[c] \in Good(c) BY GoodRow
  <2>2. task[c].base \in {"none", "reserved"} BY <2>1 DEF TaskRow
  <2>3. t.base = task[c].base BY <2>1 DEF Reset, TaskRow
  <2> HIDE DEF t
  <2>4. t \in Good(c) BY <2>1, ResetGood DEF t
  <2>5. QED BY <2>2, <2>3, <2>4
<1>2. CASE Halts(o, c, t)
  BY <1>1, <1>2, HaltsOK DEF BeginBuild
<1>3. ASSUME NEW b \in {"none", "reserved"},
             task' = [task EXCEPT ![c] = [t EXCEPT !.branch = "named", !.base = b]],
             Enters(c, "code")
      PROVE RowsOK'
  <2> DEFINE u == [t EXCEPT !.branch = "named", !.base = b]
  <2>1. u \in Good(c)
    <3> HIDE DEF t
    <3>1. t \in TaskRow BY <1>1 DEF Good, GoodFor
    <3>2. u \in TaskRow /\ u.head = t.head /\ u.review = t.review /\ u.reviewed = t.reviewed
      BY <3>1 DEF TaskRow
    <3>3. QED BY <1>1, <3>2, SameReview
  <2>2. run[c].mode # "revalidate" BY DEF BeginBuild
  <2> HIDE DEF u
  <2>3. task' = [task EXCEPT ![c] = u] BY <1>3 DEF u
  <2>4. QED BY <1>3, <2>1, <2>2, <2>3, SegmentOK DEF BeginBuild, Late
<1>4. QED BY <1>1, <1>2, <1>3 DEF BeginBuild, RowsOK, StoreOK

\* The first segment of runIteration.
LEMMA BeginIterationOK ==
  ASSUME RowsOK, NEW o \in Owner, NEW c \in Cycles, BeginIteration(o, c)
  PROVE  RowsOK' /\ StoreOK
<1> DEFINE t == [Reset(task[c]) EXCEPT !.status = "building"]
<1>1. t \in Good(c) BY GoodRow, ResetGood, StatusGood
<1>2. CASE Halts(o, c, t)
  BY <1>1, <1>2, HaltsOK DEF BeginIteration
<1>3. CASE task' = [task EXCEPT ![c] = t] /\ Enters(c, "code") /\ UNCHANGED storeVars
  <2>1. run[c].mode # "revalidate" BY DEF BeginIteration
  <2> HIDE DEF t
  <2>2. QED BY <1>1, <1>3, <2>1, SegmentOK DEF BeginIteration, Late, StoreOK
<1>4. QED BY <1>2, <1>3 DEF BeginIteration

\* The first segment of revalidateCampaignTask.
LEMMA BeginRevalidationOK ==
  ASSUME RowsOK, NEW o \in Owner, NEW c \in Cycles, BeginRevalidation(o, c)
  PROVE  RowsOK' /\ StoreOK
<1> DEFINE t == [task[c] EXCEPT !.head = pr[c].tip]
<1>1. t \in Good(c) /\ t.head # 0
  <2>1. run[c].mode = "revalidate" BY DEF BeginRevalidation
  <2>2. task[c].head # 0 BY <2>1 DEF RowsOK
  <2>7. task[c] \in TaskRow /\ task[c] \in Good(c) BY GoodRow
  <2>3. pr[c].tip # 0 BY <2>2, <2>7, TipThere
  <2>6. pr[c].tip \in 0..MaxHead BY GoodRow DEF PrRow
  <2>4. t \in TaskRow /\ t.head = pr[c].tip /\ t.review = task[c].review
        /\ t.reviewed = task[c].reviewed
    BY <2>7, <2>6 DEF TaskRow
  <2>5. QED BY <2>3, <2>4, <2>7 DEF Good, GoodFor
<1>2. CASE Halts(o, c, t)
  BY <1>1, <1>2, HaltsOK DEF BeginRevalidation
<1>3. CASE task' = [task EXCEPT ![c] = t] /\ Enters(c, "deploy") /\ UNCHANGED storeVars
  <2> HIDE DEF t
  <2>1. QED BY <1>1, <1>3, SegmentOK DEF BeginRevalidation, Late, StoreOK
<1>4. QED BY <1>2, <1>3 DEF BeginRevalidation

\* The coder's segment: the new head is not the reviewed one, and the branch has it.
LEMMA PushOK ==
  ASSUME RowsOK, NEW o \in Owner, NEW c \in Cycles, Push(o, c)
  PROVE  RowsOK' /\ StoreOK
<1> DEFINE t == [task[c] EXCEPT !.feedback = "none", !.front = "done"]
           b == IF run[c].mode = "build" THEN "reserved" ELSE t.base
           h == pr[c].tip + 1
           p == [t EXCEPT !.head = h, !.base = b]
           r == [run[c] EXCEPT !.phase = "deploy"]
           q == [pr[c] EXCEPT !.tip = h]
<1>1. t \in Good(c)
  <2>1. task[c] \in TaskRow /\ task[c] \in Good(c) BY GoodRow
  <2>2. t \in TaskRow BY <2>1 DEF TaskRow
  <2>3. /\ t.head = task[c].head /\ t.review = task[c].review
        /\ t.reviewed = task[c].reviewed
    BY <2>1 DEF TaskRow
  <2> HIDE DEF t
  <2>4. QED BY <2>1, <2>2, <2>3, SameReview
<1>2. CASE Halts(o, c, t) /\ UNCHANGED pr
  BY <1>1, <1>2, HaltsOK DEF Push
<1>3. CASE /\ pr[c].tip < MaxHead
           /\ pr' = [pr EXCEPT ![c].tip = @ + 1]
           /\ task' = [task EXCEPT ![c] = p]
           /\ Enters(c, "deploy") /\ UNCHANGED storeVars
  <2>1. h \in 0..MaxHead /\ h # 0 BY <1>3, GoodRow, HeadFacts DEF PrRow
  <2>2. b \in {"none", "reserved"} BY <1>1 DEF Good, GoodFor, TaskRow
  <2>3. p \in TaskRow /\ p.head = h /\ p.review = t.review /\ p.reviewed = t.reviewed
    <3>1. t \in TaskRow BY <1>1 DEF Good, GoodFor
    <3> HIDE DEF t, b, h
    <3>2. QED BY <3>1, <2>1, <2>2 DEF TaskRow
  <2>4. q \in PrRow /\ q.tip = h /\ q.state = pr[c].state
    <3> HIDE DEF h
    <3> QED BY <2>1, GoodRow DEF PrRow
  <2>5. r \in RunRow BY GoodRow DEF RunRow
  <2>6. pr' = [pr EXCEPT ![c] = q] /\ run' = [run EXCEPT ![c] = r]
    BY <1>3, GoodRow DEF RowsOK, Enters
  <2>7. p \in GoodFor(accepted[c])
    <3> HIDE DEF p, t
    <3> QED BY <1>1, <2>3 DEF Good, GoodFor
  <2> HIDE DEF p, q, r, h
  <2>8. /\ task' \in [Cycles -> TaskRow] /\ run' \in [Cycles -> RunRow]
        /\ pr' \in [Cycles -> PrRow]
    BY <1>3, <2>3, <2>4, <2>5, <2>6 DEF RowsOK
  <2>9. ASSUME NEW d \in Cycles
        PROVE  /\ (task[d] \in Good(d))'
               /\ run'[d].phase \in Late \/ run'[d].mode = "revalidate" => task'[d].head # 0
               /\ pr'[d].state # "none" => pr'[d].tip # 0
    <3>1. CASE d = c
      BY <1>3, <2>1, <2>3, <2>4, <2>6, <2>7, <3>1 DEF Push, RowsOK, Good
    <3>2. CASE d # c
      BY <1>3, <2>6, <3>2 DEF Push, RowsOK, Good
    <3>3. QED BY <3>1, <3>2
  <2>10. QED BY <1>3, <2>8, <2>9 DEF Push, RowsOK, StoreOK
<1>4. QED BY <1>2, <1>3 DEF Push

\* An iteration without changes.
LEMMA ChangeNothingOK ==
  ASSUME RowsOK, NEW o \in Owner, NEW c \in Cycles, ChangeNothing(o, c)
  PROVE  RowsOK' /\ StoreOK
<1> DEFINE t == [task[c] EXCEPT !.feedback = "none", !.front = "done", !.status = "review"]
<1>1. t \in Good(c)
  <2>1. task[c] \in TaskRow /\ task[c] \in Good(c) BY GoodRow
  <2>2. t \in TaskRow BY <2>1 DEF TaskRow
  <2>3. /\ t.head = task[c].head /\ t.review = task[c].review
        /\ t.reviewed = task[c].reviewed
    BY <2>1 DEF TaskRow
  <2> HIDE DEF t
  <2>4. QED BY <2>1, <2>2, <2>3, SameReview
<1>2. QED BY <1>1, EndsOK DEF ChangeNothing, StoreOK

\* Image build, rollout, validation and the draft pull request.
LEMMA DeployOK ==
  ASSUME RowsOK, NEW o \in Owner, NEW c \in Cycles, Deploy(o, c)
  PROVE  RowsOK' /\ StoreOK
<1>0. task[c].head # 0 /\ task[c] \in TaskRow /\ pr[c] \in PrRow
  BY GoodRow DEF Deploy, RowsOK, Late
<1>1. CASE Halts(o, c, task[c]) /\ UNCHANGED pr
  BY <1>1, HaltsOK, GoodRow DEF Deploy
<1>2. CASE /\ Enters(c, "review") /\ UNCHANGED storeVars
           /\ pr' = [pr EXCEPT ![c].state = IF @ = "none" THEN "open" ELSE @,
                               ![c].draft = IF pr[c].state = "none" THEN "yes" ELSE @]
           /\ task' = [task EXCEPT ![c].status = "deploying", ![c].pr = "known"]
  <2> DEFINE t == [task[c] EXCEPT !.status = "deploying", !.pr = "known"]
             s == IF pr[c].state = "none" THEN "open" ELSE pr[c].state
             d == IF pr[c].state = "none" THEN "yes" ELSE pr[c].draft
             q == [pr[c] EXCEPT !.state = s, !.draft = d]
             r == [run[c] EXCEPT !.phase = "review"]
  <2>1. t \in Good(c) /\ t.head = task[c].head
    <3>1. task[c] \in Good(c) BY GoodRow
    <3>2. /\ t \in TaskRow /\ t.head = task[c].head /\ t.review = task[c].review
          /\ t.reviewed = task[c].reviewed
      BY ZenonT(60), <1>0 DEF TaskRow
    <3> HIDE DEF t
    <3>3. QED BY <3>1, <3>2, SameReview
  <2>2. s \in {"none", "open", "merged"} /\ d \in {"yes", "no"} BY <1>0 DEF PrRow
  <2>3. q \in PrRow /\ q.tip = pr[c].tip
    <3> HIDE DEF s, d
    <3> QED BY <1>0, <2>2 DEF PrRow
  <2>4. r \in RunRow /\ r.mode = run[c].mode BY GoodRow DEF RunRow
  <2>5. /\ task' = [task EXCEPT ![c] = t] /\ pr' = [pr EXCEPT ![c] = q]
        /\ run' = [run EXCEPT ![c] = r]
    BY ZenonT(60), <1>2, <1>0, GoodRow DEF TaskRow, PrRow, RowsOK, Enters
  <2> HIDE DEF t, q, r
  <2>6. /\ task' \in [Cycles -> TaskRow] /\ run' \in [Cycles -> RunRow]
        /\ pr' \in [Cycles -> PrRow]
    BY <2>1, <2>3, <2>4, <2>5 DEF RowsOK, Good, GoodFor
  <2>7. ASSUME NEW e \in Cycles
        PROVE  /\ (task[e] \in Good(e))'
               /\ run'[e].phase \in Late \/ run'[e].mode = "revalidate" => task'[e].head # 0
               /\ pr'[e].state # "none" => pr'[e].tip # 0
    <3>1. CASE e = c
      <4>1. accepted' = accepted BY DEF Deploy
      <4>2. task'[c] = t /\ pr'[c] = q /\ run'[c] = r BY <2>5 DEF RowsOK
      <4>3. q.tip # 0 BY <1>0, <2>1, <2>3, TipThere
      <4>4. QED BY <1>0, <2>1, <3>1, <4>1, <4>2, <4>3 DEF Good
    <3>2. CASE e # c
      BY <2>5, <3>2 DEF Deploy, RowsOK, Good
    <3>3. QED BY <3>1, <3>2
  <2>8. QED BY <1>2, <2>6, <2>7 DEF Deploy, RowsOK, StoreOK
<1>3. CASE /\ Enters(c, "review") /\ UNCHANGED <<storeVars, pr>>
           /\ task' = [task EXCEPT ![c].status = "deploying"]
  <2> DEFINE t == [task[c] EXCEPT !.status = "deploying"]
  <2>1. task' = [task EXCEPT ![c] = t] BY <1>3, <1>0 DEF TaskRow, RowsOK
  <2>2. t \in Good(c) /\ t.head # 0 BY <1>0, GoodRow, StatusGood DEF TaskRow
  <2> HIDE DEF t
  <2>3. QED BY <1>3, <2>1, <2>2, SegmentOK DEF Deploy, Late, StoreOK
<1>4. QED BY <1>1, <1>2, <1>3 DEF Deploy

\* The guard before the reviewer.
LEMMA CallReviewerOK ==
  ASSUME RowsOK, NEW o \in Owner, NEW c \in Cycles, CallReviewer(o, c)
  PROVE  RowsOK' /\ StoreOK
<1>1. CASE Halts(o, c, task[c])
  BY <1>1, HaltsOK, GoodRow DEF CallReviewer
<1>2. CASE Enters(c, "verdict") /\ UNCHANGED <<task, storeVars>>
  <2>1. task' = [task EXCEPT ![c] = task[c]] BY <1>2 DEF RowsOK
  <2>2. task[c].head # 0 BY DEF CallReviewer, RowsOK, Late
  <2>3. QED BY <1>2, <2>1, <2>2, GoodRow, SegmentOK DEF CallReviewer, Late, StoreOK
<1>3. QED BY <1>1, <1>2 DEF CallReviewer

Verdict == {"accepted", "changes"}

\* The final status of a run is no part of what its review rests on.
LEMMA FinishedGood ==
  ASSUME NEW S, NEW t \in GoodFor(S), NEW healthy \in BOOLEAN
  PROVE  Finished(t, healthy) \in GoodFor(S) /\ Finished(t, healthy).head = t.head
<1>1. CASE healthy BY ZenonT(60), <1>1 DEF Finished, GoodFor, TaskRow
<1>2. CASE ~healthy BY ZenonT(60), <1>2 DEF Finished, GoodFor, TaskRow
<1>3. QED BY <1>1, <1>2

\* A reviewer's answer: an accepted verdict is recorded with its head in the history.
LEMMA AnswerOK ==
  ASSUME RowsOK, NEW o \in Owner, NEW c \in Cycles, NEW verdict \in Verdict,
         NEW healthy \in BOOLEAN, run[c].phase = "verdict",
         Answer(o, c, verdict, healthy), UNCHANGED pr
  PROVE  RowsOK'
<1> DEFINE f == IF verdict = "changes" THEN "pending" ELSE task[c].feedback
           t == [task[c] EXCEPT !.feedback = f]
           v == IF healthy THEN verdict ELSE "unhealthy"
           j == [t EXCEPT !.review = v, !.reviewed = t.head]
           S == IF j.review = "accepted" THEN accepted[c] \cup {t.head} ELSE accepted[c]
<1>1. /\ task[c] \in TaskRow /\ task[c] \in Good(c)
      /\ task[c].head # 0 /\ task[c].head \in 0..MaxHead
  BY GoodRow DEF RowsOK, Late, TaskRow
<1>2. f \in {"none", "pending"} BY <1>1 DEF TaskRow
<1>3. t \in TaskRow /\ t.head = task[c].head /\ t.review = task[c].review
      /\ t.reviewed = task[c].reviewed
  <2> HIDE DEF f
  <2> QED BY <1>1, <1>2 DEF TaskRow
<1>4. t \in Good(c)
  <2> HIDE DEF t
  <2> QED BY <1>1, <1>3, SameReview
<1>5. v \in {"accepted", "changes", "unhealthy"} BY DEF Verdict
<1>6. j \in TaskRow /\ j.head = t.head /\ j.review = v /\ j.reviewed = t.head
  <2>1. t \in TaskRow /\ t.head \in 0..MaxHead BY <1>1, <1>3
  <2> HIDE DEF t, v, S
  <2>2. QED BY <2>1, <1>5 DEF TaskRow
<1>7. t.head \in Head BY <1>1, <1>3, HeadFacts DEF Head
<1>8. S \in SUBSET Head /\ accepted[c] \subseteq S /\ j \in GoodFor(S)
  <2> HIDE DEF t, j
  <2> QED BY <1>6, <1>7 DEF RowsOK, GoodFor
<1>9. CASE /\ Ends(c, Finished(j, healthy))
           /\ accepted' = [accepted EXCEPT ![c] = S]
  <2> HIDE DEF j, S
  <2> DEFINE u == Finished(j, healthy)
  <2>1. u \in GoodFor(S) /\ u.head = j.head BY <1>8, FinishedGood
  <2> HIDE DEF u
  <2>2. Ends(c, u) BY <1>9 DEF u
  <2>3. u.head = task[c].head BY <2>1, <1>3, <1>6
  <2>4. QED BY <1>8, <1>9, <2>1, <2>2, <2>3, AcceptingEndOK
<1>10. CASE Ends(c, t) /\ UNCHANGED accepted
  BY <1>4, <1>10, EndsOK
<1>11. CASE Ends(c, Finished(t, healthy)) /\ UNCHANGED accepted
  <2> HIDE DEF t
  <2>1. Finished(t, healthy) \in Good(c) BY <1>4, FinishedGood DEF Good
  <2>2. QED BY <1>11, <2>1, EndsOK
<1>12. QED BY <1>9, <1>10, <1>11 DEF Answer, RowsOK

\* A reviewer that does not answer never accepts.
LEMMA NoAnswerOK ==
  ASSUME RowsOK, NEW c \in Cycles, NEW healthy \in BOOLEAN,
         NoAnswer(c, healthy), UNCHANGED pr
  PROVE  RowsOK'
<1> DEFINE v == IF healthy THEN "not-run" ELSE "unhealthy"
           t == [task[c] EXCEPT !.review = v, !.reviewed = task[c].head]
<1>1. t \in TaskRow /\ t.head = task[c].head /\ t.review # "accepted"
  BY ZenonT(60), GoodRow DEF TaskRow
<1>2. t \in Good(c)
  <2> HIDE DEF t
  <2> QED BY <1>1, GoodRow DEF Good, GoodFor
<1> HIDE DEF t
<1>3. Finished(t, healthy) \in Good(c) BY <1>2, FinishedGood DEF Good
<1>4. QED BY <1>3, EndsOK DEF NoAnswer, t

\* The last segment of a run.
LEMMA ConcludeOK ==
  ASSUME RowsOK, NEW o \in Owner, NEW c \in Cycles, Conclude(o, c)
  PROVE  RowsOK' /\ StoreOK
<1>1. PICK healthy \in BOOLEAN :
        \/ \E verdict \in {"accepted", "changes"} : Answer(o, c, verdict, healthy)
        \/ NoAnswer(c, healthy)
  BY DEF Conclude
<1>2. QED BY <1>1, AnswerOK, NoAnswerOK DEF Conclude, Verdict, StoreOK

\* A segment that throws.
LEMMA FailOK ==
  ASSUME RowsOK, NEW o \in Owner, NEW c \in Cycles, Fail(o, c)
  PROVE  RowsOK' /\ StoreOK
<1>1. task[c] \in Good(c) /\ [task[c] EXCEPT !.status = "failed"] \in Good(c)
  BY GoodRow, StatusGood
<1>2. FailAttempt(o) => StoreOK BY AttemptsOK DEF Attempts
<1>3. QED BY <1>1, <1>2, EndsOK DEF Fail, StoreOK

\* The SDK retry loop.
LEMMA StartOverOK ==
  ASSUME RowsOK, NEW c \in Cycles, StartOver(c)
  PROVE  RowsOK' /\ StoreOK
<1>1. task' = [task EXCEPT ![c] = task[c]] BY DEF StartOver, RowsOK
<1>2. QED BY <1>1, GoodRow, SegmentOK DEF StartOver, Late, StoreOK

\* A run that leaves its attempt waiting for the outside.
LEMMA GiveUpOK ==
  ASSUME RowsOK, NEW o \in Owner, NEW c \in Cycles, GiveUp(o, c)
  PROVE  RowsOK' /\ StoreOK
<1>1. WaitForExternal(o) => StoreOK BY AttemptsOK DEF Attempts
<1>2. QED BY <1>1, GoodRow, EndsOK DEF GiveUp

\* A build that waits for its registry.
LEMMA BackOffOK ==
  ASSUME RowsOK, NEW o \in Owner, NEW c \in Cycles, BackOff(o, c)
  PROVE  RowsOK' /\ StoreOK
<1>1. WaitForExternal(o) => StoreOK BY AttemptsOK DEF Attempts
<1>2. task' = [task EXCEPT ![c] = task[c]] /\ task[c].head # 0
  BY DEF BackOff, RowsOK, Late
<1>3. QED BY <1>1, <1>2, GoodRow, SegmentOK DEF BackOff, Late

\* The build after the back-off.
LEMMA RetryBuildOK ==
  ASSUME RowsOK, NEW o \in Owner, NEW c \in Cycles, RetryBuild(o, c)
  PROVE  RowsOK' /\ StoreOK
<1>0. task[c] \in Good(c) /\ task[c].head # 0 /\ [task[c] EXCEPT !.status = "failed"] \in Good(c)
  BY GoodRow, StatusGood DEF RetryBuild, RowsOK, Late
<1>1. CASE Enters(c, "deploy") /\ UNCHANGED <<task, storeVars>>
  <2>1. task' = [task EXCEPT ![c] = task[c]] BY <1>1 DEF RowsOK
  <2>2. RowsOK' BY <1>0, <1>1, <2>1, SegmentOK DEF RetryBuild, Late
  <2>3. QED BY <1>1, <2>2 DEF StoreOK
<1>5. CASE /\ ResumeExternalWait(o) /\ UNCHANGED task
           /\ run' = [run EXCEPT ![c].phase = "deploy", ![c].missed = Missed(c)]
  <2>1. task' = [task EXCEPT ![c] = task[c]] BY <1>5 DEF RowsOK
  <2>2. RowsOK' BY <1>0, <1>5, <2>1, MissedOK DEF RetryBuild, Late
  <2>3. QED BY <1>5, <2>2, AttemptsOK DEF Attempts
<1>2. CASE /\ UNCHANGED storeVars
           /\ Ends(c, IF run[c].intr # "none" THEN task[c]
                      ELSE [task[c] EXCEPT !.status = "failed"])
  BY <1>0, <1>2, EndsOK DEF RetryBuild, StoreOK
<1>3. CASE Halts(o, c, task[c])
  BY <1>0, <1>3, HaltsOK DEF RetryBuild
<1>4. QED BY <1>1, <1>2, <1>3, <1>5 DEF RetryBuild

\* interruptTaskAgentTurn only marks a run that is there.
LEMMA MarkedOK ==
  ASSUME RowsOK, NEW c \in Cycles, NEW reason \in {"pause", "stop"},
         Interrupt(c, reason), UNCHANGED <<task, pr, accepted>>
  PROVE  RowsOK'
<1> DEFINE i == IF Active(c) /\ Context(c) THEN reason ELSE run[c].intr
           r == [run[c] EXCEPT !.intr = i]
<1>1. i \in {"none", "pause", "stop"} BY GoodRow DEF RunRow
<1>2. r \in RunRow /\ r.phase = run[c].phase /\ r.mode = run[c].mode
  <2> HIDE DEF i
  <2> QED BY <1>1, GoodRow DEF RunRow
<1>3. run' = [run EXCEPT ![c] = r] BY GoodRow DEF Interrupt, RowsOK, RunRow
<1>4. task' = [task EXCEPT ![c] = task[c]] BY DEF RowsOK
<1> HIDE DEF r
<1>5. r.phase \in Late \/ r.mode = "revalidate" => task[c].head # 0
  BY <1>2 DEF RowsOK
<1>6. QED BY <1>2, <1>3, <1>4, <1>5, GoodRow, SetOK

\* A turn without a price.
LEMMA MissPriceOK ==
  ASSUME RowsOK, NEW o \in Owner, NEW c \in Cycles, MissPrice(o, c)
  PROVE  RowsOK' /\ StoreOK
<1>1. WaitForExternal(o) => StoreOK BY AttemptsOK DEF Attempts
<1>2. QED BY <1>1, MarkedOK DEF MissPrice

\* Every segment of a run preserves RowsOK and writes the store by its transactions only.
LEMMA RunOK ==
  ASSUME RowsOK, NEW o \in Owner, NEW c \in Cycles, Run(o, c)
  PROVE  RowsOK' /\ StoreOK
  BY BeginBuildOK, BeginIterationOK, BeginRevalidationOK, PushOK, ChangeNothingOK,
     DeployOK, CallReviewerOK, ConcludeOK, FailOK, StartOverOK, GiveUpOK, BackOffOK,
     RetryBuildOK, MissPriceOK
  DEF Run

-----------------------------------------------------------------------------
(* The snapshot of the tick *)

Releasing == {"ship", "pull", "checks", "ready", "merge", "base"}

TickRow ==
  [pc : {"idle", "link", "attempt", "launch", "find", "ship", "pull",
         "checks", "ready", "merge", "base", "next"},
   seen : CycleStatus, acc : 0..MaxHead, passed : {"yes", "no"},
   merge : 0..MaxHead, head : 0..MaxHead, merged : 0..MaxHead, draft : {"yes", "no"}]
ProcRow == [up : {"up", "down"}, pod : Owner, crashes : 0..MaxCrash]

TickOK ==
  /\ proc \in ProcRow
  /\ tick \in TickRow
  /\ requests \subseteq [cycle : Cycles, head : Head]
  /\ OnlyAcceptedIsMerged
  /\ tick.pc # "idle" => HasCycle
  /\ tick.pc \in Releasing => tick.acc \in accepted[cur]
  /\ tick.pc = "merge" => tick.head = tick.acc /\ tick.seen = "releasing"
  /\ tick.pc = "base" => tick.merge \in Commit /\ tick.seen = "releasing"

\* Typing facts about the current cycle.
LEMMA CurFacts ==
  ASSUME StoreTypeOK, HasCycle
  PROVE  cur \in Cycles /\ cycle[cur] \in CycleRow /\ cycle[cur].merge \in 0..MaxHead
<1>1. cur \in Cycles
  BY BoundAssumption DEF StoreTypeOK, CampaignRow, HasCycle, cur, Cycles
<1>2. cycle[cur] \in CycleRow BY <1>1 DEF StoreTypeOK
<1>3. cycle[cur].merge \in Commit \cup {NoCommit} BY <1>2 DEF CycleRow
<1>4. QED BY <1>1, <1>2, <1>3, HeadAssumption, HeadFacts

\* The tick between two of its turns is well typed.
LEMMA IdleTick == Idle \in TickRow /\ Idle.pc = "idle"
  BY HeadAssumption, HeadFacts DEF Idle, TickRow, CycleStatus

\* What the tick remembers stays true while others work.
LEMMA TickKept ==
  ASSUME TickOK, StoreTypeOK, UNCHANGED <<proc, tick>>, requests' \subseteq requests,
         tick.pc # "idle" => cur' = cur,
         \A c \in Cycles : accepted[c] \subseteq accepted'[c]
  PROVE  TickOK'
<1>1. OnlyAcceptedIsMerged' BY DEF TickOK, OnlyAcceptedIsMerged
<1>2. tick.pc # "idle" => HasCycle' BY DEF TickOK, HasCycle
<1>3. tick.pc \in Releasing => tick.acc \in accepted'[cur']
  BY CurFacts DEF TickOK, Releasing
<1>4. QED BY <1>1, <1>2, <1>3 DEF TickOK

\* A tick that is over, or has never begun, remembers nothing.
LEMMA TickEnds ==
  ASSUME TickOK, UNCHANGED <<proc, requests, accepted>>, tick' = Idle
  PROVE  TickOK'
  BY IdleTick DEF TickOK, OnlyAcceptedIsMerged, Releasing

\* What a tick remembers when it awaits is well typed.
LEMMA AwaitRow ==
  ASSUME RowsOK, StoreTypeOK, HasCycle,
         NEW pc \in {"link", "find", "ship", "pull", "next"},
         NEW passed \in {"yes", "no"}
  PROVE  [Idle EXCEPT !.pc = pc, !.seen = cycle[cur].status, !.acc = task[cur].reviewed,
                      !.merge = cycle[cur].merge, !.passed = passed] \in TickRow
  BY CurFacts, IdleTick DEF RowsOK, TaskRow, TickRow, CycleRow

\* The campaign's pointer to its cycle moves only when a feature begins.
LEMMA CurKept ==
  ASSUME NEW o, Attempts(o) \/ UNCHANGED storeVars
  PROVE  cur' = cur
  BY DEF Attempts, FailAttempt, WaitForExternal, ResumeExternalWait, StartDueRetry, cur,
         storeVars

-----------------------------------------------------------------------------
(* The operator's steps *)

Inv == IInv /\ RowsOK /\ TickOK

StepOK == RowsOK' /\ TickOK' /\ StoreOK

\* The conjuncts of Inv.
LEMMA InvFacts ==
  ASSUME Inv
  PROVE  /\ StoreTypeOK /\ RowsOK /\ TickOK /\ me \in Owner
         /\ HasCycle => /\ cur \in Cycles /\ cycle[cur] \in CycleRow
                        /\ task[cur] \in Good(cur)
         /\ campaign.status = "draft" => ~HasCycle
  BY CurFacts, GoodRow DEF Inv, IInv, ControlAgrees, TickOK, ProcRow, me

\* A step that leaves the rows of GitHub and the history alone and the tick idle.
LEMMA RowsStay ==
  ASSUME RowsOK, UNCHANGED runVars PROVE RowsOK'
  BY DEF RowsOK, Good, runVars

\* The operator's start and the accepted proposal preserve Inv.
LEMMA BeginOK == ASSUME Inv, Begin PROVE StepOK
<1>1. RowsOK' BY InvFacts, RowsStay DEF Begin
<1>2. tick.pc # "idle" => cur' = cur
  BY InvFacts DEF Begin, StartCampaign, AcceptProposal, TickOK, cur
<1>3. TickOK' BY <1>2, InvFacts, TickKept DEF Begin, coordVars, runVars
<1>4. QED BY <1>1, <1>3 DEF Begin, StepOK, StoreOK, StoreNext, Control

\* pauseCampaign preserves Inv.
LEMMA PauseOK == ASSUME Inv, Pause PROVE StepOK
<1>1. HasCycle BY DEF Pause, PauseProposal, PauseAttempt, HasAttempt
<1>2. RowsOK'
  <2>1. CASE UNCHANGED run BY <2>1, InvFacts, RowsStay DEF Pause, runVars
  <2>2. CASE Interrupt(cur, "pause") BY <1>1, <2>2, InvFacts, MarkedOK DEF Pause
  <2>3. QED BY <2>1, <2>2 DEF Pause
<1>3. cur' = cur
  BY InvFacts DEF Pause, PauseProposal, PauseAttempt, Leased, cur,
                  StoreTypeOK, CampaignRow
<1>4. TickOK' BY <1>3, InvFacts, TickKept DEF Pause, coordVars
<1>5. QED BY <1>2, <1>4, InvFacts DEF Pause, StepOK, StoreOK, StoreNext, Control

\* stopCampaign preserves Inv.
LEMMA StopOK == ASSUME Inv, Stop PROVE StepOK
<1>1. RowsOK'
  <2>1. CASE UNCHANGED run BY <2>1, InvFacts, RowsStay DEF Stop, runVars
  <2>2. CASE StopAttempt(me) /\ Interrupt(cur, "stop")
    <3>1. HasCycle BY <2>2 DEF StopAttempt, HasAttempt
    <3>2. QED BY <2>2, <3>1, InvFacts, MarkedOK DEF Stop
  <2>3. QED BY <2>1, <2>2 DEF Stop
<1>2. cur' = cur
  BY InvFacts DEF Stop, StopProposal, StopAttempt, StoppedCampaign, cur,
                  StoreTypeOK, CampaignRow
<1>3. TickOK' BY <1>2, InvFacts, TickKept DEF Stop, coordVars
<1>4. QED BY <1>1, <1>3, InvFacts DEF Stop, StepOK, StoreOK, StoreNext, Control

\* resumeCampaignTask launches the task or queues it.
LEMMA ResumeTaskOK ==
  ASSUME RowsOK, NEW c \in Cycles, ResumeTask(c), UNCHANGED <<pr, accepted>>
  PROVE  RowsOK'
<1>1. CASE Active(c)
  <2> DEFINE r == [run[c] EXCEPT !.queued = "yes"]
  <2>1. r \in RunRow /\ r.phase = run[c].phase /\ r.mode = run[c].mode
    BY GoodRow DEF RunRow
  <2>2. run' = [run EXCEPT ![c] = r] /\ task' = [task EXCEPT ![c] = task[c]]
    BY <1>1, GoodRow DEF ResumeTask, RowsOK
  <2> HIDE DEF r
  <2>3. r.phase \in Late \/ r.mode = "revalidate" => task[c].head # 0
    BY <2>1 DEF RowsOK
  <2>4. QED BY <2>1, <2>2, <2>3, GoodRow, SetOK
<1>2. CASE ~Active(c)
  BY <1>2, GoodRow, ResumedMode, LaunchOK DEF ResumeTask
<1>3. QED BY <1>1, <1>2

\* resumeCampaign preserves Inv.
LEMMA ResumeOK == ASSUME Inv, Resume PROVE StepOK
<1>1. HasCycle BY DEF Resume, ResumeProposal, ResumeAttempt, HasAttempt
<1>2. RowsOK'
  <2>1. CASE UNCHANGED <<task, run>> BY <2>1, InvFacts, RowsStay DEF Resume, runVars
  <2>2. CASE ResumeTask(cur) BY <1>1, <2>2, InvFacts, ResumeTaskOK DEF Resume
  <2>3. QED BY <2>1, <2>2 DEF Resume
<1>3. cur' = cur
  BY InvFacts DEF Resume, ResumeProposal, ResumeAttempt, Leased, cur,
                  StoreTypeOK, CampaignRow
<1>4. TickOK' BY <1>3, InvFacts, TickKept DEF Resume, coordVars
<1>5. QED BY <1>2, <1>4, InvFacts DEF Resume, StepOK, StoreOK, StoreNext, Control

-----------------------------------------------------------------------------
(* The task runs' steps *)

\* A run neither changes the current cycle nor takes back an acceptance.
LEMMA RunGrows ==
  ASSUME RowsOK, NEW o \in Owner, NEW c \in Cycles, Run(o, c)
  PROVE  cur' = cur /\ \A d \in Cycles : accepted[d] \subseteq accepted'[d]
<1>1. Attempts(o) \/ UNCHANGED storeVars
  BY DEF Run, BeginBuild, BeginIteration, BeginRevalidation, Push, ChangeNothing, Deploy,
         CallReviewer, Conclude, Fail, StartOver, GiveUp, BackOff, RetryBuild, MissPrice,
         Halts, Attempts
<1>2. CASE Conclude(o, c)
  <2>1. \/ UNCHANGED accepted
        \/ \E h : accepted' = [accepted EXCEPT ![c] = @ \cup {h}]
        \/ accepted' = [accepted EXCEPT ![c] = @]
    BY <1>2 DEF Conclude, Answer, NoAnswer
  <2>2. QED BY <1>1, <2>1, CurKept DEF RowsOK
<1>3. CASE UNCHANGED accepted BY <1>1, <1>3, CurKept
<1>4. QED BY <1>2, <1>3
  DEF Run, BeginBuild, BeginIteration, BeginRevalidation, Push, ChangeNothing, Deploy,
      CallReviewer, Fail, StartOver, GiveUp, BackOff, RetryBuild, MissPrice

\* A run's segment preserves Inv, also while a tick awaits GitHub.
LEMMA TaskRunsOK == ASSUME Inv, TaskRuns PROVE StepOK
<1>1. PICK c \in Cycles : Run(me, c) BY DEF TaskRuns
<1>2. RowsOK' /\ StoreOK BY <1>1, InvFacts, RunOK
<1>3. cur' = cur /\ \A d \in Cycles : accepted[d] \subseteq accepted'[d]
  BY <1>1, InvFacts, RunGrows
<1>4. TickOK' BY <1>3, InvFacts, TickKept DEF TaskRuns, coordVars
<1>5. QED BY <1>2, <1>4 DEF StepOK

-----------------------------------------------------------------------------
(* The coordinator's steps *)

\* Renewing the lease preserves Inv.
LEMMA RenewOK == ASSUME Inv, Renew PROVE StepOK
<1>1. RowsOK' BY InvFacts, RowsStay DEF Renew
<1>2. TickOK' BY InvFacts, TickKept DEF Renew, coordVars, runVars, TickOK
<1>3. QED BY <1>1, <1>2, InvFacts DEF Renew, StepOK, StoreOK, StoreNext

\* The relaunch after a retry or an external wait.
LEMMA RelaunchOK ==
  ASSUME RowsOK, NEW c \in Cycles, Relaunch(c), UNCHANGED <<pr, accepted>>
  PROVE  RowsOK'
<1>1. [task[c] EXCEPT !.status = "building"] \in Good(c) BY GoodRow, StatusGood
<1>2. QED BY <1>1, LaunchUnqueuedOK, ResumedMode DEF Relaunch

\* Retries, resumed waits and recovered attempts preserve Inv.
LEMMA RestartOK ==
  ASSUME Inv, ResumeWait \/ Retry \/ RecoverAttempt PROVE StepOK
<1>1. HasCycle BY DEF ResumeWait, Retry, RecoverAttempt, Ticking
<1>2. RowsOK'
  BY <1>1, InvFacts, RelaunchOK, RowsStay DEF ResumeWait, Retry, RecoverAttempt
<1>3. TickOK'
  BY InvFacts, TickKept
  DEF ResumeWait, Retry, RecoverAttempt, Ticking, TickOK, coordVars, runVars
<1>4. QED BY <1>2, <1>3, InvFacts
  DEF ResumeWait, Retry, RecoverAttempt, StepOK, StoreOK, StoreNext, Attempts, Delivery

\* The hand-off's first transaction preserves Inv.
LEMMA HandoffOK == ASSUME Inv, Handoff PROVE StepOK
<1> DEFINE t == [task[cur] EXCEPT !.status = "clarifying"]
<1>1. HasCycle BY DEF Handoff, Ticking
<1>2. RowsOK'
  <2>1. t \in Good(cur) BY <1>1, InvFacts, StatusGood
  <2>2. task' = [task EXCEPT ![cur] = t]
    BY <1>1, InvFacts DEF Handoff, RowsOK, TaskRow
  <2> HIDE DEF t
  <2>3. QED BY <1>1, <2>1, <2>2, InvFacts, SetTaskOK DEF Handoff
<1>3. tick' \in TickRow /\ tick'.pc = "link"
  BY <1>1, InvFacts, CurFacts, IdleTick DEF Handoff, Await, TickRow, RowsOK, TaskRow, CycleRow
<1>4. TickOK'
  BY <1>1, <1>3, InvFacts
  DEF Handoff, TickOK, OnlyAcceptedIsMerged, Releasing, HasCycle, cur, storeVars
<1>5. QED BY <1>2, <1>4 DEF Handoff, StepOK, StoreOK

\* The tick goes on to its next step within the hand-off.
LEMMA HandingOn ==
  ASSUME Inv, tick.pc # "idle", cur' = cur, UNCHANGED <<proc, requests, accepted>>,
         NEW pc \in {"attempt", "launch"}, tick' = [tick EXCEPT !.pc = pc]
  PROVE  TickOK'
<1>1. tick' \in TickRow /\ tick'.pc = pc BY InvFacts DEF TickOK, TickRow
<1>2. QED BY <1>1, InvFacts DEF TickOK, OnlyAcceptedIsMerged, Releasing, HasCycle

\* Its second one, the linked task, does.
LEMMA HandoffLinksOK == ASSUME Inv, HandoffLinks PROVE StepOK
<1>1. UNCHANGED storeVars \/ LinkTask(me) BY DEF HandoffLinks
<1>2. cur' = cur BY <1>1 DEF LinkTask, Update, storeVars, cur
<1>3. TickOK' BY <1>2, HandingOn DEF HandoffLinks, runVars
<1>4. QED BY <1>1, <1>3, InvFacts, RowsStay
  DEF HandoffLinks, StepOK, StoreOK, StoreNext, Delivery

\* Its third one, the first attempt, does.
LEMMA HandoffCreatesAttemptOK == ASSUME Inv, HandoffCreatesAttempt PROVE StepOK
<1>1. UNCHANGED storeVars \/ CreateFirstAttempt(me) BY DEF HandoffCreatesAttempt
<1>2. cur' = cur BY <1>1 DEF CreateFirstAttempt, storeVars, cur
<1>3. TickOK' BY <1>2, HandingOn DEF HandoffCreatesAttempt, runVars
<1>4. QED BY <1>1, <1>3, InvFacts, RowsStay
  DEF HandoffCreatesAttempt, StepOK, StoreOK, StoreNext, Delivery

\* Its last one, the launch, does.
LEMMA HandoffLaunchesOK == ASSUME Inv, HandoffLaunches PROVE StepOK
<1>1. HasCycle BY InvFacts DEF HandoffLaunches, TickOK
<1>2. RowsOK' BY <1>1, InvFacts, LaunchOK DEF HandoffLaunches, Mode
<1>3. TickOK' BY InvFacts, TickEnds DEF HandoffLaunches
<1>4. QED BY <1>2, <1>3 DEF HandoffLaunches, StepOK, StoreOK

\* A failed task that is put back into review keeps its review.
LEMMA RevivedGood ==
  ASSUME NEW c \in Cycles, NEW t \in Good(c) PROVE Revived(t) \in Good(c)
  BY StatusGood DEF Revived

\* reconcileDelivery from its last await on preserves Inv.
LEMMA ReconcileOK ==
  ASSUME Inv, HasCycle, NEW seen, NEW t \in Good(cur), Reconcile(cur, seen, t)
  PROVE  StepOK
<1>1. RowsOK'
  BY InvFacts, LaunchOK, RevivedGood, SetTaskOK DEF Reconcile, Mode
<1>2. TickOK' BY InvFacts, TickEnds DEF Reconcile
<1>3. ASSUME NEW to, ReconcileDelivery(me, seen, to) PROVE StoreOK
  <2>1. seen \in LiveStatus /\ to \in LiveStatus BY <1>3 DEF ReconcileDelivery, LiveStatus
  <2>2. QED BY <1>3, <2>1, InvFacts DEF StoreOK, StoreNext, Delivery
<1>4. FailAttempt(me) => StoreOK BY InvFacts, AttemptsOK DEF Attempts
<1>5. StoreOK BY <1>3, <1>4 DEF Reconcile, StoreOK
<1>6. QED BY <1>1, <1>2, <1>5 DEF StepOK

\* reconcileDelivery up to its await, or as a whole, preserves Inv.
LEMMA DeliverOK == ASSUME Inv, Deliver PROVE StepOK
<1>1. HasCycle BY DEF Deliver, Ticking
<1>2. CASE Reconcile(cur, cycle[cur].status, task[cur])
  BY <1>1, <1>2, InvFacts, ReconcileOK
<1>3. CASE Await("find") /\ UNCHANGED <<storeVars, runVars, proc, requests>>
  <2>1. tick' \in TickRow /\ tick'.pc = "find"
    BY <1>1, <1>3, InvFacts, CurFacts, IdleTick
    DEF Await, TickRow, RowsOK, TaskRow, CycleRow
  <2>2. TickOK'
    BY <1>1, <1>3, <2>1, InvFacts
    DEF TickOK, OnlyAcceptedIsMerged, Releasing, HasCycle, cur, storeVars, runVars
  <2>3. QED BY <1>3, <2>2, InvFacts, RowsStay DEF StepOK, StoreOK
<1>4. QED BY <1>2, <1>3 DEF Deliver

\* The answer of findPullRequest preserves Inv.
LEMMA FoundPrOK == ASSUME Inv, FoundPr PROVE StepOK
<1> DEFINE p == IF pr[cur].state = "open" THEN "known" ELSE task[cur].pr
           t == [task[cur] EXCEPT !.pr = p]
<1>1. HasCycle BY InvFacts DEF FoundPr, TickOK
<1>2. task[cur] \in TaskRow /\ task[cur] \in Good(cur) BY <1>1, InvFacts, GoodRow
<1>3. p \in {"none", "known"} BY <1>2 DEF TaskRow
<1>4. t \in TaskRow /\ t.head = task[cur].head /\ t.review = task[cur].review
      /\ t.reviewed = task[cur].reviewed
  <2> HIDE DEF p
  <2> QED BY <1>2, <1>3 DEF TaskRow
<1>5. Reconcile(cur, tick.seen, t) BY <1>2 DEF FoundPr, TaskRow
<1> HIDE DEF t
<1>6. t \in Good(cur) BY <1>1, <1>2, <1>4, InvFacts, SameReview
<1>7. QED BY <1>1, <1>5, <1>6, ReconcileOK

(* The release *)

\* A held release is a step of the store in the same cycle.
LEMMA HoldStoreOK ==
  ASSUME NEW o \in Owner, NEW seen, NEW to, NEW evaluated \in BOOLEAN,
         HoldRelease(o, seen, to, evaluated)
  PROVE  StoreOK /\ cur' = cur
  BY DEF HoldRelease, Update, StoreOK, StoreNext, Delivery, cur

\* An invalidated release is a step of the store in the same cycle.
LEMMA InvalidateStoreOK ==
  ASSUME NEW o \in Owner, NEW seen, NEW evaluated \in BOOLEAN,
         InvalidateRelease(o, seen, evaluated)
  PROVE  StoreOK /\ cur' = cur
  BY DEF InvalidateRelease, Update, StoreOK, StoreNext, Delivery, cur

\* A recorded merge is a step of the store in the same cycle.
LEMMA RecordStoreOK ==
  ASSUME NEW o \in Owner, NEW seen, NEW h \in Commit, RecordMerge(o, seen, h)
  PROVE  StoreOK /\ cur' = cur
  BY DEF RecordMerge, Update, StoreOK, StoreNext, Delivery, cur

\* A confirmed merge is a step of the store in the same cycle.
LEMMA ConfirmStoreOK ==
  ASSUME NEW o \in Owner, NEW h \in Commit, ConfirmMerge(o, "releasing", h)
  PROVE  StoreOK /\ cur' = cur
  BY DEF ConfirmMerge, Update, StoreOK, StoreNext, Delivery, cur

\* releaseCycle for a task that has not passed preserves Inv.
LEMMA ReleaseNotPassedOK == ASSUME Inv, ReleaseNotPassed PROVE StepOK
<1>1. HasCycle BY DEF ReleaseNotPassed, Ticking
<1>2. StoreOK /\ cur' = cur
  BY InvFacts, HoldStoreOK, InvalidateStoreOK DEF ReleaseNotPassed
<1>3. RowsOK'
  <2>1. CASE LaunchUnqueued(cur, task[cur], "revalidate") /\ task[cur].head # 0
    BY <1>1, <2>1, InvFacts, LaunchUnqueuedOK DEF ReleaseNotPassed, Mode
  <2>2. CASE UNCHANGED <<task, run>>
    BY <2>2, InvFacts, RowsStay DEF ReleaseNotPassed, runVars
  <2>3. QED BY <2>1, <2>2 DEF ReleaseNotPassed
<1>4. TickOK' BY <1>2, InvFacts, TickKept DEF ReleaseNotPassed, coordVars
<1>5. QED BY <1>2, <1>3, <1>4 DEF StepOK

\* The tick goes on with the release of a head that has been accepted.
LEMMA ReleaseGoesOn ==
  ASSUME Inv, HasCycle, tick' \in TickRow, tick'.pc \in Releasing \ {"merge", "base"},
         tick'.acc \in accepted[cur],
         cur' = cur, UNCHANGED <<proc, requests, accepted>>
  PROVE  TickOK'
  BY InvFacts DEF TickOK, OnlyAcceptedIsMerged, Releasing, HasCycle

\* releaseCycle for one that has: the snapshot's head was accepted.
LEMMA ReleasePassedOK == ASSUME Inv, ReleasePassed PROVE StepOK
<1>1. HasCycle BY DEF ReleasePassed, Ticking
<1>2. task[cur].reviewed \in accepted[cur]
  BY <1>1, InvFacts DEF ReleasePassed, Passed, Good, GoodFor
<1>3. CASE Await("ship") /\ task' = [task EXCEPT ![cur].status = "shipping"]
  <2> DEFINE t == [task[cur] EXCEPT !.status = "shipping"]
  <2>1. t \in Good(cur) BY <1>1, InvFacts, StatusGood
  <2>2. task' = [task EXCEPT ![cur] = t] BY <1>1, <1>3, InvFacts DEF RowsOK, TaskRow
  <2> HIDE DEF t
  <2>3. RowsOK' BY <1>1, <2>1, <2>2, InvFacts, SetTaskOK DEF ReleasePassed
  <2>4. tick' \in TickRow /\ tick'.pc = "ship" /\ tick'.acc = task[cur].reviewed
    BY <1>1, <1>3, InvFacts, CurFacts, IdleTick
    DEF Await, TickRow, RowsOK, TaskRow, CycleRow
  <2>5. TickOK'
    BY <1>1, <1>2, <2>4, ReleaseGoesOn DEF ReleasePassed, Releasing, storeVars, cur
  <2>6. QED BY <2>3, <2>5 DEF ReleasePassed, StepOK, StoreOK
<1>4. CASE /\ tick' = [Idle EXCEPT !.pc = "pull", !.seen = cycle[cur].status,
                                   !.acc = task[cur].reviewed, !.merge = cycle[cur].merge,
                                   !.passed = "yes"]
           /\ UNCHANGED task
  <2>1. tick' \in TickRow /\ tick'.pc = "pull" /\ tick'.acc = task[cur].reviewed
    BY <1>1, <1>4, InvFacts, CurFacts, IdleTick DEF TickRow, RowsOK, TaskRow, CycleRow
  <2>2. TickOK'
    BY <1>1, <1>2, <2>1, ReleaseGoesOn DEF ReleasePassed, Releasing, storeVars, cur
  <2>3. QED BY <1>4, <2>2, InvFacts, RowsStay DEF ReleasePassed, StepOK, StoreOK, runVars
<1>5. QED BY <1>3, <1>4 DEF ReleasePassed

\* A step that writes a task's row and its pull request's.
LEMMA PrOK ==
  ASSUME RowsOK, NEW c \in Cycles, NEW t \in Good(c), NEW q \in PrRow,
         q.tip = 0 => pr[c].tip = 0, q.state # "none" => q.tip # 0,
         task' = [task EXCEPT ![c] = t], pr' = [pr EXCEPT ![c] = q],
         UNCHANGED <<run, accepted>>
  PROVE  RowsOK'
<1>1. task' \in [Cycles -> TaskRow] /\ pr' \in [Cycles -> PrRow]
  BY DEF RowsOK, Good, GoodFor
<1>2. ASSUME NEW d \in Cycles
      PROVE  /\ (task[d] \in Good(d))'
             /\ run'[d].phase \in Late \/ run'[d].mode = "revalidate" => task'[d].head # 0
             /\ pr'[d].state # "none" => pr'[d].tip # 0
  <2>1. CASE d = c BY <2>1 DEF RowsOK, Good, GoodFor
  <2>2. CASE d # c BY <2>2 DEF RowsOK, Good, GoodFor
  <2>3. QED BY <2>1, <2>2
<1>3. QED BY <1>1, <1>2 DEF RowsOK

\* A pull request that is marked ready keeps its head.
LEMMA DraftOK ==
  ASSUME RowsOK, NEW c \in Cycles, NEW t \in Good(c), task' = [task EXCEPT ![c] = t],
         pr' \in {pr, [pr EXCEPT ![c].draft = "no"]}, UNCHANGED <<run, accepted>>
  PROVE  RowsOK'
<1> DEFINE q == [pr[c] EXCEPT !.draft = "no"]
<1>1. q \in PrRow /\ q.tip = pr[c].tip /\ q.state = pr[c].state BY GoodRow DEF PrRow
<1>2. CASE pr' = pr BY <1>2, SetTaskOK
<1>3. CASE pr' = [pr EXCEPT ![c].draft = "no"]
  <2>1. pr' = [pr EXCEPT ![c] = q] BY <1>3, GoodRow DEF RowsOK, PrRow
  <2> HIDE DEF q
  <2>2. q.state # "none" => q.tip # 0 BY <1>1 DEF RowsOK
  <2>3. QED BY <1>1, <2>1, <2>2, PrOK
<1>4. QED BY <1>2, <1>3

\* shipTask, done or failed, preserves Inv.
LEMMA ShippedOK == ASSUME Inv, Shipped PROVE StepOK
<1>1. HasCycle /\ tick.acc \in accepted[cur] /\ tick \in TickRow
  BY InvFacts DEF Shipped, TickOK, Releasing
<1>2. RowsOK'
  <2>1. PICK s \in {"completed", "failed"} :
          /\ task' = [task EXCEPT ![cur].status = s]
          /\ pr' \in {pr, [pr EXCEPT ![cur].draft = "no"]}
    BY DEF Shipped
  <2> DEFINE t == [task[cur] EXCEPT !.status = s]
  <2>2. t \in Good(cur) BY <1>1, InvFacts, StatusGood
  <2>3. task' = [task EXCEPT ![cur] = t] BY <1>1, <2>1, InvFacts DEF RowsOK, TaskRow
  <2> HIDE DEF t
  <2>4. QED BY <1>1, <2>1, <2>2, <2>3, InvFacts, DraftOK DEF Shipped
<1>3. CASE tick' = Idle
  BY <1>2, <1>3, InvFacts, TickEnds DEF Shipped, StepOK, StoreOK
<1>4. CASE tick' = [tick EXCEPT !.pc = "pull",
                                !.passed = IF Passed(task[cur]) THEN "yes" ELSE "no"]
  <2> DEFINE p == IF Passed(task[cur]) THEN "yes" ELSE "no"
  <2>1. p \in {"yes", "no"} OBVIOUS
  <2>2. tick' \in TickRow /\ tick'.pc = "pull" /\ tick'.acc = tick.acc
    <3>1. tick' = [tick EXCEPT !.pc = "pull", !.passed = p] BY <1>4
    <3> HIDE DEF p
    <3>2. QED BY <1>1, <2>1, <3>1 DEF TickRow
  <2>3. TickOK' BY <1>1, <2>2, ReleaseGoesOn DEF Shipped, Releasing, storeVars, cur
  <2>4. QED BY <1>2, <2>3 DEF Shipped, StepOK, StoreOK
<1>5. QED BY <1>3, <1>4 DEF Shipped

\* The answer of getPullRequest preserves Inv: another head is not kept as reviewed.
LEMMA GotPullOK == ASSUME Inv, GotPull PROVE StepOK
<1>1. /\ HasCycle /\ tick.acc \in accepted[cur] /\ tick \in TickRow
      /\ task[cur] \in TaskRow /\ task[cur] \in Good(cur) /\ pr[cur] \in PrRow
  BY InvFacts, GoodRow DEF GotPull, TickOK, Releasing
<1> DEFINE t == [task[cur] EXCEPT !.status = "building", !.head = PullHead,
                                  !.review = "none", !.reviewed = 0, !.back = "pending"]
<1>2. CASE /\ pr[cur].state = "open"
           /\ IF Writable
              THEN InvalidateRelease(me, tick.seen, TRUE) /\ LaunchUnqueued(cur, t, "revalidate")
              ELSE task' = [task EXCEPT ![cur] = t] /\ UNCHANGED <<storeVars, run>>
           /\ tick' = Idle
  <2>1. PullHead = pr[cur].tip /\ PullHead # 0 /\ PullHead \in 0..MaxHead
    BY <1>1, <1>2, InvFacts DEF PullHead, RowsOK, PrRow
  <2>2. t \in TaskRow /\ t.head = PullHead /\ t.review = "none"
    <3> HIDE DEF PullHead
    <3> QED BY ZenonT(60), <1>1, <2>1, HeadFacts DEF TaskRow
  <2> HIDE DEF t
  <2>3. t \in Good(cur) /\ t.head # 0 BY <2>1, <2>2 DEF Good, GoodFor
  <2>4. RowsOK' BY <1>1, <1>2, <2>3, InvFacts, LaunchUnqueuedOK, SetTaskOK DEF GotPull, Mode
  <2>5. StoreOK BY <1>2, InvFacts, InvalidateStoreOK DEF StoreOK
  <2>6. TickOK' BY <1>2, InvFacts, TickEnds DEF GotPull
  <2>7. QED BY <2>4, <2>5, <2>6 DEF StepOK
<1>3. CASE /\ tick' = [tick EXCEPT !.pc = "checks", !.head = PullHead,
                                   !.merged = pr[cur].merged, !.draft = pr[cur].draft]
           /\ UNCHANGED <<storeVars, task, run>>
  <2>1. PullHead \in 0..MaxHead BY <1>1 DEF PullHead, PrRow
  <2>2. tick' \in TickRow /\ tick'.pc = "checks" /\ tick'.acc = tick.acc
    <3>1. pr[cur].merged \in 0..MaxHead /\ pr[cur].draft \in {"yes", "no"}
      BY <1>1 DEF PrRow
    <3> HIDE DEF PullHead
    <3>2. QED BY <1>1, <1>3, <2>1, <3>1 DEF TickRow
  <2>3. TickOK' BY <1>1, <1>3, <2>2, ReleaseGoesOn DEF GotPull, Releasing, storeVars, cur
  <2>4. QED BY <1>3, <2>3, InvFacts, RowsStay DEF GotPull, StepOK, StoreOK, runVars
<1>4. QED BY <1>2, <1>3 DEF GotPull

\* The tick has asked for a merge or found one and stays with its cycle.
LEMMA MergeGoesOn ==
  ASSUME Inv, HasCycle, tick' \in TickRow, tick'.pc \in {"merge", "base"},
         tick'.acc \in accepted[cur], tick'.seen = "releasing",
         tick'.pc = "merge" => tick'.head = tick'.acc,
         tick'.pc = "base" => tick'.merge \in Commit,
         cur' = cur, UNCHANGED <<proc, accepted>>,
         requests' \subseteq requests \cup {[cycle |-> cur, head |-> tick'.acc]}
  PROVE  TickOK'
<1>1. tick'.acc \in Head BY InvFacts DEF RowsOK
<1>2. [cycle |-> cur, head |-> tick'.acc] \in [cycle : Cycles, head : Head]
  BY <1>1, InvFacts
<1>3. OnlyAcceptedIsMerged' BY InvFacts DEF TickOK, OnlyAcceptedIsMerged
<1>4. QED BY <1>2, <1>3, InvFacts DEF TickOK, Releasing, HasCycle

\* The answer of listCheckRuns preserves Inv: a merge is requested for an accepted head only.
LEMMA GotChecksOK ==
  ASSUME Inv, NEW green \in BOOLEAN, GotChecks(green) PROVE StepOK
<1>1. HasCycle /\ tick.acc \in accepted[cur] /\ tick \in TickRow
  BY InvFacts DEF GotChecks, TickOK, Releasing
<1>2. RowsOK' BY InvFacts, RowsStay DEF GotChecks
<1>3. "releasing" \in CycleStatus BY DEF CycleStatus, LiveStatus
<1>4. CASE UNCHANGED requests /\ StoreOK /\ cur' = cur /\ tick' = Idle
  BY <1>2, <1>4, InvFacts, TickEnds DEF GotChecks, StepOK, runVars
<1>5. CASE /\ RecordMerge(me, tick.seen, tick.merged) /\ tick.merged # 0
           /\ tick' = [tick EXCEPT !.seen = "releasing", !.pc = "base", !.merge = tick.merged]
           /\ UNCHANGED requests
  <2>1. tick.merged \in Commit BY <1>1, <1>5, HeadAssumption, HeadFacts DEF TickRow, Head
  <2>2. /\ tick' \in TickRow /\ tick'.pc = "base" /\ tick'.seen = "releasing"
        /\ tick'.acc = tick.acc /\ tick'.merge = tick.merged
    BY <1>1, <1>3, <1>5 DEF TickRow
  <2>3. StoreOK /\ cur' = cur BY <1>5, <2>1, InvFacts, RecordStoreOK
  <2>4. TickOK' BY <1>1, <1>5, <2>1, <2>2, <2>3, MergeGoesOn DEF GotChecks, runVars
  <2>5. QED BY <1>2, <2>3, <2>4 DEF StepOK
<1>6. CASE /\ tick' = [tick EXCEPT !.pc = "ready"]
           /\ UNCHANGED <<storeVars, requests>>
  <2>1. tick' \in TickRow /\ tick'.pc = "ready" /\ tick'.acc = tick.acc
    BY <1>1, <1>6 DEF TickRow
  <2>2. TickOK'
    BY <1>1, <1>6, <2>1, ReleaseGoesOn DEF GotChecks, Releasing, storeVars, runVars, cur
  <2>3. QED BY <1>2, <1>6, <2>2 DEF StepOK, StoreOK
<1>7. CASE /\ HoldRelease(me, tick.seen, "releasing", TRUE) /\ tick.head = tick.acc
           /\ tick' = [tick EXCEPT !.seen = "releasing", !.pc = "merge"]
           /\ requests' = requests \cup {[cycle |-> cur, head |-> tick.head]}
  <2>1. /\ tick' \in TickRow /\ tick'.pc = "merge" /\ tick'.seen = "releasing"
        /\ tick'.acc = tick.acc /\ tick'.head = tick.acc
    BY <1>1, <1>3, <1>7 DEF TickRow
  <2>2. StoreOK /\ cur' = cur BY <1>7, InvFacts, HoldStoreOK
  <2>3. TickOK' BY <1>1, <1>7, <2>1, <2>2, MergeGoesOn DEF GotChecks, runVars
  <2>4. QED BY <1>2, <2>2, <2>3 DEF StepOK
<1>8. ASSUME NEW to, NEW evaluated \in BOOLEAN,
             Then(HoldRelease(me, tick.seen, to, evaluated), Idle)
      PROVE  StoreOK /\ cur' = cur /\ tick' = Idle
  BY <1>8, InvFacts, HoldStoreOK DEF Then, StoreOK, storeVars, cur
<1>9. UNCHANGED storeVars => StoreOK /\ cur' = cur BY DEF StoreOK, storeVars, cur
<1>10. QED
  <2>1. CASE tick.merged # 0
    BY <2>1, <1>4, <1>5, <1>8, <1>9 DEF GotChecks, Then
  <2>2. CASE tick.merged = 0 /\ tick.merge # NoCommit
    BY <2>2, <1>4, <1>8 DEF GotChecks
  <2>3. CASE tick.merged = 0 /\ tick.merge = NoCommit
    BY <2>3, <1>4, <1>6, <1>7, <1>8 DEF GotChecks
  <2>4. QED BY <2>1, <2>2, <2>3

\* The answer of markPullRequestReady preserves Inv.
LEMMA MarkedReadyOK == ASSUME Inv, MarkedReady PROVE StepOK
<1>1. HasCycle BY InvFacts DEF MarkedReady, TickOK
<1>2. RowsOK'
  <2>1. task' = [task EXCEPT ![cur] = task[cur]] BY InvFacts DEF MarkedReady, RowsOK
  <2>2. QED BY <1>1, <2>1, InvFacts, DraftOK DEF MarkedReady
<1>3. tick' = Idle /\ StoreOK
  BY InvFacts, HoldStoreOK DEF MarkedReady, Then, StoreOK
<1>4. QED BY <1>2, <1>3, InvFacts, TickEnds DEF MarkedReady, StepOK

\* The answer to a merge request preserves Inv.
LEMMA MergeAnsweredOK == ASSUME Inv, MergeAnswered PROVE StepOK
<1>1. /\ HasCycle /\ tick.acc \in accepted[cur] /\ tick \in TickRow
      /\ tick.head = tick.acc /\ tick.seen = "releasing"
  BY InvFacts DEF MergeAnswered, TickOK, Releasing
<1>2. RowsOK' BY InvFacts, RowsStay DEF MergeAnswered
<1>3. CASE UNCHANGED storeVars /\ tick' = Idle
  BY <1>2, <1>3, InvFacts, TickEnds DEF MergeAnswered, StepOK, StoreOK, runVars
<1>4. CASE /\ RecordMerge(me, "releasing", tick.head)
           /\ tick' = [tick EXCEPT !.pc = "base", !.merge = tick.head]
  <2>1. tick.head \in Commit /\ tick.head \in 0..MaxHead
    BY <1>1, InvFacts, HeadAssumption, HeadFacts DEF RowsOK
  <2>2. /\ tick' \in TickRow /\ tick'.pc = "base" /\ tick'.seen = "releasing"
        /\ tick'.acc = tick.acc /\ tick'.merge = tick.head
    BY <1>1, <1>4, <2>1 DEF TickRow
  <2>3. StoreOK /\ cur' = cur BY <1>4, <2>1, InvFacts, RecordStoreOK
  <2>4. TickOK' BY <1>1, <2>1, <2>2, <2>3, MergeGoesOn DEF MergeAnswered, runVars
  <2>5. QED BY <1>2, <2>3, <2>4 DEF StepOK
<1>5. QED BY <1>3, <1>4 DEF MergeAnswered, Then

\* The answer about the base branch preserves Inv.
LEMMA ConfirmedOK == ASSUME Inv, Confirmed PROVE StepOK
<1>1. tick.merge \in Commit /\ tick.seen = "releasing"
  BY InvFacts DEF Confirmed, TickOK
<1>2. tick' = Idle /\ StoreOK
  BY <1>1, InvFacts, RecordStoreOK, ConfirmStoreOK DEF Confirmed, Then, StoreOK
<1>3. QED BY <1>2, InvFacts, RowsStay, TickEnds DEF Confirmed, StepOK, runVars

\* A failed call ends the tick and preserves Inv.
LEMMA CallFailsOK == ASSUME Inv, CallFails PROVE StepOK
  BY InvFacts, RowsStay, TickEnds DEF CallFails, TickFails, StepOK, StoreOK, runVars

\* A cooldown that is over preserves Inv.
LEMMA CooldownOK == ASSUME Inv, Cooldown PROVE StepOK
<1>1. HasCycle BY DEF Cooldown, Ticking
<1>2. tick' \in TickRow /\ tick'.pc = "next"
  BY <1>1, InvFacts, CurFacts, IdleTick
  DEF Cooldown, Await, TickRow, RowsOK, TaskRow, CycleRow
<1>3. TickOK'
  BY <1>1, <1>2, InvFacts
  DEF Cooldown, TickOK, OnlyAcceptedIsMerged, Releasing, HasCycle, cur, storeVars, runVars
<1>4. QED BY <1>3, InvFacts, RowsStay DEF Cooldown, StepOK, StoreOK

\* The next feature preserves Inv.
LEMMA ProceedOK == ASSUME Inv, Proceed PROVE StepOK
<1>1. StoreOK BY InvFacts DEF Proceed, StoreOK, StoreNext, Delivery
<1>2. QED BY <1>1, InvFacts, RowsStay, TickEnds DEF Proceed, StepOK, runVars

\* Every step of the coordinator preserves Inv.
LEMMA CoordinatorOK == ASSUME Inv, Coordinator PROVE StepOK
  BY RenewOK, RestartOK, HandoffOK, DeliverOK, FoundPrOK, ReleaseNotPassedOK,
     ReleasePassedOK, ShippedOK, GotPullOK, GotChecksOK, MarkedReadyOK, MergeAnsweredOK,
     ConfirmedOK, CooldownOK, ProceedOK, CallFailsOK
  DEF Coordinator

-----------------------------------------------------------------------------
(* GitHub, the clock and the process *)

\* GitHub and the clock preserve Inv.
LEMMA WorldOK == ASSUME Inv, World PROVE StepOK
<1>1. ASSUME UNCHANGED <<storeVars, task, run, accepted, proc, tick>>,
             requests' \subseteq requests
      PROVE  TickOK'
  BY <1>1, InvFacts, TickKept DEF cur, storeVars
<1>2. ASSUME NEW c \in Cycles, NEW q \in PrRow, pr' = [pr EXCEPT ![c] = q],
             q.tip = 0 => pr[c].tip = 0, q.state # "none" => q.tip # 0,
             UNCHANGED <<task, run, accepted>>
      PROVE  RowsOK'
  <2>1. task' = [task EXCEPT ![c] = task[c]] BY <1>2, InvFacts DEF RowsOK
  <2>2. QED BY <1>2, <2>1, InvFacts, GoodRow, PrOK
<1>3. CASE GitHubMerges
  <2>1. PICK r \in requests :
          /\ requests' = requests \ {r}
          /\ pr' = IF pr[r.cycle].state = "open" /\ pr[r.cycle].tip = r.head
                   THEN [pr EXCEPT ![r.cycle].state = "merged", ![r.cycle].merged = r.head]
                   ELSE pr
          /\ UNCHANGED <<storeVars, task, run, accepted, proc, tick>>
    BY <1>3 DEF GitHubMerges
  <2>2. TickOK' BY <1>1, <2>1
  <2>3. CASE pr' = pr BY <2>1, <2>2, <2>3, InvFacts, RowsStay DEF runVars, StepOK, StoreOK
  <2>4. CASE /\ pr[r.cycle].state = "open"
             /\ pr' = [pr EXCEPT ![r.cycle].state = "merged", ![r.cycle].merged = r.head]
    <3> DEFINE q == [pr[r.cycle] EXCEPT !.state = "merged", !.merged = r.head]
    <3>1. r.cycle \in Cycles /\ r.head \in 0..MaxHead
      BY InvFacts, HeadFacts DEF TickOK
    <3>2. pr[r.cycle] \in PrRow /\ pr[r.cycle].tip # 0
      BY <2>4, <3>1, InvFacts DEF RowsOK
    <3>3. q \in PrRow /\ q.tip = pr[r.cycle].tip BY <3>1, <3>2 DEF PrRow
    <3>4. pr' = [pr EXCEPT ![r.cycle] = q] BY <2>4, <3>1, <3>2, InvFacts DEF RowsOK, PrRow
    <3> HIDE DEF q
    <3>5. RowsOK' BY <1>2, <2>1, <3>1, <3>2, <3>3, <3>4
    <3>6. QED BY <2>1, <2>2, <3>5 DEF StepOK, StoreOK
  <2>5. QED BY <2>1, <2>3, <2>4
<1>4. CASE SomebodyPushes
  <2>1. PICK c \in Cycles : /\ pr[c].state = "open" /\ pr[c].tip < MaxHead
                            /\ pr' = [pr EXCEPT ![c].tip = @ + 1]
    BY <1>4 DEF SomebodyPushes
  <2> DEFINE h == pr[c].tip + 1
             q == [pr[c] EXCEPT !.tip = h]
  <2>2. pr[c] \in PrRow BY InvFacts DEF RowsOK
  <2>3. h \in 0..MaxHead /\ h # 0 BY <2>1, <2>2, HeadFacts DEF PrRow
  <2>4. q \in PrRow /\ q.tip = h
    <3> HIDE DEF h
    <3> QED BY <2>2, <2>3 DEF PrRow
  <2>5. pr' = [pr EXCEPT ![c] = q] BY <2>1, InvFacts DEF RowsOK, PrRow
  <2> HIDE DEF q
  <2>6. RowsOK' BY <1>2, <1>4, <2>3, <2>4, <2>5 DEF SomebodyPushes
  <2>7. QED BY <1>1, <1>4, <2>6 DEF SomebodyPushes, StepOK, StoreOK, coordVars
<1>5. CASE SomebodyMerges
  <2>1. PICK c \in Cycles :
          /\ pr[c].state = "open"
          /\ pr' = [pr EXCEPT ![c].state = "merged", ![c].merged = pr[c].tip,
                              ![c].draft = "no"]
    BY <1>5 DEF SomebodyMerges
  <2> DEFINE q == [pr[c] EXCEPT !.state = "merged", !.merged = pr[c].tip, !.draft = "no"]
  <2>2. pr[c] \in PrRow /\ pr[c].tip # 0 BY <2>1, InvFacts DEF RowsOK
  <2>3. q \in PrRow /\ q.tip = pr[c].tip BY <2>2 DEF PrRow
  <2>4. pr' = [pr EXCEPT ![c] = q] BY <2>1, <2>2, InvFacts DEF RowsOK, PrRow
  <2> HIDE DEF q
  <2>5. RowsOK' BY <1>2, <1>5, <2>2, <2>3, <2>4 DEF SomebodyMerges
  <2>6. QED BY <1>1, <1>5, <2>5 DEF SomebodyMerges, StepOK, StoreOK, coordVars
<1>6. CASE Elapse
  <2>1. RowsOK' BY <1>6, InvFacts, RowsStay DEF Elapse
  <2>2. TickOK'
    BY <1>6, InvFacts, TickKept DEF Elapse, TimerElapses, runVars, coordVars, cur
  <2>3. QED BY <1>6, <2>1, <2>2 DEF Elapse, StepOK, StoreOK, StoreNext
<1>7. QED BY <1>3, <1>4, <1>5, <1>6 DEF World

\* A lease that runs out preserves Inv.
LEMMA ExpireOK == ASSUME Inv, Expire PROVE StepOK
<1>1. cur' = cur
  BY InvFacts DEF Expire, LeaseExpires, StoreTypeOK, CampaignRow, cur
<1>2. TickOK' BY <1>1, InvFacts, TickKept DEF Expire, runVars, coordVars
<1>3. QED BY <1>2, InvFacts, RowsStay DEF Expire, StepOK, StoreOK, StoreNext

\* A crash preserves Inv: it loses runs and the tick, no acceptance.
LEMMA CrashOK == ASSUME Inv, Crash PROVE StepOK
<1>1. RowsOK'
  <2>1. NoRun \in RunRow /\ NoRun.phase \notin Late /\ NoRun.mode # "revalidate"
    BY DEF NoRun, RunRow, Late
  <2>2. QED BY <2>1, InvFacts DEF Crash, RowsOK, Good
<1>2. proc' \in ProcRow
  <2> DEFINE n == proc.crashes + 1
  <2>1. proc \in ProcRow /\ n \in 0..MaxCrash
    BY InvFacts, CrashAssumption DEF Crash, TickOK, ProcRow
  <2>2. proc' = [proc EXCEPT !.up = "down", !.crashes = n]
    BY <2>1 DEF Crash, ProcRow
  <2> HIDE DEF n
  <2>3. QED BY <2>1, <2>2 DEF ProcRow
<1>3. TickOK'
  BY <1>2, InvFacts, IdleTick DEF Crash, TickOK, OnlyAcceptedIsMerged, Releasing
<1>4. QED BY <1>1, <1>3 DEF Crash, StepOK, StoreOK

\* reconcileOrphanedRuns preserves Inv.
LEMMA BootOK == ASSUME Inv, Boot PROVE StepOK
<1>1. ASSUME NEW c \in Cycles
      PROVE  Recovered(c) \in Good(c)
  BY InvFacts, GoodRow, StatusGood DEF Recovered
<1>2. RowsOK'
  <2>1. task' \in [Cycles -> TaskRow] BY <1>1 DEF Boot, Good, GoodFor
  <2>2. ASSUME NEW c \in Cycles
        PROVE  /\ (task[c] \in Good(c))'
               /\ run'[c].phase \in Late \/ run'[c].mode = "revalidate" => task'[c].head # 0
               /\ pr'[c].state # "none" => pr'[c].tip # 0
    <3>1. task'[c] \in Good(c) BY <1>1 DEF Boot
    <3>2. QED BY <3>1, InvFacts DEF Boot, RowsOK, Good, GoodFor
  <2>3. QED BY <2>1, <2>2, InvFacts DEF Boot, RowsOK
<1>3. proc' \in ProcRow
  BY InvFacts DEF Boot, TickOK, ProcRow
<1>4. cur' = cur BY DEF Boot, storeVars, cur
<1>5. TickOK'
  BY <1>3, <1>4, InvFacts DEF Boot, TickOK, OnlyAcceptedIsMerged, Releasing, HasCycle
<1>6. QED BY <1>2, <1>5 DEF Boot, StepOK, StoreOK

-----------------------------------------------------------------------------
(* The theorems *)

\* Inv holds initially.
LEMMA InitInv == Init => Inv
<1> SUFFICES ASSUME Init PROVE Inv OBVIOUS
<1>1. IInv BY InitIInv DEF Init
<1>2. NoTask \in TaskRow /\ NoTask.head = 0 /\ NoTask.review = "none"
  BY HeadFacts DEF NoTask, TaskRow
<1>3. NoRun \in RunRow /\ NoRun.phase = "off" /\ NoRun.mode = "none" BY DEF NoRun, RunRow
<1>4. NoPr \in PrRow /\ NoPr.state = "none" BY HeadFacts DEF NoPr, PrRow
<1>5. RowsOK BY <1>2, <1>3, <1>4 DEF Init, RunInit, RowsOK, Good, GoodFor, Late
<1>6. proc \in ProcRow BY CrashAssumption DEF Init, ProcRow
<1>7. TickOK BY <1>6, IdleTick DEF Init, TickOK, OnlyAcceptedIsMerged, Releasing
<1>8. QED BY <1>1, <1>5, <1>7 DEF Inv

\* Inv is inductive, and every step is a step of the store or leaves it alone.
LEMMA NextInv == Inv /\ [Next]_vars => Inv' /\ StoreOK
<1> SUFFICES ASSUME Inv, [Next]_vars PROVE StepOK
  BY NextIInv DEF StepOK, StoreOK, Inv
<1>1. CASE Operator
  BY <1>1, BeginOK, PauseOK, ResumeOK, StopOK DEF Operator
<1>2. CASE Coordinator
  BY <1>2, CoordinatorOK
<1>3. CASE TaskRuns
  BY <1>3, TaskRunsOK
<1>4. CASE HandoffLinks \/ HandoffCreatesAttempt \/ HandoffLaunches
  BY <1>4, HandoffLinksOK, HandoffCreatesAttemptOK, HandoffLaunchesOK
<1>5. CASE Expire \/ World \/ Crash \/ Boot
  BY <1>5, ExpireOK, WorldOK, CrashOK, BootOK
<1>6. CASE UNCHANGED vars
  <2>1. TickOK' BY <1>6, InvFacts, TickKept DEF vars, storeVars, runVars, coordVars, cur
  <2>2. QED BY <1>6, <2>1, InvFacts, RowsStay DEF vars, StepOK, StoreOK
<1>7. QED BY <1>1, <1>2, <1>3, <1>4, <1>5, <1>6 DEF Next

\* Whatever the operator, the tick, the runs, GitHub and crashes do: the rows of the
\* store, of the tasks and their runs, and the snapshot of the tick keep the
\* inductive invariant.
THEOREM CampaignInvariant == Spec => []Inv
  BY InitInv, NextInv, PTL DEF Spec

\* The rows of tasks, runs, pull requests and the tick hold only values their
\* writers put there, and so do the rows of the store.
THEOREM CampaignTypeCorrect == Spec => [](TypeOK /\ StoreTypeOK)
<1>1. Inv => TypeOK /\ StoreTypeOK
  BY DEF Inv, IInv, RowsOK, TickOK, TypeOK, TickRow, ProcRow
<1>2. QED BY <1>1, CampaignInvariant, PTL

\* The coordinator asks GitHub to merge only heads that a reviewer accepted in
\* that cycle, for any interleaving of runs, ticks, pushes, pauses and crashes.
THEOREM CampaignMergesAccepted == Spec => []OnlyAcceptedIsMerged
<1>1. Inv => OnlyAcceptedIsMerged BY DEF Inv, TickOK
<1>2. QED BY <1>1, CampaignInvariant, PTL

\* Every step of operator, coordinator, task runs and world is a transaction of
\* CampaignStore whose guard holds, or leaves the three rows alone.
THEOREM CampaignImplementsStore == Spec => StoreSteps
<1>1. Init => StoreInit BY DEF Init
<1>2. Inv /\ [Next]_vars => [UNCHANGED storeVars \/ StoreNext]_storeVars
  BY NextInv DEF StoreOK
<1>3. QED BY <1>1, <1>2, CampaignInvariant, PTL DEF Spec, StoreSteps

\* What was proved of the store therefore holds of the campaign at work: its
\* features are serial, the three rows never contradict each other, timers are
\* armed, and nothing lands without its merge commit.
THEOREM CampaignStoreSafe ==
  Spec => [](SerialCycles /\ ControlAgrees /\ AttemptAgrees /\ TimersArmed /\ LandedIsMerged)
<1>1. Inv => SerialCycles /\ ControlAgrees /\ AttemptAgrees /\ TimersArmed /\ LandedIsMerged
  BY DEF Inv, IInv
<1>2. QED BY <1>1, CampaignInvariant, PTL

\* And it delivers one feature after the other: two refinements composed.
THEOREM CampaignDeliversSerially == Spec => DeliversSerially
<1>1. [UNCHANGED storeVars \/ StoreNext]_storeVars => [StoreNext]_storeVars OBVIOUS
<1>2. StoreSteps => StoreSpec BY <1>1, PTL DEF StoreSteps, StoreSpec
<1>3. QED BY <1>2, CampaignImplementsStore, StoreDeliversSerially

-----------------------------------------------------------------------------
(* What has landed *)

\* The tick has asked GitHub for the pull request and goes by the answer.
Watched == {"checks", "ready", "merge", "base"}

\* A merge commit recorded for a cycle is the merge of its pull request, and a
\* reviewer had accepted that head.
MergedRows ==
  \A c \in Cycles :
    /\ pr[c].merged # 0 => pr[c].state = "merged"
    /\ cycle[c].merge # NoCommit =>
         pr[c].merged = cycle[c].merge /\ cycle[c].merge \in accepted[c]

\* What the tick has seen of a merge once GitHub has answered is what happened.
MergedSeen ==
  /\ tick.pc \in Watched /\ tick.merged # 0 =>
       tick.merged = pr[cur].merged /\ tick.head = tick.merged
  /\ tick.pc = "base" => tick.merge = pr[cur].merged /\ tick.merge \in accepted[cur]

MergeOK == MergedRows /\ MergedSeen

\* No transaction of the step records a merge.
CyclesKeep == \A c \in Cycles : cycle'[c].merge \in {cycle[c].merge, NoCommit}

\* A pull request that is merged stays so.
PrsKeep ==
  \A c \in Cycles : /\ pr[c].merged # 0 => pr'[c].merged = pr[c].merged
                    /\ pr'[c].merged # 0 => pr'[c].state = "merged"

\* An accepted head stays accepted.
AcceptedKeep == \A c \in Cycles : accepted[c] \subseteq accepted'[c]

\* What the tick has seen is not touched, or the tick starts over.
TickKeeps ==
  \/ tick' = tick /\ (tick.pc # "idle" => cur' = cur)
  \/ tick'.pc \notin Watched

Keeps == CyclesKeep /\ PrsKeep /\ AcceptedKeep /\ TickKeeps

\* A step that records no merge.
LEMMA KeepsOK ==
  ASSUME Inv, MergeOK, Keeps PROVE MergeOK'
<1>0. NoCommit = 0 BY HeadAssumption
<1>1. MergedRows'
  BY <1>0, HeadAssumption DEF MergeOK, MergedRows, Keeps, CyclesKeep, PrsKeep, AcceptedKeep
<1>2. CASE tick'.pc \notin Watched
  BY <1>1, <1>2 DEF MergeOK, MergedSeen, Watched
<1>3. CASE /\ tick' = tick /\ (tick.pc # "idle" => cur' = cur)
           /\ tick.pc \in Watched
  <2>1. HasCycle /\ cur' = cur BY <1>3, InvFacts DEF TickOK, Watched
  <2>2. cur \in Cycles BY <2>1, InvFacts
  <2>3. tick.pc = "base" => tick.merge # 0
    BY InvFacts, HeadAssumption DEF TickOK, Head
  <2>4. QED
    BY <1>1, <1>3, <2>1, <2>2, <2>3 DEF MergeOK, MergedSeen, Keeps, PrsKeep, AcceptedKeep
<1>4. QED BY <1>1, <1>2, <1>3 DEF MergeOK, Keeps, TickKeeps
\* The transactions that write another column of the current cycle's row.
LEMMA RowKeeps ==
  ASSUME Inv, HasCycle, NEW row, SetCycle(row), row.merge = cycle[cur].merge
  PROVE  CyclesKeep
  BY DEF Inv, IInv, StoreTypeOK, SetCycle, CyclesKeep

\* A transaction that leaves the cycles alone.
LEMMA CyclesStay == ASSUME UNCHANGED cycle PROVE CyclesKeep
  BY DEF CyclesKeep

\* The attempt manager's writes record no merge.
LEMMA AttemptsKeep ==
  ASSUME Inv, NEW o, Attempts(o) \/ UNCHANGED storeVars
  PROVE  CyclesKeep /\ cur' = cur
<1>1. cur' = cur BY CurKept
<1>2. CASE UNCHANGED storeVars BY <1>1, <1>2, CyclesStay DEF storeVars
<1>3. CASE Attempts(o)
  <2>1. HasCycle /\ cycle[cur] \in CycleRow
    BY <1>3, InvFacts DEF Attempts, FailAttempt, Failable, WaitForExternal,
                          ResumeExternalWait, StartDueRetry, HasAttempt
  <2>2. CASE FailAttempt(o) BY <1>1, <2>1, <2>2, RowKeeps DEF FailAttempt, CycleRow
  <2>3. CASE WaitForExternal(o) BY <1>1, <2>1, <2>3, RowKeeps DEF WaitForExternal, CycleRow
  <2>4. CASE ResumeExternalWait(o)
    BY <1>1, <2>1, <2>4, RowKeeps DEF ResumeExternalWait, CycleRow
  <2>5. CASE StartDueRetry(o) BY <1>1, <2>1, <2>5, RowKeeps DEF StartDueRetry, CycleRow
  <2>6. QED BY <1>3, <2>2, <2>3, <2>4, <2>5 DEF Attempts
<1>4. QED BY <1>2, <1>3

\* Nor do the operator's transactions.
LEMMA ControlKeeps ==
  ASSUME Inv, Control \/ AcceptProposal
  PROVE  CyclesKeep /\ (tick.pc # "idle" => cur' = cur)
<1>1. CASE StartCampaign
  <2>1. tick.pc = "idle" BY <1>1, InvFacts DEF StartCampaign, TickOK
  <2>2. NewCycle.merge = NoCommit BY DEF NewCycle, NoCycle
  <2>3. cycle \in [Cycles -> CycleRow] BY InvFacts DEF StoreTypeOK
  <2>4. CyclesKeep
    BY <1>1, <2>2, <2>3 DEF StartCampaign, CyclesKeep
  <2>5. QED BY <2>1, <2>4
<1>2. CASE ~StartCampaign
  <2>1. cur' = cur
    BY <1>2, InvFacts DEF Control, PauseProposal, ResumeProposal, StopProposal, PauseAttempt,
       ResumeAttempt, StopAttempt, AcceptProposal, Leased, StoppedCampaign, cur,
       StoreTypeOK, CampaignRow
  <2>2. CASE UNCHANGED cycle BY <2>1, <2>2, CyclesStay
  <2>3. CASE ~UNCHANGED cycle
    <3>1. HasCycle /\ cycle[cur] \in CycleRow
      BY <1>2, <2>3, InvFacts DEF Control, PauseProposal, ResumeProposal, StopProposal,
         PauseAttempt, ResumeAttempt, StopAttempt, AcceptProposal, HasAttempt
    <3>2. CASE PauseProposal \/ \E o \in Owner : PauseAttempt(o)
      BY <2>1, <3>1, <3>2, RowKeeps DEF PauseProposal, PauseAttempt, PausedCycle, CycleRow
    <3>3. CASE ResumeProposal \/ \E o \in Owner : ResumeAttempt(o)
      BY <2>1, <3>1, <3>3, RowKeeps DEF ResumeProposal, ResumeAttempt, ResumedCycle, CycleRow
    <3>4. CASE StopProposal
      BY <2>1, <2>3, <3>1, <3>4, RowKeeps DEF StopProposal, CycleRow
    <3>5. CASE \E o \in Owner : StopAttempt(o)
      BY <2>1, <3>1, <3>5, RowKeeps DEF StopAttempt, CycleRow
    <3>6. CASE AcceptProposal BY <2>1, <3>1, <3>6, RowKeeps DEF AcceptProposal, CycleRow
    <3>7. QED BY <1>2, <2>1, <3>2, <3>3, <3>4, <3>5, <3>6 DEF Control
  <2>4. QED BY <2>2, <2>3
<1>3. QED BY <1>1, <1>2

\* Nothing happens on GitHub, and nobody gives a verdict.
PrsStay == UNCHANGED <<pr, accepted>>

\* A step that leaves GitHub and the history of verdicts alone.
LEMMA GitHubStays ==
  ASSUME MergedRows, PrsStay PROVE PrsKeep /\ AcceptedKeep
  BY DEF MergedRows, PrsStay, PrsKeep, AcceptedKeep

\* A pull request's row is replaced by one that knows of the same merge.
LEMMA PrKeeps ==
  ASSUME MergedRows, RowsOK, NEW c \in Cycles, NEW q, pr' = [pr EXCEPT ![c] = q],
         q.merged = pr[c].merged, pr[c].state = "merged" => q.state = "merged"
  PROVE  PrsKeep
  BY DEF MergedRows, RowsOK, PrsKeep

\* The segments of a run: commits are pushed and draft pull requests opened, but
\* nothing is merged, and verdicts are never taken back.
LEMMA RunKeeps ==
  ASSUME Inv, MergeOK, NEW o \in Owner, NEW c \in Cycles, Run(o, c)
  PROVE  CyclesKeep /\ PrsKeep /\ AcceptedKeep /\ cur' = cur
<1>0. MergedRows /\ RowsOK BY InvFacts DEF MergeOK
<1>1. Attempts(o) \/ UNCHANGED storeVars
  BY DEF Run, BeginBuild, BeginIteration, BeginRevalidation, Push, ChangeNothing, Deploy,
         CallReviewer, Conclude, Fail, StartOver, GiveUp, BackOff, RetryBuild, MissPrice,
         Halts, Attempts
<1>2. CyclesKeep /\ cur' = cur BY <1>1, AttemptsKeep
<1>3. CASE PrsStay BY <1>0, <1>2, <1>3, GitHubStays
<1>4. CASE Push(o, c)
  <2> DEFINE h == pr[c].tip + 1
             q == [pr[c] EXCEPT !.tip = h]
  <2>1. pr[c] \in PrRow BY <1>0, GoodRow
  <2>2. q.merged = pr[c].merged /\ q.state = pr[c].state BY <2>1 DEF PrRow
  <2>3. pr' = [pr EXCEPT ![c] = q] \/ UNCHANGED pr BY <1>4 DEF Push
  <2> HIDE DEF q
  <2>4. CASE UNCHANGED pr
    BY <1>3, <1>4, <2>4 DEF Push, PrsStay
  <2>5. CASE pr' = [pr EXCEPT ![c] = q]
    BY <1>0, <1>2, <1>4, <2>2, <2>5, PrKeeps DEF Push, AcceptedKeep
  <2>6. QED BY <2>3, <2>4, <2>5
<1>5. CASE Deploy(o, c)
  <2> DEFINE s == IF pr[c].state = "none" THEN "open" ELSE pr[c].state
             d == IF pr[c].state = "none" THEN "yes" ELSE pr[c].draft
             q == [pr[c] EXCEPT !.state = s, !.draft = d]
  <2>1. pr[c] \in PrRow BY <1>0, GoodRow
  <2>2. q.merged = pr[c].merged /\ (pr[c].state = "merged" => q.state = "merged")
    BY <2>1 DEF PrRow
  <2>3. pr' = [pr EXCEPT ![c] = q] \/ UNCHANGED pr
    BY <1>0, <1>5, <2>1, ZenonT(60) DEF Deploy, RowsOK, PrRow
  <2> HIDE DEF q
  <2>4. CASE UNCHANGED pr
    BY <1>3, <1>5, <2>4 DEF Deploy, PrsStay
  <2>5. CASE pr' = [pr EXCEPT ![c] = q]
    BY <1>0, <1>2, <1>5, <2>2, <2>5, PrKeeps DEF Deploy, AcceptedKeep
  <2>6. QED BY <2>3, <2>4, <2>5
<1>6. CASE Conclude(o, c)
  <2>1. UNCHANGED pr BY <1>6 DEF Conclude
  <2>2. AcceptedKeep
    <3>1. PICK S : accepted' = [accepted EXCEPT ![c] = S] /\ accepted[c] \subseteq S
      <4>1. CASE UNCHANGED accepted BY <1>0, <4>1 DEF RowsOK
      <4>2. CASE ~UNCHANGED accepted
        BY <1>0, <1>6, <4>2 DEF Conclude, Answer, NoAnswer, RowsOK
      <4>3. QED BY <4>1, <4>2
    <3>2. QED BY <1>0, <3>1 DEF RowsOK, AcceptedKeep
  <2>3. PrsKeep BY <1>0, <2>1 DEF PrsKeep, MergedRows
  <2>4. QED BY <1>2, <2>2, <2>3
<1>7. QED
  BY <1>3, <1>4, <1>5, <1>6
  DEF Run, BeginBuild, BeginIteration, BeginRevalidation, ChangeNothing,
      CallReviewer, Fail, StartOver, GiveUp, BackOff, RetryBuild, MissPrice, PrsStay

\* updateCycleDelivery with a row whose merge commit is the old one.
LEMMA UpdateKeeps ==
  ASSUME Inv, NEW o, NEW seen, NEW row, Update(o, seen, row),
         HasCycle => row.merge = cycle[cur].merge
  PROVE  CyclesKeep /\ cur' = cur
  BY RowKeeps DEF Update, cur

\* The coordinator's transactions that record no merge.
LEMMA WritesKeep ==
  ASSUME Inv, NEW o, NEW seen, NEW to, NEW evaluated \in BOOLEAN,
         \/ LinkTask(o) \/ CreateFirstAttempt(o) \/ ReconcileDelivery(o, seen, to)
         \/ HoldRelease(o, seen, to, evaluated) \/ InvalidateRelease(o, seen, evaluated)
  PROVE  CyclesKeep /\ cur' = cur
<1>1. HasCycle => cycle[cur] \in CycleRow BY InvFacts
<1>2. CASE LinkTask(o) BY <1>1, <1>2, UpdateKeeps DEF LinkTask, CycleRow
<1>3. CASE CreateFirstAttempt(o) BY <1>3, CyclesStay DEF CreateFirstAttempt, cur
<1>4. CASE ReconcileDelivery(o, seen, to)
  BY <1>1, <1>4, UpdateKeeps DEF ReconcileDelivery, CycleRow
<1>5. CASE HoldRelease(o, seen, to, evaluated)
  <2> DEFINE g == IF evaluated THEN "evaluated" ELSE cycle[cur].gates
             row == [cycle[cur] EXCEPT !.status = to, !.gates = g]
  <2>1. HasCycle => row.merge = cycle[cur].merge BY <1>1 DEF CycleRow
  <2>2. HasCycle /\ Update(o, seen, row)
    BY <1>1, <1>5, ZenonT(60) DEF HoldRelease, Update, CycleRow
  <2> HIDE DEF row
  <2>3. QED BY <2>1, <2>2, UpdateKeeps
<1>6. CASE InvalidateRelease(o, seen, evaluated)
  <2> DEFINE g == IF evaluated THEN "revalidate" ELSE cycle[cur].gates
             row == [cycle[cur] EXCEPT !.status = "delivering", !.gates = g]
  <2>1. HasCycle => row.merge = cycle[cur].merge BY <1>1 DEF CycleRow
  <2>2. HasCycle /\ Update(o, seen, row)
    BY <1>1, <1>6, ZenonT(60) DEF InvalidateRelease, Update, CycleRow
  <2> HIDE DEF row
  <2>3. QED BY <2>1, <2>2, UpdateKeeps
<1>7. QED BY <1>2, <1>3, <1>4, <1>5, <1>6

\* The two transactions that record a merge: what they are given is what GitHub
\* has merged, and a reviewer had accepted it.
LEMMA RecordsOK ==
  ASSUME Inv, MergedRows, NEW o, NEW seen, NEW h, h = pr[cur].merged, h \in accepted[cur],
         RecordMerge(o, seen, h) \/ ConfirmMerge(o, seen, h), PrsStay
  PROVE  MergedRows' /\ cur' = cur
<1>1. cycle[cur] \in CycleRow /\ cycle \in [Cycles -> CycleRow] /\ cur' = cur
  BY InvFacts DEF RecordMerge, ConfirmMerge, Update, StoreTypeOK, cur
<1>2. PICK row : SetCycle(row) /\ row.merge = h
  <2>1. CASE RecordMerge(o, seen, h)
    <3> DEFINE row == [cycle[cur] EXCEPT !.status = "releasing", !.merge = h, !.gates = "evaluated"]
    <3>1. row.merge = h BY <1>1 DEF CycleRow
    <3>2. SetCycle(row) BY <2>1 DEF RecordMerge, Update
    <3> HIDE DEF row
    <3>3. QED BY <3>1, <3>2
  <2>2. CASE ConfirmMerge(o, seen, h)
    <3> DEFINE row == [cycle[cur] EXCEPT !.status = "cooldown", !.merge = h, !.timer = "later"]
    <3>1. row.merge = h BY <1>1 DEF CycleRow
    <3>2. SetCycle(row) BY <2>2 DEF ConfirmMerge, Update
    <3> HIDE DEF row
    <3>3. QED BY <3>1, <3>2
  <2>3. QED BY <2>1, <2>2
<1>3. QED BY <1>1, <1>2 DEF SetCycle, MergedRows, PrsStay

\* The operator, and the clock on leases, record no merge.
LEMMA OperatorKeeps == ASSUME Inv, MergeOK, Operator \/ Expire PROVE Keeps
<1>1. PrsStay /\ tick' = tick
  BY DEF Operator, Begin, Pause, Resume, Stop, Expire, PrsStay, coordVars, runVars
<1>2. CASE Operator
  <2>1. Control \/ AcceptProposal
    BY <1>2, InvFacts DEF Operator, Begin, Pause, Resume, Stop, Control
  <2>2. QED BY <1>1, <2>1, ControlKeeps, GitHubStays DEF MergeOK, Keeps, TickKeeps
<1>3. CASE Expire
  <2>1. CyclesKeep /\ cur' = cur
    BY <1>3, InvFacts, CyclesStay
    DEF Expire, LeaseExpires, StoreTypeOK, CampaignRow, cur
  <2>2. QED BY <1>1, <2>1, GitHubStays DEF MergeOK, Keeps, TickKeeps
<1>4. QED BY <1>2, <1>3

\* GitHub merges only what is open; the clock arms timers.
LEMMA WorldKeeps == ASSUME Inv, MergeOK, World PROVE Keeps
<1>0. MergedRows /\ RowsOK /\ TickOK BY InvFacts DEF MergeOK
<1>1. tick' = tick /\ cur' = cur /\ AcceptedKeep
  BY DEF World, GitHubMerges, SomebodyPushes, SomebodyMerges, Elapse, TimerElapses, cur,
         coordVars, storeVars, runVars, AcceptedKeep
<1>2. CyclesKeep
  <2>1. CASE Elapse
    BY <2>1, InvFacts, RowKeeps DEF Elapse, TimerElapses, CycleRow
  <2>2. CASE ~Elapse
    BY <2>2, CyclesStay DEF World, GitHubMerges, SomebodyPushes, SomebodyMerges, storeVars
  <2>3. QED BY <2>1, <2>2
<1>3. PrsKeep
  <2>1. ASSUME NEW c \in Cycles, NEW q, pr' = [pr EXCEPT ![c] = q], pr[c].state = "open",
               q.merged # 0 => q.state = "merged"
        PROVE  PrsKeep
    BY <1>0, <2>1 DEF MergedRows, RowsOK, PrsKeep
  <2>2. CASE UNCHANGED pr BY <1>0, <2>2 DEF MergedRows, PrsKeep
  <2>3. CASE GitHubMerges /\ ~UNCHANGED pr
    <3>1. PICK r \in requests :
            /\ pr[r.cycle].state = "open"
            /\ pr' = [pr EXCEPT ![r.cycle].state = "merged", ![r.cycle].merged = r.head]
      BY <2>3 DEF GitHubMerges
    <3> DEFINE q == [pr[r.cycle] EXCEPT !.state = "merged", !.merged = r.head]
    <3>2. r.cycle \in Cycles BY <1>0 DEF TickOK
    <3>3. pr[r.cycle] \in PrRow BY <1>0, <3>2 DEF RowsOK
    <3>4. pr' = [pr EXCEPT ![r.cycle] = q] /\ q.state = "merged"
      BY <1>0, <3>1, <3>2, <3>3 DEF RowsOK, PrRow
    <3> HIDE DEF q
    <3>5. QED BY <2>1, <3>1, <3>2, <3>4
  <2>4. CASE SomebodyPushes
    <3>1. PICK c \in Cycles : pr[c].state = "open" /\ pr' = [pr EXCEPT ![c].tip = @ + 1]
      BY <2>4 DEF SomebodyPushes
    <3> DEFINE h == pr[c].tip + 1
               q == [pr[c] EXCEPT !.tip = h]
    <3>2. pr[c] \in PrRow BY <1>0 DEF RowsOK
    <3>3. pr' = [pr EXCEPT ![c] = q] /\ q.merged = pr[c].merged /\ q.state = pr[c].state
      BY <1>0, <3>1, <3>2 DEF RowsOK, PrRow
    <3> HIDE DEF q
    <3>4. q.merged # 0 => q.state = "merged" BY <1>0, <3>3 DEF MergedRows
    <3>5. QED BY <2>1, <3>1, <3>3, <3>4
  <2>5. CASE SomebodyMerges
    <3>1. PICK c \in Cycles :
            /\ pr[c].state = "open"
            /\ pr' = [pr EXCEPT ![c].state = "merged", ![c].merged = pr[c].tip,
                                ![c].draft = "no"]
      BY <2>5 DEF SomebodyMerges
    <3> DEFINE q == [pr[c] EXCEPT !.state = "merged", !.merged = pr[c].tip, !.draft = "no"]
    <3>2. pr[c] \in PrRow BY <1>0 DEF RowsOK
    <3>3. pr' = [pr EXCEPT ![c] = q] /\ q.state = "merged"
      BY <1>0, <3>1, <3>2 DEF RowsOK, PrRow
    <3> HIDE DEF q
    <3>4. QED BY <2>1, <3>1, <3>3
  <2>6. CASE Elapse BY <2>2, <2>6 DEF Elapse, runVars
  <2>7. QED BY <2>2, <2>3, <2>4, <2>5, <2>6 DEF World
<1>4. QED BY <1>1, <1>2, <1>3 DEF Keeps, TickKeeps

\* A crash loses what the tick has seen, and a boot brings nothing back.
LEMMA ProcessKeeps == ASSUME Inv, MergeOK, Crash \/ Boot PROVE Keeps
<1>1. PrsStay /\ UNCHANGED cycle /\ cur' = cur
  BY DEF Crash, Boot, PrsStay, storeVars, cur
<1>2. TickKeeps
  <2>1. CASE Crash
    <3>1. tick'.pc = "idle" BY <2>1 DEF Crash, Idle
    <3>2. QED BY <3>1 DEF TickKeeps, Watched
  <2>2. CASE Boot BY <1>1, <2>2 DEF Boot, TickKeeps
  <2>3. QED BY <2>1, <2>2
<1>3. QED BY <1>1, <1>2, CyclesStay, GitHubStays DEF MergeOK, Keeps

\* An idle tick has seen nothing.
LEMMA IdleKeeps == ASSUME tick' = Idle PROVE TickKeeps /\ MergedSeen'
  BY DEF Idle, TickKeeps, MergedSeen, Watched

\* The tick's steps up to the release.
LEMMA DeliveryKeeps ==
  ASSUME Inv, MergeOK,
         \/ Renew \/ ResumeWait \/ Retry \/ Handoff \/ RecoverAttempt \/ Deliver \/ FoundPr
         \/ HandoffLinks \/ HandoffCreatesAttempt \/ HandoffLaunches
         \/ ReleaseNotPassed \/ ReleasePassed \/ Cooldown
  PROVE  Keeps
<1>0. PrsStay
  BY DEF Renew, ResumeWait, Retry, Handoff, RecoverAttempt, Deliver, FoundPr, Reconcile,
         HandoffLinks, HandoffCreatesAttempt, HandoffLaunches, ReleaseNotPassed,
         ReleasePassed, Cooldown, PrsStay, runVars
<1>1. PrsKeep /\ AcceptedKeep BY <1>0, GitHubStays DEF MergeOK
<1>2. CASE UNCHANGED storeVars
  <2>1. CyclesKeep BY <1>2, CyclesStay DEF storeVars
  <2>2. TickKeeps
    <3>1. tick \in TickRow /\ cur' = cur BY <1>2, InvFacts DEF TickOK, storeVars, cur
    <3>2. CASE Renew \/ ResumeWait \/ Retry \/ RecoverAttempt \/ ReleaseNotPassed
      BY <3>1, <3>2
      DEF Renew, ResumeWait, Retry, RecoverAttempt, ReleaseNotPassed, coordVars, TickKeeps
    <3>3. CASE Handoff \/ ReleasePassed \/ Cooldown
      BY <3>3 DEF Handoff, ReleasePassed, Cooldown, Await, Idle, TickKeeps, Watched
    <3>4. CASE Deliver
      <4>1. tick' = Idle \/ Await("find") BY <3>4 DEF Deliver, Reconcile
      <4>2. QED BY <4>1, IdleKeeps DEF Await, Idle, TickKeeps, Watched
    <3>5. CASE FoundPr \/ HandoffLaunches
      BY <3>5, IdleKeeps DEF FoundPr, Reconcile, HandoffLaunches
    <3>6. CASE HandoffLinks \/ HandoffCreatesAttempt
      BY <3>1, <3>6
      DEF HandoffLinks, HandoffCreatesAttempt, TickRow, TickKeeps, Watched
    <3>7. QED BY <3>2, <3>3, <3>4, <3>5, <3>6
  <2>3. QED BY <1>1, <2>1, <2>2 DEF Keeps
<1>3. CASE Renew \/ ResumeWait \/ Retry \/ RecoverAttempt \/ ReleaseNotPassed
  <2>1. tick.pc = "idle" /\ tick' = tick
    BY <1>3 DEF Renew, ResumeWait, Retry, RecoverAttempt, ReleaseNotPassed, Ticking, coordVars
  <2>2. CyclesKeep
    <3>1. CASE Renew BY <3>1, CyclesStay DEF Renew, ClaimLease
    <3>2. CASE ResumeWait \/ Retry
      BY <3>2, AttemptsKeep DEF ResumeWait, Retry, Attempts
    <3>3. CASE RecoverAttempt BY <3>3, CyclesStay DEF RecoverAttempt, CreateFirstAttempt
    <3>4. CASE ReleaseNotPassed BY <3>4, WritesKeep DEF ReleaseNotPassed
    <3>5. QED BY <1>3, <3>1, <3>2, <3>3, <3>4
  <2>3. QED BY <1>1, <2>1, <2>2 DEF Keeps, TickKeeps
<1>4. CASE HandoffLinks \/ HandoffCreatesAttempt
  <2>1. tick'.pc \notin Watched
    <3>1. tick \in TickRow BY InvFacts DEF TickOK
    <3>2. QED BY <1>4, <3>1 DEF HandoffLinks, HandoffCreatesAttempt, TickRow, Watched
  <2>2. CyclesKeep
    BY <1>2, <1>4, WritesKeep, CyclesStay DEF HandoffLinks, HandoffCreatesAttempt, storeVars
  <2>3. QED BY <1>1, <2>1, <2>2 DEF Keeps, TickKeeps
<1>5. ASSUME NEW c, NEW seen, NEW t, Reconcile(c, seen, t)
      PROVE  Keeps
  <2>1. TickKeeps BY <1>5, IdleKeeps DEF Reconcile
  <2>2. CASE UNCHANGED storeVars BY <1>2, <2>2
  <2>3. CASE FailAttempt(me) BY <1>1, <2>1, <2>3, AttemptsKeep DEF Attempts, Keeps
  <2>4. ASSUME NEW to, ReconcileDelivery(me, seen, to) PROVE CyclesKeep
    BY <2>4, WritesKeep
  <2>5. QED BY <1>1, <1>5, <2>1, <2>2, <2>3, <2>4 DEF Reconcile, Keeps
<1>6. CASE Deliver BY <1>2, <1>5, <1>6 DEF Deliver
<1>7. CASE FoundPr BY <1>5, <1>7 DEF FoundPr
<1>8. CASE Handoff \/ HandoffLaunches \/ ReleasePassed \/ Cooldown
  BY <1>2, <1>8 DEF Handoff, HandoffLaunches, ReleasePassed, Cooldown
<1>9. QED BY <1>3, <1>4, <1>6, <1>7, <1>8

\* A pull request that becomes ready for review is not merged by that.
LEMMA ReadyKeeps ==
  ASSUME Inv, MergeOK, HasCycle, pr' = [pr EXCEPT ![cur].draft = "no"] PROVE PrsKeep
<1> DEFINE q == [pr[cur] EXCEPT !.draft = "no"]
<1>1. cur \in Cycles /\ RowsOK /\ MergedRows BY InvFacts DEF MergeOK
<1>2. pr[cur] \in PrRow BY <1>1, GoodRow
<1>3. q.merged = pr[cur].merged /\ q.state = pr[cur].state BY <1>2 DEF PrRow
<1>4. pr' = [pr EXCEPT ![cur] = q] BY <1>1, <1>2 DEF RowsOK, PrRow
<1> HIDE DEF q
<1>5. QED BY <1>1, <1>3, <1>4, PrKeeps

\* shipTask's answer leads to the question for the pull request or ends the tick.
LEMMA ShippedKeeps == ASSUME Inv, MergeOK, Shipped PROVE Keeps
<1>1. HasCycle /\ tick \in TickRow BY InvFacts DEF Shipped, TickOK
<1>2. PrsKeep
  <2>1. CASE UNCHANGED pr BY <2>1 DEF MergeOK, MergedRows, PrsKeep
  <2>2. CASE ~UNCHANGED pr BY <1>1, <2>2, ReadyKeeps DEF Shipped
  <2>3. QED BY <2>1, <2>2
<1>3. TickKeeps
  <2>1. tick' = Idle \/ tick'.pc = "pull" BY <1>1 DEF Shipped, TickRow
  <2>2. QED BY <2>1, IdleKeeps DEF TickKeeps, Watched
<1>4. CyclesKeep BY CyclesStay DEF Shipped, storeVars
<1>5. QED BY <1>2, <1>3, <1>4 DEF Shipped, Keeps, AcceptedKeep

\* The answer of markPullRequestReady ends the tick.
LEMMA MarkedReadyKeeps == ASSUME Inv, MergeOK, MarkedReady PROVE Keeps
<1>1. HasCycle BY InvFacts DEF MarkedReady, TickOK
<1>2. PrsKeep BY <1>1, ReadyKeeps DEF MarkedReady
<1>3. TickKeeps BY IdleKeeps DEF MarkedReady, Then
<1>4. CyclesKeep BY WritesKeep, CyclesStay DEF MarkedReady, Then, storeVars
<1>5. QED BY <1>2, <1>3, <1>4 DEF MarkedReady, Keeps, AcceptedKeep

\* A failed call ends the tick.
LEMMA TickEndsKeeps == ASSUME Inv, MergeOK, CallFails PROVE Keeps
<1>1. PrsStay /\ CyclesKeep /\ TickKeeps
  BY CyclesStay, IdleKeeps DEF CallFails, TickFails, PrsStay, storeVars, runVars
<1>2. QED BY <1>1, GitHubStays DEF MergeOK, Keeps

\* The next feature begins without a merge.
LEMMA ProceedKeeps == ASSUME Inv, MergeOK, Proceed PROVE Keeps
<1>1. PrsStay /\ TickKeeps BY IdleKeeps DEF Proceed, PrsStay, runVars
<1>2. CASE UNCHANGED storeVars
  BY <1>1, <1>2, CyclesStay, GitHubStays DEF MergeOK, Keeps, storeVars
<1>3. CASE AdvanceAfterCooldown(me)
  <2>1. NewCycle.merge = NoCommit BY DEF NewCycle, NoCycle
  <2>2. /\ cycle \in [Cycles -> CycleRow] /\ cycle[cur] \in CycleRow
        /\ cur \in Cycles
    BY <1>3, InvFacts DEF StoreTypeOK, AdvanceAfterCooldown
  <2> DEFINE row == [cycle[cur] EXCEPT !.status = "succeeded"]
  <2>3. row.merge = cycle[cur].merge BY <2>2 DEF CycleRow
  <2>4. cycle' = [[cycle EXCEPT ![cur] = row] EXCEPT ![campaign.next] = NewCycle]
    BY <1>3, <2>2 DEF AdvanceAfterCooldown, CycleRow
  <2> HIDE DEF row
  <2>5. CyclesKeep BY <2>1, <2>2, <2>3, <2>4 DEF CyclesKeep
  <2>6. QED BY <1>1, <2>5, GitHubStays DEF MergeOK, Keeps
<1>4. QED BY <1>2, <1>3 DEF Proceed

\* getPullRequest answers: what the tick now takes for the merged head, if any,
\* is both the head and the merge of the pull request.
LEMMA GotPullMerge == ASSUME Inv, MergeOK, GotPull PROVE MergeOK'
<1>1. HasCycle /\ tick \in TickRow /\ cur \in Cycles /\ MergedRows
  BY InvFacts DEF GotPull, TickOK, MergeOK
<1>2. CASE tick' = Idle
  <2>1. PrsStay /\ CyclesKeep
    BY <1>2, WritesKeep, CyclesStay DEF GotPull, PrsStay, storeVars, Idle
  <2>2. QED BY <1>2, <2>1, GitHubStays, IdleKeeps, KeepsOK DEF MergeOK, Keeps
<1>3. CASE /\ tick' = [tick EXCEPT !.pc = "checks", !.head = PullHead,
                                   !.merged = pr[cur].merged, !.draft = pr[cur].draft]
           /\ UNCHANGED storeVars
  <2>1. MergedRows' BY <1>1, <1>3 DEF GotPull, storeVars, MergedRows
  <2>2. tick'.pc = "checks" /\ tick'.head = PullHead /\ tick'.merged = pr[cur].merged
    BY <1>1, <1>3 DEF TickRow
  <2>3. pr[cur].merged # 0 => PullHead = pr[cur].merged
    BY <1>1 DEF MergedRows, PullHead
  <2>4. cur' = cur /\ pr' = pr BY <1>3 DEF GotPull, storeVars, cur
  <2>5. MergedSeen' BY <2>2, <2>3, <2>4 DEF MergedSeen
  <2>6. QED BY <2>1, <2>5 DEF MergeOK
<1>4. QED BY <1>2, <1>3 DEF GotPull

\* A write that records what the tick has seen merged, and the tick that goes on.
LEMMA RecordedSeen ==
  ASSUME Inv, MergeOK, NEW o, NEW seen, NEW h, h = pr[cur].merged, h \in accepted[cur],
         RecordMerge(o, seen, h) \/ ConfirmMerge(o, seen, h), PrsStay,
         \/ tick' = Idle
         \/ /\ tick'.merge = h
            /\ tick'.merged # 0 => tick'.merged = pr[cur].merged /\ tick'.head = tick'.merged
  PROVE  MergeOK'
<1>1. MergedRows' /\ cur' = cur BY RecordsOK DEF MergeOK
<1>2. MergedSeen'
  BY <1>1, IdleKeeps DEF PrsStay, MergedSeen
<1>3. QED BY <1>1, <1>2 DEF MergeOK

\* listCheckRuns answers: a merge is recorded only when every gate holds for it.
LEMMA GotChecksMerge ==
  ASSUME Inv, MergeOK, NEW green \in BOOLEAN, GotChecks(green) PROVE MergeOK'
<1> DEFINE gates == tick.passed = "yes" /\ tick.head = tick.acc /\ green
<1>1. /\ HasCycle /\ tick \in TickRow /\ cur \in Cycles /\ tick.pc = "checks"
      /\ tick.acc \in accepted[cur]
  BY InvFacts DEF GotChecks, TickOK, Releasing
<1>2. PrsStay BY DEF GotChecks, PrsStay, runVars
<1>3. /\ tick.merged # 0 => tick.merged = pr[cur].merged /\ tick.head = tick.merged
      /\ MergedRows
  BY <1>1 DEF MergeOK, MergedSeen, Watched
<1>4. ASSUME tick' = Idle, CyclesKeep PROVE MergeOK'
  BY <1>2, <1>4, GitHubStays, IdleKeeps, KeepsOK DEF MergeOK, Keeps
<1>5. ASSUME NEW to, NEW evaluated \in BOOLEAN,
             Then(HoldRelease(me, tick.seen, to, evaluated), Idle)
      PROVE  MergeOK'
  BY <1>4, <1>5, WritesKeep, CyclesStay DEF Then, storeVars
<1>6. ASSUME tick.merged = 0, CyclesKeep, cur' = cur,
             tick'.pc \in {"ready", "merge"}, tick'.merged = tick.merged
      PROVE  MergeOK'
  <2>1. MergedRows'
    BY <1>2, <1>3, <1>6, HeadAssumption DEF CyclesKeep, PrsStay, MergedRows
  <2>2. QED BY <1>6, <2>1 DEF MergeOK, MergedSeen
<1>7. CASE tick.merged # 0 /\ gates /\ tick.merge \in {NoCommit, tick.merged}
  <2>1. Then(RecordMerge(me, tick.seen, tick.merged),
             [tick EXCEPT !.seen = "releasing", !.pc = "base", !.merge = tick.merged])
    BY <1>1, <1>7 DEF GotChecks, TickRow
  <2>2. CASE UNCHANGED storeVars /\ tick' = Idle
    BY <1>4, <2>2, CyclesStay DEF storeVars
  <2>3. CASE /\ RecordMerge(me, tick.seen, tick.merged)
             /\ tick' = [tick EXCEPT !.seen = "releasing", !.pc = "base",
                                     !.merge = tick.merged]
    <3>1. /\ tick'.merge = tick.merged /\ tick'.merged = tick.merged
          /\ tick'.head = tick.head
      BY <1>1, <2>3 DEF TickRow
    <3>2. tick.merged = pr[cur].merged /\ tick.merged \in accepted[cur]
      BY <1>1, <1>3, <1>7
    <3>3. QED BY <1>2, <1>3, <2>3, <3>1, <3>2, RecordedSeen
  <2>4. QED BY <2>1, <2>2, <2>3 DEF Then
<1>8. CASE tick.merged # 0 /\ ~(gates /\ tick.merge \in {NoCommit, tick.merged})
  BY <1>1, <1>5, <1>8 DEF GotChecks
<1>9. CASE tick.merged = 0 /\ tick.merge # NoCommit
  BY <1>1, <1>5, <1>9 DEF GotChecks
<1>10. CASE tick.merged = 0 /\ tick.merge = NoCommit /\ tick.draft = "yes"
  <2>1. tick' = [tick EXCEPT !.pc = "ready"] /\ UNCHANGED storeVars
    BY <1>10 DEF GotChecks
  <2>2. tick'.pc = "ready" /\ tick'.merged = tick.merged BY <1>1, <2>1 DEF TickRow
  <2>3. CyclesKeep /\ cur' = cur BY <2>1, CyclesStay DEF storeVars, cur
  <2>4. QED BY <1>6, <1>10, <2>2, <2>3
<1>11. CASE tick.merged = 0 /\ tick.merge = NoCommit /\ tick.draft # "yes"
  <2>1. CASE gates /\ Writable
    <3>1. /\ HoldRelease(me, tick.seen, "releasing", TRUE)
          /\ tick' = [tick EXCEPT !.seen = "releasing", !.pc = "merge"]
      BY <1>1, <1>11, <2>1 DEF GotChecks, TickRow
    <3>2. tick'.pc = "merge" /\ tick'.merged = tick.merged BY <1>1, <3>1 DEF TickRow
    <3>3. CyclesKeep /\ cur' = cur BY <3>1, WritesKeep
    <3>4. QED BY <1>6, <1>11, <3>2, <3>3
  <2>2. CASE ~(gates /\ Writable)
    BY <1>1, <1>5, <1>11, <2>2 DEF GotChecks
  <2>3. QED BY <2>1, <2>2
<1>12. QED BY <1>7, <1>8, <1>9, <1>10, <1>11

\* The answer to the merge request: what was merged is what was asked for.
LEMMA MergeAnsweredMerge == ASSUME Inv, MergeOK, MergeAnswered PROVE MergeOK'
<1>1. /\ tick \in TickRow /\ tick.head = tick.acc /\ tick.acc \in accepted[cur]
  BY InvFacts DEF MergeAnswered, TickOK, Releasing
<1>2. PrsStay BY DEF MergeAnswered, PrsStay, runVars
<1>3. tick.merged # 0 => tick.merged = pr[cur].merged /\ tick.head = tick.merged
  BY DEF MergeAnswered, MergeOK, MergedSeen, Watched
<1>4. CASE tick' = Idle /\ UNCHANGED storeVars
  BY <1>2, <1>4, CyclesStay, GitHubStays, IdleKeeps, KeepsOK DEF MergeOK, Keeps, storeVars
<1>5. CASE /\ pr[cur].merged = tick.head /\ RecordMerge(me, "releasing", tick.head)
           /\ tick' = [tick EXCEPT !.pc = "base", !.merge = tick.head]
  <2>1. /\ tick'.merge = tick.head /\ tick'.merged = tick.merged
        /\ tick'.head = tick.head
    BY <1>1, <1>5 DEF TickRow
  <2>2. QED BY <1>1, <1>2, <1>3, <1>5, <2>1, RecordedSeen
<1>6. QED BY <1>4, <1>5 DEF MergeAnswered, Then

\* The answer about the base branch writes the merge the tick has seen.
LEMMA ConfirmedMerge == ASSUME Inv, MergeOK, Confirmed PROVE MergeOK'
<1>1. /\ PrsStay /\ tick' = Idle
      /\ tick.merge = pr[cur].merged /\ tick.merge \in accepted[cur]
  BY DEF Confirmed, Then, PrsStay, runVars, MergeOK, MergedSeen
<1>2. CASE UNCHANGED storeVars
  BY <1>1, <1>2, CyclesStay, GitHubStays, IdleKeeps, KeepsOK DEF MergeOK, Keeps, storeVars
<1>3. CASE RecordMerge(me, tick.seen, tick.merge) \/ ConfirmMerge(me, tick.seen, tick.merge)
  BY <1>1, <1>3, RecordedSeen
<1>4. QED BY <1>2, <1>3 DEF Confirmed, Then

\* Every step keeps the rows and the tick in agreement with what has landed.
LEMMA NextMerge == Inv /\ MergeOK /\ [Next]_vars => MergeOK'
<1> SUFFICES ASSUME Inv, MergeOK, [Next]_vars PROVE MergeOK' OBVIOUS
<1>1. CASE TaskRuns
  <2>1. tick' = tick BY <1>1 DEF TaskRuns, coordVars
  <2>2. QED BY <1>1, <2>1, InvFacts, RunKeeps, KeepsOK DEF TaskRuns, Keeps, TickKeeps
<1>2. CASE Operator \/ Expire \/ World \/ Crash \/ Boot
  BY <1>2, OperatorKeeps, WorldKeeps, ProcessKeeps, KeepsOK
<1>3. CASE Coordinator \/ HandoffLinks \/ HandoffCreatesAttempt \/ HandoffLaunches
  BY <1>3, DeliveryKeeps, ShippedKeeps, MarkedReadyKeeps, TickEndsKeeps, ProceedKeeps,
     KeepsOK, GotPullMerge, GotChecksMerge, MergeAnsweredMerge, ConfirmedMerge
  DEF Coordinator
<1>4. CASE UNCHANGED vars
  BY <1>4 DEF vars, storeVars, runVars, coordVars, MergeOK, MergedRows, MergedSeen, cur
<1>5. QED BY <1>1, <1>2, <1>3, <1>4 DEF Next

\* A merge commit the campaign records is the one on GitHub, and a feature cools
\* down or is left behind only when what was merged had been accepted by a
\* reviewer, whoever else pushes or merges and whenever the process crashes.
THEOREM CampaignLandsAccepted == Spec => []LandedWasAccepted
<1>1. Init => MergeOK
  <2>1. NoPr.merged = 0 /\ NoCycle.merge = NoCommit BY DEF NoPr, NoCycle
  <2>2. QED BY <2>1 DEF Init, StoreInit, RunInit, Idle, MergeOK, MergedRows, MergedSeen, Watched
<1>2. Inv /\ MergeOK => LandedWasAccepted
  <2> SUFFICES ASSUME Inv, MergeOK, NEW c \in Cycles,
                      \/ cycle[c].status \in {"cooldown", "succeeded"}
                      \/ cycle[c].status = "paused" /\ cycle[c].from = "cooldown"
               PROVE  cycle[c].merge # NoCommit
    BY DEF LandedWasAccepted, MergeOK, MergedRows
  <2>1. SerialCycles /\ ControlAgrees /\ LandedIsMerged /\ StoreTypeOK BY DEF Inv, IInv
  <2>2. CASE cycle[c].status = "succeeded" BY <2>1, <2>2 DEF LandedIsMerged
  <2>3. CASE c > cur
    BY <2>1, <2>3 DEF SerialCycles, NoCycle
  <2>4. CASE c = cur /\ cycle[c].status # "succeeded"
    <3>1. HasCycle BY <2>4, BoundAssumption DEF HasCycle, Cycles
    <3>2. campaign.status \in {"running", "paused"} /\ Resting = "cooldown"
      BY <2>1, <2>4, <3>1 DEF ControlAgrees, Resting, LiveStatus
    <3>3. QED BY <2>1, <2>4, <3>1, <3>2 DEF LandedIsMerged
  <2>5. CASE c < cur BY <2>1, <2>2, <2>5 DEF SerialCycles
  <2>6. cur \in Nat /\ c \in Nat
    BY <2>1, BoundAssumption DEF StoreTypeOK, CampaignRow, Cycles, cur
  <2>7. QED BY <2>2, <2>3, <2>4, <2>5, <2>6
<1>3. QED BY <1>1, <1>2, NextMerge, CampaignInvariant, PTL DEF Spec

\* The rows keep their types and record only merges that GitHub made of heads a
\* reviewer accepted: the invariant the run with every fault checks.
THEOREM CampaignCorrect == Spec => []CampaignInv
<1>1. TypeOK /\ StoreTypeOK /\ LandedWasAccepted => CampaignInv BY DEF CampaignInv
<1>2. QED BY <1>1, CampaignTypeCorrect, CampaignLandsAccepted, PTL

-----------------------------------------------------------------------------
(***************************************************************************)
(* No run is lost                                                          *)
(*                                                                         *)
(* The property speaks of one moment, when nobody is at work; why it holds *)
(* is a matter of what runs, ticks and pauses leave to each other before.  *)
(* AttendedRow says it of the current cycle's row k, its attempt a, its    *)
(* task's row t and run r, the campaign's status s, the process u and the  *)
(* place pc of the tick.  Most steps write the rows of the current cycle   *)
(* alone (RowsStep); the others begin a cycle or a process.                *)
(***************************************************************************)

Working == {"building", "deploying", "shipping"}

\* Before its first attempt a task has had no run.
Untouched(t, r) ==
  /\ r = NoRun
  /\ \E s \in {"none", "clarifying", "failed"} : t = [NoTask EXCEPT !.status = s]

\* A run is over when its task passes, unless it has just been launched.
Unjudged(t, r) == r.phase # "off" =>
  \/ r.phase = "start" /\ r.mode = "iterate"
  \/ r.mode = "revalidate" /\ t.review = "none"
  \/ r.mode # "revalidate" /\ t.back = "pending"

\* A cycle in release has a task the release can act on, and at most a run that
\* has not begun and that its first guard ends.
ReleaseRow(t, r) ==
  /\ t.status # "deploying"
  /\ t.status = "building" => t.head # 0
  /\ r.phase # "off" => r.phase = "start" /\ r.mode = "iterate" /\ t.head # 0

\* If the cycle goes on before an interrupted run has noticed, a resume is
\* queued, or the launch that should have followed was skipped.
Remembered(k, r) ==
  k.status = "delivering" /\ r.phase # "off" /\ r.intr # "none"
  => r.queued = "yes" \/ r.missed = "yes"

\* A row in progress that no run is at work on is one that the tick revalidates.
RowLeft(k, t, r) ==
  k.status = "delivering" /\ r.phase = "off" /\ t.status \in Working
  => \/ r.missed = "yes" \/ t.status = "shipping"
     \/ t.status = "building" /\ t.head # 0 /\ k.gates = "revalidate"

\* What the tick relies on between two of its steps.
TickAt(s, k, a, pc) ==
  /\ pc \in {"attempt", "launch"} => k.status = "delivering"
  /\ pc \in {"launch", "find"} \cup Releasing => a.n # 0
  /\ pc = "find" => Rest(k) \notin Release
  /\ pc \in Releasing /\ s # "stopped" => Rest(k) \in Release

AttendedRow(s, k, a, t, r, u, pc) ==
  /\ a.n = 0 => Untouched(t, r)
  /\ s # "stopped" /\ Rest(k) # "proposing" => k.task = "linked"
  /\ k.gates = "revalidate" => t.head # 0
  /\ t.status = "shipping" => u = "down" \/ pc = "ship"
  /\ Rest(k) \in Release => ReleaseRow(t, r)
  /\ Unjudged(t, r)
  /\ Remembered(k, r)
  /\ u = "up" => RowLeft(k, t, r)
  /\ TickAt(s, k, a, pc)

Attended ==
  /\ \A c \in Cycles : c > cur => task[c] = NoTask /\ run[c] = NoRun
  /\ ~Up => tick = Idle /\ \A c \in Cycles : run[c] = NoRun
  /\ HasCycle => AttendedRow(campaign.status, cycle[cur], attempt[cur], task[cur],
                             run[cur], proc.up, tick.pc)

\* The invariant is what the property needs.
LEMMA AttendedIsEnough == Inv /\ Attended => NoRunIsLost
<1> SUFFICES ASSUME Inv, Attended, Forgotten PROVE run[cur].missed = "yes"
  BY DEF NoRunIsLost
<1>1. /\ HasCycle /\ proc.up = "up" /\ tick.pc = "idle" /\ run[cur].phase = "off"
      /\ campaign.status = "running" /\ cycle[cur].status \in {"delivering"} \cup Release
      /\ task[cur].status \in Working
      /\ ~Movable(cur, cycle[cur].status, task[cur])
  BY DEF Forgotten, Unattended, Active, Up, Working
<1>2. Rest(cycle[cur]) = cycle[cur].status BY <1>1 DEF Rest, Release
<1>3. AttendedRow("running", cycle[cur], attempt[cur], task[cur], run[cur], "up", "idle")
  BY <1>1 DEF Attended
<1>4. task[cur].status # "shipping" BY <1>3 DEF AttendedRow
<1>5. CASE cycle[cur].status \in Release
  <2>1. task[cur].status = "building" /\ task[cur].head # 0
    BY <1>1, <1>2, <1>3, <1>4, <1>5 DEF AttendedRow, ReleaseRow, Working
  <2>2. QED BY <1>1, <1>5, <2>1 DEF Movable
<1>6. CASE cycle[cur].status = "delivering"
  BY <1>1, <1>3, <1>4, <1>6 DEF AttendedRow, RowLeft, Movable
<1>7. QED BY <1>1, <1>5, <1>6

\* What Inv says of the current cycle and its task.
LEMMA Here ==
  ASSUME Inv, HasCycle
  PROVE  /\ cur \in Cycles /\ cycle[cur] \in CycleRow /\ attempt[cur] \in AttemptRow
         /\ task[cur] \in TaskRow /\ run[cur] \in RunRow /\ pr[cur] \in PrRow
         /\ task[cur] \in Good(cur)
         /\ campaign \in CampaignRow /\ tick \in TickRow /\ proc \in ProcRow
         /\ Agree(campaign.status, cycle[cur], attempt[cur])
         /\ run[cur].phase \in Late \/ run[cur].mode = "revalidate" => task[cur].head # 0
         /\ pr[cur].state # "none" => pr[cur].tip # 0
         /\ me \in Owner
<1>1. cur \in Cycles BY CurrentRows DEF Inv
<1>2. QED BY <1>1, CurrentRows, GoodRow, InvFacts DEF Inv, IInv, StoreTypeOK, RowsOK, TickOK

\* The statuses still agree after the step.
LEMMA AgreeNext ==
  ASSUME IInv', HasCycle'
  PROVE  Agree(campaign'.status, cycle'[cur'], attempt'[cur'])
  BY DEF IInv, Agree, Rest, Resting, ControlAgrees, AttemptAgrees, TimersArmed,
         LandedIsMerged, HasCycle, LiveStatus, StoreTypeOK, CampaignRow, cur

\* A task that has passed has a head.
LEMMA PassedHead ==
  ASSUME Inv, HasCycle, Passed(task[cur]) PROVE task[cur].head # 0
<1>1. task[cur].reviewed \in accepted[cur] /\ accepted[cur] \subseteq Head
  BY Here DEF Passed, Good, GoodFor, Inv, RowsOK
<1>2. QED BY <1>1 DEF Passed, Head

\* A step that writes the rows of the current cycle only.
LEMMA RowsStep ==
  ASSUME Inv, Attended, Up, UNCHANGED proc, HasCycle, cur' = cur,
         NEW t, NEW r,
         task' = [task EXCEPT ![cur] = t], run' = [run EXCEPT ![cur] = r],
         AttendedRow(campaign'.status, cycle'[cur], attempt'[cur], t, r, "up", tick'.pc)
  PROVE  Attended'
<1>1. cur \in Cycles BY Here
<1>2. task'[cur] = t /\ run'[cur] = r BY <1>1 DEF Inv, RowsOK
<1>3. ASSUME NEW c \in Cycles, c > cur PROVE task'[c] = NoTask /\ run'[c] = NoRun
  BY <1>1, <1>3 DEF Attended, Inv, RowsOK, Cycles
<1>4. proc'.up = "up" BY DEF Up
<1>5. QED BY <1>2, <1>3, <1>4 DEF Attended, Up

\* A step that leaves tasks and runs alone.
LEMMA StoreStep ==
  ASSUME Inv, Attended, Up, UNCHANGED <<proc, task, run>>, HasCycle, cur' = cur,
         AttendedRow(campaign'.status, cycle'[cur], attempt'[cur], task[cur], run[cur],
                     "up", tick'.pc)
  PROVE  Attended'
<1>1. /\ task' = [task EXCEPT ![cur] = task[cur]]
      /\ run' = [run EXCEPT ![cur] = run[cur]]
  BY DEF Inv, RowsOK
<1>2. QED BY <1>1, RowsStep

\* A cycle that has just begun.
LEMMA BornAttended ==
  ASSUME NEW s, NEW a, NEW u
  PROVE  AttendedRow(s, NewCycle, a, NoTask, NoRun, u, "idle")
<1>1. /\ NewCycle.status = "proposing" /\ NewCycle.gates = "none"
      /\ NoTask.status = "none" /\ NoRun.phase = "off"
  BY DEF NewCycle, NoCycle, NoTask, NoRun
<1>2. Untouched(NoTask, NoRun)
  <2>1. NoTask = [NoTask EXCEPT !.status = "none"] BY DEF NoTask
  <2>2. QED BY <2>1 DEF Untouched
<1>3. QED BY <1>1, <1>2
  DEF AttendedRow, Rest, Unjudged, Remembered, RowLeft, TickAt, Release, Releasing, Working

\* What Attended says of the current cycle while the process is up.
LEMMA AttendedHere ==
  ASSUME Attended, Up, HasCycle
  PROVE  AttendedRow(campaign.status, cycle[cur], attempt[cur], task[cur], run[cur],
                     "up", tick.pc)
  BY DEF Attended, Up

\* Without a first attempt there is nothing to be lost.
LEMMA UntouchedRow ==
  ASSUME NEW t, NEW r, Untouched(t, r)
  PROVE  /\ r = NoRun /\ r.phase = "off" /\ r.missed = "no"
         /\ t \in TaskRow /\ t.status \notin Working \cup {"review", "completed"}
         /\ t.head = 0 /\ t.branch = "none" /\ t.front = "pending" /\ t.review = "none"
  BY HeadFacts DEF Untouched, NoRun, NoTask, Working, TaskRow

-----------------------------------------------------------------------------
(* The operator *)

\* The store's first cycle, and its successors, have tasks nobody has touched.
LEMMA NextCycleAttended ==
  ASSUME Inv, Attended, Up, UNCHANGED <<proc, task, run>>, tick'.pc = "idle",
         campaign.next <= MaxCycle,
         campaign'.current = campaign.next, cycle'[campaign.next] = NewCycle
  PROVE  Attended'
<1>1. campaign.next = cur + 1 /\ cur \in Nat
  BY DEF Inv, IInv, SerialCycles, StoreTypeOK, CampaignRow, cur
<1>2. campaign.next \in Cycles /\ cur' = campaign.next
  BY <1>1, BoundAssumption DEF Cycles, cur
<1>3. task[campaign.next] = NoTask /\ run[campaign.next] = NoRun
  BY <1>1, <1>2 DEF Attended
<1>4. \A c \in Cycles : c > cur' => task[c] = NoTask /\ run[c] = NoRun
  BY <1>1, <1>2 DEF Attended, Cycles
<1>5. AttendedRow(campaign'.status, NewCycle, attempt'[cur'], NoTask, NoRun,
                  proc.up, "idle")
  BY BornAttended
<1>6. QED BY <1>2, <1>3, <1>4, <1>5 DEF Attended, Up

\* A campaign begins, or a proposal is accepted, before any task is touched.
LEMMA BeginAttended == ASSUME Inv, Attended, Up, Begin PROVE Attended'
<1>1. CASE StartCampaign
  <2>1. ~HasCycle BY <1>1, InvFacts DEF StartCampaign
  <2>2. tick.pc = "idle" BY <2>1 DEF Inv, TickOK
  <2>3. campaign.next = 1 /\ campaign.next \in Cycles
    BY <2>1, BoundAssumption DEF HasCycle, Inv, IInv, SerialCycles, StoreTypeOK, CampaignRow,
                                 cur, Cycles
  <2>4. campaign'.current = campaign.next /\ cycle'[campaign.next] = NewCycle
    BY <1>1, <2>3 DEF StartCampaign, Inv, IInv, StoreTypeOK, CampaignRow
  <2>5. QED
    BY <2>2, <2>3, <2>4, NextCycleAttended DEF Begin, runVars, coordVars, Cycles
<1>2. CASE AcceptProposal
  <2>1. HasCycle /\ campaign' = campaign /\ attempt' = attempt BY <1>2 DEF AcceptProposal
  <2>2. cycle'[cur] = [cycle[cur] EXCEPT !.proposal = "accepted"]
    BY <1>2, <2>1, Here DEF AcceptProposal, SetCycle, Inv, IInv, StoreTypeOK
  <2>3. QED
    BY <1>2, <2>1, <2>2, Here, AttendedHere, StoreStep
    DEF Begin, AttendedRow, Remembered, RowLeft, TickAt, Rest, CycleRow, runVars, coordVars, cur
<1>3. QED BY <1>1, <1>2 DEF Begin

\* A pause interrupts the run of the attempt it pauses; the run may be unwinding when
\* the campaign is resumed, but the cycle is not delivering meanwhile.
LEMMA PauseAttended == ASSUME Inv, Attended, Up, ~HandingOff, Pause PROVE Attended'
<1>1. HasCycle /\ campaign.status = "running" /\ UNCHANGED <<task, proc, tick>>
  BY DEF Pause, PauseProposal, PauseAttempt, HasAttempt, coordVars
<1>0. /\ cur \in Cycles /\ campaign \in CampaignRow /\ attempt[cur] \in AttemptRow
      /\ cycle \in [Cycles -> CycleRow] /\ attempt \in [Cycles -> AttemptRow]
  BY <1>1, Here DEF Inv, IInv, StoreTypeOK
<1>2. /\ cur' = cur /\ campaign'.status = "paused"
      /\ cycle'[cur] = PausedCycle
      /\ attempt'[cur].n = attempt[cur].n
  <2>1. /\ campaign'.current = campaign.current /\ campaign'.status = "paused"
        /\ SetCycle(PausedCycle)
    BY <1>0 DEF Pause, PauseProposal, PauseAttempt, Leased, CampaignRow
  <2>2. attempt'[cur].n = attempt[cur].n
    <3>1. CASE UNCHANGED attempt BY <3>1
    <3>2. CASE SetAttempt(IF attempt[cur].status = "running"
                          THEN [attempt[cur] EXCEPT !.status = "paused", !.clock = "off"]
                          ELSE attempt[cur])
      BY <1>0, <3>2 DEF SetAttempt, AttemptRow
    <3>3. QED BY <3>1, <3>2 DEF Pause, PauseProposal, PauseAttempt
  <2>3. QED BY <1>0, <2>1, <2>2 DEF SetCycle, cur
<1>3. cycle[cur].status \in LiveStatus BY <1>1, Here DEF Agree
<1>4. /\ cycle'[cur].status = "paused" /\ Rest(cycle'[cur]) = Rest(cycle[cur])
      /\ cycle'[cur].task = cycle[cur].task /\ cycle'[cur].gates = cycle[cur].gates
  BY <1>1, <1>2, <1>3, Here DEF PausedCycle, Rest, CycleRow, LiveStatus
<1>5. ASSUME NEW r \in RunRow, r.phase = run[cur].phase, r.mode = run[cur].mode,
             attempt[cur].n = 0 => r = run[cur]
      PROVE  AttendedRow("paused", cycle'[cur], attempt'[cur], task[cur], r, "up", tick.pc)
  BY <1>1, <1>2, <1>4, <1>5, AttendedHere
  DEF AttendedRow, ReleaseRow, Unjudged, Remembered, RowLeft, TickAt, HandingOff
<1>6. CASE UNCHANGED run
  BY <1>1, <1>2, <1>5, <1>6, Here, StoreStep
<1>7. CASE Interrupt(cur, "pause") /\ attempt[cur].n # 0
  <2> DEFINE i == IF Active(cur) /\ Context(cur) THEN "pause" ELSE run[cur].intr
             r == [run[cur] EXCEPT !.intr = i]
  <2>1. i \in {"none", "pause", "stop"} BY <1>1, Here DEF RunRow
  <2>2. run' = [run EXCEPT ![cur] = r] BY <1>1, <1>7, Here DEF Interrupt, Inv, RowsOK, RunRow
  <2>3. r \in RunRow /\ r.phase = run[cur].phase /\ r.mode = run[cur].mode
    <3> HIDE DEF i
    <3> QED BY <1>1, <2>1, Here DEF RunRow
  <2>4. task' = [task EXCEPT ![cur] = task[cur]] BY <1>1 DEF Inv, RowsOK
  <2> HIDE DEF r
  <2>5. QED BY <1>1, <1>2, <1>5, <1>7, <2>2, <2>3, <2>4, RowsStep
<1>8. QED BY <1>6, <1>7 DEF Pause, PauseAttempt, HasAttempt

\* A stop interrupts the run and ends the cycle for good.
LEMMA StopAttended == ASSUME Inv, Attended, Up, ~HandingOff, Stop PROVE Attended'
<1>1. campaign.status # "stopped" /\ campaign' = StoppedCampaign /\ UNCHANGED <<task, proc, tick>>
  BY DEF Stop, StopProposal, StopAttempt, coordVars
<1>2. cur' = cur /\ campaign'.status = "stopped"
  BY <1>1, InvFacts DEF StoppedCampaign, StoreTypeOK, CampaignRow, cur
<1>3. CASE ~HasCycle
  BY <1>1, <1>2, <1>3 DEF Stop, StopAttempt, HasAttempt, HasCycle, Attended, Up
<1>4. CASE HasCycle
  <2>0. /\ cur \in Cycles /\ attempt[cur] \in AttemptRow /\ cycle[cur] \in CycleRow
        /\ cycle \in [Cycles -> CycleRow] /\ attempt \in [Cycles -> AttemptRow]
    BY <1>4, Here DEF Inv, IInv, StoreTypeOK
  <2>1. /\ cycle'[cur].status = "stopped" /\ cycle'[cur].gates = cycle[cur].gates
        /\ attempt'[cur].n = attempt[cur].n
    <3>1. CASE StopAttempt(me) BY <2>0, <3>1 DEF StopAttempt, SetCycle, SetAttempt, CycleRow, AttemptRow
    <3>2. CASE StopProposal
      <4>1. Pausable
        BY <1>1, <1>4, Here DEF Pausable, Agree, CampaignRow, LiveStatus
      <4>2. QED BY <1>4, <2>0, <3>2, <4>1 DEF StopProposal, SetCycle, CycleRow
    <3>3. QED BY <3>1, <3>2 DEF Stop
  <2>2. ASSUME NEW r \in RunRow, r.phase = run[cur].phase, r.mode = run[cur].mode,
               attempt[cur].n = 0 => r = run[cur]
        PROVE  AttendedRow("stopped", cycle'[cur], attempt'[cur], task[cur], r, "up", tick.pc)
    BY <1>4, <2>1, <2>2, AttendedHere
    DEF AttendedRow, Unjudged, Remembered, RowLeft, TickAt, HandingOff, Rest, Release
  <2>3. CASE UNCHANGED run
    BY <1>1, <1>2, <1>4, <2>2, <2>3, Here, StoreStep
  <2>4. CASE Interrupt(cur, "stop") /\ attempt[cur].n # 0
    <3> DEFINE i == IF Active(cur) /\ Context(cur) THEN "stop" ELSE run[cur].intr
               r == [run[cur] EXCEPT !.intr = i]
    <3>1. i \in {"none", "pause", "stop"} BY <1>4, Here DEF RunRow
    <3>2. run' = [run EXCEPT ![cur] = r] BY <2>4 DEF Interrupt
    <3>3. r \in RunRow /\ r.phase = run[cur].phase /\ r.mode = run[cur].mode
      <4> HIDE DEF i
      <4> QED BY <1>4, <3>1, Here DEF RunRow
    <3>4. task' = [task EXCEPT ![cur] = task[cur]] BY <1>1 DEF Inv, RowsOK
    <3> HIDE DEF r
    <3>5. QED BY <1>1, <1>2, <1>4, <2>2, <2>4, <3>2, <3>3, <3>4, RowsStep
  <2>5. QED BY <2>3, <2>4 DEF Stop, StopAttempt, HasAttempt
<1>5. QED BY <1>3, <1>4


-----------------------------------------------------------------------------
(* Launches *)

\* A run that has just been launched has everything before it.
LEMMA LaunchedAttended ==
  ASSUME NEW s, NEW k, NEW a, NEW pc, NEW t \in TaskRow, NEW mode \in Mode,
         a.n # 0,
         s # "stopped" /\ Rest(k) # "proposing" => k.task = "linked",
         k.gates = "revalidate" => t.head # 0,
         t.status = "shipping" => pc = "ship",
         Rest(k) \notin Release,
         TickAt(s, k, a, pc)
  PROVE  AttendedRow(s, k, a, AtLaunch(t, mode), Launched(mode), "up", pc)
<1> DEFINE u == AtLaunch(t, mode)
<1>1. /\ Launched(mode).phase = "start" /\ Launched(mode).mode = mode
      /\ Launched(mode).intr = "none"
  BY DEF Launched, NoRun
<1>2. /\ u.head = t.head
      /\ u.status = "shipping" => t.status = "shipping"
      /\ mode = "build" => u.back = "pending"
      /\ mode = "revalidate" => u.review = "none"
  BY DEF AtLaunch, Reset, Mode, TaskRow
<1> HIDE DEF u
<1>3. Unjudged(u, Launched(mode)) BY <1>1, <1>2 DEF Unjudged, Mode
<1>4. AttendedRow(s, k, a, u, Launched(mode), "up", pc)
  BY <1>1, <1>2, <1>3 DEF AttendedRow, Remembered, RowLeft
<1>5. QED BY <1>4 DEF u

\* A launch, made or refused; a refused one changes what a run finds at most.
LEMMA LaunchAttended ==
  ASSUME Inv, Attended, Up, UNCHANGED proc, HasCycle, cur' = cur,
         NEW t \in TaskRow, NEW mode \in Mode,
         Launch(cur, t, mode) \/ LaunchUnqueued(cur, t, mode),
         attempt'[cur].n # 0,
         campaign'.status # "stopped" /\ Rest(cycle'[cur]) # "proposing"
           => cycle'[cur].task = "linked",
         cycle'[cur].gates = "revalidate" => t.head # 0,
         t.status = "shipping" => tick'.pc = "ship",
         Rest(cycle'[cur]) \notin Release,
         TickAt(campaign'.status, cycle'[cur], attempt'[cur], tick'.pc),
         Active(cur) =>
           /\ Unjudged(t, run[cur])
           /\ Remembered(cycle'[cur], run[cur]) \/ LaunchUnqueued(cur, t, mode)
  PROVE  Attended'
<1>1. CASE ~Active(cur)
  <2>1. task' = [task EXCEPT ![cur] = AtLaunch(t, mode)] /\ run' = [run EXCEPT ![cur] = Launched(mode)]
    BY <1>1 DEF Launch, LaunchUnqueued
  <2>2. QED BY <2>1, LaunchedAttended, RowsStep
<1>2. ASSUME Active(cur), NEW r \in RunRow, run' = [run EXCEPT ![cur] = r],
             r.phase = run[cur].phase, r.mode = run[cur].mode,
             Remembered(cycle'[cur], r)
      PROVE  Attended'
  <2>1. task' = [task EXCEPT ![cur] = t] BY <1>2 DEF Launch, LaunchUnqueued
  <2>2. Unjudged(t, r) BY <1>2 DEF Unjudged
  <2>3. AttendedRow(campaign'.status, cycle'[cur], attempt'[cur], t, r, "up", tick'.pc)
    BY <1>2, <2>2 DEF AttendedRow, RowLeft, Active
  <2>4. QED BY <1>2, <2>1, <2>3, RowsStep
<1>3. CASE Active(cur) /\ LaunchUnqueued(cur, t, mode)
  <2> DEFINE r == [run[cur] EXCEPT !.missed = Missed(cur)]
  <2>1. Missed(cur) \in {"yes", "no"} BY Here DEF Missed, RunRow
  <2>2. /\ r \in RunRow /\ r.phase = run[cur].phase /\ r.mode = run[cur].mode
        /\ r.intr # "none" => r.missed = "yes"
    BY <2>1, Here DEF RunRow, Missed
  <2>3. run' = [run EXCEPT ![cur] = r] BY <1>3 DEF LaunchUnqueued
  <2> HIDE DEF r
  <2>4. Remembered(cycle'[cur], r) BY <2>2 DEF Remembered
  <2>5. QED BY <1>2, <1>3, <2>2, <2>3, <2>4
<1>4. CASE Active(cur) /\ Launch(cur, t, mode) /\ Remembered(cycle'[cur], run[cur])
  <2>1. run' = [run EXCEPT ![cur] = run[cur]] BY <1>4 DEF Launch, Inv, RowsOK
  <2>2. QED BY <1>2, <1>4, <2>1, Here
<1>5. QED BY <1>1, <1>3, <1>4

\* resumeTask launches the next run, or queues it while one unwinds: an attended row
\* leads to an attended row.
LEMMA ResumeTaskAttended ==
  ASSUME Inv, Attended, Up, UNCHANGED <<proc, tick>>, HasCycle, cur' = cur, ResumeTask(cur),
         attempt[cur].n # 0, attempt'[cur].n # 0,
         cycle'[cur].status = "delivering", Rest(cycle[cur]) = "delivering",
         cycle[cur].task = "linked",
         cycle'[cur].task = cycle[cur].task, cycle'[cur].gates = cycle[cur].gates
  PROVE  Attended'
<1>0. cycle[cur] \in CycleRow BY Here
<1>1. Rest(cycle'[cur]) = "delivering" /\ cycle'[cur].task = "linked"
  BY DEF Rest
<1>2. /\ cycle'[cur].gates = "revalidate" => task[cur].head # 0
      /\ task[cur].status = "shipping" => tick.pc = "ship"
      /\ tick.pc \notin Releasing \/ campaign.status = "stopped"
      /\ Unjudged(task[cur], run[cur])
  BY <1>1, AttendedHere DEF AttendedRow, TickAt, Release
<1>3. campaign.status # "stopped"
  BY Here DEF Agree, Rest, LiveStatus
<1>4. TickAt(campaign'.status, cycle'[cur], attempt'[cur], tick'.pc)
  BY <1>1, <1>2, <1>3 DEF TickAt, Release
<1>5. CASE Active(cur)
  <2> DEFINE r == [run[cur] EXCEPT !.queued = "yes"]
  <2>1. r \in RunRow /\ r.phase = run[cur].phase /\ r.mode = run[cur].mode /\ r.queued = "yes"
    BY Here DEF RunRow
  <2>2. run' = [run EXCEPT ![cur] = r] /\ task' = [task EXCEPT ![cur] = task[cur]]
    BY <1>5, Here DEF ResumeTask, Inv, RowsOK, RunRow
  <2> HIDE DEF r
  <2>3. AttendedRow(campaign'.status, cycle'[cur], attempt'[cur], task[cur], r, "up", tick'.pc)
    BY <1>1, <1>2, <1>4, <1>5, <2>1
    DEF AttendedRow, Unjudged, Remembered, RowLeft, Release, Active
  <2>4. QED BY <2>2, <2>3, RowsStep
<1>6. CASE ~Active(cur)
  <2>1. Launch(cur, task[cur], Resumed(task[cur])) BY <1>6 DEF ResumeTask
  <2>2. Resumed(task[cur]) \in Mode BY ResumedMode
  <2>3. QED BY <1>1, <1>2, <1>4, <1>6, <2>1, <2>2, Here, LaunchAttended DEF Release
<1>7. QED BY <1>5, <1>6

\* The operator resumes: the attempt goes on where the pause left it.
LEMMA ResumeAttended == ASSUME Inv, Attended, Up, ~HandingOff, Resume PROVE Attended'
<1>1. /\ HasCycle /\ campaign.status = "paused" /\ cycle[cur].status = "paused"
      /\ UNCHANGED <<proc, tick>>
  BY DEF Resume, ResumeProposal, ResumeAttempt, HasAttempt, coordVars
<1>0. /\ cur \in Cycles /\ campaign \in CampaignRow /\ attempt[cur] \in AttemptRow
      /\ cycle[cur] \in CycleRow
      /\ cycle \in [Cycles -> CycleRow] /\ attempt \in [Cycles -> AttemptRow]
  BY <1>1, Here DEF Inv, IInv, StoreTypeOK
<1>2. /\ cur' = cur /\ campaign'.status = "running" /\ cycle'[cur] = ResumedCycle
      /\ attempt'[cur].n = attempt[cur].n
  <2>1. /\ campaign'.current = campaign.current /\ campaign'.status = "running"
        /\ SetCycle(ResumedCycle)
    BY <1>0 DEF Resume, ResumeProposal, ResumeAttempt, Leased, CampaignRow
  <2>2. attempt'[cur].n = attempt[cur].n
    <3>1. CASE UNCHANGED attempt BY <3>1
    <3>2. ASSUME NEW x \in {"on", "off"},
                 SetAttempt(IF attempt[cur].status = "paused"
                            THEN [attempt[cur] EXCEPT !.status = "running", !.clock = x]
                            ELSE attempt[cur])
          PROVE attempt'[cur].n = attempt[cur].n
      BY <1>0, <3>2 DEF SetAttempt, AttemptRow
    <3>3. QED BY <3>1, <3>2 DEF Resume, ResumeProposal, ResumeAttempt
  <2>3. QED BY <1>0, <2>1, <2>2 DEF SetCycle, cur
<1>3. cycle[cur].from \in LiveStatus BY <1>1, Here DEF Agree
<1>4. /\ cycle'[cur].status = cycle[cur].from
      /\ Rest(cycle'[cur]) = cycle[cur].from /\ Rest(cycle[cur]) = cycle[cur].from
      /\ cycle'[cur].task = cycle[cur].task /\ cycle'[cur].gates = cycle[cur].gates
  BY <1>0, <1>1, <1>2, <1>3 DEF ResumedCycle, Rest, CycleRow, LiveStatus
<1>5. CASE cycle[cur].from = "delivering" /\ attempt[cur].n # 0
  <2>1. cycle[cur].task = "linked"
    BY <1>1, <1>4, <1>5, AttendedHere DEF AttendedRow
  <2>2. ResumeTask(cur)
    BY <1>5, <2>1 DEF Resume, ResumeProposal, HasAttempt, HasCycle
  <2>3. QED BY <1>1, <1>2, <1>4, <1>5, <2>1, <2>2, ResumeTaskAttended
<1>6. CASE cycle[cur].from # "delivering" \/ attempt[cur].n = 0
  <2>1. UNCHANGED <<task, run>>
    BY <1>6, Here DEF Resume, ResumeAttempt, HasAttempt
  <2>2. attempt[cur].n = 0 => run[cur].phase = "off" /\ task[cur].status \notin Working
    BY <1>1, AttendedHere, UntouchedRow DEF AttendedRow
  <2>3. AttendedRow("running", cycle'[cur], attempt'[cur], task[cur], run[cur], "up", tick.pc)
    BY <1>1, <1>2, <1>4, <1>6, <2>2, AttendedHere
    DEF AttendedRow, Remembered, RowLeft, TickAt, HandingOff
  <2>4. QED BY <1>1, <1>2, <2>1, <2>3, StoreStep
<1>7. QED BY <1>5, <1>6


-----------------------------------------------------------------------------
(* The coordinator *)

\* The tick is idle, or has read what it will release, and nobody ships.
LEMMA NotShipping ==
  ASSUME Attended, Up, HasCycle, tick.pc # "ship" PROVE task[cur].status # "shipping"
  BY AttendedHere DEF AttendedRow

\* The tick or the clock write the cycle, or nothing, and leave its task alone.
LEMMA WriteAttended ==
  ASSUME Inv, Attended, Up, HasCycle, UNCHANGED <<proc, task, run>>,
         cur' = cur, campaign'.status = campaign.status, attempt'[cur].n = attempt[cur].n,
         tick.pc = "ship" => tick'.pc = "ship",
         \/ cycle'[cur] = cycle[cur]
         \/ /\ cycle[cur].status \in Release
            /\ cycle'[cur].status \in Release \cup {"cooldown"}
            /\ cycle'[cur].task = cycle[cur].task
            /\ cycle'[cur].gates \in {cycle[cur].gates, "evaluated"},
         TickAt(campaign'.status, cycle'[cur], attempt'[cur], tick'.pc)
  PROVE  Attended'
<1>1. AttendedRow(campaign.status, cycle[cur], attempt[cur], task[cur], run[cur], "up", tick.pc)
  BY AttendedHere
<1>2. CASE cycle'[cur] = cycle[cur]
  <2>1. AttendedRow(campaign'.status, cycle'[cur], attempt'[cur], task[cur], run[cur],
                    "up", tick'.pc)
    BY <1>1, <1>2 DEF AttendedRow
  <2>2. QED BY <2>1, StoreStep
<1>3. CASE /\ cycle[cur].status \in Release
           /\ cycle'[cur].status \in Release \cup {"cooldown"}
           /\ cycle'[cur].task = cycle[cur].task
           /\ cycle'[cur].gates \in {cycle[cur].gates, "evaluated"}
  <2>1. /\ Rest(cycle[cur]) \in Release /\ Rest(cycle[cur]) # "proposing"
        /\ cycle'[cur].status # "delivering"
    BY <1>3 DEF Rest, Release
  <2>2. AttendedRow(campaign'.status, cycle'[cur], attempt'[cur], task[cur], run[cur],
                    "up", tick'.pc)
    BY <1>1, <1>3, <2>1 DEF AttendedRow, Remembered, RowLeft
  <2>3. QED BY <2>2, StoreStep
<1>4. QED BY <1>2, <1>3

\* Renewing the lease touches no task.
LEMMA RenewAttended == ASSUME Inv, Attended, Up, Renew PROVE Attended'
<1>1. HasCycle BY DEF Renew, Inv, IInv, ControlAgrees
<1>2. /\ cur' = cur /\ campaign'.status = campaign.status
      /\ UNCHANGED <<cycle, attempt, proc, task, run, tick>>
  BY InvFacts DEF Renew, ClaimLease, Leased, StoreTypeOK, CampaignRow, cur, runVars, coordVars
<1>3. TickAt(campaign.status, cycle[cur], attempt[cur], tick.pc)
  BY <1>1, AttendedHere DEF AttendedRow
<1>4. QED BY <1>1, <1>2, <1>3, WriteAttended

\* The retry, and what follows an external wait.
LEMMA RelaunchAttended ==
  ASSUME Inv, Attended, Up, Ticking, ResumeWait \/ Retry PROVE Attended'
<1>0. /\ HasCycle /\ tick.pc = "idle" /\ cur \in Cycles
      /\ cycle[cur] \in CycleRow /\ attempt[cur] \in AttemptRow /\ task[cur] \in TaskRow
      /\ cycle \in [Cycles -> CycleRow] /\ attempt \in [Cycles -> AttemptRow]
  BY Here DEF Ticking, Inv, IInv, StoreTypeOK
<1>1. /\ UNCHANGED <<proc, tick, campaign>> /\ cur' = cur /\ campaign.status = "running"
      /\ cycle'[cur].status = "delivering"
      /\ cycle'[cur].task = cycle[cur].task /\ cycle'[cur].gates = cycle[cur].gates
      /\ cycle[cur].status \in {"waiting_for_external", "retry_wait"}
  BY <1>0 DEF ResumeWait, Retry, ResumeExternalWait, StartDueRetry, SetCycle, CycleRow,
              coordVars, cur
<1>2. attempt'[cur].n # 0
  <2>1. CASE ResumeWait
    BY <1>0, <2>1 DEF ResumeWait, ResumeExternalWait, HasAttempt, SetAttempt, AttemptRow
  <2>2. CASE Retry
    BY <1>0, <2>2, BoundAssumption
    DEF Retry, StartDueRetry, HasAttempt, SetAttempt, AttemptRow, NewAttempt
  <2>3. QED BY <2>1, <2>2
<1>3. AttendedRow("running", cycle[cur], attempt[cur], task[cur], run[cur], "up", "idle")
  BY <1>0, <1>1, AttendedHere
<1> DEFINE t == [task[cur] EXCEPT !.status = "building"]
<1>4. t \in TaskRow /\ t.status = "building" /\ t.head = task[cur].head
      /\ t.review = task[cur].review /\ t.back = task[cur].back
  BY <1>0 DEF TaskRow
<1>5. LaunchUnqueued(cur, t, Resumed(task[cur])) BY DEF ResumeWait, Retry, Relaunch
<1>6. Resumed(task[cur]) \in Mode BY ResumedMode
<1> HIDE DEF t
<1>7. /\ Rest(cycle'[cur]) = "delivering" /\ cycle'[cur].task = "linked"
      /\ TickAt(campaign'.status, cycle'[cur], attempt'[cur], tick'.pc)
  BY <1>0, <1>1, <1>3 DEF Rest, AttendedRow, TickAt, Releasing
<1>8. Unjudged(t, run[cur]) BY <1>3, <1>4 DEF AttendedRow, Unjudged
<1>9. cycle'[cur].gates = "revalidate" => t.head # 0 BY <1>1, <1>3, <1>4 DEF AttendedRow
<1>10. QED
  BY <1>0, <1>1, <1>2, <1>4, <1>5, <1>6, <1>7, <1>8, <1>9, LaunchAttended DEF Release

\* The attempt that runOnce creates after a crash starts from an untouched task.
LEMMA RecoverAttended == ASSUME Inv, Attended, Up, RecoverAttempt PROVE Attended'
<1>1. /\ HasCycle /\ tick.pc = "idle" /\ attempt[cur].n = 0 /\ cur \in Cycles
      /\ attempt \in [Cycles -> AttemptRow]
  BY Here DEF RecoverAttempt, Ticking, CreateFirstAttempt, HasAttempt, Inv, IInv, StoreTypeOK
<1>2. /\ UNCHANGED <<campaign, cycle, proc, task, run, tick>> /\ cur' = cur
      /\ attempt'[cur].n # 0
  BY <1>1 DEF RecoverAttempt, CreateFirstAttempt, SetAttempt, NewAttempt, runVars, coordVars, cur
<1>3. AttendedRow(campaign.status, cycle[cur], attempt'[cur], task[cur], run[cur], "up", "idle")
  BY <1>1, <1>2, AttendedHere DEF AttendedRow, TickAt, Releasing
<1>4. QED BY <1>1, <1>2, <1>3, StoreStep

\* The tick takes a task over for clarification; no run is due yet.
LEMMA HandoffAttended == ASSUME Inv, Attended, Up, Handoff PROVE Attended'
<1>1. /\ HasCycle /\ tick.pc = "idle" /\ cycle[cur].status \in {"proposing", "delivering"}
      /\ UNCHANGED <<storeVars, run, proc>> /\ cur' = cur /\ tick'.pc = "link"
  BY DEF Handoff, Ticking, Await, Idle, storeVars, cur
<1>2. task[cur] \in TaskRow BY <1>1, Here
<1> DEFINE t == [task[cur] EXCEPT !.status = "clarifying"]
<1>3. /\ t.status = "clarifying" /\ t.head = task[cur].head
      /\ t.review = task[cur].review /\ t.back = task[cur].back
  BY <1>2 DEF TaskRow
<1>4. Untouched(task[cur], run[cur]) => Untouched(t, run[cur])
  BY DEF Untouched, NoTask
<1>5. task' = [task EXCEPT ![cur] = t] /\ run' = [run EXCEPT ![cur] = run[cur]]
  BY <1>1, <1>2, Here DEF Handoff, Inv, RowsOK
<1> HIDE DEF t
<1>6. Rest(cycle[cur]) \notin Release BY <1>1 DEF Rest, Release
<1>7. AttendedRow(campaign.status, cycle[cur], attempt[cur], t, run[cur], "up", "link")
  BY <1>1, <1>3, <1>4, <1>6, AttendedHere
  DEF AttendedRow, Unjudged, RowLeft, Working, TickAt, Releasing
<1>8. QED BY <1>1, <1>5, <1>7, RowsStep DEF storeVars

\* The tick links the task to the cycle, which delivers from here on.
LEMMA HandoffLinksAttended == ASSUME Inv, Attended, Up, HandoffLinks PROVE Attended'
<1>0. /\ HasCycle /\ cur \in Cycles /\ cycle[cur] \in CycleRow
      /\ cycle \in [Cycles -> CycleRow]
      /\ Agree(campaign.status, cycle[cur], attempt[cur])
  BY InvFacts, Here DEF HandoffLinks, TickOK, Inv, IInv, StoreTypeOK
<1>1. /\ UNCHANGED <<campaign, attempt, proc, task, run>> /\ cur' = cur
      /\ tick.pc = "link" /\ tick'.pc = "attempt"
      /\ cycle[cur].status \in {"proposing", "delivering"}
      /\ cycle'[cur].status = "delivering" /\ cycle'[cur].task = "linked"
      /\ cycle'[cur].gates = cycle[cur].gates
  <2>1. tick.pc = "link" /\ tick'.pc = "attempt" /\ UNCHANGED <<proc, task, run>>
    BY InvFacts DEF HandoffLinks, TickOK, TickRow, runVars
  <2>2. CASE cycle[cur].task = "linked" /\ cycle[cur].status = "delivering" /\ UNCHANGED storeVars
    BY <1>0, <2>1, <2>2 DEF storeVars, cur
  <2>3. CASE LinkTask(me)
    BY <1>0, <2>1, <2>3 DEF LinkTask, Update, SetCycle, CycleRow, cur
  <2>4. QED BY <2>2, <2>3 DEF HandoffLinks
<1>2. AttendedRow(campaign.status, cycle[cur], attempt[cur], task[cur], run[cur], "up", "link")
  BY <1>0, <1>1, AttendedHere
<1>3. cycle[cur].status = "proposing"
        => run[cur].phase = "off" /\ task[cur].status \notin Working
  BY <1>0, <1>2, UntouchedRow DEF Agree, Rest, LiveStatus, AttendedRow
<1>4. Rest(cycle'[cur]) = "delivering" BY <1>1 DEF Rest
<1>5. AttendedRow(campaign.status, cycle'[cur], attempt[cur], task[cur], run[cur],
                  "up", "attempt")
  BY <1>1, <1>2, <1>3, <1>4
  DEF AttendedRow, Remembered, RowLeft, TickAt, Release, Releasing
<1>6. QED BY <1>0, <1>1, <1>5, StoreStep

\* The first attempt is created before its run is launched: the tick still holds it.
LEMMA HandoffCreatesAttended ==
  ASSUME Inv, Attended, Up, HandoffCreatesAttempt PROVE Attended'
<1>0. /\ HasCycle /\ cur \in Cycles /\ attempt \in [Cycles -> AttemptRow]
      /\ tick.pc = "attempt" /\ tick'.pc = "launch" /\ UNCHANGED <<proc, task, run>>
  BY InvFacts DEF HandoffCreatesAttempt, TickOK, TickRow, IInv, StoreTypeOK, Inv, runVars
<1>1. UNCHANGED <<campaign, cycle>> /\ cur' = cur /\ attempt'[cur].n # 0
  BY <1>0 DEF HandoffCreatesAttempt, CreateFirstAttempt, HasAttempt, SetAttempt, NewAttempt,
              storeVars, cur
<1>2. AttendedRow(campaign.status, cycle[cur], attempt[cur], task[cur], run[cur], "up", "attempt")
  BY <1>0, AttendedHere
<1>3. AttendedRow(campaign.status, cycle[cur], attempt'[cur], task[cur], run[cur],
                  "up", "launch")
  BY <1>1, <1>2 DEF AttendedRow, TickAt, Releasing
<1>4. QED BY <1>0, <1>1, <1>3, StoreStep

\* The tick launches the first run, on a task that nobody else works on.
LEMMA HandoffLaunchesAttended ==
  ASSUME Inv, Attended, Up, HandoffLaunches PROVE Attended'
<1>1. /\ HasCycle /\ tick.pc = "launch" /\ tick'.pc = "idle" /\ UNCHANGED <<storeVars, proc>>
      /\ cur' = cur
  BY InvFacts DEF HandoffLaunches, TickOK, Idle, storeVars, cur
<1>2. AttendedRow(campaign.status, cycle[cur], attempt[cur], task[cur], run[cur], "up", "launch")
  BY <1>1, AttendedHere
<1>3. /\ cycle[cur].status = "delivering" /\ Rest(cycle[cur]) = "delivering"
      /\ attempt[cur].n # 0
      /\ TickAt(campaign.status, cycle[cur], attempt[cur], "idle")
  BY <1>2 DEF AttendedRow, TickAt, Rest, Releasing
<1>4. QED
  BY <1>1, <1>2, <1>3, Here, LaunchAttended
  DEF HandoffLaunches, Mode, AttendedRow, Release, storeVars


\* What a tick that reconciles the cycle with its task starts from.
LEMMA ReconcileFrom ==
  ASSUME Inv, Attended, Up, HasCycle, NEW t \in Good(cur),
         t.status = task[cur].status, t.head = task[cur].head,
         t.review = task[cur].review, t.back = task[cur].back,
         tick.pc # "ship", Rest(cycle[cur]) \notin Release,
         NEW s, NEW k, NEW a, a.n = attempt[cur].n, s = campaign.status,
         \/ k = cycle[cur]
         \/ /\ cycle[cur].status \in {"proposing", "delivering", "waiting_for_external"}
            /\ k.status = "delivering" => cycle[cur].status # "waiting_for_external"
            /\ k.task = "linked" \/ (k.status = "retry_wait" /\ k.task = cycle[cur].task)
            /\ k.gates = cycle[cur].gates
            /\ k.status \in {"delivering", "retry_wait"}
  PROVE  /\ s # "stopped" /\ Rest(k) # "proposing" /\ attempt[cur].n # 0 => k.task = "linked"
         /\ k.gates = "revalidate" => t.head # 0
         /\ t.status # "shipping"
         /\ Rest(k) \notin Release
         /\ TickAt(s, k, a, "idle")
         /\ Unjudged(t, run[cur])
         /\ Remembered(k, run[cur])
<1>1. AttendedRow(campaign.status, cycle[cur], attempt[cur], task[cur], run[cur], "up", tick.pc)
  BY AttendedHere
<1>2. TickAt(s, k, a, "idle") BY DEF TickAt, Releasing
<1>3. Unjudged(t, run[cur]) BY <1>1 DEF AttendedRow, Unjudged
<1>4. t.status # "shipping" BY <1>1 DEF AttendedRow
<1>5. CASE k = cycle[cur]
  BY <1>1, <1>2, <1>3, <1>4, <1>5 DEF AttendedRow
<1>6. CASE /\ cycle[cur].status \in {"proposing", "delivering", "waiting_for_external"}
           /\ k.status = "delivering" => cycle[cur].status # "waiting_for_external"
           /\ k.task = "linked" \/ (k.status = "retry_wait" /\ k.task = cycle[cur].task)
           /\ k.gates = cycle[cur].gates
           /\ k.status \in {"delivering", "retry_wait"}
  <2>1. cycle[cur].status = "proposing" => attempt[cur].n = 0 /\ run[cur].phase = "off"
    BY <1>1, Here, UntouchedRow DEF Agree, AttendedRow, Rest, LiveStatus
  <2>2. Rest(k) = k.status /\ Rest(cycle[cur]) = cycle[cur].status BY <1>6 DEF Rest
  <2>3. Remembered(k, run[cur]) BY <1>1, <1>6, <2>1 DEF AttendedRow, Remembered
  <2>4. QED BY <1>1, <1>2, <1>3, <1>4, <1>6, <2>1, <2>2, <2>3 DEF AttendedRow, Release
<1>7. QED BY <1>5, <1>6

\* reconcileDelivery from its last await on.
LEMMA ReconcileAttended ==
  ASSUME Inv, Attended, Up, HasCycle, NEW seen, NEW t \in Good(cur),
         t.status = task[cur].status, t.head = task[cur].head,
         t.review = task[cur].review, t.back = task[cur].back,
         t.front = task[cur].front, t.reviewed = task[cur].reviewed,
         t = task[cur] \/ attempt[cur].n # 0,
         tick.pc # "ship", Rest(cycle[cur]) \notin Release,
         Reconcile(cur, seen, t)
  PROVE  Attended'
<1>0. /\ cur \in Cycles /\ cycle[cur] \in CycleRow /\ attempt[cur] \in AttemptRow
      /\ cycle \in [Cycles -> CycleRow] /\ attempt \in [Cycles -> AttemptRow]
      /\ t \in TaskRow
  BY Here DEF Inv, IInv, StoreTypeOK, Good, GoodFor
<1>1. AttendedRow(campaign.status, cycle[cur], attempt[cur], task[cur], run[cur], "up", tick.pc)
  BY AttendedHere
<1>2. UNCHANGED <<proc, campaign>> /\ cur' = cur /\ tick'.pc = "idle"
  BY DEF Reconcile, ReconcileDelivery, Update, FailAttempt, Idle, storeVars, cur
<1>3. attempt'[cur].n = attempt[cur].n
  <2>1. CASE FailAttempt(me) BY <1>0, <2>1 DEF FailAttempt, SetAttempt, AttemptRow
  <2>2. CASE UNCHANGED attempt BY <2>2
  <2>3. QED BY <2>1, <2>2 DEF Reconcile, ReconcileDelivery, Update, storeVars
<1>4. \/ cycle'[cur] = cycle[cur]
      \/ /\ cycle[cur].status \in {"proposing", "delivering"}
         /\ cycle'[cur].task = "linked" /\ cycle'[cur].gates = cycle[cur].gates
         /\ cycle'[cur].status = "delivering"
      \/ /\ cycle[cur].status \in {"delivering", "waiting_for_external"}
         /\ cycle'[cur].task = cycle[cur].task /\ cycle'[cur].gates = cycle[cur].gates
         /\ cycle'[cur].status = "retry_wait"
      \/ /\ cycle[cur].status = "delivering" /\ attempt[cur].n # 0
         /\ ReadyToRelease(Revived(t))
         /\ cycle'[cur].task = "linked" /\ cycle'[cur].gates = cycle[cur].gates
         /\ cycle'[cur].status = "ready_to_release"
  <2>1. CASE UNCHANGED storeVars BY <2>1 DEF storeVars
  <2>2. CASE ReadyToRelease(Revived(t)) /\ ReconcileDelivery(me, seen, "ready_to_release")
    BY <1>0, <2>2 DEF ReconcileDelivery, Update, SetCycle, CycleRow, HasAttempt
  <2>3. CASE ReconcileDelivery(me, seen, "delivering")
    BY <1>0, <2>3 DEF ReconcileDelivery, Update, SetCycle, CycleRow
  <2>4. CASE FailAttempt(me)
    BY <1>0, <2>4 DEF FailAttempt, Failable, SetCycle, CycleRow
  <2>5. QED BY <2>1, <2>2, <2>3, <2>4 DEF Reconcile
<1>5. attempt[cur].n = 0 => Untouched(task[cur], run[cur]) /\ t = task[cur]
  BY <1>1 DEF AttendedRow
<1>6. CASE cycle'[cur].status = "ready_to_release" /\ cycle'[cur] # cycle[cur]
  <2> DEFINE u == Revived(t)
  <2>1. /\ cycle[cur].status = "delivering" /\ attempt[cur].n # 0
        /\ u.status \in {"review", "completed"} /\ Passed(u)
        /\ cycle'[cur].task = "linked" /\ cycle'[cur].gates = cycle[cur].gates
    BY <1>4, <1>6 DEF ReadyToRelease
  <2>2. /\ Passed(t) /\ u.head = t.head /\ u.review = t.review /\ u.back = t.back
    BY <1>0, <2>1 DEF Revived, TaskRow
  <2>3. t.head # 0
    <3>1. t.reviewed \in accepted[cur] /\ accepted[cur] \subseteq Head
      BY <1>0, <2>2 DEF Passed, Good, GoodFor, Inv, RowsOK
    <3>2. QED BY <2>2, <3>1 DEF Passed, Head
  <2>4. Unjudged(t, run[cur]) BY <1>1 DEF AttendedRow, Unjudged
  <2>5. /\ t.status # "building"
        /\ ~(t.status = "review" /\ t.review = "changes" /\ t.feedback = "pending")
    BY <2>1, <2>2 DEF Revived, Passed
  <2>6. task' = [task EXCEPT ![cur] = u] /\ run' = [run EXCEPT ![cur] = run[cur]]
    BY <2>5 DEF Reconcile, Inv, RowsOK
  <2> HIDE DEF u
  <2>7. ReleaseRow(u, run[cur])
    BY <2>1, <2>2, <2>3, <2>4 DEF ReleaseRow, Unjudged, Passed
  <2>8. Unjudged(u, run[cur]) BY <2>2, <2>4 DEF Unjudged
  <2>9. AttendedRow(campaign.status, cycle'[cur], attempt'[cur], u, run[cur], "up", "idle")
    BY <1>1, <1>3, <1>6, <2>1, <2>2, <2>3, <2>7, <2>8
    DEF AttendedRow, Remembered, RowLeft, TickAt, Releasing
  <2>10. QED BY <1>2, <2>6, <2>9, RowsStep
<1>7. CASE cycle'[cur] = cycle[cur] \/ cycle'[cur].status # "ready_to_release"
  <2> DEFINE k == cycle'[cur]
  <2>1. \/ k = cycle[cur]
        \/ /\ k.status = "retry_wait" => cycle[cur].status # "proposing"
           /\ cycle[cur].status \in {"proposing", "delivering", "waiting_for_external"}
           /\ k.status = "delivering" => cycle[cur].status # "waiting_for_external"
           /\ k.task = "linked" \/ (k.status = "retry_wait" /\ k.task = cycle[cur].task)
           /\ k.gates = cycle[cur].gates
           /\ k.status \in {"delivering", "retry_wait"}
    BY <1>4, <1>7
  <2>2. /\ campaign.status # "stopped" /\ Rest(k) # "proposing" /\ attempt[cur].n # 0
             => k.task = "linked"
        /\ k.gates = "revalidate" => t.head # 0
        /\ t.status # "shipping" /\ Rest(k) \notin Release
        /\ TickAt(campaign.status, k, attempt'[cur], "idle")
        /\ Unjudged(t, run[cur]) /\ Remembered(k, run[cur])
    <3> HIDE DEF k
    <3> QED BY <1>3, <2>1, ReconcileFrom
  <2>3. ASSUME NEW mode \in Mode, Launch(cur, t, mode), t.status \in {"building", "review"}
        PROVE  Attended'
    <3>1. attempt'[cur].n # 0 BY <1>3, <1>5, <2>3, UntouchedRow DEF Working
    <3>2. QED BY <1>0, <1>2, <1>3, <2>2, <2>3, <3>1, LaunchAttended
  <2>4. CASE task' = [task EXCEPT ![cur] = Revived(t)] /\ UNCHANGED run
    <3> DEFINE u == Revived(t)
    <3>1. /\ u.head = t.head /\ u.review = t.review /\ u.back = t.back
          /\ u.status \in {t.status, "review"}
      BY <1>0 DEF Revived, TaskRow
    <3>2. attempt[cur].n = 0 => u = task[cur]
      BY <1>5, UntouchedRow DEF Revived, Passed
    <3>3. task' = [task EXCEPT ![cur] = u] /\ run' = [run EXCEPT ![cur] = run[cur]]
      BY <2>4 DEF Inv, RowsOK
    <3>4. cycle[cur].status = "proposing" => attempt[cur].n = 0
      BY Here DEF Agree, Rest, LiveStatus
    <3> HIDE DEF u, k
    <3>5. Unjudged(u, run[cur]) BY <2>2, <3>1 DEF Unjudged
    <3>6. RowLeft(k, u, run[cur])
      <4>1. CASE attempt[cur].n = 0
        BY <1>5, <3>2, <4>1, UntouchedRow DEF RowLeft
      <4>2. CASE attempt[cur].n # 0
        <5>1. k.status = "delivering" => cycle[cur].status = "delivering" /\ k.gates = cycle[cur].gates
          BY <2>1, <3>4, <4>2
        <5>2. RowLeft(cycle[cur], task[cur], run[cur]) BY <1>1 DEF AttendedRow
        <5>3. u.status \in Working => u.status = task[cur].status BY <3>1 DEF Working
        <5>4. QED BY <3>1, <5>1, <5>2, <5>3 DEF RowLeft
      <4>3. QED BY <4>1, <4>2
    <3>7. campaign.status # "stopped" /\ Rest(k) # "proposing" => k.task = "linked"
      BY <1>1, <2>1 DEF AttendedRow, Rest
    <3>8. AttendedRow(campaign.status, k, attempt'[cur], u, run[cur], "up", "idle")
      <4>1. attempt'[cur].n = 0 => Untouched(u, run[cur]) BY <1>3, <1>5, <3>2
      <4>2. u.status # "shipping" /\ (k.gates = "revalidate" => u.head # 0)
        BY <2>2, <3>1
      <4>3. QED BY <2>2, <3>5, <3>6, <3>7, <4>1, <4>2 DEF AttendedRow
    <3>9. QED BY <1>2, <3>3, <3>8, RowsStep DEF k
  <2>5. QED BY <2>3, <2>4 DEF Reconcile, Mode
<1>8. QED BY <1>6, <1>7

\* The tick looks at a delivering cycle: it acts on the task, or asks GitHub first.
LEMMA DeliverAttended == ASSUME Inv, Attended, Up, Deliver PROVE Attended'
<1>1. /\ HasCycle /\ tick.pc = "idle" /\ cycle[cur].status \in {"proposing", "delivering"}
      /\ cycle[cur].status = "delivering" => attempt[cur].n # 0
  BY DEF Deliver, Ticking, HasAttempt
<1>2. Rest(cycle[cur]) \notin Release BY <1>1 DEF Rest, Release
<1>3. CASE Reconcile(cur, cycle[cur].status, task[cur])
  BY <1>1, <1>2, <1>3, Here, ReconcileAttended
<1>4. CASE /\ Await("find") /\ UNCHANGED <<storeVars, runVars, proc, requests>>
           /\ task[cur].branch = "named"
  <2>1. UNCHANGED <<campaign, cycle, attempt, task, run, proc>> /\ cur' = cur /\ tick'.pc = "find"
    BY <1>4 DEF Await, Idle, storeVars, runVars, cur
  <2>2. attempt[cur].n # 0
    BY <1>1, <1>4, AttendedHere, UntouchedRow DEF AttendedRow
  <2>3. TickAt(campaign.status, cycle[cur], attempt[cur], "find")
    BY <1>2, <2>2 DEF TickAt, Releasing
  <2>4. QED BY <1>1, <2>1, <2>3, WriteAttended
<1>5. QED BY <1>3, <1>4 DEF Deliver

\* GitHub answers which pull request the branch has, and the tick acts on the task.
LEMMA FoundPrAttended == ASSUME Inv, Attended, Up, FoundPr PROVE Attended'
<1> DEFINE p == IF pr[cur].state = "open" THEN "known" ELSE task[cur].pr
           t == [task[cur] EXCEPT !.pr = p]
<1>1. HasCycle /\ tick.pc = "find" BY InvFacts DEF FoundPr, TickOK
<1>2. task[cur] \in TaskRow /\ task[cur] \in Good(cur) BY <1>1, Here
<1>3. p \in {"none", "known"} BY <1>2 DEF TaskRow
<1>4. /\ t \in TaskRow /\ t.status = task[cur].status /\ t.head = task[cur].head
      /\ t.review = task[cur].review /\ t.back = task[cur].back
      /\ t.front = task[cur].front /\ t.reviewed = task[cur].reviewed
  <2> HIDE DEF p
  <2> QED BY <1>2, <1>3 DEF TaskRow
<1>5. Reconcile(cur, tick.seen, t) BY <1>2 DEF FoundPr, TaskRow
<1> HIDE DEF t
<1>6. t \in Good(cur) BY <1>1, <1>2, <1>4, Here, SameReview
<1>7. attempt[cur].n # 0 /\ Rest(cycle[cur]) \notin Release
  BY <1>1, AttendedHere DEF AttendedRow, TickAt
<1>8. QED BY <1>1, <1>4, <1>5, <1>6, <1>7, ReconcileAttended


\* releaseCycle for a task that has not passed.
LEMMA ReleaseNotPassedAttended == ASSUME Inv, Attended, Up, ReleaseNotPassed PROVE Attended'
<1>0. /\ HasCycle /\ tick.pc = "idle" /\ cycle[cur].status \in Release /\ cur \in Cycles
      /\ cycle[cur] \in CycleRow /\ cycle \in [Cycles -> CycleRow] /\ task[cur] \in TaskRow
      /\ UNCHANGED <<proc, tick>>
  BY Here DEF ReleaseNotPassed, Ticking, Inv, IInv, StoreTypeOK, coordVars
<1>1. AttendedRow(campaign.status, cycle[cur], attempt[cur], task[cur], run[cur], "up", "idle")
  BY <1>0, AttendedHere
<1>2. /\ Rest(cycle[cur]) = cycle[cur].status /\ campaign.status = "running"
      /\ attempt[cur].n # 0 /\ cycle[cur].task = "linked"
  BY <1>0, <1>1, Here DEF Rest, Release, Agree, LiveStatus, AttendedRow
<1>3. CASE /\ InvalidateRelease(me, cycle[cur].status, FALSE)
           /\ LaunchUnqueued(cur, task[cur], "revalidate")
           /\ task[cur].status = "building" /\ task[cur].head # 0
  <2>1. /\ UNCHANGED <<campaign, attempt>> /\ cur' = cur
        /\ cycle'[cur].status = "delivering" /\ cycle'[cur].task = "linked"
    BY <1>0, <1>2, <1>3 DEF InvalidateRelease, Update, SetCycle, CycleRow, cur
  <2>2. Rest(cycle'[cur]) = "delivering"
        /\ TickAt(campaign.status, cycle'[cur], attempt[cur], "idle")
    BY <2>1 DEF Rest, TickAt, Releasing
  <2>3. QED
    BY <1>0, <1>1, <1>2, <1>3, <2>1, <2>2, LaunchAttended DEF AttendedRow, Release, Mode
<1>4. CASE /\ HoldRelease(me, cycle[cur].status, "ready_to_release", FALSE)
           /\ UNCHANGED <<task, run>>
  <2>1. /\ UNCHANGED <<campaign, attempt>> /\ cur' = cur
        /\ cycle'[cur].status \in Release /\ cycle'[cur].task = cycle[cur].task
        /\ cycle'[cur].gates = cycle[cur].gates
    BY <1>0, <1>4 DEF HoldRelease, Update, SetCycle, CycleRow, Release, cur
  <2>2. TickAt(campaign.status, cycle'[cur], attempt[cur], "idle") BY DEF TickAt, Releasing
  <2>3. QED BY <1>0, <1>4, <2>1, <2>2, WriteAttended
<1>5. QED BY <1>3, <1>4 DEF ReleaseNotPassed

\* A task that has passed goes on to be shipped and merged; no run is due.
LEMMA ReleasePassedAttended == ASSUME Inv, Attended, Up, ReleasePassed PROVE Attended'
<1>0. /\ HasCycle /\ tick.pc = "idle" /\ cycle[cur].status \in Release
      /\ task[cur] \in TaskRow /\ UNCHANGED <<storeVars, run, proc>> /\ cur' = cur
  BY Here DEF ReleasePassed, Ticking, storeVars, cur
<1>1. AttendedRow(campaign.status, cycle[cur], attempt[cur], task[cur], run[cur], "up", "idle")
  BY <1>0, AttendedHere
<1>2. /\ Rest(cycle[cur]) \in Release /\ attempt[cur].n # 0
      /\ cycle[cur].status # "delivering"
  BY <1>0, Here DEF Rest, Release, Agree, LiveStatus
<1>3. ASSUME NEW pc \in Releasing PROVE TickAt(campaign.status, cycle[cur], attempt[cur], pc)
  BY <1>2 DEF TickAt, Releasing
<1>4. CASE Await("ship") /\ task' = [task EXCEPT ![cur].status = "shipping"]
  <2> DEFINE t == [task[cur] EXCEPT !.status = "shipping"]
  <2>1. /\ t.status = "shipping" /\ t.head = task[cur].head
        /\ t.review = task[cur].review /\ t.back = task[cur].back
    BY <1>0 DEF TaskRow
  <2>2. /\ task' = [task EXCEPT ![cur] = t] /\ run' = [run EXCEPT ![cur] = run[cur]]
        /\ tick'.pc = "ship"
    BY <1>0, <1>4, Here DEF Inv, RowsOK, TaskRow, Await, Idle
  <2> HIDE DEF t
  <2>3. /\ TickAt(campaign.status, cycle[cur], attempt[cur], "ship")
    BY <1>3 DEF Releasing
  <2>4. AttendedRow(campaign.status, cycle[cur], attempt[cur], t, run[cur], "up", "ship")
    BY <1>1, <1>2, <2>1, <2>3 DEF AttendedRow, ReleaseRow, Unjudged, RowLeft
  <2>5. QED BY <1>0, <2>2, <2>4, RowsStep DEF storeVars
<1>5. CASE tick'.pc = "pull" /\ UNCHANGED task
  <2>1. TickAt(campaign.status, cycle[cur], attempt[cur], "pull") BY <1>3 DEF Releasing
  <2>2. QED BY <1>0, <1>5, <2>1, WriteAttended DEF storeVars
<1>6. QED BY <1>4, <1>5 DEF ReleasePassed, Idle

\* shipTask, done or failed.
LEMMA ShippedAttended == ASSUME Inv, Attended, Up, Shipped PROVE Attended'
<1>0. /\ HasCycle /\ tick.pc = "ship" /\ tick \in TickRow
      /\ task[cur] \in TaskRow /\ UNCHANGED <<storeVars, run, proc>> /\ cur' = cur
  BY InvFacts, Here DEF Shipped, TickOK, storeVars, cur
<1>1. AttendedRow(campaign.status, cycle[cur], attempt[cur], task[cur], run[cur], "up", "ship")
  BY <1>0, AttendedHere
<1>2. PICK s \in {"completed", "failed"}, pc \in {"idle", "pull"} :
        task' = [task EXCEPT ![cur].status = s] /\ tick'.pc = pc
  <2>1. CASE tick' = Idle /\ task' = [task EXCEPT ![cur].status = "failed"]
    BY <2>1 DEF Idle
  <2>2. CASE /\ tick' = [tick EXCEPT !.pc = "pull",
                                     !.passed = IF Passed(task[cur]) THEN "yes" ELSE "no"]
             /\ task' = [task EXCEPT ![cur].status = "completed"]
    <3>1. tick'.pc = "pull" BY <1>0, <2>2 DEF TickRow
    <3>2. QED BY <2>2, <3>1
  <2>3. QED BY <2>1, <2>2 DEF Shipped
<1> DEFINE t == [task[cur] EXCEPT !.status = s]
<1>3. /\ t.status = s /\ t.head = task[cur].head
      /\ t.review = task[cur].review /\ t.back = task[cur].back
  BY <1>0 DEF TaskRow
<1>4. task' = [task EXCEPT ![cur] = t] /\ run' = [run EXCEPT ![cur] = run[cur]]
  BY <1>0, <1>2, Here DEF Inv, RowsOK, TaskRow
<1> HIDE DEF t
<1>5. attempt[cur].n # 0 /\ TickAt(campaign.status, cycle[cur], attempt[cur], pc)
  BY <1>1 DEF AttendedRow, TickAt, Releasing
<1>6. AttendedRow(campaign.status, cycle[cur], attempt[cur], t, run[cur], "up", pc)
  BY <1>1, <1>3, <1>5 DEF AttendedRow, ReleaseRow, Unjudged, RowLeft, Working
<1>7. QED BY <1>0, <1>2, <1>4, <1>6, RowsStep DEF storeVars

\* getPullRequest: another head than the reviewed one goes back to the pipeline.
LEMMA GotPullAttended == ASSUME Inv, Attended, Up, GotPull PROVE Attended'
<1>0. /\ HasCycle /\ tick.pc = "pull" /\ cur \in Cycles /\ tick \in TickRow
      /\ task[cur] \in TaskRow /\ pr[cur] \in PrRow /\ cycle[cur] \in CycleRow
      /\ cycle \in [Cycles -> CycleRow]
      /\ pr[cur].state # "none" => pr[cur].tip # 0
      /\ UNCHANGED proc
  BY InvFacts, Here DEF GotPull, TickOK, Inv, IInv, StoreTypeOK
<1>1. AttendedRow(campaign.status, cycle[cur], attempt[cur], task[cur], run[cur], "up", "pull")
  BY <1>0, AttendedHere
<1>2. /\ attempt[cur].n # 0
      /\ campaign.status # "stopped" => /\ Rest(cycle[cur]) \in Release
                                        /\ ReleaseRow(task[cur], run[cur])
                                        /\ cycle[cur].task = "linked"
      /\ campaign.status = "stopped" => cycle[cur].status = "stopped"
  <2>1. /\ attempt[cur].n # 0
        /\ campaign.status # "stopped" => Rest(cycle[cur]) \in Release
    BY <1>1 DEF AttendedRow, TickAt, Releasing
  <2>2. campaign.status = "stopped" => cycle[cur].status = "stopped"
    BY <1>0, Here DEF Agree
  <2>3. QED BY <1>1, <2>1, <2>2 DEF AttendedRow, Release
<1> DEFINE t == [task[cur] EXCEPT !.status = "building", !.head = PullHead,
                                  !.review = "none", !.reviewed = 0, !.back = "pending"]
<1>3. CASE /\ pr[cur].state = "open"
           /\ IF Writable
              THEN InvalidateRelease(me, tick.seen, TRUE) /\ LaunchUnqueued(cur, t, "revalidate")
              ELSE task' = [task EXCEPT ![cur] = t] /\ UNCHANGED <<storeVars, run>>
           /\ tick' = Idle
  <2>1. PullHead # 0 /\ PullHead \in 0..MaxHead
    BY <1>0, <1>3 DEF PullHead, PrRow
  <2>2. /\ t \in TaskRow /\ t.status = "building" /\ t.head # 0
        /\ t.review = "none" /\ t.back = "pending"
    <3> HIDE DEF PullHead
    <3> QED BY ZenonT(60), <1>0, <2>1, HeadFacts DEF TaskRow
  <2> HIDE DEF t
  <2>3. tick'.pc = "idle" BY <1>3 DEF Idle
  <2>4. Unjudged(t, run[cur]) BY <2>2 DEF Unjudged
  <2>5. CASE Writable
    <3>1. InvalidateRelease(me, tick.seen, TRUE) /\ LaunchUnqueued(cur, t, "revalidate")
      BY <1>3, <2>5
    <3>2. /\ UNCHANGED <<campaign, attempt>> /\ cur' = cur /\ campaign.status = "running"
          /\ cycle'[cur].status = "delivering" /\ cycle'[cur].task = cycle[cur].task
      BY <1>0, <3>1 DEF InvalidateRelease, Update, SetCycle, CycleRow, cur
    <3>3. Rest(cycle'[cur]) = "delivering"
          /\ TickAt(campaign.status, cycle'[cur], attempt[cur], "idle")
      BY <3>2 DEF Rest, TickAt, Releasing
    <3>4. QED
      BY <1>0, <1>2, <2>2, <2>3, <2>4, <3>1, <3>2, <3>3, LaunchAttended DEF Release, Mode
  <2>6. CASE ~Writable
    <3>1. /\ task' = [task EXCEPT ![cur] = t] /\ run' = [run EXCEPT ![cur] = run[cur]]
          /\ UNCHANGED <<campaign, cycle, attempt>> /\ cur' = cur
      BY <1>3, <2>6 DEF storeVars, cur, Inv, RowsOK
    <3>2. TickAt(campaign.status, cycle[cur], attempt[cur], "idle") BY DEF TickAt, Releasing
    <3>3. cycle[cur].status # "delivering" BY <1>2 DEF Rest, Release
    <3>4. Rest(cycle[cur]) \in Release => ReleaseRow(t, run[cur])
      BY <1>1, <2>2 DEF AttendedRow, ReleaseRow
    <3>5. AttendedRow(campaign.status, cycle[cur], attempt[cur], t, run[cur], "up", "idle")
      BY <1>1, <1>2, <2>2, <2>4, <3>2, <3>3, <3>4 DEF AttendedRow, RowLeft
    <3>6. QED BY <1>0, <2>3, <3>1, <3>5, RowsStep
  <2>7. QED BY <2>5, <2>6
<1>4. CASE /\ tick' = [tick EXCEPT !.pc = "checks", !.head = PullHead,
                                   !.merged = pr[cur].merged, !.draft = pr[cur].draft]
           /\ UNCHANGED <<storeVars, task, run>>
  <2>1. tick'.pc = "checks"
    <3> HIDE DEF PullHead
    <3> QED BY <1>0, <1>4 DEF TickRow
  <2>2. TickAt(campaign.status, cycle[cur], attempt[cur], "checks")
    BY <1>1 DEF AttendedRow, TickAt, Releasing
  <2>3. QED BY <1>0, <1>4, <2>1, <2>2, WriteAttended DEF storeVars, cur
<1>5. QED BY <1>3, <1>4 DEF GotPull

\* The release's writes after its snapshot is complete.
LEMMA ReleaseWriteAttended ==
  ASSUME Inv, Attended, Up, UNCHANGED <<proc, task, run>>,
         tick.pc \in Releasing \ {"ship"},
         \/ \E to, ev : HoldRelease(me, tick.seen, to, ev)
         \/ \E h : RecordMerge(me, tick.seen, h)
         \/ tick'.pc = "idle" /\ \E h : ConfirmMerge(me, tick.seen, h)
         \/ UNCHANGED storeVars,
         tick'.pc \in {"idle"} \cup (Releasing \ {"ship"})
  PROVE  Attended'
<1>0. /\ HasCycle /\ cur \in Cycles /\ cycle[cur] \in CycleRow
      /\ cycle \in [Cycles -> CycleRow]
  BY InvFacts, Here DEF TickOK, Releasing, Inv, IInv, StoreTypeOK
<1>1. AttendedRow(campaign.status, cycle[cur], attempt[cur], task[cur], run[cur], "up", tick.pc)
  BY <1>0, AttendedHere
<1>2. /\ UNCHANGED <<campaign, attempt>> /\ cur' = cur
      /\ \/ cycle'[cur] = cycle[cur]
         \/ /\ cycle[cur].status \in Release
            /\ cycle'[cur].status \in Release \cup {"cooldown"}
            /\ tick'.pc # "idle" => cycle'[cur].status \in Release
            /\ cycle'[cur].task = cycle[cur].task
            /\ cycle'[cur].gates \in {cycle[cur].gates, "evaluated"}
  <2>1. ASSUME NEW to, NEW ev, HoldRelease(me, tick.seen, to, ev)
        PROVE  /\ UNCHANGED <<campaign, attempt>> /\ cycle[cur].status \in Release
               /\ cycle'[cur].status \in Release
               /\ cycle'[cur].task = cycle[cur].task
               /\ cycle'[cur].gates \in {cycle[cur].gates, "evaluated"}
    BY <1>0, <2>1 DEF HoldRelease, Update, SetCycle, CycleRow
  <2>2. ASSUME NEW h, RecordMerge(me, tick.seen, h)
        PROVE  /\ UNCHANGED <<campaign, attempt>> /\ cycle[cur].status \in Release
               /\ cycle'[cur].status \in Release
               /\ cycle'[cur].task = cycle[cur].task
               /\ cycle'[cur].gates \in {cycle[cur].gates, "evaluated"}
    BY <1>0, <2>2 DEF RecordMerge, Update, SetCycle, CycleRow, Release
  <2>3. ASSUME NEW h, ConfirmMerge(me, tick.seen, h), tick'.pc = "idle"
        PROVE  /\ UNCHANGED <<campaign, attempt>> /\ cycle[cur].status \in Release
               /\ cycle'[cur].status = "cooldown"
               /\ cycle'[cur].task = cycle[cur].task
               /\ cycle'[cur].gates = cycle[cur].gates
    BY <1>0, <2>3 DEF ConfirmMerge, Update, SetCycle, CycleRow
  <2>4. QED BY <2>1, <2>2, <2>3 DEF storeVars, cur
<1>3. TickAt(campaign.status, cycle'[cur], attempt[cur], tick'.pc)
  <2>1. CASE tick'.pc = "idle" BY <2>1 DEF TickAt, Releasing
  <2>2. CASE tick'.pc \in Releasing /\ cycle'[cur] = cycle[cur]
    BY <1>1, <2>2 DEF AttendedRow, TickAt, Releasing
  <2>3. CASE tick'.pc \in Releasing /\ cycle'[cur].status \in Release
    <3>1. Rest(cycle'[cur]) \in Release BY <2>3 DEF Rest, Release
    <3>2. QED BY <1>1, <2>3, <3>1 DEF AttendedRow, TickAt, Releasing
  <2>4. QED BY <1>2, <2>1, <2>2, <2>3 DEF Releasing
<1>4. tick.pc # "ship" BY DEF Releasing
<1>5. QED BY <1>0, <1>2, <1>3, <1>4, WriteAttended

\* The checks are in: the gates pass, are waited for or send the task back to the base.
LEMMA GotChecksAttended ==
  ASSUME Inv, Attended, Up, NEW green \in BOOLEAN, GotChecks(green) PROVE Attended'
<1>1. /\ tick.pc \in Releasing \ {"ship"} /\ UNCHANGED <<proc, task, run>>
      /\ tick \in TickRow
  BY InvFacts DEF GotChecks, Releasing, runVars, TickOK
<1>2. tick'.pc \in {"idle", "base", "ready", "merge"}
  <2>1. \/ tick' = Idle
        \/ tick' = [tick EXCEPT !.seen = "releasing", !.pc = "base", !.merge = tick.merged]
        \/ tick' = [tick EXCEPT !.pc = "ready"]
        \/ tick' = [tick EXCEPT !.seen = "releasing", !.pc = "merge"]
    BY DEF GotChecks, Then
  <2>2. CASE tick' = Idle BY <2>2 DEF Idle
  <2>3. CASE tick' = [tick EXCEPT !.seen = "releasing", !.pc = "base", !.merge = tick.merged]
    BY <1>1, <2>3 DEF TickRow
  <2>4. CASE tick' = [tick EXCEPT !.pc = "ready"] BY <1>1, <2>4 DEF TickRow
  <2>5. CASE tick' = [tick EXCEPT !.seen = "releasing", !.pc = "merge"]
    BY <1>1, <2>5 DEF TickRow
  <2>6. QED BY <2>1, <2>2, <2>3, <2>4, <2>5
<1>3. \/ \E to, ev : HoldRelease(me, tick.seen, to, ev)
      \/ \E h : RecordMerge(me, tick.seen, h)
      \/ UNCHANGED storeVars
  BY DEF GotChecks, Then
<1>4. tick'.pc \in {"idle"} \cup (Releasing \ {"ship"}) BY <1>2 DEF Releasing
<1>5. QED BY <1>1, <1>3, <1>4, ReleaseWriteAttended

\* markPullRequestReady, mergePullRequest and confirmMergedCycle.
LEMMA ReleaseAnswersAttended ==
  ASSUME Inv, Attended, Up, MarkedReady \/ MergeAnswered \/ Confirmed PROVE Attended'
<1>1. /\ tick.pc \in {"ready", "merge", "base"} /\ UNCHANGED <<proc, task, run>>
      /\ tick \in TickRow /\ tick.pc = "merge" => tick.seen = "releasing"
  BY InvFacts DEF MarkedReady, MergeAnswered, Confirmed, runVars, TickOK
<1>2. /\ tick'.pc \in {"idle", "base"}
      /\ \/ \E to, ev : HoldRelease(me, tick.seen, to, ev)
         \/ \E h : RecordMerge(me, tick.seen, h)
         \/ tick'.pc = "idle" /\ \E h : ConfirmMerge(me, tick.seen, h)
         \/ UNCHANGED storeVars
  <2>1. CASE MarkedReady
    <3>1. \/ HoldRelease(me, tick.seen, "ready_to_release", TRUE) \/ UNCHANGED storeVars
      BY <2>1 DEF MarkedReady, Then
    <3>2. tick' = Idle BY <2>1 DEF MarkedReady, Then
    <3>3. tick'.pc = "idle" BY <3>2 DEF Idle
    <3>4. QED BY <3>1, <3>3
  <2>2. CASE MergeAnswered
    <3>1. tick.seen = "releasing" BY <2>2, InvFacts DEF MergeAnswered, TickOK
    <3>2. CASE tick' = Idle /\ UNCHANGED storeVars BY <3>2 DEF Idle
    <3>3. CASE /\ RecordMerge(me, "releasing", tick.head)
               /\ tick' = [tick EXCEPT !.pc = "base", !.merge = tick.head]
      <4>1. tick'.pc = "base" BY <1>1, <3>3 DEF TickRow
      <4>2. QED BY <3>1, <3>3, <4>1
    <3>4. QED BY <2>2, <3>2, <3>3 DEF MergeAnswered, Then
  <2>3. CASE Confirmed BY <2>3 DEF Confirmed, Then, Idle
  <2>4. QED BY <2>1, <2>2, <2>3
<1>3. /\ tick.pc \in Releasing \ {"ship"}
      /\ tick'.pc \in {"idle"} \cup (Releasing \ {"ship"})
  BY <1>1, <1>2 DEF Releasing
<1>4. QED BY <1>1, <1>2, <1>3, ReleaseWriteAttended

\* A failed call, a cooldown that is over, the next feature.
LEMMA TickOverAttended ==
  ASSUME Inv, Attended, Up, CallFails \/ Cooldown \/ Proceed PROVE Attended'
<1>1. HasCycle /\ tick.pc # "ship" /\ UNCHANGED <<proc, task, run>>
  BY InvFacts DEF CallFails, TickFails, Cooldown, Ticking, Proceed, TickOK, runVars
<1>2. tick'.pc \in {"idle", "next"}
  <2>1. CASE tick' = Idle BY <2>1 DEF Idle
  <2>2. CASE Await("next") BY <2>2 DEF Await, Idle
  <2>3. QED BY <2>1, <2>2 DEF CallFails, TickFails, Cooldown, Proceed
<1>3. CASE UNCHANGED storeVars
  <2>1. TickAt(campaign.status, cycle[cur], attempt[cur], tick'.pc)
    BY <1>2 DEF TickAt, Releasing
  <2>2. QED BY <1>1, <1>3, <2>1, WriteAttended DEF storeVars, cur
<1>4. CASE AdvanceAfterCooldown(me) /\ tick' = Idle
  <2>1. /\ campaign.next <= MaxCycle /\ campaign \in CampaignRow
        /\ cycle \in [Cycles -> CycleRow] /\ campaign.next \in Cycles
    BY <1>4, BoundAssumption, InvFacts
    DEF AdvanceAfterCooldown, StoreTypeOK, CampaignRow, Cycles
  <2>2. campaign'.current = campaign.next /\ cycle'[campaign.next] = NewCycle
    BY <1>4, <2>1 DEF AdvanceAfterCooldown, CampaignRow
  <2>3. tick'.pc = "idle" BY <1>4 DEF Idle
  <2>4. QED BY <1>1, <2>1, <2>2, <2>3, NextCycleAttended
<1>5. QED BY <1>3, <1>4 DEF CallFails, TickFails, Cooldown, Proceed

\* Every step of the tick leaves the task attended.
LEMMA CoordinatorAttended == ASSUME Inv, Attended, Up, Coordinator PROVE Attended'
<1>1. ResumeWait \/ Retry => Ticking BY DEF ResumeWait, Retry
<1>2. QED
  BY <1>1, RenewAttended, RelaunchAttended, RecoverAttended, HandoffAttended, DeliverAttended,
     FoundPrAttended, ReleaseNotPassedAttended, ReleasePassedAttended, ShippedAttended,
     GotPullAttended, GotChecksAttended, ReleaseAnswersAttended, TickOverAttended
  DEF Coordinator


-----------------------------------------------------------------------------
(* The task runs *)

\* A run writes the rows of its own cycle, and those of the campaign only if its
\* cycle is the current one.
LEMMA RunLocal ==
  ASSUME RowsOK, NEW c \in Cycles, Run(me, c)
  PROVE  /\ Active(c)
         /\ \A d \in Cycles \ {c} : task'[d] = task[d] /\ run'[d] = run[d]
         /\ Context(c) \/ UNCHANGED storeVars
<1>1. Active(c)
  BY DEF Run, BeginBuild, BeginIteration, BeginRevalidation, Push, ChangeNothing, Deploy,
         CallReviewer, Conclude, Fail, StartOver, GiveUp, BackOff, RetryBuild, MissPrice, Active
<1>2. Context(c) \/ UNCHANGED storeVars
  BY DEF Run, BeginBuild, BeginIteration, BeginRevalidation, Push, ChangeNothing, Deploy,
         CallReviewer, Conclude, Fail, StartOver, GiveUp, BackOff, RetryBuild, MissPrice, Halts
<1>3. ASSUME NEW t, Ends(c, t)
      PROVE \A d \in Cycles \ {c} : task'[d] = task[d] /\ run'[d] = run[d]
  BY <1>3 DEF Ends, RowsOK
<1>4. ASSUME NEW t, Halts(me, c, t)
      PROVE \A d \in Cycles \ {c} : task'[d] = task[d] /\ run'[d] = run[d]
  BY <1>3, <1>4 DEF Halts
<1>5. ASSUME NEW p, Enters(c, p) PROVE \A d \in Cycles \ {c} : run'[d] = run[d]
  BY <1>5 DEF Enters, RowsOK
<1>6. \A d \in Cycles \ {c} : task'[d] = task[d] /\ run'[d] = run[d]
  <2>1. CASE BeginBuild(me, c) BY <1>4, <1>5, <2>1 DEF BeginBuild, RowsOK
  <2>2. CASE BeginIteration(me, c) BY <1>4, <1>5, <2>2 DEF BeginIteration, RowsOK
  <2>3. CASE BeginRevalidation(me, c) BY <1>4, <1>5, <2>3 DEF BeginRevalidation, RowsOK
  <2>4. CASE Push(me, c)
    <3>1. CASE \E t : Halts(me, c, t) BY <1>4, <3>1
    <3>2. CASE Enters(c, "deploy") /\ \E t : task' = [task EXCEPT ![c] = t]
      BY <1>5, <3>2 DEF RowsOK
    <3>3. QED BY <2>4, <3>1, <3>2 DEF Push
  <2>5. CASE ChangeNothing(me, c) BY <1>3, <2>5 DEF ChangeNothing
  <2>6. CASE Deploy(me, c)
    <3>1. CASE Halts(me, c, task[c]) BY <1>4, <3>1
    <3>2. CASE /\ Enters(c, "review")
               /\ \/ task' = [task EXCEPT ![c].status = "deploying", ![c].pr = "known"]
                  \/ task' = [task EXCEPT ![c].status = "deploying"]
      BY <1>5, <3>2 DEF RowsOK
    <3>3. QED BY <2>6, <3>1, <3>2 DEF Deploy
  <2>7. CASE CallReviewer(me, c) BY <1>4, <1>5, <2>7 DEF CallReviewer
  <2>8. CASE Conclude(me, c)
    <3>1. \E t : Ends(c, t) BY <2>8 DEF Conclude, Answer, NoAnswer
    <3>2. QED BY <1>3, <3>1
  <2>9. CASE Fail(me, c)
    <3>1. \E t : Ends(c, t) BY <2>9 DEF Fail
    <3>2. QED BY <1>3, <3>1
  <2>10. CASE StartOver(c) BY <1>5, <2>10 DEF StartOver
  <2>11. CASE GiveUp(me, c) BY <1>3, <2>11 DEF GiveUp
  <2>12. CASE BackOff(me, c) BY <1>5, <2>12 DEF BackOff
  <2>13. CASE RetryBuild(me, c)
    <3>1. CASE Enters(c, "deploy") /\ UNCHANGED task BY <1>5, <3>1
    <3>2. CASE UNCHANGED task /\ run' = [run EXCEPT ![c].phase = "deploy", ![c].missed = Missed(c)]
      BY <3>2 DEF RowsOK
    <3>3. CASE \E t : Ends(c, t) \/ Halts(me, c, t) BY <1>3, <1>4, <3>3
    <3>4. QED BY <2>13, <3>1, <3>2, <3>3 DEF RetryBuild
  <2>14. CASE MissPrice(me, c) BY <2>14 DEF MissPrice, Interrupt, RowsOK
  <2>15. QED
    BY <2>1, <2>2, <2>3, <2>4, <2>5, <2>6, <2>7, <2>8, <2>9, <2>10, <2>11, <2>12, <2>13, <2>14
    DEF Run
<1>7. QED BY <1>1, <1>2, <1>6

\* The run of an earlier cycle is nothing to the current one.
LEMMA OtherRunAttended ==
  ASSUME Inv, Attended, Up, UNCHANGED coordVars, NEW c \in Cycles, c # cur, Run(me, c)
  PROVE  Attended'
<1>1. /\ Active(c) /\ UNCHANGED storeVars /\ cur' = cur
      /\ \A d \in Cycles \ {c} : task'[d] = task[d] /\ run'[d] = run[d]
  BY RunLocal, InvFacts DEF Context, storeVars, cur
<1>2. ~(c > cur) BY <1>1 DEF Attended, Active, NoRun
<1>3. \A d \in Cycles : d > cur => task'[d] = NoTask /\ run'[d] = NoRun
  BY <1>1, <1>2 DEF Attended
<1>4. HasCycle => task'[cur] = task[cur] /\ run'[cur] = run[cur]
  BY <1>1, Here
<1>5. QED BY <1>1, <1>3, <1>4 DEF Attended, Up, HasCycle, coordVars, storeVars

\* What is known of the current cycle when its run goes on.
LEMMA RunHere ==
  ASSUME Inv, Attended, Up, Active(cur), HasCycle
  PROVE  /\ attempt[cur].n # 0
         /\ AttendedRow(campaign.status, cycle[cur], attempt[cur], task[cur], run[cur],
                        "up", tick.pc)
         /\ Context(cur) \/ (campaign.status = "stopped" /\ cycle[cur].status = "stopped")
         /\ cycle[cur].status = "delivering" => Context(cur) /\ Runnable(cur)
         /\ Rest(cycle[cur]) \in Release => run[cur].phase = "start" /\ run[cur].mode = "iterate"
<1>1. AttendedRow(campaign.status, cycle[cur], attempt[cur], task[cur], run[cur], "up", tick.pc)
  BY AttendedHere
<1>2. attempt[cur].n # 0 BY <1>1, UntouchedRow DEF AttendedRow, Active
<1>3. Agree(campaign.status, cycle[cur], attempt[cur]) BY Here
<1>4. campaign.status # "stopped" => Context(cur)
  BY <1>1, <1>2, <1>3 DEF AttendedRow, Agree, Context
<1>5. campaign.status = "stopped" => cycle[cur].status = "stopped" BY <1>3 DEF Agree
<1>6. cycle[cur].status = "delivering" => Runnable(cur)
  BY <1>2, <1>3 DEF Agree, Rest, LiveStatus, Runnable
<1>7. Rest(cycle[cur]) \in Release => run[cur].phase = "start" /\ run[cur].mode = "iterate"
  BY <1>1 DEF AttendedRow, ReleaseRow, Active
<1>8. QED BY <1>1, <1>2, <1>4, <1>5, <1>6, <1>7

\* The end of a run, with or without the resume that was queued.
LEMMA EndsAttended ==
  ASSUME Inv, Inv', Attended, Up, ~HandingOff, UNCHANGED coordVars, HasCycle, cur' = cur,
         Active(cur),
         UNCHANGED campaign, attempt'[cur].n = attempt[cur].n,
         cycle'[cur].task = cycle[cur].task, cycle'[cur].gates = cycle[cur].gates,
         \/ cycle'[cur] = cycle[cur]
         \/ /\ cycle[cur].status \in {"delivering", "waiting_for_external"}
            /\ cycle'[cur].status \in {"retry_wait", "waiting_for_external"},
         NEW t \in TaskRow, Ends(cur, t),
         task[cur].head # 0 => t.head # 0,
         t.status = "shipping" => task[cur].status = "shipping",
         Rest(cycle[cur]) \in Release => t.status # "deploying" /\ t.head # 0,
         cycle'[cur].status = "delivering" /\ t.status \in Working
           => run[cur].intr # "none"
  PROVE  Attended'
<1>1. /\ attempt[cur].n # 0
      /\ AttendedRow(campaign.status, cycle[cur], attempt[cur], task[cur], run[cur],
                     "up", tick.pc)
      /\ Rest(cycle[cur]) \in Release => Context(cur)
      /\ cycle[cur].status = "delivering" => Context(cur) /\ Runnable(cur)
  BY RunHere DEF Rest, Release
<1>2. UNCHANGED <<proc, tick>> BY DEF coordVars
<1>3. TickAt(campaign.status, cycle'[cur], attempt'[cur], tick.pc)
  <2>1. CASE cycle'[cur] = cycle[cur] BY <1>1, <2>1 DEF AttendedRow, TickAt
  <2>2. CASE /\ cycle[cur].status \in {"delivering", "waiting_for_external"}
             /\ cycle'[cur].status \in {"retry_wait", "waiting_for_external"}
    <3>1. /\ tick.pc \notin {"attempt", "launch"}
          /\ Rest(cycle'[cur]) \notin Release /\ Rest(cycle[cur]) \notin Release
      BY <2>2 DEF HandingOff, Rest, Release
    <3>2. QED BY <1>1, <3>1 DEF AttendedRow, TickAt
  <2>3. QED BY <2>1, <2>2
<1>4. campaign.status = "stopped" \/ cycle[cur].task = "linked"
  BY RunHere DEF Context
<1>5. cycle'[cur].status = "delivering" => (Context(cur) => Runnable(cur))'
  <2>1. HasCycle' BY DEF HasCycle, cur
  <2>2. Agree(campaign'.status, cycle'[cur'], attempt'[cur'])
    BY <2>1, AgreeNext DEF Inv
  <2>3. QED BY <1>1, <2>2 DEF Agree, Rest, LiveStatus, Runnable
<1>6. cycle'[cur].gates = "revalidate" => t.head # 0 BY <1>1 DEF AttendedRow
<1>7. t.status = "shipping" => tick.pc = "ship" BY <1>1 DEF AttendedRow
<1>8. CASE /\ run[cur].queued = "yes" /\ (Context(cur) => Runnable(cur))'
           /\ task' = [task EXCEPT ![cur] = AtLaunch(t, Resumed(t))]
           /\ run' = [run EXCEPT ![cur] = Launched(Resumed(t))]
  <2>1. Rest(cycle'[cur]) \notin Release
    <3>1. CASE Context(cur)'
      <4>1. cycle'[cur].status = "delivering" BY <1>8, <3>1 DEF Runnable
      <4>2. QED BY <4>1 DEF Rest, Release
    <3>2. CASE ~Context(cur)'
      <4>1. ~Context(cur) BY <3>2 DEF Context
      <4>2. cycle'[cur].status = "stopped" BY <4>1, RunHere
      <4>3. QED BY <4>2 DEF Rest, Release
    <3>3. QED BY <3>1, <3>2
  <2>2. Resumed(t) \in Mode BY ResumedMode
  <2>3. AttendedRow(campaign.status, cycle'[cur], attempt'[cur], AtLaunch(t, Resumed(t)),
                    Launched(Resumed(t)), "up", tick.pc)
    BY <1>1, <1>3, <1>4, <1>6, <1>7, <2>1, <2>2, LaunchedAttended
  <2>4. QED BY <1>2, <1>8, <2>3, RowsStep
<1>9. CASE /\ ~(run[cur].queued = "yes" /\ (Context(cur) => Runnable(cur))')
           /\ task' = [task EXCEPT ![cur] = t]
           /\ run' = [run EXCEPT ![cur] = [NoRun EXCEPT !.missed = run[cur].missed]]
  <2> DEFINE r == [NoRun EXCEPT !.missed = run[cur].missed]
  <2>1. r.phase = "off" /\ r.missed = run[cur].missed BY DEF NoRun
  <2>2. run' = [run EXCEPT ![cur] = r] BY <1>9
  <2> HIDE DEF r
  <2>3. RowLeft(cycle'[cur], t, r)
    <3> SUFFICES ASSUME cycle'[cur].status = "delivering", t.status \in Working
                 PROVE  run[cur].missed = "yes"
      BY <2>1 DEF RowLeft
    <3>1. cycle[cur].status = "delivering" /\ run[cur].intr # "none" OBVIOUS
    <3>2. run[cur].queued = "yes" \/ run[cur].missed = "yes"
      BY <1>1, <3>1 DEF AttendedRow, Remembered, Active
    <3>3. QED BY <1>5, <1>9, <3>2
  <2>4. Rest(cycle'[cur]) \in Release => ReleaseRow(t, r)
    BY <2>1 DEF ReleaseRow, Rest, Release
  <2>5. Rest(cycle'[cur]) # "proposing" /\ campaign.status # "stopped"
          => cycle'[cur].task = "linked"
    BY <1>4
  <2>6. AttendedRow(campaign.status, cycle'[cur], attempt'[cur], t, r, "up", tick.pc)
    BY <1>1, <1>3, <1>6, <1>7, <2>1, <2>3, <2>4, <2>5 DEF AttendedRow, Unjudged, Remembered
  <2>7. QED BY <1>2, <2>2, <2>6, <1>9, RowsStep
<1>10. QED BY <1>8, <1>9 DEF Ends

\* A guard that ends the run leaves the row t, or fails it.
LEMMA HaltsAttended ==
  ASSUME Inv, Inv', Attended, Up, ~HandingOff, UNCHANGED coordVars, HasCycle, cur' = cur,
         Active(cur), NEW t \in TaskRow, Halts(me, cur, t),
         task[cur].head # 0 => t.head # 0,
         t.status = "shipping" => task[cur].status = "shipping",
         Rest(cycle[cur]) \in Release => t.status # "deploying" /\ t.head # 0
  PROVE  Attended'
<1> DEFINE kept == Blocked(cur) \/ LeasedTo(me)
           u == IF kept THEN t ELSE [t EXCEPT !.status = "failed"]
<1>1. /\ u \in TaskRow /\ u.head = t.head /\ u.status \in {t.status, "failed"}
      /\ ~kept => u.status = "failed"
  <2> HIDE DEF kept
  <2> QED BY DEF TaskRow
<1>2. Ends(cur, u) /\ UNCHANGED storeVars /\ ~Allowed(me, cur) BY DEF Halts
<1>3. cycle[cur].status = "delivering" /\ u.status \in Working => run[cur].intr # "none"
  <2> SUFFICES ASSUME cycle[cur].status = "delivering", run[cur].intr = "none"
               PROVE  ~kept
    BY <1>1 DEF Working
  <2>1. Context(cur) /\ Runnable(cur) BY RunHere
  <2>2. ~LeasedTo(me) BY <1>2, <2>1 DEF Allowed
  <2>3. ~Blocked(cur) BY <2>1 DEF Blocked, Runnable
  <2>4. QED BY <2>2, <2>3
<1> HIDE DEF u
<1>4. QED BY <1>1, <1>2, <1>3, EndsAttended DEF storeVars

\* The run goes on to its next segment.
LEMMA SegmentAttended ==
  ASSUME Inv, Attended, Up, UNCHANGED coordVars, HasCycle, cur' = cur, Active(cur),
         UNCHANGED storeVars, Rest(cycle[cur]) \notin Release,
         NEW t \in TaskRow, NEW phase \in {"start", "code"} \cup Late,
         task' = [task EXCEPT ![cur] = t], Enters(cur, phase),
         task[cur].head # 0 => t.head # 0,
         t.status = "shipping" => task[cur].status = "shipping",
         Unjudged(t, [run[cur] EXCEPT !.phase = phase])
  PROVE  Attended'
<1> DEFINE r == [run[cur] EXCEPT !.phase = phase]
<1>1. run[cur] \in RunRow BY Here
<1>2. /\ r.phase = phase /\ phase # "off" /\ r.intr = run[cur].intr
      /\ r.queued = run[cur].queued /\ r.missed = run[cur].missed
  BY <1>1 DEF RunRow, Late
<1>3. run' = [run EXCEPT ![cur] = r] BY Here DEF Enters, Inv, RowsOK
<1>4. Unjudged(t, r) OBVIOUS
<1> HIDE DEF r
<1>5. AttendedRow(campaign.status, cycle[cur], attempt[cur], t, r, "up", tick.pc)
  BY <1>2, <1>4, RunHere DEF AttendedRow, Remembered, RowLeft, Active
<1>6. QED BY <1>3, <1>5, RowsStep DEF coordVars, storeVars


\* A run that goes on only if the campaign delivers, or has been stopped.
LEMMA AllowedHere ==
  ASSUME Inv, Attended, Up, HasCycle, Active(cur), Allowed(me, cur)
  PROVE  Rest(cycle[cur]) \notin Release
<1>1. CASE Context(cur) BY <1>1 DEF Allowed, Runnable, Rest, Release
<1>2. CASE ~Context(cur) BY <1>2, RunHere DEF Rest, Release
<1>3. QED BY <1>1, <1>2

\* runFullPipeline and runIteration up to the coder's turn, and the start of a
\* revalidation.
LEMMA BeginningsAttended ==
  ASSUME Inv, Inv', Attended, Up, ~HandingOff, UNCHANGED coordVars, HasCycle, cur' = cur,
         BeginBuild(me, cur) \/ BeginIteration(me, cur) \/ BeginRevalidation(me, cur)
  PROVE  Attended'
<1>1. Active(cur) /\ run[cur].phase = "start"
  BY DEF BeginBuild, BeginIteration, BeginRevalidation, Active
<1>2. /\ task[cur] \in TaskRow /\ pr[cur] \in PrRow /\ run[cur] \in RunRow
      /\ task[cur] \in Good(cur)
      /\ run[cur].mode = "revalidate" => task[cur].head # 0
  BY Here
<1>3. AttendedRow(campaign.status, cycle[cur], attempt[cur], task[cur], run[cur], "up", tick.pc)
  BY <1>1, RunHere
<1>4. Rest(cycle[cur]) \in Release => run[cur].mode = "iterate" /\ task[cur].head # 0
  BY <1>1, <1>3, RunHere DEF AttendedRow, ReleaseRow
<1>5. ASSUME NEW p \in {"code", "deploy"}
      PROVE  /\ p \in {"start", "code"} \cup Late
             /\ [run[cur] EXCEPT !.phase = p].phase = p
             /\ [run[cur] EXCEPT !.phase = p].mode = run[cur].mode
  BY <1>2 DEF Late, RunRow
<1>6. ASSUME NEW t \in TaskRow, t.back = "pending", run[cur].mode # "revalidate",
             t.head = task[cur].head,
             t.status = "shipping" => task[cur].status = "shipping",
             Allowed(me, cur), task' = [task EXCEPT ![cur] = t], Enters(cur, "code"),
             UNCHANGED storeVars
      PROVE  Attended'
  <2>1. Rest(cycle[cur]) \notin Release BY <1>1, <1>6, AllowedHere
  <2>2. Unjudged(t, [run[cur] EXCEPT !.phase = "code"]) BY <1>5, <1>6 DEF Unjudged
  <2>3. "code" \in {"start", "code"} \cup Late OBVIOUS
  <2>4. QED BY <1>1, <1>6, <2>1, <2>2, <2>3, SegmentAttended
<1>7. /\ Reset(task[cur]) \in TaskRow /\ Reset(task[cur]).head = task[cur].head
      /\ Reset(task[cur]).status = task[cur].status /\ Reset(task[cur]).back = "pending"
  BY <1>2 DEF Reset, TaskRow
<1>8. CASE BeginBuild(me, cur)
  <2>1. CASE Halts(me, cur, Reset(task[cur]))
    BY <1>1, <1>4, <1>7, <1>8, <2>1, HaltsAttended DEF BeginBuild
  <2>2. ASSUME NEW base \in {"reserved", task[cur].base},
               task' = [task EXCEPT ![cur] = [Reset(@) EXCEPT !.branch = "named", !.base = base]],
               Allowed(me, cur), Enters(cur, "code"), UNCHANGED storeVars
        PROVE  Attended'
    <3> DEFINE r == Reset(task[cur])
               t == [r EXCEPT !.branch = "named", !.base = base]
    <3>1. base \in {"none", "reserved"} BY <1>2 DEF TaskRow
    <3>2. /\ t \in TaskRow /\ t.head = r.head /\ t.status = r.status /\ t.back = r.back
      <4> HIDE DEF r
      <4>1. r \in TaskRow BY <1>7 DEF r
      <4>2. QED BY <3>1, <4>1 DEF TaskRow
    <3>3. task' = [task EXCEPT ![cur] = t] BY <2>2
    <3>4. run[cur].mode # "revalidate" BY <1>8 DEF BeginBuild
    <3> HIDE DEF t
    <3>5. QED BY <1>6, <1>7, <2>2, <3>2, <3>3, <3>4
  <2>3. QED BY <1>8, <2>1, <2>2 DEF BeginBuild
<1>9. CASE BeginIteration(me, cur)
  <2> DEFINE t == [Reset(task[cur]) EXCEPT !.status = "building"]
  <2>1. /\ t \in TaskRow /\ t.status = "building" /\ t.back = "pending" /\ t.head = task[cur].head
    BY <1>7 DEF TaskRow
  <2>2. \/ Halts(me, cur, t)
        \/ Allowed(me, cur) /\ task' = [task EXCEPT ![cur] = t] /\ Enters(cur, "code")
           /\ UNCHANGED storeVars
    BY <1>9 DEF BeginIteration
  <2>3. run[cur].mode # "revalidate" BY <1>9 DEF BeginIteration
  <2> HIDE DEF t
  <2>4. CASE Halts(me, cur, t) BY <1>1, <1>4, <2>1, <2>4, HaltsAttended
  <2>5. QED BY <1>6, <2>1, <2>2, <2>3, <2>4
<1>10. CASE BeginRevalidation(me, cur)
  <2> DEFINE t == [task[cur] EXCEPT !.head = pr[cur].tip]
  <2>1. /\ t \in TaskRow /\ t.status = task[cur].status /\ t.review = task[cur].review
        /\ t.back = task[cur].back /\ t.head # 0
    <3>1. pr[cur].tip \in 0..MaxHead /\ pr[cur].tip # 0
      BY <1>2, <1>10, TipThere DEF BeginRevalidation, PrRow
    <3>2. QED BY <1>2, <3>1 DEF TaskRow
  <2>2. \/ Halts(me, cur, t)
        \/ Allowed(me, cur) /\ task' = [task EXCEPT ![cur] = t] /\ Enters(cur, "deploy")
           /\ UNCHANGED storeVars
    BY <1>2, <1>10 DEF BeginRevalidation, TaskRow
  <2>3. run[cur].mode = "revalidate" BY <1>10 DEF BeginRevalidation
  <2> HIDE DEF t
  <2>4. CASE Halts(me, cur, t) BY <1>1, <1>4, <2>1, <2>3, <2>4, HaltsAttended
  <2>5. CASE Allowed(me, cur) /\ task' = [task EXCEPT ![cur] = t] /\ Enters(cur, "deploy")
             /\ UNCHANGED storeVars
    <3>1. Rest(cycle[cur]) \notin Release BY <1>1, <2>5, AllowedHere
    <3>2. task[cur].review = "none"
      BY <1>1, <1>3, <2>3 DEF AttendedRow, Unjudged
    <3>3. Unjudged(t, [run[cur] EXCEPT !.phase = "deploy"])
      BY <1>5, <2>1, <2>3, <3>2 DEF Unjudged
    <3>4. QED BY <1>1, <1>5, <2>1, <2>5, <3>1, <3>3, SegmentAttended
  <2>6. QED BY <2>2, <2>4, <2>5
<1>11. QED BY <1>8, <1>9, <1>10

\* What a run in the middle of its work, or a revalidation, tells of its task.
LEMMA MidRun ==
  ASSUME Inv, Attended, Up, HasCycle, Active(cur), run[cur].phase # "start"
  PROVE  /\ Rest(cycle[cur]) \notin Release
         /\ run[cur].mode # "revalidate" => task[cur].back = "pending"
         /\ run[cur].mode = "revalidate" => task[cur].review = "none"
  BY RunHere DEF AttendedRow, Unjudged, Active

\* It stays unjudged in its next segment.
LEMMA StillUnjudged ==
  ASSUME Inv, Attended, Up, HasCycle, Active(cur), run[cur].phase # "start",
         NEW t, t.review = task[cur].review, t.back = task[cur].back, NEW p
  PROVE  Unjudged(t, [run[cur] EXCEPT !.phase = p])
<1>1. [run[cur] EXCEPT !.phase = p].mode = run[cur].mode BY Here DEF RunRow
<1>2. QED BY <1>1, MidRun DEF Unjudged

\* The coder's turn, the deployment and the call of the reviewer.
LEMMA MiddlesAttended ==
  ASSUME Inv, Inv', Attended, Up, ~HandingOff, UNCHANGED coordVars, HasCycle, cur' = cur,
         Push(me, cur) \/ Deploy(me, cur) \/ CallReviewer(me, cur) \/ StartOver(cur)
  PROVE  Attended'
<1>1. Active(cur) /\ run[cur].phase \notin {"off", "start"}
  BY DEF Push, Deploy, CallReviewer, StartOver, Active
<1>2. /\ task[cur] \in TaskRow /\ pr[cur] \in PrRow
      /\ run[cur].phase \in Late => task[cur].head # 0
  BY Here
<1>3. Rest(cycle[cur]) \notin Release BY <1>1, MidRun
<1>4. ASSUME NEW t \in TaskRow, t.review = task[cur].review, t.back = task[cur].back,
             task[cur].head # 0 => t.head # 0,
             t.status = "shipping" => task[cur].status = "shipping",
             NEW p \in {"start", "code"} \cup Late,
             task' = [task EXCEPT ![cur] = t], Enters(cur, p), UNCHANGED storeVars
      PROVE  Attended'
  <2>1. Unjudged(t, [run[cur] EXCEPT !.phase = p]) BY <1>1, <1>4, StillUnjudged
  <2>2. QED BY <1>1, <1>3, <1>4, <2>1, SegmentAttended
<1>5. CASE Push(me, cur)
  <2> DEFINE t == [task[cur] EXCEPT !.feedback = "none", !.front = "done"]
             b == IF run[cur].mode = "build" THEN "reserved" ELSE t.base
             h == pr[cur].tip + 1
             p == [t EXCEPT !.head = h, !.base = b]
  <2>1. /\ t \in TaskRow /\ t.status = task[cur].status /\ t.head = task[cur].head
        /\ t.review = task[cur].review /\ t.back = task[cur].back
    BY <1>2 DEF TaskRow
  <2>2. \/ Halts(me, cur, t)
        \/ /\ pr[cur].tip < MaxHead /\ task' = [task EXCEPT ![cur] = p]
           /\ Enters(cur, "deploy") /\ UNCHANGED storeVars
    BY <1>5 DEF Push
  <2>3. CASE Halts(me, cur, t)
    <3> HIDE DEF t
    <3> QED BY <1>1, <1>3, <2>1, <2>3, HaltsAttended
  <2>4. CASE /\ pr[cur].tip < MaxHead /\ task' = [task EXCEPT ![cur] = p]
             /\ Enters(cur, "deploy") /\ UNCHANGED storeVars
    <3>1. h \in 0..MaxHead /\ h # 0 BY <1>2, <2>4, HeadFacts DEF PrRow
    <3>2. b \in {"none", "reserved"} BY <2>1 DEF TaskRow
    <3>3. /\ p \in TaskRow /\ p.status = t.status /\ p.head = h
          /\ p.review = t.review /\ p.back = t.back
      <4> HIDE DEF t, b, h
      <4> QED BY <2>1, <3>1, <3>2 DEF TaskRow
    <3> HIDE DEF p, t, h
    <3>4. QED BY <1>4, <2>1, <2>4, <3>1, <3>3 DEF Late
  <2>5. QED BY <2>2, <2>3, <2>4
<1>6. CASE Deploy(me, cur)
  <2>1. CASE Halts(me, cur, task[cur]) BY <1>1, <1>2, <1>3, <2>1, HaltsAttended
  <2>2. ASSUME NEW p \in {"none", "known"}, Enters(cur, "review"), UNCHANGED storeVars,
               task' = [task EXCEPT ![cur].status = "deploying", ![cur].pr = p]
        PROVE  Attended'
    <3> DEFINE t == [task[cur] EXCEPT !.status = "deploying", !.pr = p]
    <3>1. /\ t \in TaskRow /\ t.status = "deploying" /\ t.head = task[cur].head
          /\ t.review = task[cur].review /\ t.back = task[cur].back
      BY <1>2 DEF TaskRow
    <3>0. cur \in Cycles /\ task \in [Cycles -> TaskRow] BY Here DEF Inv, RowsOK
    <3>2. task' = [task EXCEPT ![cur] = t] BY ZenonT(60), <1>2, <2>2, <3>0 DEF TaskRow
    <3> HIDE DEF t
    <3>3. QED BY <1>4, <2>2, <3>1, <3>2 DEF Late
  <2>3. task' = [task EXCEPT ![cur].status = "deploying"]
          => task' = [task EXCEPT ![cur].status = "deploying", ![cur].pr = task[cur].pr]
    BY <1>2, Here DEF Inv, RowsOK, TaskRow
  <2>4. task[cur].pr \in {"none", "known"} BY <1>2 DEF TaskRow
  <2>5. QED BY <1>6, <2>1, <2>2, <2>3, <2>4 DEF Deploy
<1>7. CASE CallReviewer(me, cur)
  <2>1. CASE Halts(me, cur, task[cur]) BY <1>1, <1>2, <1>3, <2>1, HaltsAttended
  <2>2. task' = task => task' = [task EXCEPT ![cur] = task[cur]] BY DEF Inv, RowsOK
  <2>3. QED BY <1>2, <1>4, <1>7, <2>1, <2>2 DEF CallReviewer, Late
<1>8. CASE StartOver(cur)
  <2>1. task' = [task EXCEPT ![cur] = task[cur]] BY <1>8 DEF StartOver, Inv, RowsOK
  <2>2. QED BY <1>2, <1>4, <1>8, <2>1 DEF StartOver
<1>9. QED BY <1>5, <1>6, <1>7, <1>8


\* The ends of a run: an iteration without changes, and the reviewer's answer.
LEMMA ConcludedAttended ==
  ASSUME Inv, Inv', Attended, Up, ~HandingOff, UNCHANGED coordVars, HasCycle, cur' = cur,
         ChangeNothing(me, cur) \/ Conclude(me, cur)
  PROVE  Attended'
<1>1. Active(cur) /\ run[cur].phase \notin {"off", "start"}
  BY DEF ChangeNothing, Conclude, Active
<1>2. task[cur] \in TaskRow BY Here
<1>3. Rest(cycle[cur]) \notin Release BY <1>1, MidRun
<1>4. ASSUME NEW t \in TaskRow, t.head = task[cur].head, Ends(cur, t), UNCHANGED storeVars,
             t.status \notin Working \/ (t.status = task[cur].status /\ Blocked(cur))
      PROVE  Attended'
  <2>1. cycle[cur].status = "delivering" /\ t.status \in Working => run[cur].intr # "none"
    BY <1>1, <1>4, RunHere DEF Blocked, Runnable
  <2>2. t.status = "shipping" => task[cur].status = "shipping" BY <1>4 DEF Working
  <2>3. QED BY <1>1, <1>3, <1>4, <2>1, <2>2, EndsAttended DEF storeVars
<1>5. CASE ChangeNothing(me, cur)
  <2> DEFINE t == [task[cur] EXCEPT !.feedback = "none", !.front = "done", !.status = "review"]
  <2>1. t \in TaskRow /\ t.head = task[cur].head /\ t.status = "review" BY <1>2 DEF TaskRow
  <2>2. Ends(cur, t) /\ UNCHANGED storeVars BY <1>5 DEF ChangeNothing
  <2> HIDE DEF t
  <2>3. QED BY <1>4, <2>1, <2>2 DEF Working
<1>6. CASE Conclude(me, cur)
  <2>1. ASSUME NEW u \in TaskRow, u.head = task[cur].head, NEW healthy \in BOOLEAN,
               Ends(cur, Finished(u, healthy))
        PROVE  Attended'
    <3>1. /\ Finished(u, healthy) \in TaskRow /\ Finished(u, healthy).head = u.head
          /\ Finished(u, healthy).status \in {"review", "failed"}
      <4>1. CASE healthy BY <2>1, <4>1 DEF Finished, TaskRow
      <4>2. CASE ~healthy BY <2>1, <4>2 DEF Finished, TaskRow
      <4>3. QED BY <4>1, <4>2
    <3>2. QED BY <1>4, <1>6, <2>1, <3>1 DEF Working, Conclude
  <2>2. ASSUME NEW healthy \in BOOLEAN, NEW verdict \in {"accepted", "changes"},
               Answer(me, cur, verdict, healthy)
        PROVE  Attended'
    <3> DEFINE f == IF verdict = "changes" THEN "pending" ELSE task[cur].feedback
               t == [task[cur] EXCEPT !.feedback = f]
               v == IF healthy THEN verdict ELSE "unhealthy"
               judged == [t EXCEPT !.review = v, !.reviewed = t.head]
    <3>1. f \in {"none", "pending"} BY <1>2 DEF TaskRow
    <3>2. t \in TaskRow /\ t.head = task[cur].head /\ t.status = task[cur].status
      <4> HIDE DEF f
      <4> QED BY <1>2, <3>1 DEF TaskRow
    <3>3. judged \in TaskRow /\ judged.head = t.head
      <4>1. v \in {"accepted", "changes", "unhealthy"} OBVIOUS
      <4> HIDE DEF t, v
      <4> QED BY <3>2, <4>1 DEF TaskRow
    <3>4. \/ Ends(cur, Finished(judged, healthy))
          \/ Blocked(cur) /\ Ends(cur, t)
          \/ Ends(cur, Finished(t, healthy))
      BY <1>2, <2>2 DEF Answer, TaskRow
    <3> HIDE DEF t, judged
    <3>5. QED BY <1>4, <1>6, <2>1, <3>2, <3>3, <3>4 DEF Conclude
  <2>3. ASSUME NEW healthy \in BOOLEAN, NoAnswer(cur, healthy) PROVE Attended'
    <3> DEFINE v == IF healthy THEN "not-run" ELSE "unhealthy"
               t == [task[cur] EXCEPT !.review = v, !.reviewed = task[cur].head]
    <3>1. t \in TaskRow /\ t.head = task[cur].head
      <4>1. v \in {"not-run", "unhealthy"} OBVIOUS
      <4> HIDE DEF v
      <4>2. QED BY <1>2, <4>1 DEF TaskRow
    <3>2. Ends(cur, Finished(t, healthy)) BY <2>3 DEF NoAnswer
    <3> HIDE DEF t
    <3>3. QED BY <2>1, <2>3, <3>1, <3>2
  <2>4. QED BY <1>6, <2>2, <2>3 DEF Conclude
<1>7. QED BY <1>5, <1>6

\* The status that a failure leaves.
LEMMA FailedRow ==
  ASSUME NEW t \in TaskRow
  PROVE  /\ [t EXCEPT !.status = "failed"] \in TaskRow
         /\ [t EXCEPT !.status = "failed"].status = "failed"
         /\ [t EXCEPT !.status = "failed"].head = t.head
  BY DEF TaskRow

\* A segment that throws.
LEMMA FailAttended ==
  ASSUME Inv, Inv', Attended, Up, ~HandingOff, UNCHANGED coordVars, HasCycle, cur' = cur,
         Fail(me, cur)
  PROVE  Attended'
<1>1. Active(cur) BY DEF Fail
<1>2. /\ task[cur] \in TaskRow /\ cur \in Cycles /\ cycle[cur] \in CycleRow
      /\ attempt[cur] \in AttemptRow
      /\ cycle \in [Cycles -> CycleRow] /\ attempt \in [Cycles -> AttemptRow]
  BY Here DEF Inv, IInv, StoreTypeOK
<1>3. Rest(cycle[cur]) \in Release => task[cur].status # "deploying" /\ task[cur].head # 0
  BY <1>1, RunHere DEF AttendedRow, ReleaseRow, Active
<1>4. CASE UNCHANGED storeVars /\ Ends(cur, task[cur]) /\ run[cur].intr # "none"
  BY <1>1, <1>2, <1>3, <1>4, EndsAttended DEF storeVars
<1>5. CASE FailAttempt(me) /\ Ends(cur, task[cur])
  <2>1. /\ UNCHANGED campaign /\ attempt'[cur].n = attempt[cur].n
        /\ cycle'[cur].task = cycle[cur].task /\ cycle'[cur].gates = cycle[cur].gates
        /\ cycle[cur].status \in {"delivering", "waiting_for_external"}
        /\ cycle'[cur].status = "retry_wait"
    BY <1>2, <1>5 DEF FailAttempt, Failable, SetCycle, SetAttempt, CycleRow, AttemptRow
  <2>2. QED BY <1>1, <1>2, <1>3, <1>5, <2>1, EndsAttended
<1>6. CASE /\ UNCHANGED storeVars /\ ~(Context(cur) /\ Failable(me))
           /\ Context(cur) => run[cur].intr = "none"
           /\ Ends(cur, IF Context(cur) /\ LeasedTo(me) THEN task[cur]
                        ELSE [task[cur] EXCEPT !.status = "failed"])
  <2>1. cycle[cur].status = "delivering" => ~(Context(cur) /\ LeasedTo(me))
    BY <1>1, <1>6, RunHere DEF Failable, HasAttempt, Runnable
  <2>2. CASE Context(cur) /\ LeasedTo(me)
    BY <1>1, <1>2, <1>3, <1>6, <2>1, <2>2, EndsAttended DEF storeVars
  <2>3. CASE ~(Context(cur) /\ LeasedTo(me))
    <3> DEFINE t == [task[cur] EXCEPT !.status = "failed"]
    <3>1. t \in TaskRow /\ t.status = "failed" /\ t.head = task[cur].head
      BY <1>2, FailedRow
    <3>2. Ends(cur, t) BY <1>6, <2>3
    <3> HIDE DEF t
    <3>3. QED BY <1>1, <1>3, <1>6, <3>1, <3>2, EndsAttended DEF storeVars, Working
  <2>4. QED BY <2>2, <2>3
<1>7. QED BY <1>4, <1>5, <1>6 DEF Fail

\* What a run's wait writes.
LEMMA WaitWrites ==
  ASSUME Inv, HasCycle, WaitForExternal(me)
  PROVE  /\ UNCHANGED campaign /\ attempt'[cur].n = attempt[cur].n
         /\ cycle'[cur].task = cycle[cur].task /\ cycle'[cur].gates = cycle[cur].gates
         /\ cycle[cur].status = "delivering" /\ Rest(cycle[cur]) \notin Release
         /\ cycle'[cur].status = "waiting_for_external"
         /\ Rest(cycle'[cur]) = "waiting_for_external"
<1>1. /\ cur \in Cycles /\ cycle[cur] \in CycleRow /\ attempt[cur] \in AttemptRow
      /\ cycle \in [Cycles -> CycleRow] /\ attempt \in [Cycles -> AttemptRow]
  BY Here DEF Inv, IInv, StoreTypeOK
<1>2. /\ UNCHANGED campaign
      /\ cycle'[cur].task = cycle[cur].task /\ cycle'[cur].gates = cycle[cur].gates
      /\ cycle[cur].status = "delivering" /\ cycle'[cur].status = "waiting_for_external"
  BY <1>1 DEF WaitForExternal, SetCycle, CycleRow
<1>3. attempt'[cur].n = attempt[cur].n
  BY <1>1 DEF WaitForExternal, SetAttempt, Closed, AttemptRow
<1>4. QED BY <1>2, <1>3 DEF Rest, Release

\* A wait during which the run stays what it is, or is interrupted.
LEMMA WaitingAttended ==
  ASSUME Inv, Attended, Up, ~HandingOff, UNCHANGED <<coordVars, task>>, HasCycle, cur' = cur,
         Active(cur), WaitForExternal(me), NEW r,
         r.mode = run[cur].mode, r.phase \notin {"off", "start"}, run[cur].phase # "start",
         run' = [run EXCEPT ![cur] = r]
  PROVE  Attended'
<1>1. task' = [task EXCEPT ![cur] = task[cur]] BY DEF Inv, RowsOK
<1>2. Unjudged(task[cur], r) BY MidRun DEF Unjudged
<1>3. AttendedRow(campaign.status, cycle'[cur], attempt'[cur], task[cur], r, "up", tick.pc)
  BY <1>2, WaitWrites, RunHere
  DEF AttendedRow, Remembered, RowLeft, TickAt, Release, Releasing, HandingOff, Rest
<1>4. QED BY <1>1, <1>3, WaitWrites, RowsStep DEF coordVars

\* The cluster, the registry or a price is missing.
LEMMA WaitsAttended ==
  ASSUME Inv, Inv', Attended, Up, ~HandingOff, UNCHANGED coordVars, HasCycle, cur' = cur,
         GiveUp(me, cur) \/ BackOff(me, cur) \/ MissPrice(me, cur)
  PROVE  Attended'
<1>1. Active(cur) /\ run[cur].phase \notin {"off", "start"} /\ WaitForExternal(me)
  BY DEF GiveUp, BackOff, MissPrice, Active
<1>2. task[cur] \in TaskRow /\ run[cur] \in RunRow BY Here
<1>3. CASE GiveUp(me, cur)
  <2>1. Ends(cur, task[cur]) BY <1>3 DEF GiveUp
  <2>2. QED BY <1>1, <1>2, <2>1, WaitWrites, EndsAttended
<1>4. CASE BackOff(me, cur)
  <2> DEFINE r == [run[cur] EXCEPT !.phase = "backoff"]
  <2>1. r.phase = "backoff" /\ r.mode = run[cur].mode BY <1>2 DEF RunRow
  <2>2. run' = [run EXCEPT ![cur] = r] BY <1>4, Here DEF BackOff, Enters, Inv, RowsOK
  <2> HIDE DEF r
  <2>3. QED BY <1>1, <1>4, <2>1, <2>2, WaitingAttended DEF BackOff
<1>5. CASE MissPrice(me, cur)
  <2> DEFINE i == IF Active(cur) /\ Context(cur) THEN "pause" ELSE run[cur].intr
             r == [run[cur] EXCEPT !.intr = i]
  <2>1. r.phase = run[cur].phase /\ r.mode = run[cur].mode
    <3> HIDE DEF i
    <3> QED BY <1>2 DEF RunRow
  <2>2. run' = [run EXCEPT ![cur] = r]
    BY <1>5, Here DEF MissPrice, Interrupt, Inv, RowsOK, RunRow
  <2> HIDE DEF r
  <2>3. QED BY <1>1, <1>5, <2>1, <2>2, WaitingAttended DEF MissPrice
<1>6. QED BY <1>3, <1>4, <1>5

\* The build after the registry's back-off.
LEMMA RetryBuildAttended ==
  ASSUME Inv, Inv', Attended, Up, ~HandingOff, UNCHANGED coordVars, HasCycle, cur' = cur,
         RetryBuild(me, cur)
  PROVE  Attended'
<1>1. Active(cur) /\ run[cur].phase \notin {"off", "start"} BY DEF RetryBuild, Active
<1>2. /\ task[cur] \in TaskRow /\ run[cur] \in RunRow /\ cur \in Cycles
      /\ cycle[cur] \in CycleRow /\ attempt[cur] \in AttemptRow
      /\ cycle \in [Cycles -> CycleRow] /\ attempt \in [Cycles -> AttemptRow]
      /\ task' = task => task' = [task EXCEPT ![cur] = task[cur]]
  BY Here DEF Inv, IInv, StoreTypeOK, RowsOK
<1>3. Rest(cycle[cur]) \notin Release BY <1>1, MidRun
<1>4. CASE /\ ResumeExternalWait(me) /\ UNCHANGED task
           /\ run' = [run EXCEPT ![cur].phase = "deploy", ![cur].missed = Missed(cur)]
  <2> DEFINE r == [run[cur] EXCEPT !.phase = "deploy", !.missed = Missed(cur)]
  <2>1. Missed(cur) \in {"yes", "no"} BY <1>2 DEF Missed, RunRow
  <2>2. /\ r.phase = "deploy" /\ r.mode = run[cur].mode /\ r.intr = run[cur].intr
        /\ r.missed = Missed(cur)
    <3> HIDE DEF Missed
    <3> QED BY <1>2 DEF RunRow
  <2>0. run \in [Cycles -> RunRow] BY DEF Inv, RowsOK
  <2>3. run' = [run EXCEPT ![cur] = r] BY ZenonT(60), <1>2, <1>4, <2>0 DEF RunRow
  <2> HIDE DEF r
  <2>4. /\ UNCHANGED campaign /\ attempt'[cur].n = attempt[cur].n
        /\ cycle'[cur].task = cycle[cur].task /\ cycle'[cur].gates = cycle[cur].gates
        /\ cycle[cur].status = "waiting_for_external"
        /\ cycle'[cur].status = "delivering"
    BY <1>2, <1>4 DEF ResumeExternalWait, SetCycle, SetAttempt, CycleRow, AttemptRow
  <2>5. /\ Rest(cycle'[cur]) = "delivering"
        /\ Rest(cycle[cur]) = "waiting_for_external"
    BY <2>4 DEF Rest
  <2>6. Unjudged(task[cur], r) BY <1>1, <2>2, MidRun DEF Unjudged
  <2>7. Remembered(cycle'[cur], r) BY <2>2 DEF Remembered, Missed
  <2>8. AttendedRow(campaign.status, cycle'[cur], attempt'[cur], task[cur], r, "up", tick.pc)
    BY <1>1, <2>2, <2>4, <2>5, <2>6, <2>7, RunHere
    DEF AttendedRow, RowLeft, TickAt, Release, Releasing
  <2>9. QED BY <1>2, <1>4, <2>3, <2>4, <2>8, RowsStep DEF coordVars
<1>5. CASE /\ UNCHANGED storeVars /\ cycle[cur].status = "waiting_for_external"
           /\ Ends(cur, IF run[cur].intr # "none" THEN task[cur]
                        ELSE [task[cur] EXCEPT !.status = "failed"])
  <2> DEFINE t == IF run[cur].intr # "none" THEN task[cur]
                  ELSE [task[cur] EXCEPT !.status = "failed"]
  <2>1. t \in TaskRow /\ t.status \in {task[cur].status, "failed"} /\ t.head = task[cur].head
    BY <1>2, FailedRow
  <2>2. Ends(cur, t) BY <1>5
  <2> HIDE DEF t
  <2>3. QED BY <1>1, <1>3, <1>5, <2>1, <2>2, EndsAttended DEF storeVars
<1>6. CASE Allowed(me, cur) /\ Enters(cur, "deploy") /\ UNCHANGED <<task, storeVars>>
  <2>1. Unjudged(task[cur], [run[cur] EXCEPT !.phase = "deploy"])
    BY <1>1, StillUnjudged
  <2>2. QED BY <1>1, <1>2, <1>3, <1>6, <2>1, SegmentAttended DEF Late
<1>7. CASE Halts(me, cur, task[cur])
  BY <1>1, <1>2, <1>3, <1>7, HaltsAttended
<1>8. QED BY <1>4, <1>5, <1>6, <1>7 DEF RetryBuild

\* So does every step of a run, of this cycle or left over from an earlier one.
LEMMA TaskRunsAttended ==
  ASSUME Inv, Inv', Attended, Up, ~HandingOff, TaskRuns PROVE Attended'
<1>1. PICK c \in Cycles : Run(me, c) BY DEF TaskRuns
<1>2. UNCHANGED coordVars BY DEF TaskRuns
<1>3. cur' = cur BY <1>1, InvFacts, RunGrows
<1>4. CASE c # cur BY <1>1, <1>2, <1>4, OtherRunAttended
<1>5. CASE c = cur
  <2>1. HasCycle BY <1>5 DEF HasCycle, Cycles
  <2>2. Run(me, cur) BY <1>1, <1>5
  <2>3. QED
    BY <1>2, <1>3, <2>1, <2>2, BeginningsAttended, MiddlesAttended, ConcludedAttended,
       FailAttended, WaitsAttended, RetryBuildAttended
    DEF Run
<1>6. QED BY <1>4, <1>5


-----------------------------------------------------------------------------
(* GitHub, the clock and the process *)

\* Leases and timers are nothing to Attended.
LEMMA OutsideAttended ==
  ASSUME Inv, Attended, UNCHANGED <<proc, tick, task, run, attempt>>,
         cur' = cur, campaign'.status = campaign.status,
         HasCycle => /\ cycle'[cur].status = cycle[cur].status
                     /\ cycle'[cur].from = cycle[cur].from
                     /\ cycle'[cur].task = cycle[cur].task
                     /\ cycle'[cur].gates = cycle[cur].gates
  PROVE  Attended'
<1>1. ASSUME HasCycle
      PROVE  AttendedRow(campaign.status, cycle'[cur], attempt[cur], task[cur], run[cur],
                         proc.up, tick.pc)
  <2>1. AttendedRow(campaign.status, cycle[cur], attempt[cur], task[cur], run[cur],
                    proc.up, tick.pc)
    BY <1>1 DEF Attended
  <2>2. Rest(cycle'[cur]) = Rest(cycle[cur]) BY <1>1 DEF Rest
  <2>3. QED BY <1>1, <2>1, <2>2 DEF AttendedRow, Remembered, RowLeft, TickAt
<1>2. HasCycle' <=> HasCycle BY DEF HasCycle, cur
<1>3. QED BY <1>1, <1>2 DEF Attended, Up

\* GitHub, the clock and other people write neither tasks nor runs.
LEMMA WorldAttended == ASSUME Inv, Attended, World \/ Expire PROVE Attended'
<1>1. CASE UNCHANGED <<storeVars, task, run, proc, tick>>
  BY <1>1, OutsideAttended DEF storeVars, cur
<1>2. CASE Elapse
  <2>0. HasCycle BY <1>2 DEF Elapse, TimerElapses
  <2>1. cur \in Cycles /\ cycle[cur] \in CycleRow /\ cycle \in [Cycles -> CycleRow]
    BY <2>0, Here DEF Inv, IInv, StoreTypeOK
  <2>2. /\ cycle'[cur].status = cycle[cur].status /\ cycle'[cur].from = cycle[cur].from
        /\ cycle'[cur].task = cycle[cur].task /\ cycle'[cur].gates = cycle[cur].gates
    BY <1>2, <2>1 DEF Elapse, TimerElapses, SetCycle, CycleRow
  <2>3. QED
    BY <1>2, <2>2, OutsideAttended DEF Elapse, TimerElapses, runVars, coordVars, cur
<1>3. CASE Expire
  <2>1. /\ campaign'.status = campaign.status /\ cur' = cur
        /\ UNCHANGED <<cycle, attempt, proc, tick, task, run>>
    BY <1>3, InvFacts DEF Expire, LeaseExpires, StoreTypeOK, CampaignRow, cur, runVars, coordVars
  <2>2. QED BY <2>1, OutsideAttended
<1>4. World => Elapse \/ UNCHANGED <<storeVars, task, run, proc, tick>>
  BY DEF World, GitHubMerges, SomebodyPushes, SomebodyMerges, coordVars
<1>5. QED BY <1>1, <1>2, <1>3, <1>4

\* A crash takes the runs and the tick with it.
LEMMA CrashAttended == ASSUME Inv, Attended, Crash PROVE Attended'
<1>1. /\ UNCHANGED <<campaign, cycle, attempt, task>> /\ cur' = cur /\ Up
      /\ tick' = Idle /\ run' = [c \in Cycles |-> NoRun]
  BY DEF Crash, storeVars, cur
<1>2. proc'.up = "down" BY InvFacts DEF Crash, TickOK, ProcRow
<1>3. ASSUME HasCycle
      PROVE  AttendedRow(campaign.status, cycle[cur], attempt[cur], task[cur], NoRun,
                         "down", "idle")
  <2>1. AttendedRow(campaign.status, cycle[cur], attempt[cur], task[cur], run[cur],
                    "up", tick.pc)
    BY <1>1, <1>3, AttendedHere
  <2>2. NoRun.phase = "off" BY DEF NoRun
  <2>3. attempt[cur].n = 0 => Untouched(task[cur], NoRun)
    BY <2>1 DEF AttendedRow, Untouched
  <2>4. Rest(cycle[cur]) \in Release => ReleaseRow(task[cur], NoRun)
    BY <2>1, <2>2 DEF AttendedRow, ReleaseRow
  <2>5. QED BY <2>1, <2>2, <2>3, <2>4
    DEF AttendedRow, Unjudged, Remembered, TickAt, Releasing
<1>4. HasCycle => run'[cur] = NoRun BY <1>1, Here
<1>5. tick'.pc = "idle" BY <1>1 DEF Idle
<1>6. QED BY <1>1, <1>2, <1>3, <1>4, <1>5 DEF Attended, Up, HasCycle

\* reconcileOrphanedRuns sees to every task the crash left in the middle.
LEMMA BootAttended == ASSUME Inv, Attended, Boot PROVE Attended'
<1>1. /\ UNCHANGED <<campaign, cycle, attempt, run, tick>> /\ cur' = cur
      /\ tick = Idle /\ \A c \in Cycles : run[c] = NoRun
      /\ task' = [c \in Cycles |-> Recovered(c)]
  BY DEF Boot, Attended, storeVars, cur
<1>2. proc'.up = "up" BY InvFacts DEF Boot, TickOK, ProcRow
<1>3. ASSUME NEW c \in Cycles, c > cur PROVE task'[c] = NoTask
  BY <1>1, <1>3 DEF Attended, Recovered, NoTask
<1>4. ASSUME HasCycle
      PROVE  AttendedRow(campaign.status, cycle[cur], attempt[cur], Recovered(cur), NoRun,
                         "up", "idle")
  <2>0. cur \in Cycles /\ task[cur] \in TaskRow BY <1>4, Here
  <2>1. AttendedRow(campaign.status, cycle[cur], attempt[cur], task[cur], NoRun,
                    proc.up, "idle")
    BY <1>1, <1>4, <2>0 DEF Attended, Idle
  <2> DEFINE t == Recovered(cur)
  <2>2. /\ t.head = task[cur].head
        /\ t.status \notin {"deploying", "shipping"}
        /\ t.status = "building" =>
             /\ cycle[cur].status \in {"proposing", "delivering"}
             /\ cycle[cur].gates = "revalidate"
    BY <2>0 DEF Recovered, TaskRow
  <2>3. attempt[cur].n = 0 => Untouched(t, NoRun)
    <3> SUFFICES ASSUME attempt[cur].n = 0 PROVE Untouched(t, NoRun) OBVIOUS
    <3>1. PICK s \in {"none", "clarifying", "failed"} : task[cur] = [NoTask EXCEPT !.status = s]
      BY <2>1 DEF AttendedRow, Untouched
    <3>2. cycle[cur].gates # "revalidate"
      BY <2>1, <3>1 DEF AttendedRow, NoTask
    <3>3. t \in {task[cur], [task[cur] EXCEPT !.status = "clarifying"],
                 [task[cur] EXCEPT !.status = "failed"]}
      BY <3>2 DEF Recovered
    <3>4. CASE t = task[cur] BY <3>1, <3>4 DEF Untouched
    <3>5. CASE t = [task[cur] EXCEPT !.status = "clarifying"]
      <4>1. t = [NoTask EXCEPT !.status = "clarifying"] BY <3>1, <3>5 DEF NoTask
      <4>2. QED BY <4>1 DEF Untouched
    <3>6. CASE t = [task[cur] EXCEPT !.status = "failed"]
      <4>1. t = [NoTask EXCEPT !.status = "failed"] BY <3>1, <3>6 DEF NoTask
      <4>2. QED BY <4>1 DEF Untouched
    <3>7. QED BY <3>3, <3>4, <3>5, <3>6
  <2> HIDE DEF t
  <2>4. NoRun.phase = "off" BY DEF NoRun
  <2>5. Rest(cycle[cur]) \in Release => ReleaseRow(t, NoRun)
    BY <2>2, <2>4 DEF ReleaseRow, Rest, Release
  <2>6. RowLeft(cycle[cur], t, NoRun)
    BY <2>1, <2>2 DEF AttendedRow, RowLeft, Working
  <2>7. AttendedRow(campaign.status, cycle[cur], attempt[cur], t, NoRun, "up", "idle")
    BY <2>1, <2>2, <2>3, <2>4, <2>5, <2>6
    DEF AttendedRow, Unjudged, Remembered, TickAt, Releasing
  <2>8. QED BY <2>7 DEF t
<1>5. HasCycle => run'[cur] = NoRun /\ task'[cur] = Recovered(cur) BY <1>1, Here
<1>6. tick'.pc = "idle" BY <1>1 DEF Idle
<1>7. \A c \in Cycles : c > cur' => task'[c] = NoTask /\ run'[c] = NoRun
  BY <1>1, <1>3
<1>8. QED BY <1>1, <1>2, <1>4, <1>5, <1>6, <1>7 DEF Attended, Up, HasCycle

-----------------------------------------------------------------------------
(* The theorem *)

\* Nothing is in progress before the campaign starts.
LEMMA InitAttended == Init => Attended
  BY DEF Init, StoreInit, RunInit, Attended, Up, HasCycle, cur

\* Attended is inductive, given Inv before and after the step.
LEMMA NextAttended == Inv /\ Inv' /\ Attended /\ [Next]_vars => Attended'
<1> SUFFICES ASSUME Inv, Inv', Attended, [Next]_vars PROVE Attended' OBVIOUS
<1>1. CASE Up /\ ~HandingOff /\ Operator
  BY <1>1, BeginAttended, PauseAttended, ResumeAttended, StopAttended DEF Operator
<1>2. CASE Up /\ Coordinator BY <1>2, CoordinatorAttended
<1>3. CASE Up /\ ~HandingOff /\ TaskRuns BY <1>3, TaskRunsAttended
<1>4. CASE Up /\ (HandoffLinks \/ HandoffCreatesAttempt \/ HandoffLaunches)
  BY <1>4, HandoffLinksAttended, HandoffCreatesAttended, HandoffLaunchesAttended
<1>5. CASE Expire \/ World BY <1>5, WorldAttended
<1>6. CASE Crash BY <1>6, CrashAttended
<1>7. CASE Boot BY <1>7, BootAttended
<1>8. CASE UNCHANGED vars
  BY <1>8, OutsideAttended DEF vars, storeVars, runVars, coordVars, cur
<1>9. QED BY <1>1, <1>2, <1>3, <1>4, <1>5, <1>6, <1>7, <1>8 DEF Next

\* Whatever crashes, pauses, faults and retries come in between, a task of the current
\* feature is in progress only while a run, the tick or a queued resume will see to it,
\* unless an interrupted run met a launch of the coordinator's that nobody queues.
THEOREM CampaignLosesNoRun == Spec => []NoRunIsLost
<1>1. Init => Inv /\ Attended BY InitInv, InitAttended
<1>2. Inv /\ Attended /\ [Next]_vars => (Inv /\ Attended)'
  BY NextInv, NextAttended
<1>3. Inv /\ Attended => NoRunIsLost BY AttendedIsEnough
<1>4. QED BY <1>1, <1>2, <1>3, PTL DEF Spec

=============================================================================
