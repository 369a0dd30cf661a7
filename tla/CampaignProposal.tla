--------------------------- MODULE CampaignProposal ---------------------------
(***************************************************************************)
(* How the next feature of a campaign is picked                            *)
(* (engine/autonomous-campaign-proposal.ts, autonomous-campaign-evidence.ts *)
(* and prepareProposalWithLease, startProposalPreparation and runOnce of   *)
(* autonomous-campaign-coordinator.ts).                                    *)
(*                                                                         *)
(* The pod that holds the lease captures evidence at the base commit, asks *)
(* one model for candidates and another for a critique, and writes the     *)
(* decision.  Both calls take minutes: meanwhile the lease may pass to     *)
(* another pod, which then prepares the same cycle, and the operator may   *)
(* pause or stop.  What is written is checked against the rows as they are *)
(* then, but what is known about earlier features was read before.         *)
(*                                                                         *)
(* A candidate is its fingerprint and whether policy allows it.  The       *)
(* delivery of an accepted feature is one step (Campaign.tla has it).      *)
(***************************************************************************)
EXTENDS Naturals, FiniteSets

CONSTANTS
  Owner,       \* pods
  Fingerprint, \* fingerprints of candidates
  None,        \* no owner, no fingerprint
  MaxCycle,    \* bound: features
  MaxTip,      \* bound: commits of the base branch
  MaxOutside   \* bound: operator's actions, stalls, crashes, lost connections, bad output

ASSUME ProposalAssumption ==
  /\ None \notin Owner \cup Fingerprint
  /\ {MaxCycle, MaxTip} \subseteq Nat \ {0} /\ MaxOutside \in Nat

VARIABLES
  campaign,   \* its row: status, current cycle, lease
  cycle,      \* the rows of the cycles, as far as proposals go
  tip,        \* the head of the base branch
  prep,       \* proposalPreparations, activeProposalExecutions: each pod's
  up,         \* the pods there are
  overlapped, \* history: the cycles two pods have prepared at once
  outside     \* what MaxOutside counts

proposalVars == <<campaign, cycle, tip, prep, up, overlapped, outside>>

Cycles == 1..MaxCycle
NoRow == [status |-> "none", base |-> 0, snapshot |-> 0, proposal |-> None,
          on |-> 0, rejected |-> {}]
NewRow(base) == [NoRow EXCEPT !.status = "proposing", !.base = base]

\* .cands: the candidates the critic has before it; .barred: those it cannot
\* have; .pick, .out: the decision on its way to the database.
NoPrep == [at |-> "idle", cycle |-> 0, base |-> 0, known |-> {}, cands |-> {},
           barred |-> {}, pick |-> None, out |-> {}, again |-> FALSE, cancelled |-> FALSE]

ProposalInit ==
  /\ campaign = [status |-> "running", current |-> 1, owner |-> None, live |-> FALSE]
  /\ cycle = [c \in Cycles |-> IF c = 1 THEN NewRow(0) ELSE NoRow]
  /\ tip = 1 /\ prep = [o \in Owner |-> NoPrep] /\ up = Owner
  /\ overlapped = {} /\ outside = 0

-----------------------------------------------------------------------------
(* The rows and the lease *)

cur == campaign.current
Row == cycle[cur]
SetRow(row) == cycle' = [cycle EXCEPT ![cur] = row]
Outside == outside < MaxOutside /\ outside' = outside + 1

\* Mutant: an expired lease is its owner's until it gives it up.
HeldFor(o) == campaign.owner \in {None, o}

\* claimCampaignLease: the lease is o's, nobody's or expired.
LeaseFree(o) == campaign.live => campaign.owner = o
Leased(o) == [campaign EXCEPT !.owner = o, !.live = TRUE]

\* requireProposingCycle, and the guard of the capture.
Proposing(c) == campaign.status = "running" /\ cycle[c].status = "proposing"

\* A pod that is gone renews nothing; one that stalls renews late.
LeaseExpires ==
  /\ campaign.live /\ campaign' = [campaign EXCEPT !.live = FALSE]
  /\ \/ campaign.owner \notin up /\ UNCHANGED outside
     \/ campaign.owner \in up /\ Outside
  /\ UNCHANGED <<cycle, tip, prep, up, overlapped>>

\* runOnce begins by renewing the leases of its own campaigns.
RenewsLease(o) ==
  /\ o \in up /\ campaign.status = "running" /\ campaign.owner = o /\ ~campaign.live
  /\ campaign' = Leased(o)
  /\ UNCHANGED <<cycle, tip, prep, up, overlapped, outside>>

BaseMoves ==
  /\ tip < MaxTip /\ tip' = tip + 1
  /\ UNCHANGED <<campaign, cycle, prep, up, overlapped, outside>>

-----------------------------------------------------------------------------
(* The operator, whose request reaches some pod: only the execution there  *)
(* is cancelled.                                                           *)

Cancelled(o, c) == [prep EXCEPT ![o].cancelled = @ \/ prep[o].cycle = c]

PauseProposal(o) ==
  /\ o \in up /\ Outside /\ Proposing(cur)
  /\ campaign' = [campaign EXCEPT !.status = "paused"]
  /\ SetRow([Row EXCEPT !.status = "paused"])
  /\ prep' = Cancelled(o, cur)
  /\ UNCHANGED <<tip, up, overlapped>>

ResumeProposal ==
  /\ campaign.status = "paused"
  /\ campaign' = [campaign EXCEPT !.status = "running"]
  /\ SetRow([Row EXCEPT !.status = "proposing"])
  /\ UNCHANGED <<tip, prep, up, overlapped, outside>>

StopProposal(o) ==
  /\ o \in up /\ Outside /\ campaign.status # "stopped" /\ Row.status # "delivering"
  /\ campaign' = [campaign EXCEPT !.status = "stopped", !.owner = None, !.live = FALSE]
  /\ SetRow([Row EXCEPT !.status = "stopped"])
  /\ prep' = Cancelled(o, cur)
  /\ UNCHANGED <<tip, up, overlapped>>

\* A pod is replaced: its preparation is gone and its name does not come back.
PodDies(o) ==
  /\ up # {o} /\ o \in up /\ Outside
  /\ up' = up \ {o} /\ prep' = [prep EXCEPT ![o] = NoPrep]
  /\ UNCHANGED <<campaign, cycle, tip, overlapped>>

-----------------------------------------------------------------------------
(* A preparation *)

Preparing(o, c) == prep[o].at # "idle" /\ prep[o].cycle = c

\* Mutant: only the features that were accepted.
KnownAccepted == {cycle[c].proposal : c \in Cycles} \ {None}

\* getCampaignProposalFingerprints: accepted or rejected, in any cycle.
Known == UNION {cycle[c].rejected \cup ({cycle[c].proposal} \ {None}) : c \in Cycles}

\* generateAndCritiqueCampaignProposal, up to its first await: the base of the
\* snapshot and what is known are read now.
Generating(o, base) == [prep EXCEPT ![o] = [NoPrep EXCEPT !.at = "generating", !.cycle = cur,
                                              !.base = base, !.known = Known]]

\* runOnce on a cycle without a proposal: the lease is claimed and a
\* preparation started, unless this pod has one; stored evidence is taken up.
Prepare(o) ==
  /\ o \in up /\ Proposing(cur) /\ Row.proposal = None
  /\ prep[o].at = "idle" /\ LeaseFree(o)
  /\ campaign' = Leased(o)
  /\ prep' = IF Row.snapshot # 0 THEN Generating(o, Row.snapshot)
             ELSE [prep EXCEPT ![o] = [NoPrep EXCEPT
                     !.at = IF Row.base = 0 THEN "resolving" ELSE "capturing",
                     !.cycle = cur, !.base = Row.base]]
  /\ overlapped' = IF \E p \in Owner : Preparing(p, cur) THEN overlapped \cup {cur}
                   ELSE overlapped
  /\ UNCHANGED <<cycle, tip, up, outside>>

\* captureCampaignEvidence asks for the head when the cycle has no base yet.
Resolve(o) ==
  /\ prep[o].at = "resolving"
  /\ prep' = [prep EXCEPT ![o].at = "capturing", ![o].base = tip]
  /\ UNCHANGED <<campaign, cycle, tip, up, overlapped, outside>>

Ends(o) == prep' = [prep EXCEPT ![o] = NoPrep]

\* Mutant: the second capture overwrites the first.
CaptureLast(o) ==
  /\ prep[o].at = "capturing"
  /\ IF Proposing(prep[o].cycle) /\ Row.proposal = None
     THEN SetRow([Row EXCEPT !.snapshot = prep[o].base, !.base = prep[o].base])
     ELSE UNCHANGED cycle
  /\ IF Proposing(cur) /\ prep[o].cycle = cur /\ Row.proposal = None /\ ~prep[o].cancelled
     THEN prep' = Generating(o, cycle'[cur].snapshot) ELSE Ends(o)
  /\ UNCHANGED <<campaign, tip, up, overlapped, outside>>

\* The transaction at the end of captureCampaignEvidence, whose first
\* snapshot stays, and what prepareConfiguredCampaignProposal does with it.
Capture(o) ==
  /\ prep[o].at = "capturing"
  /\ LET c == prep[o].cycle
         open == Proposing(c) /\ cycle[c].proposal = None
     IN /\ IF open /\ cycle[c].snapshot = 0
           THEN SetRow([Row EXCEPT !.snapshot = prep[o].base, !.base = prep[o].base])
           ELSE UNCHANGED cycle
        /\ IF open /\ ~prep[o].cancelled
           THEN prep' = Generating(o, cycle'[c].snapshot) ELSE Ends(o)
  /\ UNCHANGED <<campaign, tip, up, overlapped, outside>>

\* mandatoryRejection, which takes nothing but what is fixed by now: a known
\* fingerprint, or policy forbids the candidate.
Barred(o, cands, unfit) == (cands \cap prep[o].known) \cup unfit

\* runStructuredProposalTool: the candidates come, each allowed by policy or not.
Generated(o) ==
  /\ prep[o].at = "generating" /\ ~prep[o].cancelled
  /\ \E cands \in SUBSET Fingerprint \ {{}} : \E unfit \in SUBSET cands :
       prep' = [prep EXCEPT ![o].at = "critiquing", ![o].cands = cands, ![o].again = FALSE,
                            ![o].barred = Barred(o, cands, unfit), ![o].known = {}]
  /\ UNCHANGED <<campaign, cycle, tip, up, overlapped, outside>>

Leaving(o) == [NoPrep EXCEPT !.at = "leaving", !.cycle = prep[o].cycle, !.base = prep[o].base]

\* decideProposal: policy and what is known come before the critic, and its
\* selection is dropped when they reject it.
Decide(o, selected, rejected) ==
  LET refused == prep[o].barred \cup rejected
  IN [prep EXCEPT ![o] = [Leaving(o) EXCEPT
                            !.out = refused,
                            !.pick = IF selected \in refused THEN None ELSE selected]]

\* The critic selects one or rejects them all; the decision waits for the
\* session's disconnect, after which nothing asks whether it was cancelled.
Critique(o) ==
  /\ prep[o].at = "critiquing" /\ ~prep[o].cancelled
  /\ \/ \E s \in prep[o].cands : \E r \in SUBSET (prep[o].cands \ {s}) : prep' = Decide(o, s, r)
     \/ prep' = Decide(o, None, prep[o].cands)
  /\ UNCHANGED <<campaign, cycle, tip, up, overlapped, outside>>

InCall(o) == prep[o].at \in {"generating", "critiquing"}

\* A closed connection is tried again once.
ConnectionCloses(o) ==
  /\ InCall(o) /\ ~prep[o].cancelled /\ Outside
  /\ IF prep[o].again THEN Ends(o) ELSE prep' = [prep EXCEPT ![o].again = TRUE]
  /\ UNCHANGED <<campaign, cycle, tip, up, overlapped>>

\* Output that is not what was asked for, or none in time.
BadOutput(o) ==
  /\ InCall(o) /\ ~prep[o].cancelled /\ Outside /\ Ends(o)
  /\ UNCHANGED <<campaign, cycle, tip, up, overlapped>>

Aborts(o) ==
  /\ InCall(o) /\ prep[o].cancelled /\ Ends(o)
  /\ UNCHANGED <<campaign, cycle, tip, up, overlapped, outside>>

\* Mutant: the guard on an accepted proposal is the one from before the calls.
WritesLast(o) ==
  IF Proposing(prep[o].cycle)
  THEN SetRow([Row EXCEPT !.rejected = @ \cup prep[o].out,
                          !.proposal = IF prep[o].pick = None THEN @ ELSE prep[o].pick,
                          !.on = IF prep[o].pick = None THEN @ ELSE prep[o].base])
  ELSE UNCHANGED cycle

\* persistProposalDecision: the first acceptance stays; the lease is not asked for.
Writes(o) ==
  IF Proposing(prep[o].cycle) /\ Row.proposal = None
  THEN SetRow([Row EXCEPT !.rejected = @ \cup prep[o].out, !.proposal = prep[o].pick,
                          !.on = IF prep[o].pick = None THEN 0 ELSE prep[o].base])
  ELSE UNCHANGED cycle

\* After it the lease is renewed if it can be.
Persist(o) ==
  /\ prep[o].at = "leaving" /\ Writes(o) /\ Ends(o)
  /\ campaign' = IF campaign.status # "stopped" /\ LeaseFree(o) THEN Leased(o) ELSE campaign
  /\ UNCHANGED <<tip, up, overlapped, outside>>

\* Every third of the lease's time while a preparation lasts.
Heartbeat(o) ==
  /\ prep[o].at # "idle"
  /\ IF campaign.status # "stopped" /\ LeaseFree(o)
     THEN campaign' = Leased(o) /\ UNCHANGED prep
     ELSE UNCHANGED campaign /\ prep' = [prep EXCEPT ![o].cancelled = TRUE]
  /\ UNCHANGED <<cycle, tip, up, overlapped, outside>>

\* The coordinator hands the accepted feature over; it lands, and after the
\* cooldown the next cycle begins at the head of then.
HandOff(o) ==
  /\ o \in up /\ Proposing(cur) /\ Row.proposal # None /\ LeaseFree(o)
  /\ campaign' = Leased(o) /\ SetRow([Row EXCEPT !.status = "delivering"])
  /\ UNCHANGED <<tip, prep, up, overlapped, outside>>

Advance(o) ==
  /\ o \in up /\ Row.status = "delivering" /\ cur < MaxCycle /\ tip < MaxTip /\ LeaseFree(o)
  /\ tip' = tip + 1
  /\ cycle' = [cycle EXCEPT ![cur].status = "succeeded", ![cur + 1] = NewRow(tip + 1)]
  /\ campaign' = [Leased(o) EXCEPT !.current = @ + 1]
  /\ UNCHANGED <<prep, up, overlapped, outside>>

-----------------------------------------------------------------------------
Steps(o) == Resolve(o) \/ Capture(o) \/ Generated(o) \/ Critique(o) \/ Aborts(o) \/ Persist(o)

ProposalNext ==
  \/ LeaseExpires \/ BaseMoves \/ ResumeProposal
  \/ \E o \in Owner :
       \/ Prepare(o) \/ Steps(o) \/ Heartbeat(o) \/ RenewsLease(o) \/ HandOff(o) \/ Advance(o)
       \/ PauseProposal(o) \/ StopProposal(o) \/ PodDies(o)
       \/ ConnectionCloses(o) \/ BadOutput(o)

\* Ticks come, calls of the model have a time limit, time passes.
ProposalFairness ==
  /\ WF_proposalVars(LeaseExpires)
  /\ \A o \in Owner : WF_proposalVars(Prepare(o)) /\ WF_proposalVars(Steps(o))

ProposalSpec == ProposalInit /\ [][ProposalNext]_proposalVars /\ ProposalFairness

-----------------------------------------------------------------------------
(* Properties *)

\* The types of the rows, and that no preparation leaves with a candidate it has
\* itself ruled out.
ProposalTypeOK ==
  /\ campaign.status \in {"running", "paused", "stopped"} /\ cur \in Cycles
  /\ campaign.owner \in Owner \cup {None} /\ campaign.live => campaign.owner # None
  /\ \A c \in Cycles : /\ cycle[c].status \in {"none", "proposing", "paused", "delivering",
                                               "succeeded", "stopped"}
                       /\ cycle[c].proposal \in Fingerprint \cup {None}
                       /\ cycle[c].rejected \subseteq Fingerprint
                       /\ {cycle[c].base, cycle[c].snapshot, cycle[c].on} \subseteq 0..MaxTip
  /\ \A o \in Owner : prep[o].at = "leaving" => prep[o].pick \notin prep[o].out

\* A feature is not picked twice: what is accepted was neither accepted nor
\* rejected in an earlier cycle, though what is known was read minutes before.
NeverTwice ==
  \A c \in Cycles : \A d \in 1..(c - 1) :
    cycle[c].proposal # None =>
      cycle[c].proposal # cycle[d].proposal /\ cycle[c].proposal \notin cycle[d].rejected

\* Nor was it rejected earlier in the same cycle, unless two pods prepared the
\* cycle at once: the second does not know what the first is rejecting.
RejectedStaysRejected ==
  \A c \in Cycles \ overlapped : cycle[c].proposal \notin cycle[c].rejected

\* What was decided about a candidate holds for later preparations, of the
\* same cycle and of later ones.
NeverAgain == NeverTwice /\ RejectedStaysRejected

\* An accepted feature rests on the evidence stored with its cycle, whoever
\* captured it and however far the branch has moved.
RestsOnEvidence ==
  \A c \in Cycles : cycle[c].proposal # None =>
    cycle[c].on # 0 /\ cycle[c].on = cycle[c].snapshot /\ cycle[c].on = cycle[c].base

\* The rows are well formed, and nothing is accepted without its evidence.
ProposalInv == ProposalTypeOK /\ RestsOnEvidence

\* The decision on a feature is taken once: preparations that end later, for
\* whatever pod and whatever cycle is current by then, change nothing, and no
\* rejection that was written is lost.
DecidedOnce ==
  [][\A c \in Cycles :
       /\ cycle[c].rejected \subseteq cycle'[c].rejected
       /\ cycle[c].proposal # None => /\ cycle'[c].proposal = cycle[c].proposal
                                      /\ cycle'[c].rejected = cycle[c].rejected]_proposalVars

\* A running campaign whose cycle has no feature is not forgotten, whatever
\* became of the pod that was preparing it.
SomebodyPrepares ==
  (Proposing(cur) /\ Row.proposal = None)
    ~> (\/ ~Proposing(cur) \/ Row.proposal # None
        \/ \E o \in up : prep[o].at # "idle" /\ prep[o].cycle = cur)

=============================================================================
