------------------------ MODULE CampaignProposalProofs ------------------------
(***************************************************************************)
(* Proofs about CampaignProposal, for any number of pods, cycles and       *)
(* candidates: no feature is picked twice, an accepted one rests on the    *)
(* evidence stored with its cycle, and a decision is taken once.           *)
(*                                                                         *)
(* What a preparation knows was read before its calls of the models, and   *)
(* it is written minutes later.  The argument is that the decisions which  *)
(* matter cannot change meanwhile: those of the cycles before the one it   *)
(* prepares are never written again (only the current cycle's row is, and  *)
(* only while it is proposing), and those of that cycle itself only by     *)
(* another pod that prepares it too.  Settled names these cycles; what was *)
(* decided in them is known to the generator, barred from the critic and   *)
(* no part of what leaves for the database (PrepOK).                       *)
(***************************************************************************)
EXTENDS CampaignProposal, TLAPS

CampaignRow ==
  [status : {"running", "paused", "stopped"}, current : Cycles,
   owner : Owner \cup {None}, live : BOOLEAN]
CycleRow ==
  [status : {"none", "proposing", "paused", "delivering", "succeeded", "stopped"},
   base : 0..MaxTip, snapshot : 0..MaxTip, proposal : Fingerprint \cup {None},
   on : 0..MaxTip, rejected : SUBSET Fingerprint]
PrepRow ==
  [at : {"idle", "resolving", "capturing", "generating", "critiquing", "leaving"},
   cycle : 0..MaxCycle, base : 0..MaxTip, known : SUBSET Fingerprint,
   cands : SUBSET Fingerprint, barred : SUBSET Fingerprint,
   pick : Fingerprint \cup {None}, out : SUBSET Fingerprint,
   again : BOOLEAN, cancelled : BOOLEAN]

\* The rows hold only values their writers put there.
RowsOK ==
  /\ campaign \in CampaignRow
  /\ campaign.live => campaign.owner # None
  /\ cycle \in [Cycles -> CycleRow]
  /\ prep \in [Owner -> PrepRow]
  /\ tip \in 1..MaxTip
  /\ overlapped \subseteq Cycles

\* Cycles are serial, and a stored snapshot is at its cycle's base.
CyclesOK ==
  \A c \in Cycles :
    /\ c < cur => cycle[c].status = "succeeded"
    /\ c > cur => cycle[c] = NoRow
    /\ cycle[c].snapshot # 0 => cycle[c].base = cycle[c].snapshot

\* What was decided in cycle c.
Decided(c) == cycle[c].rejected \cup ({cycle[c].proposal} \ {None})

\* The cycles nobody else can decide about while p is under way.
Settled(p) == {d \in Cycles : d < p.cycle \/ (d = p.cycle /\ d \notin overlapped)}

PrepOK(p) ==
  /\ p.at # "idle" => p.cycle \in Cycles /\ p.cycle <= cur
  /\ p.at = "capturing" => p.base # 0
  /\ p.at \in {"generating", "critiquing", "leaving"} =>
       p.base # 0 /\ p.base = cycle[p.cycle].snapshot
  /\ p.at = "generating" => \A d \in Settled(p) : Decided(d) \subseteq p.known
  /\ p.at = "critiquing" => \A d \in Settled(p) : Decided(d) \cap p.cands \subseteq p.barred
  /\ p.at = "leaving" => p.pick \notin p.out /\ \A d \in Settled(p) : p.pick \notin Decided(d)

\* Two pods prepare the same cycle only where the history says so.
Alone ==
  \A o, q \in Owner : \A c \in Cycles :
    o # q /\ Preparing(o, c) /\ Preparing(q, c) => c \in overlapped

PIInv ==
  /\ RowsOK
  /\ CyclesOK
  /\ \A o \in Owner : PrepOK(prep[o])
  /\ Alone
  /\ RestsOnEvidence
  /\ NeverAgain

-----------------------------------------------------------------------------
(* Rows *)

\* What the assumptions say about the constants.
LEMMA ConstFacts ==
  /\ None \notin Owner /\ None \notin Fingerprint
  /\ MaxCycle \in Nat \ {0} /\ MaxTip \in Nat \ {0} /\ MaxOutside \in Nat
  /\ Cycles \subseteq Nat /\ 1 \in Cycles
  BY ProposalAssumption DEF Cycles

\* The typing facts RowsOK holds.
LEMMA RowFacts ==
  ASSUME RowsOK
  PROVE  /\ cur \in Cycles /\ cur \in Nat /\ Row \in CycleRow
         /\ campaign.owner \in Owner \cup {None}
         /\ \A c \in Cycles : cycle[c] \in CycleRow /\ Decided(c) \subseteq Fingerprint
         /\ \A o \in Owner : prep[o] \in PrepRow
<1>1. cur \in Cycles /\ cur \in Nat /\ campaign.owner \in Owner \cup {None}
  BY ConstFacts DEF RowsOK, CampaignRow, cur
<1>2. \A c \in Cycles : cycle[c] \in CycleRow BY DEF RowsOK
<1>3. \A c \in Cycles : Decided(c) \subseteq Fingerprint BY <1>2 DEF Decided, CycleRow
<1>4. \A o \in Owner : prep[o] \in PrepRow BY DEF RowsOK
<1>5. QED BY <1>1, <1>2, <1>3, <1>4 DEF Row

\* The row of a cycle that has not begun.
LEMMA NoRowOK == NoRow \in CycleRow /\ NoRow.status = "none" /\ NoRow.proposal = None
                 /\ NoRow.rejected = {} /\ NoRow.snapshot = 0
  BY ConstFacts DEF NoRow, CycleRow

\* A pod that prepares nothing.
LEMMA NoPrepOK == NoPrep \in PrepRow /\ NoPrep.at = "idle"
  BY ConstFacts DEF NoPrep, PrepRow

\* An idle pod prepares nothing, whatever the rows.
LEMMA IdleOK == ASSUME NEW p, p.at = "idle" PROVE PrepOK(p) /\ PrepOK(p)'
  BY DEF PrepOK

\* No decision is taken and no snapshot is replaced.
Kept ==
  /\ cur' \in Nat /\ cur <= cur'
  /\ overlapped \subseteq overlapped'
  /\ \A c \in Cycles : /\ cycle'[c].proposal = cycle[c].proposal
                       /\ cycle'[c].rejected = cycle[c].rejected
                       /\ cycle[c].snapshot # 0 => cycle'[c].snapshot = cycle[c].snapshot

\* A preparation survives the steps of others that decide nothing.
LEMMA PrepKept ==
  ASSUME RowsOK, Kept, NEW p \in PrepRow, PrepOK(p)
  PROVE  PrepOK(p)'
<1>1. CASE p.at = "idle" BY <1>1, IdleOK
<1>2. CASE p.at # "idle"
  <2>0. p.cycle \in Cycles /\ p.cycle <= cur BY <1>2 DEF PrepOK
  <2>1. p.cycle \in Cycles /\ p.cycle <= cur' /\ p.cycle \in Nat
    <3>1. cur \in Nat /\ cur' \in Nat /\ cur <= cur' BY RowFacts DEF Kept
    <3>2. p.cycle \in Nat BY <2>0, ConstFacts
    <3>3. QED BY <2>0, <3>1, <3>2
  <2>2. \A d : d \in Settled(p)' => d \in Settled(p) /\ d \in Cycles
    BY DEF Settled, Kept
  <2>3. \A d \in Cycles : Decided(d)' = Decided(d) BY DEF Kept, Decided
  <2>4. p.at \in {"generating", "critiquing", "leaving"} =>
          p.base # 0 /\ p.base = cycle'[p.cycle].snapshot
    BY <2>1 DEF PrepOK, Kept
  <2>5. QED BY <2>1, <2>2, <2>3, <2>4 DEF PrepOK
<1>3. QED BY <1>1, <1>2

\* What was decided stays as it was decided.
LEMMA DecisionsKept ==
  ASSUME RowsOK, RestsOnEvidence, NeverAgain, Kept,
         \A c \in Cycles : cycle'[c].proposal # None =>
           /\ cycle'[c].on = cycle[c].on
           /\ cycle[c].base = cycle[c].snapshot => cycle'[c].base = cycle[c].base
  PROVE  RestsOnEvidence' /\ NeverAgain'
<1>1. RestsOnEvidence' BY DEF RestsOnEvidence, Kept
<1>2. NeverTwice'
  <2>1. ASSUME NEW c \in Cycles, NEW d \in 1..(c - 1) PROVE d \in Cycles
    BY <2>1, ConstFacts DEF Cycles
  <2>2. QED BY <2>1 DEF NeverAgain, NeverTwice, Kept
<1>3. RejectedStaysRejected' BY DEF NeverAgain, RejectedStaysRejected, Kept
<1>4. QED BY <1>1, <1>2, <1>3 DEF NeverAgain

\* The conjuncts of PIInv but the one about two pods.
PartsOK == RowsOK /\ CyclesOK /\ RestsOnEvidence /\ NeverAgain

\* A step that leaves the cycles alone.
LEMMA CyclesStay ==
  ASSUME PIInv, UNCHANGED cycle, cur' = cur, overlapped \subseteq overlapped'
  PROVE  Kept /\ CyclesOK' /\ RestsOnEvidence' /\ NeverAgain'
<1>1. Kept BY RowFacts DEF PIInv, Kept
<1>2. CyclesOK' BY DEF PIInv, CyclesOK
<1>3. QED BY <1>1, <1>2, DecisionsKept DEF PIInv

\* A step that moves the current cycle to another status.
LEMMA StatusStep ==
  ASSUME PIInv, cur' = cur, overlapped \subseteq overlapped',
         NEW s \in {"none", "proposing", "paused", "delivering", "succeeded", "stopped"},
         SetRow([Row EXCEPT !.status = s])
  PROVE  /\ cycle' \in [Cycles -> CycleRow]
         /\ Kept /\ CyclesOK' /\ RestsOnEvidence' /\ NeverAgain'
<1> DEFINE r == [Row EXCEPT !.status = s]
<1>1. cur \in Cycles /\ cur \in Nat /\ Row \in CycleRow /\ Cycles \subseteq Nat
  BY RowFacts, ConstFacts DEF PIInv
<1>2. /\ r \in CycleRow /\ r.base = Row.base /\ r.snapshot = Row.snapshot
      /\ r.proposal = Row.proposal /\ r.on = Row.on /\ r.rejected = Row.rejected
  BY <1>1 DEF CycleRow
<1> HIDE DEF r
<1>3. cycle \in [Cycles -> CycleRow] /\ cycle' = [cycle EXCEPT ![cur] = r]
  BY DEF PIInv, RowsOK, SetRow, r
<1>4. cycle' \in [Cycles -> CycleRow] BY <1>1, <1>2, <1>3
<1>5. \A c \in Cycles :
        /\ cycle'[c].base = cycle[c].base /\ cycle'[c].snapshot = cycle[c].snapshot
        /\ cycle'[c].proposal = cycle[c].proposal /\ cycle'[c].on = cycle[c].on
        /\ cycle'[c].rejected = cycle[c].rejected
        /\ c # cur => cycle'[c] = cycle[c]
  BY <1>1, <1>2, <1>3 DEF Row
<1>6. Kept BY <1>1, <1>5 DEF Kept
<1>7. CyclesOK' BY <1>1, <1>5 DEF PIInv, CyclesOK
<1>8. QED BY <1>4, <1>5, <1>6, <1>7, DecisionsKept DEF PIInv

-----------------------------------------------------------------------------
(* Preparations *)

PrepsOK == \A o \in Owner : PrepOK(prep[o])

\* One pod's preparation goes on, the others' stay as they are.
LEMMA OnePrep ==
  ASSUME PIInv, Kept, NEW o \in Owner, NEW p \in PrepRow,
         prep' = [prep EXCEPT ![o] = p], PrepOK(p)'
  PROVE  prep' \in [Owner -> PrepRow] /\ PrepsOK'
<1>1. prep \in [Owner -> PrepRow] /\ prep' \in [Owner -> PrepRow] BY DEF PIInv, RowsOK
<1>2. ASSUME NEW q \in Owner PROVE PrepOK(prep[q])'
  <2>1. PICK x \in PrepRow : x = prep'[q] /\ PrepOK(x)'
    <3>1. CASE q = o BY <1>1, <3>1
    <3>2. CASE q # o
      <4>1. PICK x \in PrepRow : x = prep[q] /\ PrepOK(x) BY <1>1 DEF PIInv
      <4>2. PrepOK(x)' BY <4>1, PrepKept DEF PIInv
      <4>3. QED BY <1>1, <3>2, <4>1, <4>2
    <3>3. QED BY <3>1, <3>2
  <2>2. QED BY <2>1 DEF PrepOK, Settled
<1>3. QED BY <1>1, <1>2 DEF PrepsOK

\* What pod o does next about the cycle it prepares, or a cycle that, as far as
\* is not on record, nobody else prepares.
Follows(o, p) ==
  \/ p.at = "idle"
  \/ prep[o].at # "idle" /\ p.cycle = prep[o].cycle
  \/ \A q \in Owner \ {o} : Preparing(q, p.cycle) => p.cycle \in overlapped'

\* The history knows of all cycles two pods have prepared at once.
LEMMA AloneKept ==
  ASSUME PIInv, overlapped \subseteq overlapped', NEW o \in Owner, NEW p,
         prep' = [prep EXCEPT ![o] = p], Follows(o, p)
  PROVE  Alone'
<1> SUFFICES ASSUME NEW q \in Owner, NEW r \in Owner, NEW c \in Cycles,
                    q # r, Preparing(q, c)', Preparing(r, c)'
             PROVE  c \in overlapped'
  BY DEF Alone
<1>1. prep \in [Owner -> PrepRow] /\ Alone BY DEF PIInv, RowsOK
<1>2. ASSUME NEW x \in Owner, x # o PROVE Preparing(x, c)' => Preparing(x, c)
  BY <1>1, <1>2 DEF Preparing
<1>3. CASE q # o /\ r # o
  BY <1>1, <1>2, <1>3 DEF Alone
<1>4. ASSUME NEW x \in Owner, x # o, Preparing(x, c)', Preparing(o, c)'
      PROVE  c \in overlapped'
  <2>1. Preparing(x, c) /\ p.at # "idle" /\ p.cycle = c
    BY <1>1, <1>2, <1>4 DEF Preparing
  <2>2. CASE prep[o].at # "idle" /\ p.cycle = prep[o].cycle
    BY <1>1, <1>4, <2>1, <2>2 DEF Preparing, Alone
  <2>3. CASE \A y \in Owner \ {o} : Preparing(y, p.cycle) => p.cycle \in overlapped'
    BY <1>4, <2>1, <2>3
  <2>4. QED BY <2>1, <2>2, <2>3 DEF Follows
<1>5. QED BY <1>3, <1>4

\* The campaign's row and what else is neither a cycle nor a preparation.
CampaignOK ==
  /\ campaign \in CampaignRow /\ (campaign.live => campaign.owner # None)
  /\ tip \in 1..MaxTip /\ overlapped \subseteq Cycles

\* Steps that decide nothing and leave the preparations alone.
LEMMA QuietStep ==
  ASSUME PIInv, Kept, CampaignOK', UNCHANGED prep,
         cycle' \in [Cycles -> CycleRow], CyclesOK', RestsOnEvidence', NeverAgain'
  PROVE  PIInv'
<1>1. CASE \E o \in Owner : TRUE
  <2>1. PICK o \in Owner : TRUE BY <1>1
  <2>2. PICK p \in PrepRow : p = prep[o] /\ PrepOK(p) BY DEF PIInv, RowsOK
  <2>3. prep' = [prep EXCEPT ![o] = p] BY <2>2 DEF PIInv, RowsOK
  <2>4. PrepOK(p)' BY <2>2, PrepKept DEF PIInv
  <2>5. PrepsOK' BY <2>3, <2>4, OnePrep
  <2>6. Follows(o, p) BY <2>2 DEF Follows
  <2>7. Alone' BY <2>3, <2>6, AloneKept DEF Kept
  <2>8. QED BY <2>5, <2>7 DEF PIInv, RowsOK, CampaignOK, PrepsOK
<1>2. CASE Owner = {}
  BY <1>2 DEF PIInv, RowsOK, CampaignOK, Alone
<1>3. QED BY <1>1, <1>2

\* Steps that decide nothing and are about the preparation of one pod.
LEMMA PrepStep ==
  ASSUME PIInv, Kept, CampaignOK', NEW o \in Owner, NEW p \in PrepRow,
         prep' = [prep EXCEPT ![o] = p], PrepOK(p)', Follows(o, p),
         cycle' \in [Cycles -> CycleRow], CyclesOK', RestsOnEvidence', NeverAgain'
  PROVE  PIInv'
<1>1. prep' \in [Owner -> PrepRow] /\ PrepsOK' BY OnePrep
<1>2. Alone' BY AloneKept DEF Kept
<1>3. QED BY <1>1, <1>2 DEF PIInv, RowsOK, CampaignOK, PrepsOK

\* A claimed or renewed lease.
LEMMA LeasedOK ==
  ASSUME RowsOK, NEW o \in Owner
  PROVE  /\ Leased(o) \in CampaignRow /\ Leased(o).owner # None
         /\ Leased(o).current = cur /\ Leased(o).status = campaign.status
<1>1. campaign \in CampaignRow /\ None \notin Owner BY ConstFacts DEF RowsOK
<1>2. QED BY <1>1 DEF CampaignRow, Leased, cur

-----------------------------------------------------------------------------
(* The lease, the branch, the operator and the hand-off *)

\* Steps that only write the campaign's lease or move the branch.
LEMMA LeaseStepsOK ==
  ASSUME PIInv, LeaseExpires \/ BaseMoves \/ \E o \in Owner : RenewsLease(o)
  PROVE  PIInv' /\ Kept
<1>1. /\ campaign \in CampaignRow /\ (campaign.live => campaign.owner # None)
      /\ tip \in 1..MaxTip /\ overlapped \subseteq Cycles /\ RowsOK
      /\ cycle \in [Cycles -> CycleRow]
  BY DEF PIInv, RowsOK
<1>2. CampaignOK' /\ cur' = cur
  <2>1. CASE LeaseExpires
    BY <1>1, <2>1 DEF LeaseExpires, CampaignOK, CampaignRow, cur
  <2>2. CASE BaseMoves
    BY <1>1, <2>2, ConstFacts DEF BaseMoves, CampaignOK, cur
  <2>3. ASSUME NEW o \in Owner, RenewsLease(o) PROVE CampaignOK' /\ cur' = cur
    BY <1>1, <2>3, LeasedOK DEF RenewsLease, CampaignOK, cur
  <2>4. QED BY <2>1, <2>2, <2>3
<1>3. UNCHANGED <<cycle, prep, overlapped>> BY DEF LeaseExpires, BaseMoves, RenewsLease
<1>4. QED BY <1>1, <1>2, <1>3, CyclesStay, QuietStep

\* resumeCampaign and the hand-off.
LEMMA StatusStepsOK ==
  ASSUME PIInv, ResumeProposal \/ \E o \in Owner : HandOff(o)
  PROVE  PIInv' /\ Kept
<1>1. /\ campaign \in CampaignRow /\ (campaign.live => campaign.owner # None)
      /\ tip \in 1..MaxTip /\ overlapped \subseteq Cycles /\ RowsOK
  BY DEF PIInv, RowsOK
<1>2. CampaignOK' /\ cur' = cur
  <2>1. CASE ResumeProposal
    BY <1>1, <2>1 DEF ResumeProposal, CampaignOK, CampaignRow, cur
  <2>2. ASSUME NEW o \in Owner, HandOff(o) PROVE CampaignOK' /\ cur' = cur
    BY <1>1, <2>2, LeasedOK DEF HandOff, CampaignOK, cur
  <2>3. QED BY <2>1, <2>2
<1>3. UNCHANGED <<prep, overlapped>> BY DEF ResumeProposal, HandOff
<1>4. PICK s \in {"proposing", "delivering"} : SetRow([Row EXCEPT !.status = s])
  BY DEF ResumeProposal, HandOff
<1>5. QED BY <1>2, <1>3, <1>4, StatusStep, QuietStep

\* Nothing of a preparation but that it is cancelled matters to PrepOK.
LEMMA CancelledOK ==
  ASSUME RowsOK, PrepsOK, NEW o \in Owner, NEW b \in BOOLEAN
  PROVE  \E p \in PrepRow : /\ p = [prep[o] EXCEPT !.cancelled = b]
                            /\ PrepOK(p)
                            /\ p.at = prep[o].at /\ p.cycle = prep[o].cycle
<1> DEFINE p == [prep[o] EXCEPT !.cancelled = b]
<1>1. prep[o] \in PrepRow BY DEF RowsOK
<1>2. /\ p \in PrepRow /\ p.at = prep[o].at /\ p.cycle = prep[o].cycle
      /\ p.base = prep[o].base /\ p.known = prep[o].known /\ p.cands = prep[o].cands
      /\ p.barred = prep[o].barred /\ p.pick = prep[o].pick /\ p.out = prep[o].out
  BY <1>1 DEF PrepRow
<1> HIDE DEF p
<1>3. PrepOK(p) BY <1>2 DEF PrepsOK, PrepOK, Settled
<1>4. QED BY <1>2, <1>3 DEF p

\* A row that says the same of a preparation, but for its cancellation.
LEMMA CancelStep ==
  ASSUME PIInv, Kept, CampaignOK', NEW o \in Owner, NEW b \in BOOLEAN,
         prep' = [prep EXCEPT ![o].cancelled = b],
         cycle' \in [Cycles -> CycleRow], CyclesOK', RestsOnEvidence', NeverAgain'
  PROVE  PIInv'
<1>1. PICK p \in PrepRow : /\ p = [prep[o] EXCEPT !.cancelled = b] /\ PrepOK(p)
                           /\ p.at = prep[o].at /\ p.cycle = prep[o].cycle
  BY CancelledOK DEF PIInv, PrepsOK
<1>2. prep' = [prep EXCEPT ![o] = p] BY <1>1 DEF PIInv, RowsOK
<1>3. PrepOK(p)' BY <1>1, PrepKept DEF PIInv
<1>4. QED BY <1>1, <1>2, <1>3, PrepStep DEF Follows

\* pauseCampaign and stopCampaign.
LEMMA OperatorOK ==
  ASSUME PIInv, NEW o \in Owner, PauseProposal(o) \/ StopProposal(o)
  PROVE  PIInv' /\ Kept
<1>1. /\ campaign \in CampaignRow /\ (campaign.live => campaign.owner # None)
      /\ tip \in 1..MaxTip /\ overlapped \subseteq Cycles /\ RowsOK
  BY DEF PIInv, RowsOK
<1>2. CampaignOK' /\ cur' = cur
  <2>1. CASE PauseProposal(o)
    BY <1>1, <2>1 DEF PauseProposal, CampaignOK, CampaignRow, cur
  <2>2. CASE StopProposal(o)
    BY <1>1, <2>2 DEF StopProposal, CampaignOK, CampaignRow, cur
  <2>3. QED BY <2>1, <2>2
<1>3. UNCHANGED overlapped BY DEF PauseProposal, StopProposal
<1>4. PICK s \in {"paused", "stopped"} : SetRow([Row EXCEPT !.status = s])
  BY DEF PauseProposal, StopProposal
<1>5. PICK b \in BOOLEAN : prep' = [prep EXCEPT ![o].cancelled = b]
  <2>1. prep[o] \in PrepRow BY <1>1, RowFacts
  <2>2. (prep[o].cancelled \/ prep[o].cycle = cur) \in BOOLEAN BY <2>1 DEF PrepRow
  <2>3. QED BY <2>2 DEF PauseProposal, StopProposal, Cancelled
<1>6. QED BY <1>2, <1>3, <1>4, <1>5, StatusStep, CancelStep

-----------------------------------------------------------------------------
(* The segments of a preparation *)

\* A segment that leaves the rows alone.
LEMMA Segment ==
  ASSUME PIInv, UNCHANGED <<campaign, cycle, tip>>, overlapped \subseteq overlapped',
         overlapped' \subseteq Cycles, NEW o \in Owner, NEW p \in PrepRow,
         prep' = [prep EXCEPT ![o] = p], PrepOK(p)', Follows(o, p)
  PROVE  PIInv' /\ Kept
<1>1. CampaignOK' /\ cur' = cur BY DEF PIInv, RowsOK, CampaignOK, cur
<1>2. cycle' \in [Cycles -> CycleRow] BY DEF PIInv, RowsOK
<1>3. Kept /\ CyclesOK' /\ RestsOnEvidence' /\ NeverAgain' BY <1>1, CyclesStay
<1>4. QED BY <1>1, <1>2, <1>3, PrepStep

\* A preparation that is over, without having written anything.
LEMMA EndsOK ==
  ASSUME PIInv, NEW o \in Owner, Ends(o), UNCHANGED <<campaign, cycle, tip, overlapped>>
  PROVE  PIInv' /\ Kept
<1>1. overlapped' \subseteq Cycles BY DEF PIInv, RowsOK
<1>2. QED BY <1>1, NoPrepOK, IdleOK, Segment DEF Ends, Follows

\* A preparation that fails, is aborted, or dies with its pod.
LEMMA OverOK ==
  ASSUME PIInv, NEW o \in Owner, PodDies(o) \/ BadOutput(o) \/ Aborts(o)
  PROVE  PIInv' /\ Kept
  BY EndsOK DEF PodDies, BadOutput, Aborts, Ends

\* What generateAndCritiqueCampaignProposal knows is all that was decided.
LEMMA GeneratingOK ==
  ASSUME RowsOK, NEW base \in 1..MaxTip
  PROVE  \E p \in PrepRow :
           /\ \A o : Generating(o, base) = [prep EXCEPT ![o] = p]
           /\ p.at = "generating" /\ p.cycle = cur /\ p.base = base
           /\ \A d \in Cycles : Decided(d) \subseteq p.known
<1> DEFINE p == [NoPrep EXCEPT !.at = "generating", !.cycle = cur, !.base = base,
                               !.known = Known]
<1>1. cur \in 0..MaxCycle /\ base \in 0..MaxTip
  BY RowFacts, ConstFacts DEF Cycles
<1>2. Known \in SUBSET Fingerprint
  BY RowFacts DEF Known, CycleRow, Decided
<1>3. \A d \in Cycles : Decided(d) \subseteq Known BY DEF Known, Decided
<1>4. /\ p \in PrepRow /\ p.at = "generating" /\ p.cycle = cur /\ p.base = base
      /\ p.known = Known
  <2> HIDE DEF Known
  <2> QED BY <1>1, <1>2, NoPrepOK DEF NoPrep, PrepRow
<1>5. \A o : Generating(o, base) = [prep EXCEPT ![o] = p] BY DEF Generating
<1> HIDE DEF p
<1>6. QED BY <1>3, <1>4, <1>5

\* captureCampaignEvidence has a base.
LEMMA ResolveOK == ASSUME PIInv, NEW o \in Owner, Resolve(o) PROVE PIInv' /\ Kept
<1>1. /\ prep[o] \in PrepRow /\ PrepOK(prep[o]) /\ tip \in 1..MaxTip /\ tip \in 0..MaxTip
      /\ overlapped \subseteq Cycles
  BY ConstFacts DEF PIInv, RowsOK
<1>2. PICK p \in PrepRow : /\ p = [prep[o] EXCEPT !.at = "capturing", !.base = tip]
                           /\ p.at = "capturing" /\ p.cycle = prep[o].cycle /\ p.base = tip
  <2> DEFINE q == [prep[o] EXCEPT !.at = "capturing", !.base = tip]
  <2>1. q \in PrepRow /\ q.at = "capturing" /\ q.cycle = prep[o].cycle /\ q.base = tip
    BY <1>1 DEF PrepRow
  <2> HIDE DEF q
  <2>2. QED BY <2>1 DEF q
<1>3. prep' = [prep EXCEPT ![o] = p] BY <1>1, <1>2 DEF Resolve, PIInv, RowsOK, PrepRow
<1>4. prep[o].at = "resolving" /\ UNCHANGED <<campaign, cycle, tip, overlapped>>
  BY DEF Resolve
<1>5. PrepOK(p)'
  <2>1. p.cycle \in Cycles /\ p.cycle <= cur BY <1>1, <1>2, <1>4 DEF PrepOK
  <2>2. cur' = cur BY <1>4 DEF cur
  <2>3. p.base # 0 BY <1>1, <1>2
  <2>4. QED BY <1>2, <2>1, <2>2, <2>3 DEF PrepOK
<1>6. QED BY <1>1, <1>2, <1>3, <1>4, <1>5, Segment DEF Follows

\* The candidates: those that are decided already are barred.
LEMMA GeneratedOK == ASSUME PIInv, NEW o \in Owner, Generated(o) PROVE PIInv' /\ Kept
<1>1. PICK cands \in SUBSET Fingerprint : \E unfit \in SUBSET cands :
        prep' = [prep EXCEPT ![o].at = "critiquing", ![o].cands = cands, ![o].again = FALSE,
                             ![o].barred = Barred(o, cands, unfit), ![o].known = {}]
  BY DEF Generated
<1>2. PICK unfit \in SUBSET cands :
        prep' = [prep EXCEPT ![o].at = "critiquing", ![o].cands = cands, ![o].again = FALSE,
                             ![o].barred = Barred(o, cands, unfit), ![o].known = {}]
  BY <1>1
<1> DEFINE b == Barred(o, cands, unfit)
           q == [prep[o] EXCEPT !.at = "critiquing", !.cands = cands, !.again = FALSE,
                                !.barred = b, !.known = {}]
<1>3. /\ prep[o] \in PrepRow /\ PrepOK(prep[o]) /\ prep[o].at = "generating"
      /\ UNCHANGED <<campaign, cycle, tip, overlapped>> /\ overlapped \subseteq Cycles
  BY DEF PIInv, RowsOK, Generated
<1>4. b \in SUBSET Fingerprint /\ cands \cap prep[o].known \subseteq b
  BY <1>3 DEF Barred, PrepRow
<1>5. PICK p \in PrepRow : /\ prep' = [prep EXCEPT ![o] = p]
                           /\ p.at = "critiquing" /\ p.cycle = prep[o].cycle
                           /\ p.base = prep[o].base /\ p.cands = cands /\ p.barred = b
  <2>1. /\ q \in PrepRow /\ q.at = "critiquing" /\ q.cycle = prep[o].cycle
        /\ q.base = prep[o].base /\ q.cands = cands /\ q.barred = b
    <3> HIDE DEF b
    <3> QED BY <1>3, <1>4 DEF PrepRow
  <2>2. prep' = [prep EXCEPT ![o] = q]
    BY <1>2, <1>3, ZenonT(60) DEF PIInv, RowsOK, PrepRow
  <2> HIDE DEF q
  <2>3. QED BY <2>1, <2>2
<1> HIDE DEF q, b
<1>7. PrepOK(p)
  <2>1. \A d \in Settled(p) : d \in Settled(prep[o]) BY <1>5 DEF Settled
  <2>2. QED BY <1>3, <1>4, <1>5, <2>1 DEF PrepOK
<1>8. Kept BY <1>3, CyclesStay DEF cur
<1>9. PrepOK(p)' BY <1>5, <1>7, <1>8, PrepKept DEF PIInv
<1>10. QED BY <1>3, <1>5, <1>9, Segment DEF Follows

\* decideProposal: what is barred is refused, and what is refused is not picked.
LEMMA DecideOK ==
  ASSUME PIInv, NEW o \in Owner, prep[o].at = "critiquing",
         UNCHANGED <<campaign, cycle, tip, overlapped>>,
         NEW s \in prep[o].cands \cup {None}, NEW r \in SUBSET Fingerprint,
         prep' = Decide(o, s, r)
  PROVE  PIInv' /\ Kept
<1> DEFINE refused == prep[o].barred \cup r
           pick == IF s \in refused THEN None ELSE s
           q == [Leaving(o) EXCEPT !.out = refused, !.pick = pick]
<1>1. /\ prep[o] \in PrepRow /\ PrepOK(prep[o]) /\ overlapped \subseteq Cycles
      /\ \A d \in Cycles : Decided(d) \subseteq Fingerprint
  BY RowFacts DEF PIInv, RowsOK
<1>2. /\ refused \in SUBSET Fingerprint /\ prep[o].barred \subseteq refused
      /\ pick \in prep[o].cands \cup {None} /\ pick \in Fingerprint \cup {None}
      /\ pick \notin refused
  BY <1>1, ConstFacts DEF PrepRow
<1>4. PICK p \in PrepRow : /\ prep' = [prep EXCEPT ![o] = p]
                           /\ p.at = "leaving" /\ p.cycle = prep[o].cycle
                           /\ p.base = prep[o].base /\ p.out = refused /\ p.pick = pick
  <2>1. prep' = [prep EXCEPT ![o] = q] BY DEF Decide
  <2> HIDE DEF refused, pick
  <2>2. /\ q \in PrepRow /\ q.at = "leaving" /\ q.cycle = prep[o].cycle
        /\ q.base = prep[o].base /\ q.out = refused /\ q.pick = pick
    BY <1>1, <1>2, NoPrepOK DEF Leaving, NoPrep, PrepRow
  <2> HIDE DEF q
  <2>3. QED BY <2>1, <2>2
<1> HIDE DEF refused, pick, q
<1>5. PrepOK(p)
  <2>1. \A d \in Settled(p) : d \in Settled(prep[o]) /\ d \in Cycles BY <1>4 DEF Settled
  <2>2. \A d \in Settled(p) : pick \notin Decided(d)
    <3>1. CASE pick = None BY <1>1, <2>1, <3>1, ConstFacts
    <3>2. CASE pick \in prep[o].cands
      BY <1>1, <1>2, <2>1, <3>2 DEF PrepOK
    <3>3. QED BY <1>2, <3>1, <3>2
  <2>3. QED BY <1>1, <1>2, <1>4, <2>2 DEF PrepOK
<1>6. Kept BY CyclesStay DEF cur
<1>7. PrepOK(p)' BY <1>4, <1>5, <1>6, PrepKept DEF PIInv
<1>8. QED BY <1>1, <1>4, <1>7, Segment DEF Follows

\* The critique.
LEMMA CritiqueOK == ASSUME PIInv, NEW o \in Owner, Critique(o) PROVE PIInv' /\ Kept
<1>1. prep[o].at = "critiquing" /\ prep[o].cands \subseteq Fingerprint
      /\ UNCHANGED <<campaign, cycle, tip, overlapped>>
  BY RowFacts DEF Critique, PIInv, PrepRow
<1>2. PICK s \in prep[o].cands \cup {None}, r \in SUBSET Fingerprint : prep' = Decide(o, s, r)
  BY <1>1 DEF Critique
<1>3. QED BY <1>1, <1>2, DecideOK

\* A closed connection is tried again, or not.
LEMMA ConnectionClosesOK ==
  ASSUME PIInv, NEW o \in Owner, ConnectionCloses(o) PROVE PIInv' /\ Kept
<1>1. /\ prep[o] \in PrepRow /\ PrepOK(prep[o]) /\ overlapped \subseteq Cycles
      /\ UNCHANGED <<campaign, cycle, tip, overlapped>>
      /\ prep \in [Owner -> PrepRow]
  BY DEF PIInv, RowsOK, ConnectionCloses
<1>2. CASE Ends(o) BY <1>1, <1>2, EndsOK
<1>3. CASE prep' = [prep EXCEPT ![o].again = TRUE]
  <2> DEFINE q == [prep[o] EXCEPT !.again = TRUE]
  <2>1. PICK p \in PrepRow :
          /\ prep' = [prep EXCEPT ![o] = p] /\ p.at = prep[o].at /\ p.cycle = prep[o].cycle
          /\ p.base = prep[o].base /\ p.known = prep[o].known /\ p.cands = prep[o].cands
          /\ p.barred = prep[o].barred /\ p.pick = prep[o].pick /\ p.out = prep[o].out
    <3>1. /\ q \in PrepRow /\ q.at = prep[o].at /\ q.cycle = prep[o].cycle
          /\ q.base = prep[o].base /\ q.known = prep[o].known /\ q.cands = prep[o].cands
          /\ q.barred = prep[o].barred /\ q.pick = prep[o].pick /\ q.out = prep[o].out
      BY <1>1 DEF PrepRow
    <3>2. prep' = [prep EXCEPT ![o] = q] BY <1>1, <1>3
    <3> HIDE DEF q
    <3>3. QED BY <3>1, <3>2
  <2>2. PrepOK(p) BY <1>1, <2>1 DEF PrepOK, Settled
  <2>3. Kept BY <1>1, CyclesStay DEF cur
  <2>4. PrepOK(p)' BY <2>2, <2>3, PrepKept DEF PIInv
  <2>5. QED BY <1>1, <2>1, <2>4, Segment DEF Follows
<1>4. QED BY <1>2, <1>3 DEF ConnectionCloses

\* A heartbeat renews the lease, or cancels the preparation of who lost it.
LEMMA HeartbeatOK == ASSUME PIInv, NEW o \in Owner, Heartbeat(o) PROVE PIInv' /\ Kept
<1>1. /\ campaign \in CampaignRow /\ (campaign.live => campaign.owner # None)
      /\ tip \in 1..MaxTip /\ overlapped \subseteq Cycles /\ RowsOK
      /\ cycle \in [Cycles -> CycleRow] /\ UNCHANGED <<cycle, tip, overlapped>>
  BY DEF PIInv, RowsOK, Heartbeat
<1>2. CASE campaign' = Leased(o) /\ UNCHANGED prep
  <2>1. CampaignOK' /\ cur' = cur BY <1>1, <1>2, LeasedOK DEF CampaignOK, cur
  <2>2. QED BY <1>1, <1>2, <2>1, CyclesStay, QuietStep
<1>3. CASE UNCHANGED campaign /\ prep' = [prep EXCEPT ![o].cancelled = TRUE]
  <2>1. CampaignOK' /\ cur' = cur BY <1>1, <1>3 DEF CampaignOK, cur
  <2>2. QED BY <1>1, <1>3, <2>1, CyclesStay, CancelStep
<1>4. QED BY <1>2, <1>3 DEF Heartbeat

-----------------------------------------------------------------------------
(* The segments that claim the lease or write the rows *)

\* A preparation begins, alone or on record.
LEMMA PrepareOK == ASSUME PIInv, NEW o \in Owner, Prepare(o) PROVE PIInv' /\ Kept
<1>1. /\ RowsOK /\ UNCHANGED <<cycle, tip>> /\ tip \in 1..MaxTip
      /\ cycle \in [Cycles -> CycleRow]
      /\ cur \in Cycles /\ cur \in Nat /\ Row \in CycleRow
  BY RowFacts DEF PIInv, RowsOK, Prepare
<1>2. overlapped \subseteq overlapped' /\ overlapped' \subseteq Cycles
  BY <1>1 DEF Prepare, PIInv, RowsOK
<1>3. CampaignOK' /\ cur' = cur BY <1>1, <1>2, LeasedOK DEF Prepare, CampaignOK, cur
<1>4. Kept /\ CyclesOK' /\ RestsOnEvidence' /\ NeverAgain'
  BY <1>1, <1>2, <1>3, CyclesStay
<1>5. PICK p \in PrepRow : prep' = [prep EXCEPT ![o] = p] /\ p.cycle = cur /\ PrepOK(p)
  <2>1. CASE Row.snapshot # 0
    <3>1. Row.snapshot \in 1..MaxTip BY <1>1, <2>1, ConstFacts DEF CycleRow
    <3>2. PICK p \in PrepRow :
            /\ Generating(o, Row.snapshot) = [prep EXCEPT ![o] = p]
            /\ p.at = "generating" /\ p.cycle = cur /\ p.base = Row.snapshot
            /\ \A d \in Cycles : Decided(d) \subseteq p.known
      BY <1>1, <3>1, GeneratingOK
    <3>3. PrepOK(p) BY <1>1, <2>1, <3>2 DEF PrepOK, Settled, Row
    <3>4. QED BY <2>1, <3>2, <3>3 DEF Prepare
  <2>2. CASE Row.snapshot = 0
    <3> DEFINE at == IF Row.base = 0 THEN "resolving" ELSE "capturing"
               q == [NoPrep EXCEPT !.at = at, !.cycle = cur, !.base = Row.base]
    <3>1. cur \in 0..MaxCycle /\ Row.base \in 0..MaxTip
      BY <1>1, ConstFacts DEF Cycles, CycleRow
    <3>2. at \in {"resolving", "capturing"} /\ (at = "capturing" => Row.base # 0) OBVIOUS
    <3>3. prep' = [prep EXCEPT ![o] = q] BY <2>2 DEF Prepare
    <3> HIDE DEF at
    <3>4. q \in PrepRow /\ q.at = at /\ q.cycle = cur /\ q.base = Row.base
      BY <3>1, <3>2, NoPrepOK DEF NoPrep, PrepRow
    <3> HIDE DEF q
    <3>5. PrepOK(q) BY <1>1, <3>2, <3>4 DEF PrepOK
    <3>6. QED BY <3>3, <3>4, <3>5
  <2>3. QED BY <2>1, <2>2
<1>6. PrepOK(p)' BY <1>1, <1>4, <1>5, PrepKept
<1>7. Follows(o, p)
  BY <1>1, <1>5 DEF Prepare, Follows
<1>8. QED BY <1>1, <1>3, <1>4, <1>5, <1>6, <1>7, PrepStep

\* Only the current cycle is proposing.
LEMMA ProposingIsCurrent ==
  ASSUME PIInv, NEW o \in Owner, prep[o].at # "idle", Proposing(prep[o].cycle)
  PROVE  prep[o].cycle = cur
<1>1. prep[o].cycle \in Cycles /\ prep[o].cycle <= cur BY DEF PIInv, PrepOK
<1>2. cur \in Nat /\ prep[o].cycle \in Nat BY <1>1, RowFacts, ConstFacts DEF PIInv
<1>3. ~(prep[o].cycle < cur) BY <1>1 DEF PIInv, CyclesOK, Proposing
<1>4. QED BY <1>1, <1>2, <1>3

\* The evidence is stored, unless the cycle has some: the first snapshot stays.
LEMMA CaptureOK == ASSUME PIInv, NEW o \in Owner, Capture(o) PROVE PIInv' /\ Kept
<1> DEFINE c == prep[o].cycle
           open == Proposing(c) /\ cycle[c].proposal = None
           r == [Row EXCEPT !.snapshot = prep[o].base, !.base = prep[o].base]
<1>1. /\ RowsOK /\ UNCHANGED <<campaign, tip, overlapped>> /\ overlapped \subseteq Cycles
      /\ cycle \in [Cycles -> CycleRow] /\ prep[o].at = "capturing"
      /\ cur \in Cycles /\ cur \in Nat /\ Row \in CycleRow /\ Row = cycle[cur]
      /\ Cycles \subseteq Nat /\ prep[o] \in PrepRow
  BY RowFacts, ConstFacts DEF PIInv, RowsOK, Capture, Row
<1>2. prep[o].base \in 0..MaxTip /\ prep[o].base # 0
  BY <1>1 DEF PIInv, PrepOK, PrepRow
<1>3. CampaignOK' /\ cur' = cur BY <1>1 DEF PIInv, RowsOK, CampaignOK, cur
<1>4. open => c = cur BY <1>1, ProposingIsCurrent
<1>5. /\ r \in CycleRow /\ r.base = prep[o].base /\ r.snapshot = prep[o].base
      /\ r.proposal = Row.proposal /\ r.on = Row.on /\ r.rejected = Row.rejected
      /\ r.status = Row.status
  BY <1>1, <1>2 DEF CycleRow
<1> HIDE DEF r
<1>6. /\ cycle' \in [Cycles -> CycleRow] /\ Kept /\ CyclesOK' /\ RestsOnEvidence' /\ NeverAgain'
  <2>1. CASE UNCHANGED cycle BY <1>1, <1>3, <2>1, CyclesStay
  <2>2. CASE /\ open /\ cycle[c].snapshot = 0
             /\ cycle' = [cycle EXCEPT ![cur] = r]
    <3>1. cycle' \in [Cycles -> CycleRow] BY <1>1, <1>5, <2>2
    <3>2. \A d \in Cycles :
            /\ d # cur => cycle'[d] = cycle[d]
            /\ d = cur => cycle'[d] = r
      BY <1>1, <1>5, <2>2
    <3>3. Row.proposal = None /\ Row.snapshot = 0 BY <1>1, <1>4, <2>2
    <3>4. Kept BY <1>1, <1>3, <1>5, <3>2, <3>3 DEF Kept
    <3>5. CyclesOK' BY <1>1, <1>3, <1>5, <3>2 DEF PIInv, CyclesOK
    <3>6. RestsOnEvidence' /\ NeverAgain'
      BY <1>1, <1>5, <3>2, <3>3, <3>4, DecisionsKept DEF PIInv
    <3>7. QED BY <3>1, <3>4, <3>5, <3>6
  <2>3. QED BY <2>1, <2>2 DEF Capture, SetRow, r
<1>7. CASE Ends(o)
  BY <1>1, <1>3, <1>6, <1>7, NoPrepOK, IdleOK, PrepStep DEF Ends, Follows
<1>8. CASE open /\ prep' = Generating(o, cycle'[c].snapshot)
  <2>1. cycle'[cur].snapshot # 0 /\ cycle'[cur].snapshot \in 1..MaxTip
    <3>1. cycle'[cur].snapshot # 0
      BY <1>1, <1>2, <1>4, <1>5, <1>8 DEF Capture, SetRow, r
    <3>2. cycle'[cur].snapshot \in 0..MaxTip BY <1>1, <1>6 DEF CycleRow
    <3>3. QED BY <3>1, <3>2, ConstFacts
  <2>2. PICK p \in PrepRow :
          /\ Generating(o, cycle'[cur].snapshot) = [prep EXCEPT ![o] = p]
          /\ p.at = "generating" /\ p.cycle = cur /\ p.base = cycle'[cur].snapshot
          /\ \A d \in Cycles : Decided(d) \subseteq p.known
    BY <1>1, <2>1, GeneratingOK
  <2>3. \A d \in Cycles : Decided(d)' = Decided(d) BY <1>6 DEF Kept, Decided
  <2>4. PrepOK(p)'
    BY <1>1, <1>3, <2>1, <2>2, <2>3 DEF PrepOK, Settled
  <2>5. Follows(o, p) BY <1>1, <1>4, <1>8, <2>2 DEF Follows
  <2>6. QED BY <1>3, <1>4, <1>6, <1>8, <2>2, <2>4, <2>5, PrepStep
<1>9. QED BY <1>7, <1>8 DEF Capture

\* The cooldown is over and the next cycle begins.
LEMMA AdvanceOK == ASSUME PIInv, NEW o \in Owner, Advance(o) PROVE PIInv' /\ Kept
<1> DEFINE r == [Row EXCEPT !.status = "succeeded"]
           n == cur + 1
           new == NewRow(tip + 1)
<1>1. /\ RowsOK /\ UNCHANGED <<prep, overlapped>> /\ overlapped \subseteq Cycles
      /\ cycle \in [Cycles -> CycleRow] /\ cur < MaxCycle
      /\ cur \in Cycles /\ cur \in Nat /\ Row \in CycleRow /\ Row = cycle[cur]
      /\ Cycles \subseteq Nat
  BY RowFacts, ConstFacts DEF PIInv, RowsOK, Advance, Row
<1>2. n \in Cycles /\ n # cur /\ n \in Nat /\ cur < n
  BY <1>1, ConstFacts DEF Cycles
<1>3. tip + 1 \in 1..MaxTip /\ tip + 1 \in 0..MaxTip
  BY ConstFacts DEF PIInv, RowsOK, Advance
<1>4. /\ r \in CycleRow /\ r.base = Row.base /\ r.snapshot = Row.snapshot
      /\ r.proposal = Row.proposal /\ r.on = Row.on /\ r.rejected = Row.rejected
      /\ r.status = "succeeded"
  BY <1>1 DEF CycleRow
<1>5. /\ new \in CycleRow /\ new.snapshot = 0 /\ new.proposal = None /\ new.rejected = {}
  BY <1>3, NoRowOK DEF NewRow, NoRow, CycleRow
<1>6. cycle' = [[cycle EXCEPT ![cur] = r] EXCEPT ![n] = new]
  BY <1>1, <1>2 DEF Advance
<1>7. cycle[n] = NoRow BY <1>1, <1>2 DEF PIInv, CyclesOK
<1> HIDE DEF r, new
<1>8. /\ cycle' \in [Cycles -> CycleRow]
      /\ \A c \in Cycles : /\ c # cur /\ c # n => cycle'[c] = cycle[c]
                           /\ c = cur => cycle'[c] = r
                           /\ c = n => cycle'[c] = new
  BY <1>1, <1>2, <1>4, <1>5, <1>6
<1>9. CampaignOK' /\ cur' = n
  <2>1. /\ Leased(o) \in CampaignRow /\ Leased(o).owner # None
        /\ Leased(o).current = cur
    BY <1>1, LeasedOK
  <2>2. campaign' = [Leased(o) EXCEPT !.current = n]
    BY <2>1, <1>2 DEF Advance, CampaignRow
  <2>3. campaign' \in CampaignRow /\ campaign'.owner # None /\ campaign'.current = n
    BY <2>1, <2>2, <1>2 DEF CampaignRow
  <2>4. tip' = tip + 1 BY DEF Advance
  <2>5. QED BY <1>1, <1>3, <2>3, <2>4 DEF CampaignOK, cur
<1> HIDE DEF n
<1>10. Kept BY <1>1, <1>2, <1>4, <1>5, <1>7, <1>8, <1>9, NoRowOK DEF Kept
<1>11. CyclesOK'
  <2> SUFFICES ASSUME NEW c \in Cycles
               PROVE  /\ c < n => cycle'[c].status = "succeeded"
                      /\ c > n => cycle'[c] = NoRow
                      /\ cycle'[c].snapshot # 0 => cycle'[c].base = cycle'[c].snapshot
    BY <1>9 DEF CyclesOK
  <2>1. CASE c = n BY <1>2, <1>5, <1>8, <2>1
  <2>2. CASE c = cur BY <1>1, <1>2, <1>4, <1>8, <2>2 DEF PIInv, CyclesOK
  <2>3. CASE c # n /\ c # cur
    <3>1. c \in Nat /\ (c < n => c < cur) /\ (c > n => c > cur) BY <1>1, <1>2, <2>3 DEF n
    <3>2. QED BY <1>8, <2>3, <3>1 DEF PIInv, CyclesOK
  <2>4. QED BY <2>1, <2>2, <2>3
<1>12. RestsOnEvidence' /\ NeverAgain'
  BY <1>1, <1>4, <1>5, <1>8, <1>10, DecisionsKept DEF PIInv
<1>13. QED BY <1>1, <1>8, <1>9, <1>10, <1>11, <1>12, QuietStep

-----------------------------------------------------------------------------
(* The decision *)

\* A decision that comes too late, or for a cycle that has one, changes nothing;
\* the others are written to the current cycle's row, once.
Once ==
  \A c \in Cycles :
    /\ cycle[c].rejected \subseteq cycle'[c].rejected
    /\ cycle[c].proposal # None => /\ cycle'[c].proposal = cycle[c].proposal
                                   /\ cycle'[c].rejected = cycle[c].rejected

\* A step that decides nothing takes back no decision.
LEMMA KeptOnce == ASSUME Kept PROVE Once
  BY DEF Kept, Once

\* What persistProposalDecision may do to the lease.
LEMMA PersistCampaign ==
  ASSUME PIInv, NEW o \in Owner, Persist(o) PROVE CampaignOK' /\ cur' = cur
<1>1. /\ campaign \in CampaignRow /\ (campaign.live => campaign.owner # None)
      /\ tip \in 1..MaxTip /\ overlapped \subseteq Cycles /\ RowsOK
      /\ UNCHANGED <<tip, overlapped>> /\ campaign' \in {campaign, Leased(o)}
  BY DEF PIInv, RowsOK, Persist
<1>2. QED BY <1>1, LeasedOK DEF CampaignOK, cur

\* persistProposalDecision: what it writes was decided in none of the cycles
\* that were settled when it was decided, and they are settled still.
LEMMA PersistOK == ASSUME PIInv, NEW o \in Owner, Persist(o) PROVE PIInv' /\ Once
<1> DEFINE p == prep[o]
           r == [Row EXCEPT !.rejected = Row.rejected \cup p.out, !.proposal = p.pick,
                            !.on = IF p.pick = None THEN 0 ELSE p.base]
<1>1. /\ RowsOK /\ UNCHANGED overlapped /\ overlapped \subseteq Cycles
      /\ cycle \in [Cycles -> CycleRow] /\ prep[o].at = "leaving"
      /\ cur \in Cycles /\ cur \in Nat /\ Row \in CycleRow /\ Row = cycle[cur]
      /\ Cycles \subseteq Nat /\ p \in PrepRow /\ PrepOK(p)
      /\ prep' = [prep EXCEPT ![o] = NoPrep]
      /\ prep \in [Owner -> PrepRow]
      /\ \A c \in Cycles : cycle[c].rejected \subseteq Fingerprint
  BY RowFacts, ConstFacts DEF PIInv, RowsOK, Persist, Ends, Row, CycleRow
<1>2. CampaignOK' /\ cur' = cur BY PersistCampaign
<1>3. CASE UNCHANGED cycle
  <2>1. Kept /\ CyclesOK' /\ RestsOnEvidence' /\ NeverAgain'
    BY <1>1, <1>2, <1>3, CyclesStay
  <2>2. Follows(o, NoPrep) BY NoPrepOK DEF Follows
  <2>3. PIInv' BY <1>1, <1>2, <1>3, <2>1, <2>2, NoPrepOK, IdleOK, PrepStep
  <2>4. QED BY <2>1, <2>3, KeptOnce
<1>4. CASE ~UNCHANGED cycle
  <2>1. p.cycle = cur /\ Row.proposal = None /\ cycle' = [cycle EXCEPT ![cur] = r]
    <3>1. Proposing(p.cycle) /\ Row.proposal = None
      BY <1>4 DEF Persist, Writes
    <3>2. p.cycle = cur BY <1>1, <3>1, ProposingIsCurrent
    <3>3. cycle' = [cycle EXCEPT ![cur] = r]
      BY <1>1, <3>1 DEF Persist, Writes, SetRow
    <3>4. QED BY <3>1, <3>2, <3>3
  <2>2. /\ p.out \in SUBSET Fingerprint /\ p.pick \in Fingerprint \cup {None}
        /\ p.base \in 0..MaxTip /\ p.base # 0 /\ p.base = Row.snapshot
        /\ p.pick \notin p.out
        /\ \A d \in Settled(p) : p.pick \notin Decided(d)
    BY <1>1, <2>1 DEF PrepRow, PrepOK
  <2>3. /\ r \in CycleRow /\ r.base = Row.base /\ r.snapshot = Row.snapshot
        /\ r.proposal = p.pick /\ r.rejected = Row.rejected \cup p.out
        /\ r.status = Row.status
        /\ r.on = IF p.pick = None THEN 0 ELSE p.base
    <3> DEFINE on == IF p.pick = None THEN 0 ELSE p.base
    <3>1. on \in 0..MaxTip BY <2>2, ConstFacts
    <3>2. r = [Row EXCEPT !.rejected = Row.rejected \cup p.out, !.proposal = p.pick, !.on = on]
      OBVIOUS
    <3> HIDE DEF on, r, p
    <3>3. QED BY <1>1, <2>2, <3>1, <3>2 DEF CycleRow, on
  <2> HIDE DEF r, p
  <2>4. /\ cycle' \in [Cycles -> CycleRow]
        /\ \A d \in Cycles : /\ d # cur => cycle'[d] = cycle[d]
                             /\ d = cur => cycle'[d] = r
    BY <1>1, <2>1, <2>3
  <2>5. \A d \in Cycles : d < cur \/ (d = cur /\ d \notin overlapped) => d \in Settled(p)
    BY <2>1 DEF Settled
  <2>6. CyclesOK' BY <1>1, <1>2, <2>3, <2>4 DEF PIInv, CyclesOK
  <2>7. RestsOnEvidence'
    BY <1>1, <2>2, <2>3, <2>4 DEF PIInv, RestsOnEvidence, CyclesOK
  <2>8. NeverTwice'
    <3> SUFFICES ASSUME NEW c \in Cycles, NEW d \in 1..(c - 1), cycle'[c].proposal # None
                 PROVE  /\ cycle'[c].proposal # cycle'[d].proposal
                        /\ cycle'[c].proposal \notin cycle'[d].rejected
      BY DEF NeverTwice
    <3>1. d \in Cycles /\ d < c /\ d \in Nat /\ c \in Nat BY <1>1, ConstFacts DEF Cycles
    <3>2. CASE c = cur
      <4>1. d \in Settled(p) /\ d # cur BY <1>1, <2>5, <3>1, <3>2
      <4>2. p.pick \notin Decided(d) /\ p.pick # None BY <2>2, <2>3, <2>4, <3>2, <4>1
      <4>3. QED BY <2>3, <2>4, <3>1, <3>2, <4>1, <4>2 DEF Decided
    <3>3. CASE c < cur
      BY <1>1, <2>4, <3>1, <3>3 DEF PIInv, NeverAgain, NeverTwice
    <3>4. CASE c > cur
      BY <1>1, <2>4, <3>4, NoRowOK DEF PIInv, CyclesOK
    <3>5. QED BY <1>1, <3>1, <3>2, <3>3, <3>4
  <2>9. RejectedStaysRejected'
    <3> SUFFICES ASSUME NEW c \in Cycles \ overlapped
                 PROVE  cycle'[c].proposal \notin cycle'[c].rejected
      BY <1>1 DEF RejectedStaysRejected
    <3>1. CASE c # cur
      BY <2>4, <3>1 DEF PIInv, NeverAgain, RejectedStaysRejected
    <3>2. CASE c = cur
      <4>1. p.pick \notin Decided(cur) BY <2>2, <2>5, <3>2
      <4>2. p.pick \notin Row.rejected BY <1>1, <4>1 DEF Decided
      <4>3. QED BY <2>2, <2>3, <2>4, <3>2, <4>2
    <3>3. QED BY <3>1, <3>2
  <2>10. PrepsOK'
    <3> SUFFICES ASSUME NEW q \in Owner PROVE PrepOK(prep[q])' BY DEF PrepsOK
    <3>1. CASE q = o
      BY <1>1, <3>1, NoPrepOK DEF PrepOK
    <3>2. CASE q # o
      <4>1. prep'[q] = prep[q] /\ PrepOK(prep[q]) BY <1>1, <3>2 DEF PIInv
      <4>2. CASE prep[q].at = "idle" BY <4>1, <4>2 DEF PrepOK
      <4>3. CASE prep[q].at # "idle"
        <5>1. prep[q].cycle \in Cycles /\ prep[q].cycle <= cur
          BY <4>1, <4>3 DEF PrepOK
        <5>2. \A d \in Settled(prep[q]) : d \in Cycles /\ d # cur
          <6> SUFFICES ASSUME NEW d \in Cycles, d \in Settled(prep[q]), d = cur PROVE FALSE
            BY DEF Settled
          <6>1. prep[q].cycle = cur /\ cur \notin overlapped
            BY <1>1, <5>1 DEF Settled
          <6>2. Preparing(q, cur) /\ Preparing(o, cur)
            BY <1>1, <2>1, <4>3, <6>1 DEF Preparing, p
          <6>3. QED BY <1>1, <3>2, <6>1, <6>2 DEF PIInv, Alone
        <5>3. \A d \in Settled(prep[q]) : Decided(d)' = Decided(d)
          BY <2>4, <5>2 DEF Decided
        <5>4. cycle'[prep[q].cycle].snapshot = cycle[prep[q].cycle].snapshot
          BY <1>1, <2>3, <2>4, <5>1
        <5>5. Settled(prep[q])' = Settled(prep[q]) BY <1>1, <4>1 DEF Settled
        <5>6. QED BY <1>2, <4>1, <4>3, <5>1, <5>3, <5>4, <5>5 DEF PrepOK
      <4>4. QED BY <4>2, <4>3
    <3>3. QED BY <3>1, <3>2
  <2>11. Alone'
    <3>1. Follows(o, NoPrep) BY NoPrepOK DEF Follows
    <3>2. QED BY <1>1, <3>1, AloneKept
  <2>12. Once BY <1>1, <2>1, <2>3, <2>4 DEF Once
  <2>13. prep' \in [Owner -> PrepRow] BY <1>1, NoPrepOK
  <2>14. QED
    BY <1>2, <2>4, <2>6, <2>7, <2>8, <2>9, <2>10, <2>11, <2>12, <2>13
    DEF PIInv, RowsOK, CampaignOK, PrepsOK, NeverAgain
<1>5. QED BY <1>3, <1>4

-----------------------------------------------------------------------------
(* The theorems *)

\* The invariant holds when a campaign starts.
LEMMA InitPIInv == ASSUME ProposalInit PROVE PIInv
<1>1. /\ NewRow(0) \in CycleRow /\ NewRow(0).proposal = None /\ NewRow(0).snapshot = 0
      /\ NewRow(0).rejected = {}
  BY NoRowOK, ConstFacts DEF NewRow, NoRow, CycleRow
<1>2. \A c \in Cycles : cycle[c] \in {NoRow, NewRow(0)} /\ (c > 1 => cycle[c] = NoRow)
  BY ConstFacts DEF ProposalInit
<1>3. /\ campaign \in CampaignRow /\ campaign.live = FALSE /\ cur = 1
  BY ConstFacts DEF ProposalInit, CampaignRow, cur
<1>4. RowsOK
  BY <1>1, <1>2, <1>3, NoRowOK, NoPrepOK, ConstFacts DEF ProposalInit, RowsOK
<1>5. \A c \in Cycles : ~(c < 1) BY ConstFacts DEF Cycles
<1>6. CyclesOK BY <1>1, <1>2, <1>3, <1>5, NoRowOK DEF CyclesOK
<1>7. \A o \in Owner : PrepOK(prep[o]) BY NoPrepOK DEF ProposalInit, PrepOK
<1>8. Alone BY NoPrepOK DEF ProposalInit, Alone, Preparing
<1>9. \A c \in Cycles : cycle[c].proposal = None /\ cycle[c].rejected = {}
  BY <1>1, <1>2, NoRowOK
<1>10. RestsOnEvidence /\ NeverAgain
  BY <1>9 DEF RestsOnEvidence, NeverAgain, NeverTwice, RejectedStaysRejected
<1>11. QED BY <1>4, <1>6, <1>7, <1>8, <1>10 DEF PIInv

\* Every step preserves the invariant and takes back no decision.
LEMMA NextPIInv == PIInv /\ [ProposalNext]_proposalVars => PIInv' /\ Once
<1> SUFFICES ASSUME PIInv, [ProposalNext]_proposalVars PROVE PIInv' /\ Once OBVIOUS
<1>1. CASE LeaseExpires \/ BaseMoves \/ \E o \in Owner : RenewsLease(o)
  BY <1>1, LeaseStepsOK, KeptOnce
<1>2. CASE ResumeProposal \/ \E o \in Owner : HandOff(o)
  BY <1>2, StatusStepsOK, KeptOnce
<1>3. ASSUME NEW o \in Owner,
             \/ Prepare(o) \/ Steps(o) \/ Heartbeat(o) \/ Advance(o)
             \/ PauseProposal(o) \/ StopProposal(o) \/ PodDies(o)
             \/ ConnectionCloses(o) \/ BadOutput(o)
      PROVE  PIInv' /\ Once
  BY <1>3, PrepareOK, ResolveOK, CaptureOK, GeneratedOK, CritiqueOK, OverOK, PersistOK,
     HeartbeatOK, AdvanceOK, OperatorOK, ConnectionClosesOK, KeptOnce
  DEF Steps
<1>4. CASE UNCHANGED proposalVars
  <2>1. Once BY <1>4 DEF proposalVars, Once
  <2>2. CampaignOK' /\ cur' = cur
    BY <1>4 DEF proposalVars, PIInv, RowsOK, CampaignOK, cur
  <2>3. Kept /\ CyclesOK' /\ RestsOnEvidence' /\ NeverAgain'
    BY <1>4, <2>2, CyclesStay DEF proposalVars
  <2>4. QED BY <1>4, <2>1, <2>2, <2>3, QuietStep DEF proposalVars, PIInv, RowsOK
<1>5. QED BY <1>1, <1>2, <1>3, <1>4 DEF ProposalNext

\* Whatever pods do at once, and whenever they are cancelled, replaced or late:
\* what a preparation carries agrees with the rows it will be written to.
THEOREM ProposalInvariant == ProposalSpec => []PIInv
  BY InitPIInv, NextPIInv, PTL DEF ProposalSpec

\* The rows are well formed, no preparation leaves with a candidate it has ruled
\* out, and an accepted feature rests on the evidence stored with its cycle.
THEOREM ProposalCorrect == ProposalSpec => []ProposalInv
<1>1. PIInv => ProposalInv
  <2> SUFFICES ASSUME PIInv PROVE ProposalTypeOK
    BY DEF PIInv, ProposalInv
  <2>1. campaign \in CampaignRow /\ (campaign.live => campaign.owner # None)
    BY DEF PIInv, RowsOK
  <2>2. \A c \in Cycles : cycle[c] \in CycleRow BY DEF PIInv, RowsOK
  <2>3. \A o \in Owner : prep[o].at = "leaving" => prep[o].pick \notin prep[o].out
    BY DEF PIInv, PrepOK
  <2>4. QED BY <2>1, <2>2, <2>3 DEF ProposalTypeOK, CampaignRow, CycleRow, cur
<1>2. QED BY <1>1, ProposalInvariant, PTL

\* A feature that was accepted or rejected is not picked again, in a later cycle or,
\* unless two pods prepared it at once, in the same one.
THEOREM ProposalNeverAgain == ProposalSpec => []NeverAgain
<1>1. PIInv => NeverAgain BY DEF PIInv
<1>2. QED BY <1>1, ProposalInvariant, PTL

\* The decision on a feature is taken once, and no rejection is lost.
THEOREM ProposalDecidedOnce == ProposalSpec => DecidedOnce
<1>1. PIInv /\ [ProposalNext]_proposalVars =>
        [\A c \in Cycles :
           /\ cycle[c].rejected \subseteq cycle'[c].rejected
           /\ cycle[c].proposal # None =>
                /\ cycle'[c].proposal = cycle[c].proposal
                /\ cycle'[c].rejected = cycle[c].rejected]_proposalVars
  BY NextPIInv DEF Once
<1>2. QED BY <1>1, ProposalInvariant, PTL DEF ProposalSpec, DecidedOnce
=============================================================================
