-------------------------- MODULE MergeReviewProofs --------------------------
(***************************************************************************)
(* What the release manager guarantees for any number of pull requests,    *)
(* pushes, overlapping passes and process deaths: it merges only heads it  *)
(* has reviewed, closes an issue only after its merge, and reviews a head  *)
(* once.                                                                   *)
(*                                                                         *)
(* A review goes by a copy of the pull request, and every call in between  *)
(* gives the branch time to move.  AtMerge says what the copy is worth     *)
(* when the merge is requested: its head was cleared by this very review.  *)
(***************************************************************************)
EXTENDS MergeReview, TLAPS

\* A review about to merge found nothing against the head it will name, and
\* one about to close has merged.
AtMerge ==
  \A q \in Pass :
    /\ pass[q].pc = "merge" => <<Subject(q), pass[q].pr.head>> \in cleared
    /\ pass[q].pc = "close" => <<Subject(q), pass[q].pr.head>> \in merged

\* The inductive invariant.
ReviewIInv == ReviewInv /\ MergedWasReviewed /\ AtMerge

-----------------------------------------------------------------------------
(* The places of a pass *)

Resting == [pc : {"idle", "pulls"}, todo : SUBSET Key]
Loading == [pc : {"load"}, todo : SUBSET Key, key : Key]
Checking == [pc : {"checks"}, todo : SUBSET Key, key : Key, pr : Snapshot]
Acting == [pc : {"merge", "close", "comment", "relabel", "escalate", "block"}, todo : SUBSET Key,
           key : Key, pr : Snapshot, attempt : Nat]

\* A pass is at rest or in a review, and its fields are those of its place.
LEMMA Places ==
  ASSUME ReviewTypeOK, NEW q \in Pass
  PROVE  /\ pass[q] \in Resting \cup Loading \cup Checking \cup Acting
         /\ pass[q].pc = "load" => pass[q] \in Loading
         /\ pass[q].pc = "checks" => pass[q] \in Checking
         /\ pass[q].pc \in {"merge", "close", "comment", "relabel", "escalate", "block"}
              => pass[q] \in Acting
         /\ InReview(q) => pass[q].key \in Key /\ Subject(q) \in Pull
         /\ pass[q].todo \subseteq Key
<1>1. pass[q] \in Resting \cup Loading \cup Checking \cup Acting
  BY DEF ReviewTypeOK, PassState, Resting, Loading, Checking, Acting
<1>2. InReview(q) => pass[q].key \in Key
  BY <1>1 DEF InReview, Resting, Loading, Checking, Acting
<1>3. \A k \in Key : k[1] \in Pull
  BY DEF Key
<1>4. QED BY <1>1, <1>2, <1>3 DEF Subject, Resting, Loading, Checking, Acting

\* Nothing is under way in a fresh system.
LEMMA InitReview == ReviewInit => ReviewIInv
<1> SUFFICES ASSUME ReviewInit PROVE ReviewIInv
  OBVIOUS
<1> USE DEF ReviewInit
<1>1. HubTypeOK
  <2>1. NewPull \in [state : {"open", "closed", "merged"}, draft : BOOLEAN, head : Heads,
                     mergeable : BOOLEAN, body : Body, labels : SUBSET Label]
    BY ReviewAssumption DEF NewPull, Heads, Body
  <2>2. QED BY <2>1, ReviewAssumption DEF HubTypeOK, CheckState
<1>2. NoPass \in PassState
  BY DEF NoPass, PassState
<1>3. ReviewTypeOK
  BY <1>1, <1>2 DEF ReviewTypeOK
<1>4. ReviewsApart /\ AtMerge
  BY DEF ReviewsApart, AtMerge, InReview, NoPass
<1>5. ClosedAfterMerge /\ MergedWasReviewed
  BY DEF ClosedAfterMerge, MergedWasReviewed
<1>6. QED BY <1>3, <1>4, <1>5 DEF ReviewIInv, ReviewInv

\* A review goes on to its next call: it keeps its job, and the others theirs.
LEMMA ReviewGoesOn ==
  ASSUME ReviewIInv, NEW q \in Pass, InReview(q), NEW r \in PassState,
         r.pc \notin {"idle", "pulls"}, r.key = pass[q].key,
         pass' = [pass EXCEPT ![q] = r], UNCHANGED <<job, crashes>>
  PROVE  /\ pass' \in [Pass -> PassState]
         /\ job' \in [Key -> {"free", "claimed", "completed", "failed"}]
         /\ pass'[q] = r /\ \A s \in Pass \ {q} : pass'[s] = pass[s]
         /\ ReviewsApart'
<1> USE DEF ReviewIInv, ReviewInv
<1>1. /\ pass' \in [Pass -> PassState]
      /\ pass'[q] = r /\ \A s \in Pass \ {q} : pass'[s] = pass[s]
  BY DEF ReviewTypeOK
<1>2. \A s \in Pass : InReview(s)' = InReview(s) /\ (InReview(s) => pass'[s].key = pass[s].key)
  BY <1>1 DEF InReview
<1>3. ReviewsApart'
  BY <1>2 DEF ReviewsApart
<1>4. QED BY <1>1, <1>3 DEF ReviewTypeOK

\* A review ends: it gives its job back finished, and nobody else had it.
LEMMA ReviewEnds ==
  ASSUME ReviewIInv, NEW q \in Pass, InReview(q), NEW status \in {"completed", "failed"},
         Ends(q, status), UNCHANGED crashes
  PROVE  /\ pass' \in [Pass -> PassState]
         /\ job' \in [Key -> {"free", "claimed", "completed", "failed"}]
         /\ pass'[q].pc = "pulls" /\ \A s \in Pass \ {q} : pass'[s] = pass[s]
         /\ ReviewsApart' /\ Board!BoardNext
<1> USE DEF ReviewIInv, ReviewInv
<1> DEFINE k == pass[q].key
<1>1. k \in Key /\ job[k] = "claimed" /\ pass[q].todo \subseteq Key
  BY Places DEF ReviewsApart
<1>2. /\ job' \in [Key -> {"free", "claimed", "completed", "failed"}]
      /\ job'[k] = status /\ \A l \in Key \ {k} : job'[l] = job[l]
  BY <1>1 DEF Ends, ReviewTypeOK
<1>3. /\ pass' \in [Pass -> PassState]
      /\ pass'[q] = [pc |-> "pulls", todo |-> pass[q].todo]
      /\ \A s \in Pass \ {q} : pass'[s] = pass[s]
  <2>1. [pc |-> "pulls", todo |-> pass[q].todo] \in PassState
    BY <1>1 DEF PassState
  <2>2. pass' = [pass EXCEPT ![q] = [pc |-> "pulls", todo |-> pass[q].todo]]
    BY DEF Ends, ReviewTypeOK
  <2>3. QED BY <2>1, <2>2 DEF ReviewTypeOK
<1>4. /\ ~InReview(q)'
      /\ \A s \in Pass \ {q} : InReview(s)' = InReview(s)
  BY <1>3 DEF InReview
<1>5. \A s \in Pass \ {q} : InReview(s) => pass[s].key # k /\ pass[s].key \in Key
  BY Places DEF ReviewsApart
<1>6. ReviewsApart'
  <2>1. ASSUME NEW s \in Pass, InReview(s)' PROVE job'[pass'[s].key] = "claimed"
    BY <1>2, <1>3, <1>4, <1>5, <2>1 DEF ReviewsApart
  <2>2. ASSUME NEW s \in Pass, NEW t \in Pass, s # t, InReview(s)', InReview(t)'
        PROVE  pass'[s].key # pass'[t].key
    BY <1>3, <1>4, <2>2 DEF ReviewsApart
  <2>3. ASSUME NEW l \in Key, job'[l] = "claimed", crashes' = 0
        PROVE  \E s \in Pass : InReview(s)' /\ pass'[s].key = l
    <3>1. l # k /\ job[l] = "claimed" /\ crashes = 0
      BY <1>2, <2>3
    <3>2. PICK s \in Pass : InReview(s) /\ pass[s].key = l
      BY <3>1 DEF ReviewsApart
    <3>3. QED BY <1>3, <1>4, <3>1, <3>2
  <2>4. QED BY <2>1, <2>2, <2>3 DEF ReviewsApart
<1>7. Board!BoardNext
  <2>1. Board!Finish(k)
    BY <1>1 DEF Ends, Board!Finish
  <2>2. QED BY <1>1, <2>1 DEF Board!BoardNext
<1>8. QED BY <1>2, <1>3, <1>6, <1>7

-----------------------------------------------------------------------------
(* The pass *)

\* What a pass lists are keys of open pull requests; it is in no review yet.
LEMMA ListKeeps ==
  ASSUME ReviewIInv, NEW q \in Pass, ListPulls(q) PROVE ReviewIInv' /\ UNCHANGED job
<1> USE DEF ReviewIInv, ReviewInv
<1> DEFINE r == [pc |-> "pulls", todo |-> {<<p, pull[p].head>> : p \in {s \in Pull : Reviewable(s)}}]
<1>1. UNCHANGED <<hub, job, history>> /\ pass[q].pc = "idle"
  BY DEF ListPulls
<1>2. r \in PassState
  <2>1. \A p \in Pull : pull[p].head \in Heads
    BY DEF ReviewTypeOK, HubTypeOK
  <2>2. r.todo \subseteq Key
    BY <2>1 DEF Key
  <2>3. QED BY <2>2 DEF PassState
<1>3. pass' = [pass EXCEPT ![q] = r]
  BY DEF ListPulls
<1> HIDE DEF r
<1>4. /\ pass' \in [Pass -> PassState]
      /\ pass'[q] = r /\ \A s \in Pass \ {q} : pass'[s] = pass[s]
  BY <1>2, <1>3 DEF ReviewTypeOK
<1>5. r.pc = "pulls"
  BY DEF r
<1>6. \A s \in Pass : /\ InReview(s)' = InReview(s)
                      /\ InReview(s) => pass'[s] = pass[s]
  BY <1>1, <1>4, <1>5 DEF InReview
<1>7. ReviewTypeOK' /\ ClosedAfterMerge' /\ MergedWasReviewed'
  BY <1>1, <1>4 DEF ReviewTypeOK, HubTypeOK, ClosedAfterMerge, MergedWasReviewed, hub, history
<1>8. ReviewsApart'
  BY <1>1, <1>6 DEF ReviewsApart, history
<1>9. AtMerge'
  BY <1>1, <1>4, <1>5 DEF AtMerge, Subject, history
<1>10. QED BY <1>1, <1>7, <1>8, <1>9

\* A head is taken by the pass that finds its key free: nobody reviews it.
LEMMA ClaimKeeps ==
  ASSUME ReviewIInv, NEW q \in Pass, ClaimReview(q)
  PROVE  ReviewIInv' /\ (Board!BoardNext \/ UNCHANGED job)
<1> USE DEF ReviewIInv, ReviewInv
<1>0. /\ UNCHANGED <<hub, history>> /\ pass[q].pc = "pulls"
      /\ pass[q] \in Resting /\ pass[q].todo \subseteq Key
  BY Places DEF ClaimReview, Resting, Loading, Checking, Acting
<1>1. ASSUME NEW r \in PassState, r.pc \in {"idle", "pulls"},
             pass' = [pass EXCEPT ![q] = r], UNCHANGED job
      PROVE  ReviewIInv'
  <2>1. /\ pass' \in [Pass -> PassState]
        /\ pass'[q] = r /\ \A s \in Pass \ {q} : pass'[s] = pass[s]
    BY <1>1 DEF ReviewTypeOK
  <2>2. \A s \in Pass : /\ InReview(s)' = InReview(s)
                        /\ InReview(s) => pass'[s] = pass[s]
    BY <1>0, <1>1, <2>1 DEF InReview
  <2>3. ReviewTypeOK' /\ ClosedAfterMerge' /\ MergedWasReviewed'
    BY <1>0, <1>1, <2>1 DEF ReviewTypeOK, HubTypeOK, ClosedAfterMerge, MergedWasReviewed, hub, history
  <2>4. ReviewsApart'
    BY <1>0, <1>1, <2>2 DEF ReviewsApart, history
  <2>5. AtMerge'
    BY <1>0, <1>1, <2>1 DEF AtMerge, Subject, history
  <2>6. QED BY <2>3, <2>4, <2>5
<1>2. CASE pass[q].todo = {} /\ pass' = [pass EXCEPT ![q] = NoPass] /\ UNCHANGED job
  <2>1. NoPass \in PassState /\ NoPass.pc = "idle"
    BY DEF NoPass, PassState
  <2>2. QED BY <1>1, <1>2, <2>1
<1>3. ASSUME NEW k \in pass[q].todo, pass' = [pass EXCEPT ![q].todo = @ \ {k}], UNCHANGED job
      PROVE  ReviewIInv'
  <2> DEFINE r == [pass[q] EXCEPT !.todo = @ \ {k}]
  <2>1. r \in PassState /\ r.pc = "pulls"
    BY <1>0 DEF PassState, Resting
  <2>2. pass' = [pass EXCEPT ![q] = r]
    BY <1>3 DEF ReviewTypeOK
  <2> HIDE DEF r
  <2>3. QED BY <1>1, <1>3, <2>1, <2>2
<1>4. ASSUME NEW k \in pass[q].todo, job[k] = "free", job' = [job EXCEPT ![k] = "claimed"],
             pass' = [pass EXCEPT ![q] = [pc |-> "load", todo |-> @.todo \ {k}, key |-> k]]
      PROVE  ReviewIInv' /\ Board!BoardNext
  <2> DEFINE r == [pc |-> "load", todo |-> pass[q].todo \ {k}, key |-> k]
  <2>1. k \in Key /\ r \in PassState
    BY <1>0 DEF PassState
  <2>2. pass' = [pass EXCEPT ![q] = r]
    BY <1>4 DEF ReviewTypeOK
  <2>3. r.pc = "load" /\ r.key = k
    OBVIOUS
  <2> HIDE DEF r
  <2>4. /\ pass' \in [Pass -> PassState]
        /\ pass'[q] = r /\ \A s \in Pass \ {q} : pass'[s] = pass[s]
    BY <2>1, <2>2 DEF ReviewTypeOK
  <2>5. /\ job' \in [Key -> {"free", "claimed", "completed", "failed"}]
        /\ job'[k] = "claimed" /\ \A l \in Key \ {k} : job'[l] = job[l]
    BY <1>4, <2>1 DEF ReviewTypeOK
  <2>6. /\ InReview(q)' /\ ~InReview(q) /\ pass'[q].key = k
        /\ \A s \in Pass \ {q} : InReview(s)' = InReview(s)
    BY <1>0, <2>3, <2>4 DEF InReview
  <2>7. \A s \in Pass : InReview(s) => pass[s].key \in Key \ {k}
    BY <1>4, Places DEF ReviewsApart
  <2>8. ReviewsApart'
    <3>1. ASSUME NEW s \in Pass, InReview(s)' PROVE job'[pass'[s].key] = "claimed"
      BY <2>4, <2>5, <2>6, <2>7, <3>1 DEF ReviewsApart
    <3>2. ASSUME NEW s \in Pass, NEW t \in Pass, s # t, InReview(s)', InReview(t)'
          PROVE  pass'[s].key # pass'[t].key
      BY <2>4, <2>6, <2>7, <3>2 DEF ReviewsApart
    <3>3. ASSUME NEW l \in Key, job'[l] = "claimed", crashes' = 0
          PROVE  \E s \in Pass : InReview(s)' /\ pass'[s].key = l
      <4>1. CASE l = k
        BY <2>6, <4>1
      <4>2. CASE l # k
        <5>1. job[l] = "claimed" /\ crashes = 0
          BY <1>0, <2>5, <3>3, <4>2 DEF history
        <5>2. PICK s \in Pass : InReview(s) /\ pass[s].key = l
          BY <5>1 DEF ReviewsApart
        <5>3. QED BY <2>4, <2>6, <5>2
      <4>3. QED BY <4>1, <4>2
    <3>4. QED BY <3>1, <3>2, <3>3 DEF ReviewsApart
  <2>9. ReviewTypeOK' /\ ClosedAfterMerge' /\ MergedWasReviewed'
    BY <1>0, <2>4, <2>5 DEF ReviewTypeOK, HubTypeOK, ClosedAfterMerge, MergedWasReviewed, hub, history
  <2>10. AtMerge'
    BY <1>0, <2>3, <2>4 DEF AtMerge, Subject, history
  <2>11. Board!BoardNext
    <3>1. Board!Claim(k)
      BY <1>4 DEF Board!Claim, Board!JobStatus
    <3>2. QED BY <2>1, <3>1 DEF Board!BoardNext
  <2>12. QED BY <2>8, <2>9, <2>10, <2>11
<1>5. QED BY <1>2, <1>3, <1>4 DEF ClaimReview

-----------------------------------------------------------------------------
(* The review *)

\* A review that ends without a word to GitHub: what holds of the others stays.
LEMMA EndsQuietly ==
  ASSUME ReviewIInv, NEW q \in Pass, InReview(q), NEW status \in {"completed", "failed"},
         Ends(q, status), UNCHANGED <<hub, history>>
  PROVE  ReviewIInv' /\ Board!BoardNext
<1> USE DEF ReviewIInv, ReviewInv
<1>1. /\ pass' \in [Pass -> PassState]
      /\ job' \in [Key -> {"free", "claimed", "completed", "failed"}]
      /\ pass'[q].pc = "pulls" /\ \A s \in Pass \ {q} : pass'[s] = pass[s]
      /\ ReviewsApart' /\ Board!BoardNext
  BY ReviewEnds DEF history
<1>2. ReviewTypeOK' /\ ClosedAfterMerge' /\ MergedWasReviewed'
  BY <1>1 DEF ReviewTypeOK, HubTypeOK, ClosedAfterMerge, MergedWasReviewed, hub, history
<1>3. AtMerge'
  BY <1>1 DEF AtMerge, Subject, history
<1>4. QED BY <1>1, <1>2, <1>3

\* The copy is taken: of an open pull request, at the head it has now.
LEMMA LoadKeeps ==
  ASSUME ReviewIInv, NEW q \in Pass, LoadPull(q)
  PROVE  ReviewIInv' /\ (Board!BoardNext \/ UNCHANGED job)
<1> USE DEF ReviewIInv, ReviewInv
<1> DEFINE now == pull[Subject(q)]
<1>0. /\ pass[q].pc = "load" /\ pass[q] \in Loading /\ InReview(q)
      /\ Subject(q) \in Pull /\ UNCHANGED <<hub, history>>
  BY Places DEF LoadPull, InReview
<1>1. CASE Ends(q, "completed")
  BY <1>0, <1>1, EndsQuietly
<1>2. CASE /\ now.state = "open" /\ ~now.draft
           /\ pass' = [pass EXCEPT ![q] = [pc |-> "checks", todo |-> @.todo, key |-> @.key, pr |-> now]]
           /\ UNCHANGED job
  <2> DEFINE r == [pc |-> "checks", todo |-> pass[q].todo, key |-> pass[q].key, pr |-> now]
  <2>1. now \in Snapshot
    BY <1>0, <1>2 DEF ReviewTypeOK, HubTypeOK, Snapshot
  <2>2. r \in PassState
    BY <1>0, <2>1 DEF PassState, Loading
  <2>3. pass' = [pass EXCEPT ![q] = r]
    BY <1>2 DEF ReviewTypeOK
  <2>4. r.pc = "checks" /\ r.key = pass[q].key
    OBVIOUS
  <2> HIDE DEF r
  <2>5. /\ pass' \in [Pass -> PassState]
        /\ job' \in [Key -> {"free", "claimed", "completed", "failed"}]
        /\ pass'[q] = r /\ \A s \in Pass \ {q} : pass'[s] = pass[s]
        /\ ReviewsApart'
    BY <1>0, <1>2, <2>2, <2>3, <2>4, ReviewGoesOn DEF history
  <2>6. ReviewTypeOK' /\ ClosedAfterMerge' /\ MergedWasReviewed'
    BY <1>0, <2>5 DEF ReviewTypeOK, HubTypeOK, ClosedAfterMerge, MergedWasReviewed, hub, history
  <2>7. AtMerge'
    BY <1>0, <2>4, <2>5 DEF AtMerge, Subject, history
  <2>8. QED BY <1>2, <2>5, <2>6, <2>7
<1>3. QED BY <1>1, <1>2 DEF LoadPull

\* The decision: a review goes on to the merge only with its head cleared.
LEMMA DecideKeeps ==
  ASSUME ReviewIInv, NEW q \in Pass, Decide(q) PROVE ReviewIInv' /\ UNCHANGED job
<1> USE DEF ReviewIInv, ReviewInv
<1> DEFINE head == <<Subject(q), pass[q].pr.head>>
           passes == Passes(pass[q].pr, checks[head])
           to == IF passes THEN "merge"
                 ELSE IF Attempts(q) >= MaxAttempts THEN "escalate" ELSE "comment"
           r == [pc |-> to, todo |-> pass[q].todo, key |-> pass[q].key, pr |-> pass[q].pr,
                 attempt |-> Attempts(q) + 1]
<1>0. /\ pass[q].pc = "checks" /\ pass[q] \in Checking /\ InReview(q)
      /\ Subject(q) \in Pull /\ UNCHANGED <<hub, job, crashes, merged>>
  BY Places DEF Decide, InReview
<1>1. /\ pass' = [pass EXCEPT ![q] = r]
      /\ cleared' = IF passes THEN cleared \cup {head} ELSE cleared
  BY DEF Decide
<1>2. head \in Key /\ Attempts(q) \in Nat
  BY <1>0 DEF Checking, Snapshot, Key, Attempts, ReviewTypeOK, HubTypeOK
<1>3. /\ r \in PassState /\ to \in {"merge", "escalate", "comment"}
      /\ to = "merge" => passes
  BY <1>0, <1>2 DEF PassState, Checking
<1>4. /\ r.pc = to /\ r.key = pass[q].key /\ r.pr = pass[q].pr
      /\ cleared \subseteq cleared' /\ cleared' \subseteq Key
      /\ to = "merge" => head \in cleared'
  BY <1>1, <1>2, <1>3 DEF ReviewTypeOK, HubTypeOK
<1> HIDE DEF passes, to, r
<1>5. /\ pass' \in [Pass -> PassState]
      /\ job' \in [Key -> {"free", "claimed", "completed", "failed"}]
      /\ pass'[q] = r /\ \A s \in Pass \ {q} : pass'[s] = pass[s]
      /\ ReviewsApart'
  BY <1>0, <1>1, <1>3, <1>4, ReviewGoesOn
<1>6. ReviewTypeOK' /\ ClosedAfterMerge' /\ MergedWasReviewed'
  BY <1>0, <1>4, <1>5 DEF ReviewTypeOK, HubTypeOK, ClosedAfterMerge, MergedWasReviewed, hub
<1>7. AtMerge'
  BY <1>0, <1>3, <1>4, <1>5 DEF AtMerge, Subject
<1>8. QED BY <1>0, <1>5, <1>6, <1>7

\* A pull request that changes keeps its types.
LEMMA PullTyped ==
  ASSUME HubTypeOK, NEW p \in Pull, NEW s \in {"open", "closed", "merged"}, NEW l \in SUBSET Label
  PROVE  /\ [pull EXCEPT ![p].state = s]
              \in [Pull -> [state : {"open", "closed", "merged"}, draft : BOOLEAN, head : Heads,
                            mergeable : BOOLEAN, body : Body, labels : SUBSET Label]]
         /\ [pull EXCEPT ![p].labels = l]
              \in [Pull -> [state : {"open", "closed", "merged"}, draft : BOOLEAN, head : Heads,
                            mergeable : BOOLEAN, body : Body, labels : SUBSET Label]]
         /\ pull[p].labels \subseteq Label /\ pull[p].head \in Heads
<1>1. pull[p] \in [state : {"open", "closed", "merged"}, draft : BOOLEAN, head : Heads,
                   mergeable : BOOLEAN, body : Body, labels : SUBSET Label]
  BY DEF HubTypeOK
<1>2. QED BY <1>1 DEF HubTypeOK

\* GitHub merges the head the call names or none: what is merged was cleared,
\* whatever was pushed since, and also when the answer is lost.
LEMMA MergeKeeps ==
  ASSUME ReviewIInv, NEW q \in Pass, Merge(q)
  PROVE  ReviewIInv' /\ (Board!BoardNext \/ UNCHANGED job)
<1> USE DEF ReviewIInv, ReviewInv
<1> DEFINE p == Subject(q)
           head == <<p, pass[q].pr.head>>
<1>0. /\ pass[q].pc = "merge" /\ pass[q] \in Acting /\ InReview(q) /\ p \in Pull
      /\ UNCHANGED <<checks, thread, bounced, closed, crashes, cleared>>
      /\ head \in cleared
  BY Places DEF Merge, InReview, AtMerge
<1>1. CASE Ends(q, "failed") /\ UNCHANGED <<pull, merged>>
  BY <1>0, <1>1, EndsQuietly DEF hub, history
<1>2. ASSUME Mergeable(p, pass[q].pr.head), pull' = [pull EXCEPT ![p].state = "merged"],
             merged' = merged \cup {<<p, pull[p].head>>}
      PROVE  HubTypeOK' /\ ClosedAfterMerge' /\ MergedWasReviewed'
             /\ merged' = merged \cup {head}
  <2>1. merged' = merged \cup {head}
    BY <1>2 DEF Mergeable
  <2>2. HubTypeOK'
    BY <1>0, <1>2, <2>1, PullTyped DEF HubTypeOK, ReviewTypeOK
  <2>3. ClosedAfterMerge' /\ MergedWasReviewed'
    BY <1>0, <2>1 DEF ClosedAfterMerge, MergedWasReviewed
  <2>4. QED BY <2>1, <2>2, <2>3
<1>3. CASE /\ Mergeable(p, pass[q].pr.head) /\ pull' = [pull EXCEPT ![p].state = "merged"]
           /\ merged' = merged \cup {<<p, pull[p].head>>}
           /\ pass' = [pass EXCEPT ![q].pc = "close"] /\ UNCHANGED job
  <2> DEFINE r == [pass[q] EXCEPT !.pc = "close"]
  <2>1. /\ r \in PassState /\ r.pc = "close" /\ r.key = pass[q].key /\ r.pr = pass[q].pr
    BY <1>0 DEF PassState, Acting
  <2>2. pass' = [pass EXCEPT ![q] = r]
    BY <1>3 DEF ReviewTypeOK
  <2> HIDE DEF r
  <2>3. /\ pass' \in [Pass -> PassState]
        /\ job' \in [Key -> {"free", "claimed", "completed", "failed"}]
        /\ pass'[q] = r /\ \A s \in Pass \ {q} : pass'[s] = pass[s]
        /\ ReviewsApart'
    BY <1>0, <1>3, <2>1, <2>2, ReviewGoesOn
  <2>4. AtMerge'
    BY <1>0, <1>2, <1>3, <2>1, <2>3 DEF AtMerge, Subject
  <2>5. QED BY <1>2, <1>3, <2>3, <2>4 DEF ReviewTypeOK
<1>4. CASE /\ Mergeable(p, pass[q].pr.head) /\ pull' = [pull EXCEPT ![p].state = "merged"]
           /\ merged' = merged \cup {<<p, pull[p].head>>}
           /\ Ends(q, "failed")
  <2>1. /\ pass' \in [Pass -> PassState]
        /\ job' \in [Key -> {"free", "claimed", "completed", "failed"}]
        /\ pass'[q].pc = "pulls" /\ \A s \in Pass \ {q} : pass'[s] = pass[s]
        /\ ReviewsApart' /\ Board!BoardNext
    BY <1>0, <1>4, ReviewEnds
  <2>2. AtMerge'
    BY <1>0, <1>2, <1>4, <2>1 DEF AtMerge, Subject
  <2>3. QED BY <1>2, <1>4, <2>1, <2>2 DEF ReviewTypeOK
<1>5. QED BY <1>1, <1>3, <1>4 DEF Merge

\* The last call of a review changes labels, or closes the issue of the pull
\* request it has merged.
LEMMA LastCall ==
  ASSUME ReviewIInv, NEW q \in Pass, InReview(q), Ends(q, "completed"),
         NEW l \in SUBSET Label, pull' = [pull EXCEPT ![Subject(q)].labels = l],
         \/ closed' = closed
         \/ closed' = closed \cup {Subject(q)} /\ pass[q].pc = "close",
         UNCHANGED <<checks, thread, bounced, history>>
  PROVE  ReviewIInv' /\ Board!BoardNext
<1> USE DEF ReviewIInv, ReviewInv
<1>0. Subject(q) \in Pull /\ UNCHANGED <<crashes, merged, cleared>>
  BY Places DEF history
<1>1. /\ pass' \in [Pass -> PassState]
      /\ job' \in [Key -> {"free", "claimed", "completed", "failed"}]
      /\ pass'[q].pc = "pulls" /\ \A s \in Pass \ {q} : pass'[s] = pass[s]
      /\ ReviewsApart' /\ Board!BoardNext
  BY <1>0, ReviewEnds
<1>2. HubTypeOK'
  BY <1>0, PullTyped DEF HubTypeOK, ReviewTypeOK
<1>3. ClosedAfterMerge'
  <2>1. ASSUME pass[q].pc = "close"
        PROVE  pass[q].pr.head \in Heads /\ <<Subject(q), pass[q].pr.head>> \in merged
    BY <2>1, Places DEF Acting, Snapshot, AtMerge
  <2>2. QED BY <1>0, <2>1 DEF ClosedAfterMerge
<1>4. AtMerge' /\ MergedWasReviewed'
  BY <1>0, <1>1 DEF AtMerge, Subject, MergedWasReviewed
<1>5. QED BY <1>1, <1>2, <1>3, <1>4 DEF ReviewTypeOK

\* What a call that may fail unnoticed leaves is the new or the old.
LEMMA LossyIsEither == ASSUME NEW new, NEW old, NEW x \in Lossy(new, old) PROVE x = new \/ x = old
  BY DEF Lossy

\* Closing the issue.
LEMMA CloseKeeps ==
  ASSUME ReviewIInv, NEW q \in Pass, CloseIssue(q) PROVE ReviewIInv' /\ Board!BoardNext
<1> USE DEF ReviewIInv, ReviewInv
<1>0. /\ pass[q].pc = "close" /\ InReview(q) /\ Ends(q, "completed") /\ Subject(q) \in Pull
      /\ UNCHANGED <<checks, thread, bounced, history>>
  BY Places DEF CloseIssue, InReview
<1>1. closed' = closed \/ closed' = closed \cup {Subject(q)}
  BY LossyIsEither DEF CloseIssue
<1>2. PICK l \in SUBSET Label : pull' = [pull EXCEPT ![Subject(q)].labels = l]
  <2>1. PICK l \in Lossy(pull[Subject(q)].labels \ {"rm:review"}, pull[Subject(q)].labels) :
          pull' = [pull EXCEPT ![Subject(q)].labels = l]
    BY DEF CloseIssue
  <2>2. pull[Subject(q)].labels \subseteq Label
    BY <1>0, PullTyped DEF ReviewTypeOK
  <2>3. QED BY <2>1, <2>2, LossyIsEither
<1>3. QED BY <1>0, <1>1, <1>2, LastCall

\* Changing the labels of a pull request that is sent back or escalated.
LEMMA RelabelKeeps ==
  ASSUME ReviewIInv, NEW q \in Pass, RequestChanges(q) \/ Escalate(q)
  PROVE  ReviewIInv' /\ Board!BoardNext
<1> USE DEF ReviewIInv, ReviewInv
<1>0. PICK from \in {"relabel", "block"}, added \in SUBSET Label : Relabel(q, from, added)
  BY DEF RequestChanges, Escalate, Label
<1>1. /\ InReview(q) /\ Ends(q, "completed") /\ Subject(q) \in Pull
      /\ UNCHANGED <<checks, thread, bounced, closed, history>>
  BY <1>0, Places DEF Relabel, InReview
<1>2. PICK l \in SUBSET Label : pull' = [pull EXCEPT ![Subject(q)].labels = l]
  <2> DEFINE old == pull[Subject(q)].labels
  <2>1. PICK w \in Lossy(old \cup added, old) : \E without \in Lossy(w \ {"rm:review"}, w) :
          pull' = [pull EXCEPT ![Subject(q)].labels = without]
    BY <1>0 DEF Relabel
  <2>2. PICK l \in Lossy(w \ {"rm:review"}, w) : pull' = [pull EXCEPT ![Subject(q)].labels = l]
    BY <2>1
  <2>3. old \subseteq Label
    BY <1>1, PullTyped DEF ReviewTypeOK
  <2> HIDE DEF old
  <2>4. w \subseteq Label
    BY <2>1, <2>3, LossyIsEither
  <2>5. l \subseteq Label
    BY <2>2, <2>4, LossyIsEither
  <2>6. QED BY <2>2, <2>5
<1>3. QED BY <1>1, <1>2, LastCall

\* A comment counts the attempt, and the review goes on.
LEMMA CommentKeeps ==
  ASSUME ReviewIInv, NEW q \in Pass, CommentChanges(q) \/ CommentEscalation(q)
  PROVE  ReviewIInv' /\ UNCHANGED job
<1> USE DEF ReviewIInv, ReviewInv
<1>0. PICK from \in {"comment", "escalate"}, to \in {"relabel", "block"} : Comment(q, from, to)
  BY DEF CommentChanges, CommentEscalation
<1>1. /\ pass[q].pc = from /\ pass[q] \in Acting /\ InReview(q) /\ Subject(q) \in Pull
      /\ UNCHANGED <<pull, checks, closed, job, crashes, merged, cleared>>
  BY <1>0, Places DEF Comment, InReview, history
<1> DEFINE r == [pass[q] EXCEPT !.pc = to]
<1>2. r \in PassState /\ r.pc = to /\ r.key = pass[q].key
  BY <1>1 DEF PassState, Acting
<1>3. pass' = [pass EXCEPT ![q] = r]
  BY <1>0 DEF Comment, ReviewTypeOK
<1> HIDE DEF r
<1>4. /\ pass' \in [Pass -> PassState]
      /\ job' \in [Key -> {"free", "claimed", "completed", "failed"}]
      /\ pass'[q] = r /\ \A s \in Pass \ {q} : pass'[s] = pass[s]
      /\ ReviewsApart'
  BY <1>1, <1>2, <1>3, ReviewGoesOn
<1>5. thread' \in [Pull -> Nat] /\ bounced' \in [Pull -> Nat]
  <2>1. pass[q].attempt \in Nat
    BY <1>1 DEF Acting
  <2>2. thread \in [Pull -> Nat] /\ bounced \in [Pull -> Nat]
    BY DEF ReviewTypeOK, HubTypeOK
  <2>3. CASE UNCHANGED <<thread, bounced>>
    BY <2>2, <2>3
  <2>4. CASE /\ thread' = [thread EXCEPT ![Subject(q)] =
                             IF @ < pass[q].attempt THEN pass[q].attempt ELSE @]
             /\ bounced' = [bounced EXCEPT ![Subject(q)] = IF from = "comment" THEN @ + 1 ELSE @]
    BY <1>1, <2>1, <2>2, <2>4
  <2>5. QED BY <1>0, <2>3, <2>4 DEF Comment
<1>6. ReviewTypeOK' /\ ClosedAfterMerge' /\ MergedWasReviewed'
  BY <1>1, <1>4, <1>5 DEF ReviewTypeOK, HubTypeOK, ClosedAfterMerge, MergedWasReviewed
<1>7. AtMerge'
  BY <1>1, <1>2, <1>4 DEF AtMerge, Subject
<1>8. QED BY <1>1, <1>4, <1>6, <1>7

\* A call that throws ends the review.
LEMMA FailKeeps ==
  ASSUME ReviewIInv, NEW q \in Pass, ReviewFails(q) PROVE ReviewIInv' /\ Board!BoardNext
  BY EndsQuietly DEF ReviewFails, InReview

\* The process dies: no review is under way, and their jobs stay claimed.
LEMMA CrashKeeps ==
  ASSUME ReviewIInv, ReviewCrash PROVE ReviewIInv' /\ UNCHANGED job
<1> USE DEF ReviewIInv, ReviewInv
<1>0. /\ crashes < MaxCrash /\ crashes' = crashes + 1
      /\ pass' = [q \in Pass |-> NoPass]
      /\ UNCHANGED <<pull, checks, thread, bounced, closed, job, merged, cleared>>
  BY DEF ReviewCrash, hub
<1>1. crashes' \in 0..MaxCrash /\ crashes' # 0
  BY <1>0, ReviewAssumption DEF ReviewTypeOK, HubTypeOK
<1>2. pass' \in [Pass -> PassState] /\ \A q \in Pass : pass'[q].pc = "idle"
  BY <1>0 DEF NoPass, PassState
<1>3. ReviewTypeOK' /\ ClosedAfterMerge' /\ MergedWasReviewed'
  BY <1>0, <1>1, <1>2 DEF ReviewTypeOK, HubTypeOK, ClosedAfterMerge, MergedWasReviewed
<1>4. ReviewsApart' /\ AtMerge'
  BY <1>0, <1>1, <1>2 DEF ReviewsApart, AtMerge, InReview
<1>5. QED BY <1>0, <1>3, <1>4

-----------------------------------------------------------------------------
(* Developers, checks and people *)

\* Nothing that others do to pull requests and checks touches the reviews.
LEMMA EnvironmentKeeps ==
  ASSUME ReviewIInv, (\E p \in Pull : Others(p)) \/ (\E k \in Key : CheckRuns(k))
  PROVE  ReviewIInv' /\ UNCHANGED job
<1> USE DEF ReviewIInv, ReviewInv
<1> DEFINE Typed == [state : {"open", "closed", "merged"}, draft : BOOLEAN, head : Heads,
                     mergeable : BOOLEAN, body : Body, labels : SUBSET Label]
<1>1. ASSUME HubTypeOK', UNCHANGED <<closed, job, pass, crashes, merged, cleared>>
      PROVE  ReviewIInv'
  BY <1>1 DEF ReviewTypeOK, ReviewsApart, ClosedAfterMerge, MergedWasReviewed, AtMerge,
              InReview, Subject
<1>2. ASSUME NEW p \in Pull, NEW new \in Typed, Edits(p, new)
      PROVE  ReviewIInv' /\ UNCHANGED job
  <2>1. pull' \in [Pull -> Typed]
    BY <1>2 DEF Edits, ReviewTypeOK, HubTypeOK
  <2>2. HubTypeOK' /\ UNCHANGED <<closed, job, pass, crashes, merged, cleared>>
    BY <1>2, <2>1 DEF Edits, ReviewTypeOK, HubTypeOK, history
  <2>3. QED BY <1>1, <2>2
<1>3. ASSUME NEW p \in Pull, Others(p) PROVE ReviewIInv' /\ UNCHANGED job
  <2>1. pull[p] \in Typed
    BY DEF ReviewTypeOK, HubTypeOK
  <2>2. CASE Push(p)
    <3>1. PICK m \in BOOLEAN : Edits(p, [pull[p] EXCEPT !.head = @ + 1, !.mergeable = m])
      BY <2>2 DEF Push
    <3>2. pull[p].head + 1 \in Heads
      <4>1. pull[p].head \in Heads /\ pull[p].head < MaxHead
        BY <2>1, <2>2 DEF Push
      <4>2. QED BY <4>1, ReviewAssumption DEF Heads
    <3>3. [pull[p] EXCEPT !.head = @ + 1, !.mergeable = m] \in Typed
      BY <2>1, <3>2
    <3>4. QED BY <1>2, <3>1, <3>3
  <2>3. CASE MarkReady(p)
    <3>1. [pull[p] EXCEPT !.draft = FALSE] \in Typed
      BY <2>1
    <3>2. QED BY <1>2, <2>3, <3>1 DEF MarkReady
  <2>4. CASE BaseMoves(p)
    <3>1. [pull[p] EXCEPT !.mergeable = FALSE] \in Typed
      BY <2>1
    <3>2. QED BY <1>2, <2>4, <3>1 DEF BaseMoves
  <2>5. CASE NameIssue(p)
    <3>1. [pull[p] EXCEPT !.body = "closes"] \in Typed
      BY <2>1 DEF Body
    <3>2. QED BY <1>2, <2>5, <3>1 DEF NameIssue
  <2>6. CASE AskReview(p)
    <3>1. [pull[p] EXCEPT !.labels = {"rm:review"}] \in Typed
      BY <2>1 DEF Label
    <3>2. QED BY <1>2, <2>6, <3>1 DEF AskReview
  <2>7. CASE ClosePull(p)
    <3>1. [pull[p] EXCEPT !.state = "closed"] \in Typed
      BY <2>1
    <3>2. QED BY <1>2, <2>7, <3>1 DEF ClosePull
  <2>8. QED BY <1>3, <2>2, <2>3, <2>4, <2>5, <2>6, <2>7 DEF Others
<1>4. ASSUME NEW k \in Key, CheckRuns(k) PROVE ReviewIInv' /\ UNCHANGED job
  <2>1. checks' \in [Key -> CheckState]
    BY <1>4 DEF CheckRuns, CheckState, ReviewTypeOK, HubTypeOK
  <2>2. HubTypeOK' /\ UNCHANGED <<closed, job, pass, crashes, merged, cleared>>
    BY <1>4, <2>1 DEF CheckRuns, ReviewTypeOK, HubTypeOK, history
  <2>3. QED BY <1>1, <2>2
<1>5. QED BY <1>3, <1>4

-----------------------------------------------------------------------------
\* Every step keeps the inductive invariant and is one of the job board's, or
\* leaves the jobs as they are.
LEMMA NextKeeps ==
  ReviewIInv /\ [ReviewNext]_reviewVars => ReviewIInv' /\ [Board!BoardNext]_job
<1> SUFFICES ASSUME ReviewIInv, [ReviewNext]_reviewVars
             PROVE  ReviewIInv' /\ (Board!BoardNext \/ UNCHANGED job)
  OBVIOUS
<1>1. ASSUME NEW q \in Pass, ListPulls(q)
      PROVE  ReviewIInv' /\ (Board!BoardNext \/ UNCHANGED job)
  BY <1>1, ListKeeps
<1>2. ASSUME NEW q \in Pass, PassStep(q)
      PROVE  ReviewIInv' /\ (Board!BoardNext \/ UNCHANGED job)
  BY <1>2, ClaimKeeps, LoadKeeps, DecideKeeps, MergeKeeps, CloseKeeps, CommentKeeps,
     RelabelKeeps, FailKeeps DEF PassStep
<1>3. CASE ReviewCrash
  BY <1>3, CrashKeeps
<1>4. CASE (\E p \in Pull : Others(p)) \/ (\E k \in Key : CheckRuns(k))
  BY <1>4, EnvironmentKeeps
<1>5. CASE UNCHANGED reviewVars
  BY <1>5 DEF reviewVars, hub, history, ReviewIInv, ReviewInv, ReviewTypeOK, HubTypeOK,
              ReviewsApart, ClosedAfterMerge, MergedWasReviewed, AtMerge, InReview, Subject
<1>6. QED BY <1>1, <1>2, <1>3, <1>4, <1>5 DEF ReviewNext

\* The inductive invariant holds throughout.
THEOREM ReviewInvariant == ReviewSpec => []ReviewIInv
  BY InitReview, NextKeeps, PTL DEF ReviewSpec

\* A review holds its job alone and closes nothing it did not merge, with any
\* number of overlapping passes, lost answers and deaths.
THEOREM ReviewCorrect == ReviewSpec => []ReviewInv
<1>1. ReviewIInv => ReviewInv
  BY DEF ReviewIInv
<1>2. QED BY <1>1, ReviewInvariant, PTL

\* No head is merged that no review has cleared, however often the branch
\* moves while its checks and its thread are read.
THEOREM ReviewMergesCleared == ReviewSpec => []MergedWasReviewed
<1>1. ReviewIInv => MergedWasReviewed
  BY DEF ReviewIInv
<1>2. QED BY <1>1, ReviewInvariant, PTL

\* The release manager implements the job board: a head is reviewed once.
THEOREM ReviewOnBoard == ReviewSpec => ReviewKeepsBoard
<1>1. ReviewInit => Board!BoardInit
  BY DEF ReviewInit, Board!BoardInit
<1>2. ReviewSpec => Board!BoardInit /\ [][Board!BoardNext]_job
  BY <1>1, NextKeeps, ReviewInvariant, PTL DEF ReviewSpec
<1>3. QED BY <1>2 DEF ReviewKeepsBoard, Board!BoardSpec
=============================================================================
