----------------------------- MODULE MergeReview -----------------------------
(***************************************************************************)
(* The release manager (engine/rm-review.ts), driven by the passes of the  *)
(* reconciler (engine/loop-reconciler.ts): an open pull request that       *)
(* carries rm:review is loaded, its checks and its attempts so far are     *)
(* read, and it is merged, sent back or handed to a person -- each a       *)
(* sequence of calls to GitHub, where the branch moves, checks end, labels *)
(* and bodies are edited and people merge in between.  Passes may overlap; *)
(* one review per head is all github_jobs admits.                          *)
(*                                                                         *)
(* The webhook never gets here: it drops every pull request that no row of *)
(* features is mapped to, and no task carries the feature id by which      *)
(* engine/agent-engine.ts would write that mapping.                        *)
(***************************************************************************)
EXTENDS Naturals, FiniteSets

CONSTANTS
  Pull,         \* pull requests
  MaxPass,      \* bound: passes of the reconciler that overlap
  MaxAttempts,  \* MAX_ATTEMPTS
  MaxHead,      \* bound: commits pushed to a branch
  MaxCrash,     \* bound: process deaths
  ReviewFaults

ASSUME ReviewAssumption ==
  /\ MaxPass \in Nat /\ MaxAttempts \in Nat \ {0} /\ MaxHead \in Nat \ {0} /\ MaxCrash \in Nat
  /\ ReviewFaults \subseteq {"api",    \* a call to GitHub fails
                             "reply"}  \* GitHub merges but its answer is lost

Heads == 1..MaxHead
Pass == 1..MaxPass
Key == Pull \X Heads    \* rm-review:<repository>#<pull>@<head>

\* A body names the issue it closes, with no box left to tick, or it does
\* not.  (A box to tick fails the checklist as a red check does.)
Body == {"bare", "closes"}
CheckState == {"none", "unsettled", "green"}   \* unsettled: running or failed
Label == {"rm:review", "blocked:human"}   \* those that are read

VARIABLES
  pull,     \* GitHub: the pull requests
  checks,   \* GitHub: the checks of each head
  thread,   \* GitHub: the highest attempt marked on each pull request
  bounced,  \* GitHub: how often each was sent back
  closed,   \* GitHub: the pull requests whose issue is closed
  job,      \* rows of github_jobs
  pass,     \* the reconciler's passes and the review each is in
  crashes,
  merged,   \* history: the heads the release manager merged
  cleared   \* history: the heads a review found nothing against

hub == <<pull, checks, thread, bounced, closed>>
history == <<crashes, merged, cleared>>
reviewVars == <<hub, job, pass, history>>

NewPull == [state |-> "open", draft |-> TRUE, head |-> 1, mergeable |-> TRUE,
            body |-> "bare", labels |-> {}]
NoPass == [pc |-> "idle", todo |-> {}]

ReviewInit ==
  /\ pull = [p \in Pull |-> NewPull]
  /\ checks = [k \in Key |-> "none"]
  /\ thread = [p \in Pull |-> 0]
  /\ bounced = [p \in Pull |-> 0]
  /\ closed = {}
  /\ job = [k \in Key |-> "free"]
  /\ pass = [q \in Pass |-> NoPass]
  /\ crashes = 0
  /\ merged = {} /\ cleared = {}

Fails == "api" \in ReviewFaults

-----------------------------------------------------------------------------
(* The pass *)

Reviewable(p) == pull[p].state = "open" /\ ~pull[p].draft /\ "rm:review" \in pull[p].labels

\* A pass, in the lowest place that is free, calls listPulls.  (A listing that
\* fails changes nothing.)
ListPulls(q) ==
  /\ pass[q].pc = "idle" /\ \A r \in 1..(q - 1) : pass[r].pc # "idle"
  /\ pass' = [pass EXCEPT ![q] = [pc |-> "pulls",
                todo |-> {<<p, pull[p].head>> : p \in {r \in Pull : Reviewable(r)}}]]
  /\ UNCHANGED <<hub, job, history>>

\* Mutant of ClaimReview: the key is that of the pull request alone.
ClaimPull(q) ==
  /\ pass[q].pc = "pulls"
  /\ \/ /\ pass[q].todo = {}
        /\ pass' = [pass EXCEPT ![q] = NoPass]
        /\ UNCHANGED job
     \/ \E k \in pass[q].todo :
          \/ /\ \A h \in Heads : job[<<k[1], h>>] = "free"
             /\ job' = [job EXCEPT ![k] = "claimed"]
             /\ pass' = [pass EXCEPT ![q] = [pc |-> "load", todo |-> @.todo \ {k}, key |-> k]]
          \/ /\ \E h \in Heads : job[<<k[1], h>>] # "free"
             /\ pass' = [pass EXCEPT ![q].todo = @ \ {k}]
             /\ UNCHANGED job
  /\ UNCHANGED <<hub, history>>

\* Mutant of ClaimReview: the key is looked up and not unique.
ClaimTaken(q) ==
  /\ pass[q].pc = "pulls"
  /\ \/ /\ pass[q].todo = {}
        /\ pass' = [pass EXCEPT ![q] = NoPass]
        /\ UNCHANGED job
     \/ \E k \in pass[q].todo :
          /\ job' = [job EXCEPT ![k] = "claimed"]
          /\ pass' = [pass EXCEPT ![q] = [pc |-> "load", todo |-> @.todo \ {k}, key |-> k]]
  /\ UNCHANGED <<hub, history>>

\* The next listed pull request: its key, with the head as listed, is
\* claimed, or it is passed over.
ClaimReview(q) ==
  /\ pass[q].pc = "pulls"
  /\ \/ /\ pass[q].todo = {}
        /\ pass' = [pass EXCEPT ![q] = NoPass]
        /\ UNCHANGED job
     \/ \E k \in pass[q].todo :
          \/ /\ job[k] = "free"
             /\ job' = [job EXCEPT ![k] = "claimed"]
             /\ pass' = [pass EXCEPT ![q] = [pc |-> "load", todo |-> @.todo \ {k}, key |-> k]]
          \/ /\ job[k] # "free"
             /\ pass' = [pass EXCEPT ![q].todo = @ \ {k}]
             /\ UNCHANGED job
  /\ UNCHANGED <<hub, history>>

\* Mutant of Ends: a review that failed gives its key back.
EndsFree(q, status) ==
  /\ job' = [job EXCEPT ![pass[q].key] = IF status = "failed" THEN "free" ELSE status]
  /\ pass' = [pass EXCEPT ![q] = [pc |-> "pulls", todo |-> @.todo]]

\* The review of q ends: its job is marked and the pass goes on.
Ends(q, status) ==
  /\ job' = [job EXCEPT ![pass[q].key] = status]
  /\ pass' = [pass EXCEPT ![q] = [pc |-> "pulls", todo |-> @.todo]]

-----------------------------------------------------------------------------
(* runRmReview *)

Subject(q) == pass[q].key[1]

\* The pull request is loaded; one that is merged, closed or a draft by now
\* is skipped.  All that follows goes by the copy taken here.
LoadPull(q) ==
  /\ pass[q].pc = "load"
  /\ LET now == pull[Subject(q)] IN
     \/ /\ now.state = "open" /\ ~now.draft
        /\ pass' = [pass EXCEPT ![q] = [pc |-> "checks", todo |-> @.todo, key |-> @.key, pr |-> now]]
        /\ UNCHANGED job
     \/ /\ now.state # "open" \/ now.draft
        /\ Ends(q, "completed")
  /\ UNCHANGED <<hub, history>>

\* The checklist.  No checks at all count as passing.
Passes(pr, ci) ==
  /\ pr.mergeable
  /\ ci \in {"none", "green"}
  /\ pr.body = "closes"
  /\ "blocked:human" \notin pr.labels

\* Attempts are counted on the issue the body closes, where none are marked,
\* and only without one on the pull request, where they are.
Attempts(q) == IF pass[q].pr.body = "bare" THEN thread[Subject(q)] ELSE 0

\* The checks of the head in that copy and the attempts are read, and decide.
Decide(q) ==
  /\ pass[q].pc = "checks"
  /\ LET r == pass[q]
         head == <<Subject(q), r.pr.head>>
         passes == Passes(r.pr, checks[head]) IN
     /\ pass' = [pass EXCEPT ![q] =
          [pc |-> IF passes THEN "merge"
                  ELSE IF Attempts(q) >= MaxAttempts THEN "escalate" ELSE "comment",
           todo |-> r.todo, key |-> r.key, pr |-> r.pr, attempt |-> Attempts(q) + 1]]
     /\ cleared' = IF passes THEN cleared \cup {head} ELSE cleared
  /\ UNCHANGED <<hub, job, crashes, merged>>

\* Mutant of Mergeable: the call names no head.
MergeableTip(p, head) ==
  /\ pull[p].state = "open" /\ ~pull[p].draft
  /\ pull[p].mergeable

\* What GitHub merges: an open, mergeable pull request whose tip is the head
\* the call names.
Mergeable(p, head) ==
  /\ pull[p].state = "open" /\ ~pull[p].draft
  /\ pull[p].mergeable
  /\ pull[p].head = head

Merge(q) ==
  /\ pass[q].pc = "merge"
  /\ LET p == Subject(q) IN
     \/ /\ Mergeable(p, pass[q].pr.head)
        /\ pull' = [pull EXCEPT ![p].state = "merged"]
        /\ merged' = merged \cup {<<p, pull[p].head>>}
        /\ \/ /\ pass' = [pass EXCEPT ![q].pc = "close"]
              /\ UNCHANGED job
           \/ /\ "reply" \in ReviewFaults
              /\ Ends(q, "failed")
     \/ /\ ~Mergeable(p, pass[q].pr.head) \/ Fails
        /\ Ends(q, "failed")
        /\ UNCHANGED <<pull, merged>>
  /\ UNCHANGED <<checks, thread, bounced, closed, crashes, cleared>>

\* Each of the closing calls may fail unnoticed.
Lossy(new, old) == IF Fails THEN {new, old} ELSE {new}

CloseIssue(q) ==
  /\ pass[q].pc = "close"
  /\ closed' \in Lossy(closed \cup {Subject(q)}, closed)
  /\ \E l \in Lossy(pull[Subject(q)].labels \ {"rm:review"}, pull[Subject(q)].labels) :
       pull' = [pull EXCEPT ![Subject(q)].labels = l]
  /\ Ends(q, "completed")
  /\ UNCHANGED <<checks, thread, bounced, history>>

\* The comment, with the attempt's mark; then the labels.
Comment(q, from, to) ==
  /\ pass[q].pc = from
  /\ LET p == Subject(q) IN
     \/ /\ thread' = [thread EXCEPT ![p] = IF @ < pass[q].attempt THEN pass[q].attempt ELSE @]
        /\ bounced' = [bounced EXCEPT ![p] = IF from = "comment" THEN @ + 1 ELSE @]
     \/ Fails /\ UNCHANGED <<thread, bounced>>
  /\ pass' = [pass EXCEPT ![q].pc = to]
  /\ UNCHANGED <<pull, checks, closed, job, history>>

CommentChanges(q) == Comment(q, "comment", "relabel")
CommentEscalation(q) == Comment(q, "escalate", "block")

\* Whatever was labelled since the copy was taken, rm:review is removed.
Relabel(q, from, added) ==
  /\ pass[q].pc = from
  /\ LET old == pull[Subject(q)].labels IN
     \E with \in Lossy(old \cup added, old) :
       \E without \in Lossy(with \ {"rm:review"}, with) :
         pull' = [pull EXCEPT ![Subject(q)].labels = without]
  /\ Ends(q, "completed")
  /\ UNCHANGED <<checks, thread, bounced, closed, history>>

RequestChanges(q) == Relabel(q, "relabel", {})   \* and rm:changes-requested
Escalate(q) == Relabel(q, "block", {"blocked:human"})

\* Loading, reading the checks and reading the comments may throw.
ReviewFails(q) ==
  /\ Fails
  /\ pass[q].pc \in {"load", "checks"}
  /\ Ends(q, "failed")
  /\ UNCHANGED <<hub, history>>

\* The process dies; the job of a review under way stays claimed for good.
ReviewCrash ==
  /\ crashes < MaxCrash
  /\ crashes' = crashes + 1
  /\ \E q \in Pass : pass[q] # NoPass
  /\ pass' = [q \in Pass |-> NoPass]
  /\ UNCHANGED <<hub, job, merged, cleared>>

-----------------------------------------------------------------------------
(* Developers, checks and people *)

Edits(p, new) ==
  /\ pull[p].state = "open"
  /\ pull' = [pull EXCEPT ![p] = new]
  /\ UNCHANGED <<checks, thread, bounced, closed, job, pass, history>>

Push(p) ==
  /\ pull[p].head < MaxHead
  /\ \E m \in BOOLEAN : Edits(p, [pull[p] EXCEPT !.head = @ + 1, !.mergeable = m])

MarkReady(p) == pull[p].draft /\ Edits(p, [pull[p] EXCEPT !.draft = FALSE])

BaseMoves(p) == pull[p].mergeable /\ Edits(p, [pull[p] EXCEPT !.mergeable = FALSE])

NameIssue(p) == pull[p].body = "bare" /\ Edits(p, [pull[p] EXCEPT !.body = "closes"])

AskReview(p) ==
  /\ "rm:review" \notin pull[p].labels
  /\ Edits(p, [pull[p] EXCEPT !.labels = {"rm:review"}])   \* and lifts the block

\* Somebody else closes or merges it.
ClosePull(p) == Edits(p, [pull[p] EXCEPT !.state = "closed"])

CheckRuns(k) ==
  /\ pull[k[1]].head >= k[2]
  /\ \/ checks[k] = "none" /\ checks' = [checks EXCEPT ![k] = "unsettled"]
     \/ checks[k] = "unsettled" /\ checks' = [checks EXCEPT ![k] = "green"]
  /\ UNCHANGED <<pull, thread, bounced, closed, job, pass, history>>

Others(p) ==
  \/ Push(p) \/ MarkReady(p) \/ BaseMoves(p) \/ NameIssue(p) \/ AskReview(p) \/ ClosePull(p)

PassStep(q) ==
  \/ ClaimReview(q) \/ LoadPull(q) \/ Decide(q) \/ Merge(q) \/ CloseIssue(q)
  \/ CommentChanges(q) \/ RequestChanges(q) \/ CommentEscalation(q) \/ Escalate(q) \/ ReviewFails(q)

ReviewNext ==
  \/ \E q \in Pass : ListPulls(q) \/ PassStep(q)
  \/ ReviewCrash
  \/ \E p \in Pull : Others(p)
  \/ \E k \in Key : CheckRuns(k)

\* The timer ticks, and a pass goes on to its end.
ReviewFairness == \A q \in Pass : WF_reviewVars(ListPulls(q)) /\ WF_reviewVars(PassStep(q))

ReviewSpec == ReviewInit /\ [][ReviewNext]_reviewVars /\ ReviewFairness

-----------------------------------------------------------------------------
Snapshot == [state : {"open"}, draft : {FALSE}, head : Heads, mergeable : BOOLEAN,
             body : Body, labels : SUBSET Label]

\* A pass holds what its place in the code has computed so far.
PassState ==
  [pc : {"idle", "pulls"}, todo : SUBSET Key]
    \cup [pc : {"load"}, todo : SUBSET Key, key : Key]
    \cup [pc : {"checks"}, todo : SUBSET Key, key : Key, pr : Snapshot]
    \cup [pc : {"merge", "close", "comment", "relabel", "escalate", "block"}, todo : SUBSET Key,
          key : Key, pr : Snapshot, attempt : Nat]

\* The types of what GitHub keeps and of the histories.
HubTypeOK ==
  /\ pull \in [Pull -> [state : {"open", "closed", "merged"}, draft : BOOLEAN, head : Heads,
                        mergeable : BOOLEAN, body : Body, labels : SUBSET Label]]
  /\ checks \in [Key -> CheckState]
  /\ thread \in [Pull -> Nat] /\ bounced \in [Pull -> Nat]
  /\ closed \subseteq Pull
  /\ crashes \in 0..MaxCrash
  /\ merged \subseteq Key /\ cleared \subseteq Key

\* The types, and that a pass reviews a copy of an open pull request.
ReviewTypeOK ==
  /\ HubTypeOK
  /\ job \in [Key -> {"free", "claimed", "completed", "failed"}]
  /\ pass \in [Pass -> PassState]

\* What the release manager merges is what it reviewed: commits pushed while
\* it read the checks and the thread are never merged unseen.
MergedWasReviewed == merged \subseteq cleared

\* "If merge fails, we don't touch the issue": an issue is closed only after
\* its pull request was merged by the release manager.
ClosedAfterMerge == \A p \in closed : \E h \in Heads : <<p, h>> \in merged

InReview(q) == pass[q].pc \notin {"idle", "pulls"}

\* Two passes never review one head, and a review is under way for every
\* claimed job that no crash has orphaned.
ReviewsApart ==
  /\ \A q \in Pass : InReview(q) => job[pass[q].key] = "claimed"
  /\ \A q, r \in Pass : q # r /\ InReview(q) /\ InReview(r) => pass[q].key # pass[r].key
  /\ \A k \in Key : job[k] = "claimed" /\ crashes = 0
                      => \E q \in Pass : InReview(q) /\ pass[q].key = k

\* Reviews under way, the board and what was closed fit together: a review
\* holds its job alone, and closes nothing that it did not merge.
ReviewInv == ReviewTypeOK /\ ReviewsApart /\ ClosedAfterMerge

Board == INSTANCE JobBoard

\* However passes overlap and die, a head is given to one review for good: no
\* review is reopened, and none is begun again once it ended or was orphaned.
ReviewKeepsBoard == Board!BoardSpec

\* "Include the head SHA so re-pushes get a fresh state_key and re-run the
\* review": a pull request that asks for a review of its tip gets one, or is
\* changed, whatever became of the reviews of its earlier heads.
ReviewStarts ==
  \A k \in Key : (Reviewable(k[1]) /\ pull[k[1]].head = k[2])
                   ~> (job[k] # "free" \/ ~Reviewable(k[1]) \/ pull[k[1]].head # k[2])

\* "After 3 failed attempts, the PR is escalated" (the comment the release
\* manager itself posts): no pull request is sent back more often than that.
EscalatesInTime == \A p \in Pull : bounced[p] <= MaxAttempts
=============================================================================
