----------------------------- MODULE FeatureLoop -----------------------------
(***************************************************************************)
(* The hand-off from PM to Dev: the specification of a workstream is split *)
(* into features (routes/tasks.ts), each feature is emitted as an issue on *)
(* GitHub (engine/pm-issue-flow.ts), and an issue that carries pm:ready    *)
(* becomes a task -- by the webhook (engine/webhook-dispatcher.ts), or by  *)
(* the reconciler when the delivery was missed (engine/loop-reconciler.ts).*)
(* The two share nothing but the rows of github_jobs, and two passes of    *)
(* the reconciler may overlap, for its timer does not wait for the last.   *)
(* GitHub and the people who label issues there are the environment.       *)
(***************************************************************************)
EXTENDS Naturals, FiniteSets, Sequences

CONSTANTS
  Batch,        \* calls of decomposeAndPersist for the workstream
  Slice,        \* the features one decomposition yields
  Integration,  \* the one of them that gets no issue
  MaxPass,      \* bound: passes of the reconciler that overlap
  MaxIssue, MaxMail, MaxMishap,   \* bounds
  LoopFaults

ASSUME LoopAssumption ==
  /\ Integration \in Slice
  /\ MaxPass \in Nat /\ MaxIssue \in Nat \ {0} /\ MaxMail \in Nat /\ MaxMishap \in Nat
  /\ LoopFaults \subseteq {"api",     \* a call that creates or labels fails
                           "reply",   \* GitHub acts but its answer is lost
                           "people"}  \* people label issues

Feature == Batch \X Slice
Issue == 1..MaxIssue
Pass == 1..MaxPass
Key == Issue       \* dev-pickup:<repository>#<issue>
NoFeature == <<>>

VARIABLES
  feature,   \* rows of features: the issue each is mapped to, 0 for none
  repo,      \* row of target_repos
  emit,      \* each decomposeAndPersist with its emitIssuesForWorkstream
  issue,     \* GitHub: issues; "of" is the marker hidden in the body
  mail,      \* GitHub: the webhook deliveries sent so far
  delivered, \* rows of github_deliveries
  job,       \* rows of github_jobs
  spawned,   \* how many tasks were created for each issue
  pass,      \* the reconciler's passes: the issues listed and not yet seen
  mishaps    \* process deaths and tasks that could not be made, to bound them

loopVars == <<feature, repo, emit, issue, mail, delivered, job, spawned, pass, mishaps>>
pickupVars == <<delivered, job, spawned>>

NoEmit == [pc |-> "idle", todo |-> {}, at |-> NoFeature, num |-> 0]
Over == [NoEmit EXCEPT !.pc = "done"]
NoIssue == [of |-> NoFeature, ready |-> "no"]
NoPass == [pc |-> "idle", todo |-> {}]

LoopInit ==
  /\ feature = [f \in Feature |-> [row |-> FALSE, issue |-> 0]]
  /\ repo = [ready |-> FALSE, hook |-> FALSE]
  /\ emit = [b \in Batch |-> NoEmit]
  /\ issue = [n \in Issue |-> NoIssue]
  /\ mail = <<>> /\ delivered = {}
  /\ job = [k \in Key |-> "free"]
  /\ spawned = [n \in Issue |-> 0]
  /\ pass = [p \in Pass |-> NoPass]
  /\ mishaps = 0

Rows == {f \in Feature : feature[f].row}
Unused == {n \in Issue : issue[n].of = NoFeature}

-----------------------------------------------------------------------------
(* Decomposition and emission *)

\* A workstream that has features is not split again -- as far as its rows
\* tell when the question is asked.
Decompose(b) ==
  /\ emit[b].pc = "idle"
  /\ emit' = [emit EXCEPT ![b].pc = IF Rows = {} THEN "asked" ELSE "done"]
  /\ UNCHANGED <<feature, repo, issue, mail, pickupVars, pass, mishaps>>

\* The model answers.  An error, an empty text and one without headings all
\* leave the workstream whole; otherwise the rows are written, and every
\* feature of the workstream is to be emitted.
Decomposed(b) ==
  /\ emit[b].pc = "asked"
  /\ \/ /\ feature' = [f \in Feature |-> IF f[1] = b THEN [feature[f] EXCEPT !.row = TRUE]
                                                     ELSE feature[f]]
        /\ emit' = [emit EXCEPT ![b].pc = "boot",
                      ![b].todo = {f \in Feature : feature'[f].row /\ f[2] # Integration}]
     \/ /\ emit' = [emit EXCEPT ![b].pc = "done"]
        /\ UNCHANGED feature
  /\ UNCHANGED <<repo, issue, mail, pickupVars, pass, mishaps>>

\* ensureTargetRepoBootstrapped: a label that cannot be made aborts the
\* batch, a webhook that cannot be made does not.
Bootstrap(b) ==
  /\ emit[b].pc = "boot"
  /\ \/ /\ repo.ready
        /\ emit' = [emit EXCEPT ![b].pc = "next"]
        /\ UNCHANGED repo
     \/ /\ ~repo.ready
        /\ \E hook \in BOOLEAN : repo' = [ready |-> TRUE, hook |-> hook]
        /\ emit' = [emit EXCEPT ![b].pc = "next"]
     \/ /\ ~repo.ready /\ "api" \in LoopFaults
        /\ emit' = [emit EXCEPT ![b] = Over]
        /\ UNCHANGED repo
  /\ UNCHANGED <<feature, issue, mail, pickupVars, pass, mishaps>>

\* The next feature.  One that has its issue by now is passed over; for the
\* others two labels are ensured, and a failure gives the feature up.
EmitNext(b) ==
  /\ emit[b].pc = "next"
  /\ \/ /\ emit[b].todo = {}
        /\ emit' = [emit EXCEPT ![b].pc = "done"]
     \/ \E f \in emit[b].todo :
          \/ /\ feature[f].issue = 0
             /\ emit' = [emit EXCEPT ![b].pc = "create", ![b].todo = @ \ {f}, ![b].at = f]
          \/ /\ feature[f].issue # 0 \/ "api" \in LoopFaults
             /\ emit' = [emit EXCEPT ![b].todo = @ \ {f}]
  /\ UNCHANGED <<feature, repo, issue, mail, pickupVars, pass, mishaps>>

\* Mutant of CreateIssue: pm:ready is among the labels it is created with.
CreateIssueReady(b) ==
  /\ emit[b].pc = "create"
  /\ \E n \in Unused :
       /\ \A m \in Unused : n <= m
       /\ issue' = [issue EXCEPT ![n] = [of |-> emit[b].at, ready |-> "pm"]]
       /\ emit' = [emit EXCEPT ![b].pc = "map", ![b].num = n]
  /\ UNCHANGED <<feature, repo, mail, pickupVars, pass, mishaps>>

\* createIssue, without pm:ready among its labels.
CreateIssue(b) ==
  /\ emit[b].pc = "create"
  /\ \/ \E n \in Unused :
          /\ \A m \in Unused : n <= m
          /\ issue' = [issue EXCEPT ![n] = [of |-> emit[b].at, ready |-> "no"]]
          /\ \/ emit' = [emit EXCEPT ![b].pc = "map", ![b].num = n]
             \/ /\ "reply" \in LoopFaults
                /\ emit' = [emit EXCEPT ![b].pc = "next", ![b].at = NoFeature]
     \/ /\ "api" \in LoopFaults
        /\ emit' = [emit EXCEPT ![b].pc = "next", ![b].at = NoFeature]
        /\ UNCHANGED issue
  /\ UNCHANGED <<feature, repo, mail, pickupVars, pass, mishaps>>

\* The number GitHub answered is written to the feature's row.
MapIssue(b) ==
  /\ emit[b].pc = "map"
  /\ feature' = [feature EXCEPT ![emit[b].at].issue = emit[b].num]
  /\ emit' = [emit EXCEPT ![b].pc = "label"]
  /\ UNCHANGED <<repo, issue, mail, pickupVars, pass, mishaps>>

\* GitHub sends issues.labeled if the repository has the webhook.
Mailed(n) == IF repo.hook /\ Len(mail) < MaxMail THEN Append(mail, n) ELSE mail

\* pm:ready hands the issue off.  A failure is logged and nothing else.
ApplyReady(b) ==
  /\ emit[b].pc = "label"
  /\ emit' = [emit EXCEPT ![b].pc = "next", ![b].at = NoFeature, ![b].num = 0]
  /\ \/ /\ issue' = [issue EXCEPT ![emit[b].num].ready = "pm"]
        /\ mail' = Mailed(emit[b].num)
     \/ "api" \in LoopFaults /\ UNCHANGED <<issue, mail>>
  /\ UNCHANGED <<feature, repo, pickupVars, pass, mishaps>>

-----------------------------------------------------------------------------
(* Pickup *)

Mapped(n) == \E f \in Feature : feature[f].issue = n

\* Mutant of Pickup: the key is not unique.
PickupAgain(n) ==
  /\ job' = [job EXCEPT ![n] = "completed"]
  /\ spawned' = [spawned EXCEPT ![n] = IF @ < 2 THEN @ + 1 ELSE @]
  /\ UNCHANGED mishaps

\* Mutant: a job that failed is free for the next who asks.
PickupFailed(n) ==
  IF job[n] \in {"claimed", "completed"} THEN UNCHANGED <<job, spawned, mishaps>>
  ELSE \/ /\ job' = [job EXCEPT ![n] = "completed"]
          /\ spawned' = [spawned EXCEPT ![n] = @ + 1]
          /\ UNCHANGED mishaps
       \/ /\ mishaps < MaxMishap
          /\ mishaps' = mishaps + 1
          /\ job' = [job EXCEPT ![n] = "failed"]
          /\ UNCHANGED spawned

\* Of all who insert the key of issue n one succeeds; that one creates the
\* task and marks the job, unless the process dies before or after it did.
Pickup(n) ==
  IF job[n] # "free" THEN UNCHANGED <<job, spawned, mishaps>>
  ELSE \/ /\ job' = [job EXCEPT ![n] = "completed"]
          /\ spawned' = [spawned EXCEPT ![n] = @ + 1]
          /\ UNCHANGED mishaps
       \/ /\ mishaps < MaxMishap
          /\ mishaps' = mishaps + 1
          /\ job' = [job EXCEPT ![n] = "failed"]
          /\ UNCHANGED spawned

\* The webhook.  A delivery seen before is dropped; an issue no row is mapped
\* to is known by its marker, and mends the row unless that has an issue.
Deliver(d) ==
  /\ d \notin delivered
  /\ delivered' = delivered \cup {d}
  /\ LET n == mail[d] IN
     /\ feature' = IF Mapped(n) \/ feature[issue[n].of].issue # 0 THEN feature
                   ELSE [feature EXCEPT ![issue[n].of].issue = n]
     /\ Pickup(n)
  /\ UNCHANGED <<repo, emit, issue, mail, pass>>

\* A pass of the reconciler, in the lowest place that is free, lists the issues
\* that carry pm:ready.  (Nobody closes one here before it is picked up; a
\* listing that fails changes nothing.)
List(p) ==
  /\ repo.ready
  /\ pass[p].pc = "idle" /\ \A q \in 1..(p - 1) : pass[q].pc # "idle"
  /\ pass' = [pass EXCEPT ![p] = [pc |-> "issues",
                                  todo |-> {n \in Issue : issue[n].ready # "no"}]]
  /\ UNCHANGED <<feature, repo, emit, issue, mail, pickupVars, mishaps>>

\* Mutant of Healed: the marker is not read.
Unhealed(n) == feature

\* The reconciler mends the row whatever issue it had.
Healed(n) == IF Mapped(n) THEN feature ELSE [feature EXCEPT ![issue[n].of].issue = n]

\* The next listed issue.
ReconcileIssue(p) ==
  /\ pass[p].pc = "issues"
  /\ \/ /\ pass[p].todo = {}
        /\ pass' = [pass EXCEPT ![p] = NoPass]
        /\ UNCHANGED <<feature, job, spawned, mishaps>>
     \/ \E n \in pass[p].todo :
          /\ pass' = [pass EXCEPT ![p].todo = @ \ {n}]
          /\ feature' = Healed(n)
          /\ IF \E f \in Feature : feature'[f].issue = n THEN Pickup(n)
                                                         ELSE UNCHANGED <<job, spawned, mishaps>>
  /\ UNCHANGED <<repo, emit, issue, mail, delivered>>

-----------------------------------------------------------------------------
(* People and mishaps *)

HumanLabels(n) ==
  /\ "people" \in LoopFaults
  /\ issue[n].of # NoFeature /\ issue[n].ready = "no"
  /\ issue' = [issue EXCEPT ![n].ready = "human"]
  /\ mail' = Mailed(n)
  /\ UNCHANGED <<feature, repo, emit, pickupVars, pass, mishaps>>

\* The process dies inside a pickup: the key is inserted, the task may be made.
DiesPickingUp(n) ==
  /\ job[n] = "free" /\ Mapped(n)
  /\ job' = [job EXCEPT ![n] = "claimed"]
  /\ \E task \in 0..1 : spawned' = [spawned EXCEPT ![n] = @ + task]

\* The process dies and is started again: emissions and passes are gone and
\* nothing resumes them.  A delivery it was about to dispatch stays known, and
\* a job it was about to spawn stays claimed.
LoopCrash ==
  /\ mishaps < MaxMishap
  /\ mishaps' = mishaps + 1
  /\ emit' = [b \in Batch |-> IF emit[b].pc = "idle" THEN NoEmit ELSE Over]
  /\ pass' = [p \in Pass |-> NoPass]
  /\ \/ UNCHANGED pickupVars
     \/ \E p \in Pass : \E n \in pass[p].todo : DiesPickingUp(n) /\ UNCHANGED delivered
     \/ \E d \in DOMAIN mail \ delivered :
          /\ delivered' = delivered \cup {d}
          /\ DiesPickingUp(mail[d]) \/ UNCHANGED <<job, spawned>>
  /\ UNCHANGED <<feature, repo, issue, mail>>

Emits(b) ==
  \/ Decompose(b) \/ Decomposed(b) \/ Bootstrap(b) \/ EmitNext(b)
  \/ CreateIssue(b) \/ MapIssue(b) \/ ApplyReady(b)

LoopNext ==
  \/ \E b \in Batch : Emits(b)
  \/ \E d \in DOMAIN mail : Deliver(d)
  \/ \E p \in Pass : List(p) \/ ReconcileIssue(p)
  \/ \E n \in Issue : HumanLabels(n)
  \/ LoopCrash

\* The interval timer ticks and a pass goes on to its end.
LoopFairness == \A p \in Pass : WF_loopVars(List(p)) /\ WF_loopVars(ReconcileIssue(p))

LoopSpec == LoopInit /\ [][LoopNext]_loopVars /\ LoopFairness

-----------------------------------------------------------------------------
EmitState == {"idle", "asked", "boot", "next", "create", "map", "label", "done"}

\* Types, and that only features with a row are emitted.
LoopTypeOK ==
  /\ feature \in [Feature -> [row : BOOLEAN, issue : 0..MaxIssue]]
  /\ repo \in [ready : BOOLEAN, hook : BOOLEAN]
  /\ emit \in [Batch -> [pc : EmitState, todo : SUBSET Feature,
                         at : Feature \cup {NoFeature}, num : 0..MaxIssue]]
  /\ issue \in [Issue -> [of : Feature \cup {NoFeature}, ready : {"no", "pm", "human"}]]
  /\ \A b \in Batch : emit[b].todo \subseteq Rows
  /\ mail \in Seq(Issue) /\ Len(mail) <= MaxMail
  /\ delivered \subseteq DOMAIN mail
  /\ job \in [Key -> {"free", "claimed", "completed", "failed"}]
  /\ spawned \in [Issue -> Nat]
  /\ pass \in [Pass -> [pc : {"idle", "issues"}, todo : SUBSET Issue]]
  /\ mishaps \in 0..MaxMishap

\* Whoever finds it -- a delivery, a second delivery after somebody labelled
\* the issue again, overlapping passes, before or after a crash -- an issue
\* never becomes two tasks, and becomes one only by a claim.
OneTaskPerIssue ==
  \A n \in Issue : /\ spawned[n] <= 1
                   /\ spawned[n] = 1 => job[n] \in {"claimed", "completed"}

\* "Do this BEFORE applying pm:ready so the webhook receiver can always look
\* up the Feature when it fires": while the PM's own label stands, the
\* feature of the issue has an issue in its row.
MappedBeforeReady ==
  \A n \in Issue : issue[n].ready = "pm" => feature[issue[n].of].issue # 0

\* An issue is worked on only for a feature whose row knows an issue: the
\* task can always be traced back to its slice of the specification.
PickedUpIsMapped ==
  \A n \in Issue : job[n] # "free" => /\ issue[n].of # NoFeature
                                      /\ feature[issue[n].of].issue # 0

\* What the emitters hand over holds together at every step: pm:ready comes
\* after the row knows the issue, and only such issues are picked up.
LoopInv == LoopTypeOK /\ MappedBeforeReady /\ PickedUpIsMapped

Board == INSTANCE JobBoard

\* Dispatcher and reconciler together keep the promise of the job board.
KeepsBoard == Board!BoardSpec

\* An issue that carries pm:ready is claimed sooner or later, whatever
\* became of its delivery, of the answer GitHub gave when it was created, and
\* of the process that created it.
PickedUp ==
  \A n \in Issue : issue[n].ready # "no" ~> job[n] # "free"
=============================================================================
