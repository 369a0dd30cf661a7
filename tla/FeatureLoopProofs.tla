-------------------------- MODULE FeatureLoopProofs --------------------------
(***************************************************************************)
(* What the hand-off from PM to Dev guarantees, for any number of          *)
(* decompositions, features, issues, deliveries and overlapping passes.    *)
(*                                                                         *)
(* An issue is traced to its feature in three places: the marker in its    *)
(* body, the row of the feature, and what an emission remembers between    *)
(* two calls to GitHub.  MapOK and EmitOK say that the three agree; with   *)
(* them a claim, which only asks whether some row knows the issue, is a    *)
(* claim for the feature the marker names.                                 *)
(***************************************************************************)
EXTENDS FeatureLoop, TLAPS

\* An emission that is at a feature knows which; once GitHub has answered it
\* knows the feature's issue, and it labels only after the row knows it too.
EmitOK ==
  \A b \in Batch :
    /\ emit[b].pc \in {"create", "map", "label"} => emit[b].at \in Feature
    /\ emit[b].pc \in {"map", "label"} =>
         emit[b].num \in Issue /\ issue[emit[b].num].of = emit[b].at
    /\ emit[b].pc = "label" => feature[emit[b].at].issue # 0

\* The row of a feature names an issue that carries the feature's marker.
MapOK ==
  \A f \in Feature : feature[f].issue # 0 => issue[feature[f].issue].of = f

\* What is labelled, delivered or listed is an issue of some feature.
MarkedOK ==
  /\ \A n \in Issue : issue[n].ready # "no" => issue[n].of \in Feature
  /\ \A d \in DOMAIN mail : issue[mail[d]].of \in Feature
  /\ \A p \in Pass : \A n \in pass[p].todo : issue[n].of \in Feature

\* The inductive invariant.
LoopIInv == LoopInv /\ OneTaskPerIssue /\ EmitOK /\ MapOK /\ MarkedOK

\* The mark of an issue that does not exist is not a feature.
LEMMA NoFeatureIsNone == NoFeature \notin Feature
  BY DEF NoFeature, Feature

\* Issues are numbered from 1.
LEMMA IssueNumbers == Issue \subseteq Nat /\ 0 \notin Issue /\ 0..MaxIssue = Issue \cup {0}
  BY LoopAssumption DEF Issue


\* Types of a fresh system, and nothing is labelled.
LEMMA InitLoop == LoopInit => LoopIInv
<1> SUFFICES ASSUME LoopInit PROVE LoopIInv
  OBVIOUS
<1> USE DEF LoopInit
<1>1. LoopTypeOK
  <2>1. feature \in [Feature -> [row : BOOLEAN, issue : 0..MaxIssue]]
    BY IssueNumbers
  <2>2. emit \in [Batch -> [pc : EmitState, todo : SUBSET Feature,
                            at : Feature \cup {NoFeature}, num : 0..MaxIssue]]
    BY IssueNumbers DEF NoEmit, EmitState
  <2>3. \A b \in Batch : emit[b].todo \subseteq Rows
    BY DEF NoEmit
  <2>4. QED BY <2>1, <2>2, <2>3, LoopAssumption DEF LoopTypeOK, NoIssue, NoPass
<1>2. MappedBeforeReady /\ PickedUpIsMapped /\ OneTaskPerIssue
  BY DEF MappedBeforeReady, PickedUpIsMapped, OneTaskPerIssue, NoIssue, Key
<1>3. EmitOK /\ MapOK /\ MarkedOK
  BY DEF EmitOK, MapOK, MarkedOK, NoEmit, NoIssue, NoPass
<1>4. QED BY <1>1, <1>2, <1>3 DEF LoopIInv, LoopInv

\* A step of an emission between its calls: only what it remembers changes,
\* and it goes on with features that have rows.
LEMMA EmissionMoves ==
  ASSUME LoopIInv, NEW b \in Batch,
         NEW e \in [pc : EmitState, todo : SUBSET Feature,
                    at : Feature \cup {NoFeature}, num : 0..MaxIssue],
         emit' = [emit EXCEPT ![b] = e], e.todo \subseteq Rows,
         e.pc \notin {"map", "label"}, e.pc = "create" => e.at \in Feature,
         repo' \in [ready : BOOLEAN, hook : BOOLEAN],
         UNCHANGED <<feature, issue, mail, pickupVars, pass, mishaps>>
  PROVE  LoopIInv'
<1> USE DEF LoopIInv, LoopInv, pickupVars
<1>1. LoopTypeOK'
  <2>1. Rows' = Rows
    BY DEF Rows
  <2>2. emit' \in [Batch -> [pc : EmitState, todo : SUBSET Feature,
                             at : Feature \cup {NoFeature}, num : 0..MaxIssue]]
    BY DEF LoopTypeOK
  <2>3. \A c \in Batch : emit'[c].todo \subseteq Rows'
    BY <2>1 DEF LoopTypeOK
  <2>4. QED BY <2>2, <2>3 DEF LoopTypeOK
<1>2. (MappedBeforeReady /\ PickedUpIsMapped /\ OneTaskPerIssue)'
  BY DEF MappedBeforeReady, PickedUpIsMapped, OneTaskPerIssue
<1>3. EmitOK'
  <2> SUFFICES ASSUME NEW c \in Batch
               PROVE  /\ emit'[c].pc \in {"create", "map", "label"} => emit'[c].at \in Feature
                      /\ emit'[c].pc \in {"map", "label"} =>
                           emit'[c].num \in Issue /\ issue[emit'[c].num].of = emit'[c].at
                      /\ emit'[c].pc = "label" => feature[emit'[c].at].issue # 0
    BY DEF EmitOK
  <2>1. CASE c = b
    BY <2>1 DEF LoopTypeOK
  <2>2. CASE c # b
    BY <2>2 DEF LoopTypeOK, EmitOK
  <2>3. QED BY <2>1, <2>2
<1>4. (MapOK /\ MarkedOK)'
  BY DEF MapOK, MarkedOK
<1>5. QED BY <1>1, <1>2, <1>3, <1>4

\* Decompose, Bootstrap and EmitNext are such steps.
LEMMA EmissionSteps ==
  ASSUME LoopIInv, NEW b \in Batch, Decompose(b) \/ Bootstrap(b) \/ EmitNext(b)
  PROVE  LoopIInv'
<1> USE DEF LoopIInv, LoopInv
<1>0. /\ emit[b] \in [pc : EmitState, todo : SUBSET Feature,
                      at : Feature \cup {NoFeature}, num : 0..MaxIssue]
      /\ emit[b].todo \subseteq Rows
      /\ repo \in [ready : BOOLEAN, hook : BOOLEAN]
  BY DEF LoopTypeOK
<1>1. CASE Decompose(b)
  <2> DEFINE e == [emit[b] EXCEPT !.pc = IF Rows = {} THEN "asked" ELSE "done"]
  <2>1. emit' = [emit EXCEPT ![b] = e]
    BY <1>1 DEF Decompose, LoopTypeOK
  <2>2. e \in [pc : EmitState, todo : SUBSET Feature,
               at : Feature \cup {NoFeature}, num : 0..MaxIssue]
    BY <1>0 DEF EmitState
  <2>3. e.todo \subseteq Rows /\ e.pc \notin {"create", "map", "label"}
    BY <1>0
  <2> HIDE DEF e
  <2>4. QED BY <1>0, <1>1, <2>1, <2>2, <2>3, EmissionMoves DEF Decompose
<1>2. CASE Bootstrap(b)
  <2>1. PICK e : /\ e \in {[emit[b] EXCEPT !.pc = "next"], Over}
                 /\ emit' = [emit EXCEPT ![b] = e]
    BY <1>2 DEF Bootstrap, LoopTypeOK
  <2>2. e \in [pc : EmitState, todo : SUBSET Feature,
               at : Feature \cup {NoFeature}, num : 0..MaxIssue]
    BY <1>0, <2>1, IssueNumbers DEF EmitState, Over, NoEmit
  <2>3. e.todo \subseteq Rows /\ e.pc \notin {"create", "map", "label"}
    BY <1>0, <2>1 DEF Over, NoEmit
  <2>4. repo' \in [ready : BOOLEAN, hook : BOOLEAN]
    <3>1. UNCHANGED repo \/ \E hook \in BOOLEAN : repo' = [ready |-> TRUE, hook |-> hook]
      BY <1>2 DEF Bootstrap
    <3>2. ASSUME NEW hook \in BOOLEAN, repo' = [ready |-> TRUE, hook |-> hook]
          PROVE  repo' \in [ready : BOOLEAN, hook : BOOLEAN]
      BY <3>2
    <3>3. QED BY <1>0, <3>1, <3>2
  <2>5. QED BY <1>2, <2>1, <2>2, <2>3, <2>4, EmissionMoves DEF Bootstrap
<1>3. CASE EmitNext(b)
  <2>1. PICK e :
          /\ \/ e = [emit[b] EXCEPT !.pc = "done"]
             \/ \E f \in emit[b].todo :
                  \/ e = [emit[b] EXCEPT !.pc = "create", !.todo = @ \ {f}, !.at = f]
                  \/ e = [emit[b] EXCEPT !.todo = @ \ {f}]
          /\ emit' = [emit EXCEPT ![b] = e]
    BY <1>3 DEF EmitNext, LoopTypeOK
  <2>2. e \in [pc : EmitState, todo : SUBSET Feature,
               at : Feature \cup {NoFeature}, num : 0..MaxIssue]
    BY <1>0, <2>1 DEF EmitState
  <2>3. /\ e.todo \subseteq Rows /\ e.pc \notin {"map", "label"}
        /\ e.pc = "create" => e.at \in Feature
    <3>1. emit[b].pc = "next"
      BY <1>3 DEF EmitNext
    <3>2. CASE e = [emit[b] EXCEPT !.pc = "done"]
      BY <1>0, <3>2
    <3>3. ASSUME NEW f \in emit[b].todo,
                 e = [emit[b] EXCEPT !.pc = "create", !.todo = @ \ {f}, !.at = f]
          PROVE  e.todo \subseteq Rows /\ e.pc = "create" /\ e.at \in Feature
      BY <1>0, <3>3
    <3>4. ASSUME NEW f \in emit[b].todo, e = [emit[b] EXCEPT !.todo = @ \ {f}]
          PROVE  e.todo \subseteq Rows /\ e.pc = "next"
      BY <1>0, <3>1, <3>4
    <3>5. QED BY <2>1, <3>2, <3>3, <3>4
  <2>4. QED BY <1>0, <1>3, <2>1, <2>2, <2>3, EmissionMoves DEF EmitNext
<1>4. QED BY <1>1, <1>2, <1>3

\* A decomposition adds rows and takes none away.
LEMMA DecomposedKeeps == ASSUME LoopIInv, NEW b \in Batch, Decomposed(b) PROVE LoopIInv'
<1> USE DEF LoopIInv, LoopInv
<1>0. emit[b] \in [pc : EmitState, todo : SUBSET Feature,
                   at : Feature \cup {NoFeature}, num : 0..MaxIssue]
  BY DEF LoopTypeOK
<1>1. CASE emit' = [emit EXCEPT ![b].pc = "done"] /\ UNCHANGED feature
  <2> DEFINE e == [emit[b] EXCEPT !.pc = "done"]
  <2>1. emit' = [emit EXCEPT ![b] = e]
    BY <1>1 DEF LoopTypeOK
  <2>2. /\ e \in [pc : EmitState, todo : SUBSET Feature,
                  at : Feature \cup {NoFeature}, num : 0..MaxIssue]
        /\ e.todo \subseteq Rows /\ e.pc = "done"
    BY <1>0 DEF LoopTypeOK, EmitState
  <2> HIDE DEF e
  <2>3. repo \in [ready : BOOLEAN, hook : BOOLEAN]
    BY DEF LoopTypeOK
  <2>4. QED BY <1>1, <2>1, <2>2, <2>3, EmissionMoves DEF Decomposed
<1>2. ASSUME feature' = [f \in Feature |-> IF f[1] = b THEN [feature[f] EXCEPT !.row = TRUE]
                                                       ELSE feature[f]],
             emit' = [emit EXCEPT ![b].pc = "boot",
                        ![b].todo = {f \in Feature : feature'[f].row /\ f[2] # Integration}]
      PROVE  LoopIInv'
  <2>0. UNCHANGED <<repo, issue, mail, pickupVars, pass, mishaps>>
    BY DEF Decomposed
  <2>1. /\ feature' \in [Feature -> [row : BOOLEAN, issue : 0..MaxIssue]]
        /\ \A f \in Feature : /\ feature'[f].issue = feature[f].issue
                              /\ feature[f].row => feature'[f].row
    <3>1. \A f \in Feature : feature[f] \in [row : BOOLEAN, issue : 0..MaxIssue]
      BY DEF LoopTypeOK
    <3>2. \A f \in Feature : /\ [feature[f] EXCEPT !.row = TRUE] \in [row : BOOLEAN, issue : 0..MaxIssue]
                             /\ [feature[f] EXCEPT !.row = TRUE].issue = feature[f].issue
                             /\ [feature[f] EXCEPT !.row = TRUE].row = TRUE
      BY <3>1
    <3>3. QED BY <1>2, <3>1, <3>2
  <2>2. /\ emit' \in [Batch -> [pc : EmitState, todo : SUBSET Feature,
                                at : Feature \cup {NoFeature}, num : 0..MaxIssue]]
        /\ emit'[b].pc = "boot"
        /\ emit'[b].todo = {f \in Feature : feature'[f].row /\ f[2] # Integration}
        /\ \A c \in Batch \ {b} : emit'[c] = emit[c]
    BY <1>0, <1>2 DEF LoopTypeOK, EmitState
  <2>3. \A c \in Batch : emit'[c].todo \subseteq Rows'
    BY <2>1, <2>2 DEF LoopTypeOK, Rows
  <2>4. LoopTypeOK'
    BY <2>0, <2>1, <2>2, <2>3 DEF LoopTypeOK, pickupVars
  <2>5. (MappedBeforeReady /\ PickedUpIsMapped /\ OneTaskPerIssue)'
    <3>1. MappedBeforeReady'
      BY <2>0, <2>1 DEF MappedBeforeReady, MarkedOK
    <3>2. PickedUpIsMapped'
      BY <2>0, <2>1 DEF PickedUpIsMapped, LoopTypeOK, pickupVars
    <3>3. OneTaskPerIssue'
      BY <2>0 DEF OneTaskPerIssue, pickupVars
    <3>4. QED BY <3>1, <3>2, <3>3
  <2>6. EmitOK'
    BY <2>0, <2>1, <2>2 DEF EmitOK
  <2>7. MapOK' /\ MarkedOK'
    BY <2>0, <2>1 DEF MapOK, MarkedOK
  <2>8. QED BY <2>4, <2>5, <2>6, <2>7
<1>3. QED BY <1>1, <1>2 DEF Decomposed

\* An issue is created with the marker of its feature; no row knew its number.
LEMMA CreateKeeps == ASSUME LoopIInv, NEW b \in Batch, CreateIssue(b) PROVE LoopIInv'
<1> USE DEF LoopIInv, LoopInv
<1>0. /\ emit[b] \in [pc : EmitState, todo : SUBSET Feature,
                      at : Feature \cup {NoFeature}, num : 0..MaxIssue]
      /\ emit[b].todo \subseteq Rows /\ emit[b].pc = "create" /\ emit[b].at \in Feature
      /\ repo \in [ready : BOOLEAN, hook : BOOLEAN]
  BY DEF LoopTypeOK, EmitOK, CreateIssue
<1>1. CASE emit' = [emit EXCEPT ![b].pc = "next", ![b].at = NoFeature] /\ UNCHANGED issue
  <2> DEFINE e == [emit[b] EXCEPT !.pc = "next", !.at = NoFeature]
  <2>1. emit' = [emit EXCEPT ![b] = e]
    BY <1>1 DEF LoopTypeOK
  <2>2. /\ e \in [pc : EmitState, todo : SUBSET Feature,
                  at : Feature \cup {NoFeature}, num : 0..MaxIssue]
        /\ e.todo \subseteq Rows /\ e.pc = "next"
    BY <1>0 DEF EmitState
  <2> HIDE DEF e
  <2>3. QED BY <1>0, <1>1, <2>1, <2>2, EmissionMoves DEF CreateIssue
<1>2. ASSUME NEW n \in Unused,
             issue' = [issue EXCEPT ![n] = [of |-> emit[b].at, ready |-> "no"]],
             \/ emit' = [emit EXCEPT ![b].pc = "map", ![b].num = n]
             \/ emit' = [emit EXCEPT ![b].pc = "next", ![b].at = NoFeature]
      PROVE  LoopIInv'
  <2>0. UNCHANGED <<feature, repo, mail, pickupVars, pass, mishaps>>
    BY DEF CreateIssue
  <2>1. n \in Issue /\ issue[n].of \notin Feature
    BY NoFeatureIsNone DEF Unused
  <2>2. /\ issue' \in [Issue -> [of : Feature \cup {NoFeature}, ready : {"no", "pm", "human"}]]
        /\ issue'[n].of = emit[b].at /\ issue'[n].ready = "no"
        /\ \A m \in Issue \ {n} : issue'[m] = issue[m]
        /\ \A m \in Issue : issue[m].of \in Feature => issue'[m] = issue[m]
    BY <1>0, <1>2, <2>1 DEF LoopTypeOK
  <2>3. /\ emit' \in [Batch -> [pc : EmitState, todo : SUBSET Feature,
                                at : Feature \cup {NoFeature}, num : 0..MaxIssue]]
        /\ emit'[b].todo = emit[b].todo
        /\ \/ emit'[b].pc = "map" /\ emit'[b].num = n /\ emit'[b].at = emit[b].at
           \/ emit'[b].pc = "next"
        /\ \A c \in Batch \ {b} : emit'[c] = emit[c]
    <3>1. PICK e : /\ \/ e = [emit[b] EXCEPT !.pc = "map", !.num = n]
                      \/ e = [emit[b] EXCEPT !.pc = "next", !.at = NoFeature]
                   /\ emit' = [emit EXCEPT ![b] = e]
      BY <1>2 DEF LoopTypeOK
    <3>2. /\ e \in [pc : EmitState, todo : SUBSET Feature,
                    at : Feature \cup {NoFeature}, num : 0..MaxIssue]
          /\ e.todo = emit[b].todo
          /\ \/ e.pc = "map" /\ e.num = n /\ e.at = emit[b].at
             \/ e.pc = "next"
      BY <1>0, <2>1, <3>1, IssueNumbers DEF EmitState
    <3>3. QED BY <3>1, <3>2 DEF LoopTypeOK
  <2>4. LoopTypeOK'
    BY <2>0, <2>2, <2>3 DEF LoopTypeOK, Rows, pickupVars
  <2>5. MappedBeforeReady'
    BY <2>0, <2>2 DEF MappedBeforeReady, MarkedOK
  <2>6. PickedUpIsMapped'
    BY <2>0, <2>1, <2>2 DEF PickedUpIsMapped, LoopTypeOK, pickupVars
  <2>7. OneTaskPerIssue'
    BY <2>0 DEF OneTaskPerIssue, pickupVars
  <2>8. EmitOK'
    BY <1>0, <2>0, <2>1, <2>2, <2>3 DEF EmitOK
  <2>9. MapOK'
    BY <2>0, <2>2, IssueNumbers DEF MapOK, LoopTypeOK
  <2>10. MarkedOK'
    BY <2>0, <2>2 DEF MarkedOK, LoopTypeOK
  <2>11. QED BY <2>4, <2>5, <2>6, <2>7, <2>8, <2>9, <2>10
<1>3. QED BY <1>1, <1>2 DEF CreateIssue

\* A row that is mended takes the issue whose marker names its feature: rows
\* and issues still agree, and no row forgets that it has an issue.
LEMMA RowMended ==
  ASSUME LoopIInv, NEW n \in Issue, issue[n].of \in Feature,
         feature' = [feature EXCEPT ![issue[n].of].issue = n], UNCHANGED issue
  PROVE  /\ feature' \in [Feature -> [row : BOOLEAN, issue : 0..MaxIssue]]
         /\ Rows' = Rows
         /\ \A f \in Feature : feature[f].issue # 0 => feature'[f].issue # 0
         /\ feature'[issue[n].of].issue # 0
         /\ MapOK' /\ MappedBeforeReady'
<1> USE DEF LoopIInv, LoopInv
<1> DEFINE g == issue[n].of
<1>1. \A f \in Feature : feature[f] \in [row : BOOLEAN, issue : 0..MaxIssue]
  BY DEF LoopTypeOK
<1>2. n # 0 /\ n \in 0..MaxIssue
  BY IssueNumbers
<1>3. /\ [feature[g] EXCEPT !.issue = n] \in [row : BOOLEAN, issue : 0..MaxIssue]
      /\ [feature[g] EXCEPT !.issue = n].row = feature[g].row
      /\ [feature[g] EXCEPT !.issue = n].issue = n
  BY <1>1, <1>2
<1>4. /\ feature' \in [Feature -> [row : BOOLEAN, issue : 0..MaxIssue]]
      /\ feature'[g].row = feature[g].row /\ feature'[g].issue = n
      /\ \A f \in Feature \ {g} : feature'[f] = feature[f]
  BY <1>3 DEF LoopTypeOK
<1> HIDE DEF g
<1>5. Rows' = Rows
  BY <1>4 DEF Rows
<1>6. \A f \in Feature : feature[f].issue # 0 => feature'[f].issue # 0
  BY <1>2, <1>4
<1>7. MapOK'
  BY <1>4 DEF MapOK, g
<1>8. MappedBeforeReady'
  BY <1>6 DEF MappedBeforeReady, MarkedOK
<1>9. QED BY <1>2, <1>4, <1>5, <1>6, <1>7, <1>8 DEF g

\* A label and its delivery leave every marker as it is.
LEMMA Labelled ==
  ASSUME LoopIInv, NEW n \in Issue, issue[n].of \in Feature, NEW r \in {"pm", "human"},
         r = "pm" => feature[issue[n].of].issue # 0,
         issue' = [issue EXCEPT ![n].ready = r], mail' = Mailed(n),
         UNCHANGED <<feature, pickupVars, pass>>
  PROVE  /\ issue' \in [Issue -> [of : Feature \cup {NoFeature}, ready : {"no", "pm", "human"}]]
         /\ mail' \in Seq(Issue) /\ Len(mail') <= MaxMail /\ delivered \subseteq DOMAIN mail'
         /\ \A m \in Issue : issue'[m].of = issue[m].of
         /\ (MappedBeforeReady /\ PickedUpIsMapped /\ MapOK /\ MarkedOK)'
<1> USE DEF LoopIInv, LoopInv
<1>0. UNCHANGED <<delivered, job, spawned>>
  BY DEF pickupVars
<1>1. /\ issue' \in [Issue -> [of : Feature \cup {NoFeature}, ready : {"no", "pm", "human"}]]
      /\ issue'[n].ready = r /\ issue'[n].of = issue[n].of
      /\ \A m \in Issue \ {n} : issue'[m] = issue[m]
  <2>1. \A m \in Issue : issue[m] \in [of : Feature \cup {NoFeature}, ready : {"no", "pm", "human"}]
    BY DEF LoopTypeOK
  <2>2. /\ [issue[n] EXCEPT !.ready = r]
             \in [of : Feature \cup {NoFeature}, ready : {"no", "pm", "human"}]
        /\ [issue[n] EXCEPT !.ready = r].of = issue[n].of
        /\ [issue[n] EXCEPT !.ready = r].ready = r
    BY <2>1
  <2>3. QED BY <2>2 DEF LoopTypeOK
<1>2. \A m \in Issue : issue'[m].of = issue[m].of
  BY <1>1
<1>3. /\ mail' \in Seq(Issue) /\ Len(mail') <= MaxMail
      /\ DOMAIN mail \subseteq DOMAIN mail'
      /\ \A d \in DOMAIN mail' : (d \in DOMAIN mail /\ mail'[d] = mail[d]) \/ mail'[d] = n
  <2>1. mail \in Seq(Issue) /\ Len(mail) <= MaxMail
    BY DEF LoopTypeOK
  <2>2. CASE mail' = mail
    BY <2>1, <2>2
  <2>3. CASE mail' = Append(mail, n) /\ Len(mail) < MaxMail
    BY <2>1, <2>3, LoopAssumption
  <2>4. QED BY <2>2, <2>3 DEF Mailed
<1>4. MarkedOK'
  BY <1>0, <1>1, <1>2, <1>3 DEF MarkedOK, LoopTypeOK
<1>5. MapOK'
  <2>1. \A f \in Feature : feature[f].issue # 0 => feature[f].issue \in Issue
    BY IssueNumbers DEF LoopTypeOK
  <2>2. QED BY <1>2, <2>1 DEF MapOK
<1>6. MappedBeforeReady'
  BY <1>1 DEF MappedBeforeReady
<1>7. PickedUpIsMapped'
  BY <1>0, <1>2 DEF PickedUpIsMapped
<1>8. delivered \subseteq DOMAIN mail'
  BY <1>3 DEF LoopTypeOK
<1>9. QED BY <1>1, <1>2, <1>3, <1>4, <1>5, <1>6, <1>7, <1>8

\* People label an issue.
LEMMA HumanKeeps == ASSUME LoopIInv, NEW n \in Issue, HumanLabels(n) PROVE LoopIInv'
<1> USE DEF LoopIInv, LoopInv
<1>1. issue[n].of \in Feature
  BY DEF HumanLabels, LoopTypeOK
<1>2. /\ issue' \in [Issue -> [of : Feature \cup {NoFeature}, ready : {"no", "pm", "human"}]]
      /\ mail' \in Seq(Issue) /\ Len(mail') <= MaxMail /\ delivered \subseteq DOMAIN mail'
      /\ \A m \in Issue : issue'[m].of = issue[m].of
      /\ (MappedBeforeReady /\ PickedUpIsMapped /\ MapOK /\ MarkedOK)'
  BY <1>1, Labelled DEF HumanLabels
<1>3. UNCHANGED <<feature, repo, emit, pickupVars, pass, mishaps>>
  BY DEF HumanLabels
<1>4. LoopTypeOK'
  BY <1>2, <1>3 DEF LoopTypeOK, Rows, pickupVars
<1>5. OneTaskPerIssue' /\ EmitOK'
  BY <1>2, <1>3 DEF OneTaskPerIssue, EmitOK, pickupVars
<1>6. QED BY <1>2, <1>4, <1>5

\* The row is written before the label; the label finds it written.
LEMMA MapKeeps == ASSUME LoopIInv, NEW b \in Batch, MapIssue(b) PROVE LoopIInv'
<1> USE DEF LoopIInv, LoopInv
<1>0. /\ emit[b] \in [pc : EmitState, todo : SUBSET Feature,
                      at : Feature \cup {NoFeature}, num : 0..MaxIssue]
      /\ emit[b].todo \subseteq Rows /\ emit[b].at \in Feature /\ emit[b].num \in Issue
      /\ issue[emit[b].num].of = emit[b].at
  BY DEF LoopTypeOK, EmitOK, MapIssue
<1>1. UNCHANGED <<repo, issue, mail, pickupVars, pass, mishaps>>
  BY DEF MapIssue
<1>2. /\ feature' \in [Feature -> [row : BOOLEAN, issue : 0..MaxIssue]]
      /\ Rows' = Rows
      /\ \A f \in Feature : feature[f].issue # 0 => feature'[f].issue # 0
      /\ feature'[emit[b].at].issue # 0
      /\ MapOK' /\ MappedBeforeReady'
  BY <1>0, <1>1, RowMended DEF MapIssue
<1>3. /\ emit' \in [Batch -> [pc : EmitState, todo : SUBSET Feature,
                              at : Feature \cup {NoFeature}, num : 0..MaxIssue]]
      /\ emit'[b].pc = "label" /\ emit'[b].at = emit[b].at /\ emit'[b].num = emit[b].num
      /\ emit'[b].todo = emit[b].todo
      /\ \A c \in Batch \ {b} : emit'[c] = emit[c]
  BY <1>0 DEF MapIssue, LoopTypeOK, EmitState
<1>4. LoopTypeOK'
  BY <1>1, <1>2, <1>3 DEF LoopTypeOK, pickupVars
<1>5. EmitOK'
  BY <1>0, <1>1, <1>2, <1>3 DEF EmitOK
<1>6. PickedUpIsMapped'
  BY <1>1, <1>2 DEF PickedUpIsMapped, LoopTypeOK, pickupVars
<1>7. OneTaskPerIssue' /\ MarkedOK'
  BY <1>1 DEF OneTaskPerIssue, MarkedOK, pickupVars
<1>8. QED BY <1>2, <1>4, <1>5, <1>6, <1>7

\* The label that hands an issue over, or its failure.
LEMMA ApplyKeeps == ASSUME LoopIInv, NEW b \in Batch, ApplyReady(b) PROVE LoopIInv'
<1> USE DEF LoopIInv, LoopInv
<1>0. /\ emit[b] \in [pc : EmitState, todo : SUBSET Feature,
                      at : Feature \cup {NoFeature}, num : 0..MaxIssue]
      /\ emit[b].todo \subseteq Rows /\ emit[b].at \in Feature /\ emit[b].num \in Issue
      /\ issue[emit[b].num].of = emit[b].at /\ feature[emit[b].at].issue # 0
  BY DEF LoopTypeOK, EmitOK, ApplyReady
<1>1. UNCHANGED <<feature, repo, pickupVars, pass, mishaps>>
  BY DEF ApplyReady
<1> DEFINE e == [emit[b] EXCEPT !.pc = "next", !.at = NoFeature, !.num = 0]
<1>2. emit' = [emit EXCEPT ![b] = e]
  BY DEF ApplyReady, LoopTypeOK
<1>3. /\ e \in [pc : EmitState, todo : SUBSET Feature,
                at : Feature \cup {NoFeature}, num : 0..MaxIssue]
      /\ e.todo = emit[b].todo /\ e.pc = "next"
  BY <1>0, IssueNumbers DEF EmitState
<1> HIDE DEF e
<1>4. CASE UNCHANGED <<issue, mail>>
  <2>1. repo \in [ready : BOOLEAN, hook : BOOLEAN]
    BY DEF LoopTypeOK
  <2>2. QED BY <1>0, <1>1, <1>2, <1>3, <1>4, <2>1, EmissionMoves
<1>5. CASE issue' = [issue EXCEPT ![emit[b].num].ready = "pm"] /\ mail' = Mailed(emit[b].num)
  <2>1. /\ issue' \in [Issue -> [of : Feature \cup {NoFeature}, ready : {"no", "pm", "human"}]]
        /\ mail' \in Seq(Issue) /\ Len(mail') <= MaxMail /\ delivered \subseteq DOMAIN mail'
        /\ \A m \in Issue : issue'[m].of = issue[m].of
        /\ (MappedBeforeReady /\ PickedUpIsMapped /\ MapOK /\ MarkedOK)'
    BY <1>0, <1>1, <1>5, Labelled
  <2>2. /\ emit' \in [Batch -> [pc : EmitState, todo : SUBSET Feature,
                                at : Feature \cup {NoFeature}, num : 0..MaxIssue]]
        /\ emit'[b] = e /\ \A c \in Batch \ {b} : emit'[c] = emit[c]
    BY <1>2, <1>3 DEF LoopTypeOK
  <2>3. LoopTypeOK'
    BY <1>0, <1>1, <1>3, <2>1, <2>2 DEF LoopTypeOK, Rows, pickupVars
  <2>4. EmitOK'
    <3>1. \A c \in Batch : emit[c].num \in Issue => issue'[emit[c].num].of = issue[emit[c].num].of
      BY <2>1
    <3>2. \A c \in Batch \ {b} : emit'[c] = emit[c]
      BY <2>2
    <3>3. emit'[b].pc = "next"
      BY <1>3, <2>2
    <3>4. UNCHANGED feature
      BY <1>1
    <3>5. QED BY <3>1, <3>2, <3>3, <3>4 DEF EmitOK
  <2>5. OneTaskPerIssue'
    BY <1>1 DEF OneTaskPerIssue, pickupVars
  <2>6. QED BY <2>1, <2>3, <2>4, <2>5
<1>6. QED BY <1>4, <1>5 DEF ApplyReady
\* A key that is free is claimed with at most one task, and by nobody else.
LEMMA Taken ==
  ASSUME LoopIInv, NEW n \in Issue, NEW s \in {"claimed", "completed", "failed"},
         NEW t \in 0..1, t = 1 => s # "failed", job[n] = "free",
         job' = [job EXCEPT ![n] = s], spawned' = [spawned EXCEPT ![n] = @ + t]
  PROVE  /\ job' \in [Key -> {"free", "claimed", "completed", "failed"}]
         /\ spawned' \in [Issue -> Nat]
         /\ \A m \in Issue \ {n} : job'[m] = job[m]
         /\ OneTaskPerIssue' /\ Board!BoardNext
<1> USE DEF LoopIInv, LoopInv, Key
<1>0. spawned[n] = 0
  BY DEF OneTaskPerIssue, LoopTypeOK
<1>1. /\ job' \in [Key -> {"free", "claimed", "completed", "failed"}]
      /\ job'[n] = s /\ \A m \in Issue \ {n} : job'[m] = job[m]
  BY DEF LoopTypeOK
<1>2. /\ spawned' \in [Issue -> Nat]
      /\ spawned'[n] = t /\ \A m \in Issue \ {n} : spawned'[m] = spawned[m]
  BY <1>0 DEF LoopTypeOK
<1>3. OneTaskPerIssue'
  BY <1>1, <1>2 DEF OneTaskPerIssue
<1>4. Board!Claim(n)
  BY DEF Board!Claim, Board!JobStatus
<1>5. Board!BoardNext
  BY <1>4 DEF Board!BoardNext
<1>6. QED BY <1>1, <1>2, <1>3, <1>5

\* What a pickup does to the jobs: nothing, or a claim of the key it asks for.
LEMMA PickupClaims ==
  ASSUME LoopIInv, NEW n \in Issue, Pickup(n) \/ UNCHANGED <<job, spawned, mishaps>>
  PROVE  /\ job' \in [Key -> {"free", "claimed", "completed", "failed"}]
         /\ spawned' \in [Issue -> Nat] /\ mishaps' \in 0..MaxMishap
         /\ \A m \in Issue \ {n} : job'[m] = job[m]
         /\ OneTaskPerIssue' /\ (Board!BoardNext \/ UNCHANGED job)
<1> USE DEF LoopIInv, LoopInv
<1>1. CASE UNCHANGED <<job, spawned, mishaps>>
  BY <1>1 DEF LoopTypeOK, OneTaskPerIssue
<1>2. ASSUME job[n] = "free", job' = [job EXCEPT ![n] = "completed"],
             spawned' = [spawned EXCEPT ![n] = @ + 1], UNCHANGED mishaps
      PROVE  /\ job' \in [Key -> {"free", "claimed", "completed", "failed"}]
             /\ spawned' \in [Issue -> Nat] /\ mishaps' \in 0..MaxMishap
             /\ \A m \in Issue \ {n} : job'[m] = job[m]
             /\ OneTaskPerIssue' /\ Board!BoardNext
  <2>1. mishaps' \in 0..MaxMishap
    BY <1>2 DEF LoopTypeOK
  <2>2. 1 \in 0..1 /\ "completed" \in {"claimed", "completed", "failed"} /\ "completed" # "failed"
    OBVIOUS
  <2>3. QED BY <1>2, <2>1, <2>2, Taken
<1>3. ASSUME job[n] = "free", mishaps < MaxMishap, mishaps' = mishaps + 1,
             job' = [job EXCEPT ![n] = "failed"], UNCHANGED spawned
      PROVE  /\ job' \in [Key -> {"free", "claimed", "completed", "failed"}]
             /\ spawned' \in [Issue -> Nat] /\ mishaps' \in 0..MaxMishap
             /\ \A m \in Issue \ {n} : job'[m] = job[m]
             /\ OneTaskPerIssue' /\ Board!BoardNext
  <2>1. mishaps' \in 0..MaxMishap
    BY <1>3, LoopAssumption DEF LoopTypeOK
  <2>2. spawned' = [spawned EXCEPT ![n] = @ + 0]
    BY <1>3 DEF LoopTypeOK
  <2>3. 0 \in 0..1 /\ 0 # 1 /\ "failed" \in {"claimed", "completed", "failed"}
    OBVIOUS
  <2>4. QED BY <1>3, <2>1, <2>2, <2>3, Taken
<1>4. QED BY <1>1, <1>2, <1>3 DEF Pickup

\* An issue is found and perhaps picked up: its row may be mended first, and it
\* is picked up only if some row knows it.
LEMMA FoundKeeps ==
  ASSUME LoopIInv, NEW n \in Issue, issue[n].of \in Feature,
         \/ feature' = feature
         \/ feature' = [feature EXCEPT ![issue[n].of].issue = n],
         Pickup(n) \/ UNCHANGED <<job, spawned, mishaps>>,
         Pickup(n) => feature'[issue[n].of].issue # 0,
         UNCHANGED <<repo, emit, issue, mail>>,
         delivered' \subseteq DOMAIN mail,
         pass' \in [Pass -> [pc : {"idle", "issues"}, todo : SUBSET Issue]],
         \A p \in Pass : pass'[p].todo \subseteq pass[p].todo
  PROVE  LoopIInv' /\ (Board!BoardNext \/ UNCHANGED job)
<1> USE DEF LoopIInv, LoopInv
<1>1. /\ job' \in [Key -> {"free", "claimed", "completed", "failed"}]
      /\ spawned' \in [Issue -> Nat] /\ mishaps' \in 0..MaxMishap
      /\ \A m \in Issue \ {n} : job'[m] = job[m]
      /\ OneTaskPerIssue' /\ (Board!BoardNext \/ UNCHANGED job)
  BY PickupClaims
<1>2. /\ feature' \in [Feature -> [row : BOOLEAN, issue : 0..MaxIssue]]
      /\ Rows' = Rows
      /\ \A f \in Feature : feature[f].issue # 0 => feature'[f].issue # 0
      /\ MapOK' /\ MappedBeforeReady'
  <2>1. CASE feature' = feature
    BY <2>1 DEF LoopTypeOK, Rows, MapOK, MappedBeforeReady
  <2>2. CASE feature' = [feature EXCEPT ![issue[n].of].issue = n]
    BY <2>2, RowMended
  <2>3. QED BY <2>1, <2>2
<1>3. LoopTypeOK'
  BY <1>1, <1>2 DEF LoopTypeOK
<1>4. PickedUpIsMapped'
  <2> SUFFICES ASSUME NEW m \in Issue, job'[m] # "free"
               PROVE  issue[m].of # NoFeature /\ feature'[issue[m].of].issue # 0
    BY DEF PickedUpIsMapped
  <2>1. CASE m = n /\ Pickup(n)
    BY <2>1, NoFeatureIsNone
  <2>2. CASE job[m] # "free"
    BY <1>2, <2>2 DEF PickedUpIsMapped, LoopTypeOK
  <2>3. QED BY <1>1, <2>1, <2>2
<1>5. EmitOK' /\ MarkedOK'
  BY <1>2 DEF EmitOK, MarkedOK
<1>6. QED BY <1>1, <1>2, <1>3, <1>4, <1>5
\* The row of a mapped issue is the row its marker names.
LEMMA MappedByMarker ==
  ASSUME LoopIInv, NEW n \in Issue, Mapped(n)
  PROVE  feature[issue[n].of].issue = n
<1>1. PICK f \in Feature : feature[f].issue = n
  BY DEF Mapped
<1>2. issue[n].of = f
  BY <1>1, IssueNumbers DEF LoopIInv, MapOK
<1>3. QED BY <1>1, <1>2

\* A delivery.
LEMMA DeliverKeeps ==
  ASSUME LoopIInv, NEW d \in DOMAIN mail, Deliver(d)
  PROVE  LoopIInv' /\ (Board!BoardNext \/ UNCHANGED job)
<1> USE DEF LoopIInv, LoopInv
<1> DEFINE n == mail[d]
<1>1. n \in Issue /\ n # 0 /\ issue[n].of \in Feature
  BY IssueNumbers DEF LoopTypeOK, MarkedOK
<1>2. \/ feature' = feature /\ (Mapped(n) \/ feature[issue[n].of].issue # 0)
      \/ feature' = [feature EXCEPT ![issue[n].of].issue = n]
  BY DEF Deliver
<1>3. feature'[issue[n].of].issue # 0
  <2>1. CASE feature' = feature /\ Mapped(n)
    <3>1. feature[issue[n].of].issue = n
      BY <1>1, <2>1, MappedByMarker
    <3>2. QED BY <1>1, <2>1, <3>1
  <2>2. CASE feature' = feature /\ feature[issue[n].of].issue # 0
    BY <2>2
  <2>3. CASE feature' = [feature EXCEPT ![issue[n].of].issue = n]
    <3>1. UNCHANGED issue
      BY DEF Deliver
    <3>2. QED BY <1>1, <2>3, <3>1, RowMended
  <2>4. QED BY <1>2, <2>1, <2>2, <2>3
<1>4. /\ Pickup(n) /\ UNCHANGED <<repo, emit, issue, mail>>
      /\ delivered' \subseteq DOMAIN mail
      /\ UNCHANGED pass
  BY DEF Deliver, LoopTypeOK
<1> HIDE DEF n
<1>5. /\ pass' \in [Pass -> [pc : {"idle", "issues"}, todo : SUBSET Issue]]
      /\ \A p \in Pass : pass'[p].todo \subseteq pass[p].todo
  BY <1>4 DEF LoopTypeOK
<1>6. feature' = feature \/ feature' = [feature EXCEPT ![issue[n].of].issue = n]
  BY <1>2
<1>7. QED BY <1>1, <1>3, <1>4, <1>5, <1>6, FoundKeeps

\* A pass lists what is labelled, and only features have such issues.
LEMMA ListKeeps == ASSUME LoopIInv, NEW p \in Pass, List(p) PROVE LoopIInv' /\ UNCHANGED job
<1> USE DEF LoopIInv, LoopInv
<1> DEFINE todo == {n \in Issue : issue[n].ready # "no"}
<1>1. UNCHANGED <<feature, repo, emit, issue, mail, delivered, job, spawned, mishaps>>
  BY DEF List, pickupVars
<1>2. /\ pass' \in [Pass -> [pc : {"idle", "issues"}, todo : SUBSET Issue]]
      /\ pass'[p].todo = todo /\ \A q \in Pass \ {p} : pass'[q] = pass[q]
  BY DEF List, LoopTypeOK
<1>3. LoopTypeOK'
  BY <1>1, <1>2 DEF LoopTypeOK, Rows
<1>4. MarkedOK'
  BY <1>1, <1>2 DEF MarkedOK
<1>5. (MappedBeforeReady /\ PickedUpIsMapped /\ OneTaskPerIssue)'
  BY <1>1 DEF MappedBeforeReady, PickedUpIsMapped, OneTaskPerIssue
<1>6. EmitOK' /\ MapOK'
  BY <1>1 DEF EmitOK, MapOK
<1>7. QED BY <1>1, <1>3, <1>4, <1>5, <1>6

\* A pass goes on to its next issue, or ends.
LEMMA ReconcileKeeps ==
  ASSUME LoopIInv, NEW p \in Pass, ReconcileIssue(p)
  PROVE  LoopIInv' /\ (Board!BoardNext \/ UNCHANGED job)
<1> USE DEF LoopIInv, LoopInv
<1>0. UNCHANGED <<repo, emit, issue, mail, delivered>>
  BY DEF ReconcileIssue
<1>1. CASE pass' = [pass EXCEPT ![p] = NoPass] /\ UNCHANGED <<feature, job, spawned, mishaps>>
  <2>1. /\ pass' \in [Pass -> [pc : {"idle", "issues"}, todo : SUBSET Issue]]
        /\ \A q \in Pass : pass'[q].todo \subseteq pass[q].todo
    BY <1>1 DEF LoopTypeOK, NoPass
  <2>2. LoopTypeOK'
    BY <1>0, <1>1, <2>1 DEF LoopTypeOK, Rows
  <2>3. MarkedOK'
    BY <1>0, <2>1 DEF MarkedOK
  <2>4. (MappedBeforeReady /\ PickedUpIsMapped /\ OneTaskPerIssue)'
    BY <1>0, <1>1 DEF MappedBeforeReady, PickedUpIsMapped, OneTaskPerIssue
  <2>5. EmitOK' /\ MapOK'
    BY <1>0, <1>1 DEF EmitOK, MapOK
  <2>6. QED BY <1>1, <2>2, <2>3, <2>4, <2>5
<1>2. ASSUME NEW n \in pass[p].todo,
             pass' = [pass EXCEPT ![p].todo = @ \ {n}],
             feature' = Healed(n),
             IF \E f \in Feature : feature'[f].issue = n THEN Pickup(n)
                                   ELSE UNCHANGED <<job, spawned, mishaps>>
      PROVE  LoopIInv' /\ (Board!BoardNext \/ UNCHANGED job)
  <2>1. n \in Issue /\ n # 0 /\ issue[n].of \in Feature
    BY IssueNumbers DEF LoopTypeOK, MarkedOK
  <2>2. /\ pass' \in [Pass -> [pc : {"idle", "issues"}, todo : SUBSET Issue]]
        /\ \A q \in Pass : pass'[q].todo \subseteq pass[q].todo
    BY <1>2 DEF LoopTypeOK
  <2>3. \/ feature' = feature /\ Mapped(n)
        \/ feature' = [feature EXCEPT ![issue[n].of].issue = n]
    BY <1>2 DEF Healed
  <2>4. feature'[issue[n].of].issue # 0
    <3>1. CASE feature' = feature /\ Mapped(n)
      BY <2>1, <3>1, MappedByMarker
    <3>2. CASE feature' = [feature EXCEPT ![issue[n].of].issue = n]
      BY <1>0, <2>1, <3>2, RowMended
    <3>3. QED BY <2>3, <3>1, <3>2
  <2>5. Pickup(n) \/ UNCHANGED <<job, spawned, mishaps>>
    BY <1>2
  <2>6. delivered' \subseteq DOMAIN mail
    BY <1>0 DEF LoopTypeOK
  <2>7. feature' = feature \/ feature' = [feature EXCEPT ![issue[n].of].issue = n]
    BY <2>3
  <2>8. QED BY <1>0, <2>1, <2>2, <2>4, <2>5, <2>6, <2>7, FoundKeeps
<1>3. QED BY <1>1, <1>2 DEF ReconcileIssue

\* A process that dies in a pickup had claimed the key for its mapped issue.
LEMMA DyingClaims ==
  ASSUME LoopIInv, NEW n \in Issue, DiesPickingUp(n), UNCHANGED <<feature, issue>>
  PROVE  /\ job' \in [Key -> {"free", "claimed", "completed", "failed"}]
         /\ spawned' \in [Issue -> Nat]
         /\ OneTaskPerIssue' /\ PickedUpIsMapped' /\ Board!BoardNext
<1> USE DEF LoopIInv, LoopInv
<1>1. /\ job[n] = "free" /\ job' = [job EXCEPT ![n] = "claimed"]
      /\ Mapped(n)
  BY DEF DiesPickingUp
<1>2. PICK t \in 0..1 : spawned' = [spawned EXCEPT ![n] = @ + t]
  BY DEF DiesPickingUp
<1>3. /\ job' \in [Key -> {"free", "claimed", "completed", "failed"}]
      /\ spawned' \in [Issue -> Nat]
      /\ \A m \in Issue \ {n} : job'[m] = job[m]
      /\ OneTaskPerIssue' /\ Board!BoardNext
  <2>1. "claimed" \in {"claimed", "completed", "failed"} /\ (t = 1 => "claimed" # "failed")
    OBVIOUS
  <2>2. QED BY <1>1, <1>2, <2>1, Taken
<1>4. feature[issue[n].of].issue # 0 /\ issue[n].of # NoFeature
  <2>1. feature[issue[n].of].issue = n
    BY <1>1, MappedByMarker
  <2>2. PICK f \in Feature : feature[f].issue = n
    BY <1>1 DEF Mapped
  <2>3. issue[n].of = f
    BY <2>2, IssueNumbers DEF MapOK
  <2>4. QED BY <2>1, <2>3, IssueNumbers, NoFeatureIsNone
<1>5. PickedUpIsMapped'
  BY <1>3, <1>4 DEF PickedUpIsMapped
<1>6. QED BY <1>3, <1>5

\* A crash: emissions and passes are gone, at most one key is claimed by it.
LEMMA CrashKeeps ==
  ASSUME LoopIInv, LoopCrash PROVE LoopIInv' /\ (Board!BoardNext \/ UNCHANGED job)
<1> USE DEF LoopIInv, LoopInv
<1>0. /\ mishaps < MaxMishap /\ mishaps' = mishaps + 1
      /\ UNCHANGED <<feature, repo, issue, mail>>
      /\ emit' = [b \in Batch |-> IF emit[b].pc = "idle" THEN NoEmit ELSE Over]
      /\ pass' = [p \in Pass |-> NoPass]
  BY DEF LoopCrash
<1>1. /\ emit' \in [Batch -> [pc : EmitState, todo : SUBSET Feature,
                              at : Feature \cup {NoFeature}, num : 0..MaxIssue]]
      /\ \A b \in Batch : emit'[b].todo = {} /\ emit'[b].pc \in {"idle", "done"}
  BY <1>0, IssueNumbers DEF NoEmit, Over, EmitState
<1>2. /\ pass' \in [Pass -> [pc : {"idle", "issues"}, todo : SUBSET Issue]]
      /\ \A p \in Pass : pass'[p].todo = {}
  BY <1>0 DEF NoPass
<1>3. mishaps' \in 0..MaxMishap
  BY <1>0, LoopAssumption DEF LoopTypeOK
<1> DEFINE Claims == /\ job' \in [Key -> {"free", "claimed", "completed", "failed"}]
                     /\ spawned' \in [Issue -> Nat]
                     /\ OneTaskPerIssue' /\ PickedUpIsMapped'
                     /\ Board!BoardNext \/ UNCHANGED job
<1>4. /\ delivered' \subseteq DOMAIN mail
      /\ \/ UNCHANGED <<job, spawned>>
         \/ \E n \in Issue : DiesPickingUp(n)
  <2>1. \A d \in DOMAIN mail : mail[d] \in Issue
    BY DEF LoopTypeOK
  <2>2. \A p \in Pass : pass[p].todo \subseteq Issue
    BY DEF LoopTypeOK
  <2>3. delivered \subseteq DOMAIN mail
    BY DEF LoopTypeOK
  <2>4. CASE UNCHANGED pickupVars
    BY <2>3, <2>4 DEF pickupVars
  <2>5. CASE \E p \in Pass : \E n \in pass[p].todo : DiesPickingUp(n) /\ UNCHANGED delivered
    BY <2>2, <2>3, <2>5
  <2>6. CASE \E d \in DOMAIN mail \ delivered :
               /\ delivered' = delivered \cup {d}
               /\ DiesPickingUp(mail[d]) \/ UNCHANGED <<job, spawned>>
    BY <2>1, <2>3, <2>6
  <2>7. QED BY <2>4, <2>5, <2>6 DEF LoopCrash
<1>5. Claims
  <2>1. CASE UNCHANGED <<job, spawned>>
    BY <1>0, <2>1 DEF LoopTypeOK, OneTaskPerIssue, PickedUpIsMapped
  <2>2. ASSUME NEW n \in Issue, DiesPickingUp(n) PROVE Claims
    BY <1>0, <2>2, DyingClaims
  <2>3. QED BY <1>4, <2>1, <2>2
<1>6. LoopTypeOK'
  BY <1>0, <1>1, <1>2, <1>3, <1>4, <1>5 DEF LoopTypeOK, Rows
<1>7. EmitOK' /\ MapOK' /\ MarkedOK' /\ MappedBeforeReady'
  <2>1. EmitOK'
    BY <1>1 DEF EmitOK
  <2>2. MapOK' /\ MappedBeforeReady'
    BY <1>0 DEF MapOK, MappedBeforeReady
  <2>3. MarkedOK'
    BY <1>0, <1>2 DEF MarkedOK
  <2>4. QED BY <2>1, <2>2, <2>3
<1>8. QED BY <1>5, <1>6, <1>7

-----------------------------------------------------------------------------
\* Every step keeps the inductive invariant.
LEMMA NextKeeps == LoopIInv /\ [LoopNext]_loopVars => LoopIInv'
<1> SUFFICES ASSUME LoopIInv, [LoopNext]_loopVars PROVE LoopIInv'
  OBVIOUS
<1>1. ASSUME NEW b \in Batch, Emits(b) PROVE LoopIInv'
  BY <1>1, EmissionSteps, DecomposedKeeps, CreateKeeps, MapKeeps, ApplyKeeps DEF Emits
<1>2. ASSUME NEW d \in DOMAIN mail, Deliver(d) PROVE LoopIInv'
  BY <1>2, DeliverKeeps
<1>3. ASSUME NEW p \in Pass, List(p) \/ ReconcileIssue(p) PROVE LoopIInv'
  BY <1>3, ListKeeps, ReconcileKeeps
<1>4. ASSUME NEW n \in Issue, HumanLabels(n) PROVE LoopIInv'
  BY <1>4, HumanKeeps
<1>5. CASE LoopCrash
  BY <1>5, CrashKeeps
<1>6. CASE UNCHANGED loopVars
  BY <1>6 DEF loopVars, LoopIInv, LoopInv, LoopTypeOK, Rows, MappedBeforeReady,
              PickedUpIsMapped, OneTaskPerIssue, EmitOK, MapOK, MarkedOK
<1>7. QED BY <1>1, <1>2, <1>3, <1>4, <1>5, <1>6 DEF LoopNext

\* Every step is a claim of the job board, or leaves its jobs as they are.
LEMMA NextClaims == LoopIInv /\ [LoopNext]_loopVars => [Board!BoardNext]_job
<1> SUFFICES ASSUME LoopIInv, [LoopNext]_loopVars
             PROVE  Board!BoardNext \/ UNCHANGED job
  OBVIOUS
<1>1. ASSUME NEW b \in Batch, Emits(b) PROVE UNCHANGED job
  BY <1>1 DEF Emits, Decompose, Decomposed, Bootstrap, EmitNext, CreateIssue, MapIssue,
              ApplyReady, pickupVars
<1>2. ASSUME NEW d \in DOMAIN mail, Deliver(d) PROVE Board!BoardNext \/ UNCHANGED job
  BY <1>2, DeliverKeeps
<1>3. ASSUME NEW p \in Pass, List(p) \/ ReconcileIssue(p)
      PROVE  Board!BoardNext \/ UNCHANGED job
  BY <1>3, ListKeeps, ReconcileKeeps
<1>4. ASSUME NEW n \in Issue, HumanLabels(n) PROVE UNCHANGED job
  BY <1>4 DEF HumanLabels, pickupVars
<1>5. CASE LoopCrash
  BY <1>5, CrashKeeps
<1>6. CASE UNCHANGED loopVars
  BY <1>6 DEF loopVars
<1>7. QED BY <1>1, <1>2, <1>3, <1>4, <1>5, <1>6 DEF LoopNext

\* The inductive invariant holds throughout.
THEOREM LoopInvariant == LoopSpec => []LoopIInv
  BY InitLoop, NextKeeps, PTL DEF LoopSpec

\* The PM's label never precedes the row, and what is picked up can be traced
\* to its feature, with any number of crashes, lost answers and people.
THEOREM LoopCorrect == LoopSpec => []LoopInv
<1>1. LoopIInv => LoopInv
  BY DEF LoopIInv
<1>2. QED BY <1>1, LoopInvariant, PTL

\* However often an issue is found, it becomes at most one task.
THEOREM LoopOneTask == LoopSpec => []OneTaskPerIssue
<1>1. LoopIInv => OneTaskPerIssue
  BY DEF LoopIInv
<1>2. QED BY <1>1, LoopInvariant, PTL

\* Dispatcher and reconciler implement the job board: a key is given away once
\* and its job never comes back.
THEOREM LoopKeepsBoard == LoopSpec => KeepsBoard
<1>1. LoopInit => Board!BoardInit
  BY DEF LoopInit, Board!BoardInit
<1>2. LoopSpec => Board!BoardInit /\ [][Board!BoardNext]_job
  BY <1>1, NextClaims, LoopInvariant, PTL DEF LoopSpec
<1>3. QED BY <1>2 DEF KeepsBoard, Board!BoardSpec
=============================================================================
