----------------------------- MODULE DevEnvProofs -----------------------------
(***************************************************************************)
(* Proofs about DevEnv for any tasks, requests, runs, mishaps and crashes. *)
(*                                                                         *)
(* A step writes the row of at most one process, gives it a place in a     *)
(* lock's queue or in the chain or takes it from there, and moves at most  *)
(* one task's preview.  So the invariant is kept if the new row is well    *)
(* formed and if the step is a good one for each of four parts: the locks  *)
(* (LockMove), the chain (ChainMove), the routes and every task (TaskMove, *)
(* Quiet).  The lemma Step says so, and there is one lemma per action that *)
(* its step is good.                                                       *)
(***************************************************************************)
EXTENDS DevEnv, TLAPS

Kind == {"none", "stop", "start", "delete", "bulk", "run", "teardown", "restore"}
Pc == {"free", "lock", "kube", "wait", "sync", "raw", "next"}
ProcRow == [kind : Kind, task : SUBSET Task, pc : Pc, todo : SUBSET Task, ok : BOOLEAN]
WriterRow == [pc : {"idle", "read", "same", "write", "reload"}, snap : SUBSET Task,
              fresh : BOOLEAN]

StateTypes ==
  /\ dev \in [Task -> {"none", "active", "stopped", "deleted", "gone"}]
  /\ table \subseteq Task /\ config \subseteq Task /\ gateway \subseteq Task
  /\ env \in [Task -> {"none", "bare", "app", "going"}]
  /\ lockq \in [Task -> Seq(Proc)] /\ chain \in Seq(Proc)
  /\ writer \in [Writer -> WriterRow]
  /\ drift \subseteq {"config", "gateway"} /\ spoiled \subseteq Task

\* What a process of each kind has for a task, and where it may be.
One(S) == \E t \in Task : S = {t}
Shape(r) ==
  \/ r.kind = "none" /\ r = Idle
  \/ r.kind \in {"stop", "delete"} /\ One(r.task) /\ r.pc \in {"lock", "kube", "sync"}
  \/ r.kind = "start" /\ One(r.task) /\ r.pc \in {"lock", "kube", "wait", "sync"}
  \/ r.kind = "bulk" /\ r.pc \in {"lock", "kube"} /\ One(r.task)
  \/ r.kind = "bulk" /\ r.pc = "sync" /\ r.task = {}
  \/ r.kind = "bulk" /\ r.pc = "next"
  \/ r.kind = "run" /\ One(r.task) /\ r.pc \in {"kube", "wait", "sync"}
  \/ r.kind = "teardown" /\ One(r.task) /\ r.pc \in {"kube", "raw"}
  \/ r.kind = "restore" /\ r.task = {} /\ r.pc = "raw"

\* The process with row r has, or waits for, the lock of task t.
Claims(r, t) ==
  r.task = {t} /\ (r.kind \in Button \/ (r.kind = "bulk" /\ r.pc \in {"lock", "kube"}))

\* The queue of a lock: each of those who claim it once, and all but the first wait.
LockOK(t) ==
  /\ \A i \in DOMAIN lockq[t] : Claims(proc[lockq[t][i]], t)
  /\ \A p \in Proc : Claims(proc[p], t) => \E i \in DOMAIN lockq[t] : lockq[t][i] = p
  /\ \A i, j \in DOMAIN lockq[t] : lockq[t][i] = lockq[t][j] => i = j
  /\ \A i \in DOMAIN lockq[t] : i > 1 => proc[lockq[t][i]].pc = "lock"

ChainOK ==
  /\ \A i \in DOMAIN chain : proc[chain[i]].pc = "sync"
  /\ \A i, j \in DOMAIN chain : chain[i] = chain[j] => i = j

\* A bulk deletion that has taken a route and will still sync.
Owes(r) == r.kind = "bulk" /\ r.ok /\ r.pc \in {"next", "lock", "kube"}
Pending == \E p \in Proc : Owes(proc[p])

\* Unless somebody wrote past the chain, what the chain's sync in progress
\* wrote is there, and either the table is what the last sync of the chain
\* writes, or another one is to come.
RoutesOK ==
  /\ writer[Chain].pc # "idle" => chain # <<>>
  /\ writer[Chain].pc \in {"same", "reload"} /\ (writer[Chain].fresh \/ "config" \notin drift)
     => config = writer[Chain].snap
  /\ writer[Chain].pc \in {"same", "write", "reload"} => writer[Chain].fresh \/ "config" \in drift
  /\ "config" \notin drift =>
       \/ Len(chain) > 1 \/ Pending
       \/ chain = <<>> /\ config = table
       \/ Len(chain) = 1 /\ (writer[Chain].pc = "idle" \/ writer[Chain].snap = table)
  /\ "gateway" \notin drift => gateway = config

\* The process is at work on the task, with the lock if it needs one.
Works(r, t) == t \in r.task /\ r.pc \notin {"lock", "next"}

\* The row of the task says what the cluster has and what the table routes.
Settled(t) ==
  CASE dev[t] = "active" -> env[t] = "app" /\ t \in table
    [] dev[t] = "stopped" -> env[t] = "bare" /\ t \notin table
    [] dev[t] = "deleted" -> env[t] \in {"going", "none"} /\ t \notin table
    [] dev[t] = "gone" -> env[t] # "app" /\ t \notin table
    [] OTHER -> env[t] = "none"

\* What is true of the task when the process at work on it has come so far.
On(r, kinds, pc) == r.kind \in kinds /\ r.pc = pc
Progress(r, t) ==
  /\ On(r, {"stop"}, "kube") => dev[t] = "active" /\ Settled(t)
  /\ On(r, {"stop"}, "sync") => dev[t] # "gone" /\ env[t] = "bare" /\ t \notin table
  /\ On(r, {"delete", "bulk"}, "kube") => dev[t] \in {"active", "stopped"} /\ Settled(t)
  /\ On(r, {"delete"}, "sync") =>
       dev[t] # "gone" /\ env[t] \in {"going", "none"} /\ t \notin table
  /\ On(r, {"start", "run"}, "kube") => dev[t] # "gone"
  /\ On(r, {"start", "run"}, "wait") => dev[t] # "gone" /\ env[t] = "app"
  /\ On(r, {"start", "run"}, "sync") => dev[t] # "gone" /\ env[t] = "app" /\ t \in table
  /\ On(r, {"teardown"}, "kube") => dev[t] # "gone" /\ Settled(t)
  /\ On(r, {"teardown"}, "raw") => env[t] # "app" /\ t \notin table

\* Of a task that nothing has spoiled: at most one is at work on it, has done
\* what its place says, and leaves it settled.
TaskOK(t) ==
  /\ \A p, q \in Proc : Works(proc[p], t) /\ Works(proc[q], t) => p = q
  /\ \A p \in Proc : Works(proc[p], t) => Progress(proc[p], t)
  /\ (\A p \in Proc : ~Works(proc[p], t)) => Settled(t)

DevIInv ==
  /\ StateTypes /\ proc \in [Proc -> ProcRow]
  /\ \A p \in Proc : Shape(proc[p])
  /\ \A t \in Task : LockOK(t)
  /\ ChainOK /\ RoutesOK
  /\ \A t \in Task \ spoiled : TaskOK(t)

-----------------------------------------------------------------------------
(* Sequences and rows *)

\* What a queue is after somebody has joined it, and after its first has left.
LEMMA AppendFacts ==
  ASSUME NEW s \in Seq(Proc), NEW p \in Proc
  PROVE  /\ Append(s, p) \in Seq(Proc) /\ Len(Append(s, p)) = Len(s) + 1
         /\ Len(s) \in Nat /\ DOMAIN s = 1..Len(s)
         /\ DOMAIN Append(s, p) = 1..(Len(s) + 1)
         /\ \A i \in 1..Len(s) : Append(s, p)[i] = s[i]
         /\ Append(s, p)[Len(s) + 1] = p
  OBVIOUS

\* A queue that is not empty has a first, and one less without it.
LEMMA TailFacts ==
  ASSUME NEW s \in Seq(Proc), s # <<>>
  PROVE  /\ Tail(s) \in Seq(Proc) /\ Len(Tail(s)) = Len(s) - 1
         /\ Len(s) \in Nat \ {0} /\ DOMAIN s = 1..Len(s) /\ Head(s) = s[1] /\ Head(s) \in Proc
         /\ DOMAIN Tail(s) = 1..(Len(s) - 1)
         /\ \A i \in 1..(Len(s) - 1) : Tail(s)[i] = s[i + 1]
  OBVIOUS

\* The chain writes the routes beside the processes and is none of them.
LEMMA ProcFacts == 0 \notin Proc /\ 1 \in Proc /\ Chain \in Writer /\ Proc \subseteq Writer
                   /\ Writer = {Chain} \cup Proc /\ Chain \notin Proc
  BY DevAssumption DEF Proc, Writer, Chain

\* The row of a process that goes to another place.
LEMMA GoRow ==
  ASSUME NEW r \in ProcRow, NEW pc \in Pc
  PROVE  LET s == [r EXCEPT !.pc = pc]
         IN  /\ s \in ProcRow /\ s.pc = pc /\ s.kind = r.kind /\ s.task = r.task
             /\ s.todo = r.todo /\ s.ok = r.ok
  BY DEF ProcRow

\* The row of a free slot.
LEMMA IdleRow ==
  /\ Idle \in ProcRow /\ Shape(Idle) /\ Idle.pc = "free" /\ Idle.kind = "none"
  /\ Idle.task = {} /\ ~Idle.ok
  BY DEF Idle, ProcRow, Kind, Pc, Shape

-----------------------------------------------------------------------------
(* What a step of one process may do to each part of the invariant *)

Takes(p, r) == proc' = [proc EXCEPT ![p] = r]

\* It keeps its claims, and only the first in a queue goes on; or it joins a
\* queue; or it is the first of a queue and leaves it.
Stays(p, r) ==
  /\ UNCHANGED lockq
  /\ \A t \in Task : Claims(r, t) <=> Claims(proc[p], t)
  /\ \A t \in Task : Claims(r, t) =>
       r.pc = "lock" \/ proc[p].pc # "lock" \/ Head(lockq[t]) = p
Joins(p, r, t) ==
  /\ lockq' = [lockq EXCEPT ![t] = Append(@, p)]
  /\ \A u \in Task : ~Claims(proc[p], u) /\ (Claims(r, u) <=> u = t)
  /\ r.pc = "lock"
Leaves(p, r, t) ==
  /\ lockq' = [lockq EXCEPT ![t] = Tail(@)]
  /\ Claims(proc[p], t) /\ Head(lockq[t]) = p
  /\ \A u \in Task : ~Claims(r, u)
LockMove(p, r) == Stays(p, r) \/ \E t \in Task : Joins(p, r, t) \/ Leaves(p, r, t)

ChainMove(p, r) ==
  \/ UNCHANGED chain /\ proc[p].pc # "sync"
  \/ chain' = Append(chain, p) /\ proc[p].pc # "sync" /\ r.pc = "sync"
  \/ chain' = Tail(chain) /\ chain # <<>> /\ p = Head(chain)

SameTask(t) == dev'[t] = dev[t] /\ env'[t] = env[t] /\ (t \in table' <=> t \in table)
Quiet(p, r, t) == SameTask(t) /\ ~Works(proc[p], t) /\ ~Works(r, t)
TaskMove(p, r, t) ==
  /\ Works(proc[p], t) \/ \A q \in Proc : ~Works(proc[q], t)
  /\ IF Works(r, t) THEN Progress(r, t)' ELSE Settled(t)'

\* One who has the lock of a task is the first in its queue.
LEMMA Holds ==
  ASSUME DevIInv, NEW p \in Proc, NEW t \in Task, Claims(proc[p], t), proc[p].pc # "lock"
  PROVE  Head(lockq[t]) = p /\ lockq[t] # <<>>
<1>1. lockq[t] \in Seq(Proc) /\ LockOK(t) BY DEF DevIInv, StateTypes
<1>2. PICK i \in DOMAIN lockq[t] : lockq[t][i] = p BY <1>1 DEF LockOK
<1>3. i \in 1..Len(lockq[t]) /\ Len(lockq[t]) \in Nat /\ lockq[t] # <<>> BY <1>1, <1>2
<1>4. ~(i > 1) BY <1>1, <1>2 DEF LockOK
<1>5. i = 1 BY <1>3, <1>4
<1>6. QED BY <1>1, <1>2, <1>3, <1>5, TailFacts

\* None of the three moves breaks a lock.
LEMMA StaysOK ==
  ASSUME DevIInv, NEW p \in Proc, NEW r \in ProcRow, Takes(p, r), Stays(p, r),
         NEW t \in Task
  PROVE  LockOK(t)'
<1> DEFINE q == lockq[t]
<1>1. q \in Seq(Proc) /\ LockOK(t) /\ proc \in [Proc -> ProcRow] BY DEF DevIInv, StateTypes
<1>2. \A i \in DOMAIN q : q[i] \in Proc BY <1>1
<1>3. \A x \in Proc : proc'[x] = IF x = p THEN r ELSE proc[x] BY <1>1 DEF Takes
<1>4. \A x \in Proc : Claims(proc'[x], t) <=> Claims(proc[x], t) BY <1>3 DEF Stays
<1>5. ASSUME NEW i \in DOMAIN q, i > 1 PROVE proc'[q[i]].pc = "lock"
  <2>1. proc[q[i]].pc = "lock" /\ Claims(proc[q[i]], t) BY <1>1, <1>5 DEF LockOK
  <2>2. CASE q[i] # p BY <1>2, <1>3, <2>1, <2>2
  <2>3. CASE q[i] = p
    <3>1. q # <<>> /\ 1 \in DOMAIN q BY <1>1, <1>5
    <3>2. q[1] # p BY <1>1, <1>5, <2>3, <3>1 DEF LockOK
    <3>3. Head(q) # p BY <1>1, <3>1, <3>2, TailFacts
    <3>4. Claims(r, t) BY <2>1, <2>3 DEF Stays
    <3>5. QED BY <1>3, <2>1, <2>3, <3>3, <3>4 DEF Stays
  <2>4. QED BY <2>2, <2>3
<1>6. lockq'[t] = q BY DEF Stays
<1>7. QED BY <1>1, <1>2, <1>4, <1>5, <1>6 DEF LockOK

\* A process that joins the queue of a lock leaves every queue well formed.
LEMMA JoinsOK ==
  ASSUME DevIInv, NEW p \in Proc, NEW r \in ProcRow, Takes(p, r), NEW u \in Task,
         Joins(p, r, u), NEW t \in Task
  PROVE  LockOK(t)'
<1> DEFINE q == lockq[t]
<1>1. q \in Seq(Proc) /\ LockOK(t) /\ proc \in [Proc -> ProcRow] /\ lockq \in [Task -> Seq(Proc)]
  BY DEF DevIInv, StateTypes
<1>2. \A i \in DOMAIN q : q[i] \in Proc /\ q[i] # p BY <1>1 DEF LockOK, Joins
<1>3. \A x \in Proc : proc'[x] = IF x = p THEN r ELSE proc[x] BY <1>1 DEF Takes
<1>4. CASE t # u
  <2>1. lockq'[t] = q BY <1>1, <1>4 DEF Joins
  <2>2. \A x \in Proc : Claims(proc'[x], t) <=> Claims(proc[x], t) BY <1>3, <1>4 DEF Joins
  <2>3. QED BY <1>1, <1>2, <1>3, <2>1, <2>2 DEF LockOK
<1>5. CASE t = u
  <2> DEFINE s == Append(q, p)
  <2>1. lockq'[t] = s BY <1>1, <1>5 DEF Joins
  <2>2. /\ DOMAIN q = 1..Len(q) /\ DOMAIN s = 1..(Len(q) + 1) /\ Len(q) \in Nat
        /\ \A i \in 1..Len(q) : s[i] = q[i]
        /\ s[Len(q) + 1] = p
    BY <1>1, AppendFacts
  <2> HIDE DEF s
  <2>3. \A i \in DOMAIN s : i \in DOMAIN q \/ i = Len(q) + 1 BY <2>2
  <2>4. Claims(r, t) /\ r.pc = "lock" BY <1>5 DEF Joins
  <2>5. \A i \in DOMAIN s : Claims(proc'[s[i]], t) BY <1>1, <1>2, <1>3, <2>2, <2>3, <2>4 DEF LockOK
  <2>6. ASSUME NEW x \in Proc, Claims(proc'[x], t) PROVE \E i \in DOMAIN s : s[i] = x
    <3>1. CASE x = p BY <2>2, <3>1
    <3>2. CASE x # p
      <4>1. PICK i \in DOMAIN q : q[i] = x BY <1>1, <1>3, <2>6, <3>2 DEF LockOK
      <4>2. i \in DOMAIN s /\ s[i] = x BY <2>2, <4>1
      <4>3. QED BY <4>2
    <3>3. QED BY <3>1, <3>2
  <2>7. ASSUME NEW i \in DOMAIN s, NEW j \in DOMAIN s, s[i] = s[j] PROVE i = j
    BY <1>1, <1>2, <2>2, <2>3, <2>7 DEF LockOK
  <2>8. \A i \in DOMAIN s : i > 1 => proc'[s[i]].pc = "lock"
    BY <1>1, <1>2, <1>3, <2>2, <2>3, <2>4 DEF LockOK
  <2>9. QED BY <2>1, <2>5, <2>6, <2>7, <2>8 DEF LockOK
<1>6. QED BY <1>4, <1>5

\* So does one that leaves the head of a queue for its end or its next task.
LEMMA LeavesOK ==
  ASSUME DevIInv, NEW p \in Proc, NEW r \in ProcRow, Takes(p, r), NEW u \in Task,
         Leaves(p, r, u), NEW t \in Task
  PROVE  LockOK(t)'
<1> DEFINE q == lockq[t]
<1>1. q \in Seq(Proc) /\ LockOK(t) /\ proc \in [Proc -> ProcRow] /\ lockq \in [Task -> Seq(Proc)]
  BY DEF DevIInv, StateTypes
<1>2. \A i \in DOMAIN q : q[i] \in Proc BY <1>1
<1>3. \A x \in Proc : proc'[x] = IF x = p THEN r ELSE proc[x] BY <1>1 DEF Takes
<1>4. CASE t # u
  <2>1. lockq'[t] = q BY <1>1, <1>4 DEF Leaves
  <2>2. ~Claims(proc[p], t) BY <1>4 DEF Leaves, Claims
  <2>3. \A x \in Proc : Claims(proc'[x], t) <=> Claims(proc[x], t) BY <1>3, <2>2 DEF Leaves
  <2>4. \A i \in DOMAIN q : q[i] # p BY <1>1, <2>2 DEF LockOK
  <2>5. QED BY <1>1, <1>2, <1>3, <2>1, <2>3, <2>4 DEF LockOK
<1>5. CASE t = u
  <2> DEFINE s == Tail(q)
  <2>0. PICK k \in DOMAIN q : q[k] = p BY <1>1, <1>5 DEF LockOK, Leaves
  <2>1. lockq'[t] = s BY <1>1, <1>5 DEF Leaves
  <2>2. /\ DOMAIN q = 1..Len(q) /\ DOMAIN s = 1..(Len(q) - 1) /\ Len(q) \in Nat \ {0}
        /\ \A i \in 1..(Len(q) - 1) : s[i] = q[i + 1]
        /\ q[1] = p
    <3>1. q # <<>> BY <1>1, <2>0
    <3>2. QED BY <1>1, <1>5, <3>1, TailFacts DEF Leaves
  <2> HIDE DEF s
  <2>3. \A i \in DOMAIN s : i + 1 \in DOMAIN q /\ i + 1 > 1 /\ s[i] = q[i + 1] BY <2>2
  <2>4. ASSUME NEW i \in DOMAIN s PROVE s[i] # p /\ s[i] \in Proc
    <3>1. 1 \in DOMAIN q /\ i + 1 # 1 BY <2>2, <2>3
    <3>2. q[i + 1] # q[1] BY <1>1, <2>3, <3>1 DEF LockOK
    <3>3. QED BY <1>2, <2>2, <2>3, <3>2
  <2>5. \A i \in DOMAIN s : Claims(proc'[s[i]], t) /\ proc'[s[i]].pc = "lock"
    BY <1>1, <1>3, <2>3, <2>4 DEF LockOK
  <2>6. ASSUME NEW x \in Proc, Claims(proc'[x], t) PROVE \E i \in DOMAIN s : s[i] = x
    <3>1. x # p BY <1>3, <1>5, <2>6 DEF Leaves
    <3>2. PICK i \in DOMAIN q : q[i] = x BY <1>1, <1>3, <2>6, <3>1 DEF LockOK
    <3>3. i # 1 /\ i - 1 \in DOMAIN s /\ (i - 1) + 1 = i BY <2>2, <3>1, <3>2
    <3>4. s[i - 1] = x BY <2>3, <3>2, <3>3
    <3>5. QED BY <3>3, <3>4
  <2>7. ASSUME NEW i \in DOMAIN s, NEW j \in DOMAIN s, s[i] = s[j] PROVE i = j
    <3>1. i + 1 = j + 1 BY <1>1, <2>3, <2>7 DEF LockOK
    <3>2. QED BY <2>2, <3>1
  <2>8. QED BY <2>1, <2>5, <2>6, <2>7 DEF LockOK
<1>6. QED BY <1>4, <1>5

\* The chain holds those whose sync is under way, each once.
LEMMA ChainKept ==
  ASSUME DevIInv, NEW p \in Proc, NEW r \in ProcRow, Takes(p, r), ChainMove(p, r)
  PROVE  ChainOK'
<1>1. chain \in Seq(Proc) /\ ChainOK /\ proc \in [Proc -> ProcRow] BY DEF DevIInv, StateTypes
<1>2. \A i \in DOMAIN chain : chain[i] \in Proc BY <1>1
<1>3. \A x \in Proc : proc'[x] = IF x = p THEN r ELSE proc[x] BY <1>1 DEF Takes
<1>4. CASE UNCHANGED chain /\ proc[p].pc # "sync" BY <1>1, <1>2, <1>3, <1>4 DEF ChainOK
<1>5. CASE chain' = Append(chain, p) /\ proc[p].pc # "sync" /\ r.pc = "sync"
  <2>1. /\ DOMAIN chain = 1..Len(chain) /\ DOMAIN chain' = 1..(Len(chain) + 1)
        /\ Len(chain) \in Nat
        /\ \A i \in 1..Len(chain) : chain'[i] = chain[i]
        /\ chain'[Len(chain) + 1] = p
    BY <1>1, <1>5, AppendFacts
  <2>2. \A i \in DOMAIN chain' : i \in DOMAIN chain \/ i = Len(chain) + 1 BY <2>1
  <2>3. \A i \in DOMAIN chain : chain[i] # p BY <1>1, <1>5 DEF ChainOK
  <2>4. \A i \in DOMAIN chain' : proc'[chain'[i]].pc = "sync"
    BY <1>1, <1>2, <1>3, <1>5, <2>1, <2>2, <2>3 DEF ChainOK
  <2>5. ASSUME NEW i \in DOMAIN chain', NEW j \in DOMAIN chain', chain'[i] = chain'[j] PROVE i = j
    BY <1>1, <2>1, <2>2, <2>3, <2>5 DEF ChainOK
  <2>6. QED BY <2>4, <2>5 DEF ChainOK
<1>6. CASE chain' = Tail(chain) /\ chain # <<>> /\ p = Head(chain)
  <2>1. /\ DOMAIN chain = 1..Len(chain) /\ DOMAIN chain' = 1..(Len(chain) - 1)
        /\ Len(chain) \in Nat \ {0} /\ chain[1] = p
        /\ \A i \in 1..(Len(chain) - 1) : chain'[i] = chain[i + 1]
    BY <1>1, <1>6, TailFacts
  <2>2. \A i \in DOMAIN chain' : i + 1 \in DOMAIN chain /\ i + 1 # 1 /\ chain'[i] = chain[i + 1]
    BY <2>1
  <2>3. \A i \in DOMAIN chain' : chain'[i] # p /\ chain'[i] \in Proc
    BY <1>1, <1>2, <2>1, <2>2 DEF ChainOK
  <2>4. \A i \in DOMAIN chain' : proc'[chain'[i]].pc = "sync"
    BY <1>1, <1>3, <2>2, <2>3 DEF ChainOK
  <2>5. ASSUME NEW i \in DOMAIN chain', NEW j \in DOMAIN chain', chain'[i] = chain'[j] PROVE i = j
    <3>1. i + 1 = j + 1 BY <1>1, <2>2, <2>5 DEF ChainOK
    <3>2. QED BY <2>1, <3>1
  <2>6. QED BY <2>4, <2>5 DEF ChainOK
<1>7. QED BY <1>4, <1>5, <1>6 DEF ChainMove

\* A step of the only one at work on a task keeps what is known of it, and so
\* does one that has nothing to do with it.
LEMMA TaskKept ==
  ASSUME DevIInv, NEW p \in Proc, NEW r \in ProcRow, Takes(p, r), NEW t \in Task,
         TaskOK(t), Quiet(p, r, t) \/ TaskMove(p, r, t)
  PROVE  TaskOK(t)'
<1>1. proc \in [Proc -> ProcRow] BY DEF DevIInv
<1>2. \A x \in Proc : proc'[x] = IF x = p THEN r ELSE proc[x] BY <1>1 DEF Takes
<1>3. CASE Quiet(p, r, t)
  <2>1. \A x \in Proc : Works(proc'[x], t) <=> Works(proc[x], t) BY <1>2, <1>3 DEF Quiet
  <2>2. \A x \in Proc : Works(proc[x], t) => proc'[x] = proc[x] BY <1>2, <1>3 DEF Quiet
  <2>3. Settled(t)' <=> Settled(t) BY <1>3 DEF Quiet, SameTask, Settled
  <2>4. \A x \in Proc : Works(proc[x], t) => (Progress(proc[x], t)' <=> Progress(proc[x], t))
    BY <1>3, <2>2, <2>3 DEF Quiet, SameTask, Progress, On
  <2>5. QED BY <2>1, <2>2, <2>3, <2>4 DEF TaskOK
<1>4. CASE TaskMove(p, r, t)
  <2>1. \A x \in Proc : x # p => ~Works(proc[x], t) BY <1>4 DEF TaskMove, TaskOK
  <2>2. \A x \in Proc : x # p => ~Works(proc'[x], t) BY <1>2, <2>1
  <2>3. proc'[p] = r BY <1>2
  <2>4. CASE Works(r, t)
    <3>1. Progress(proc[p], t)' BY <1>4, <2>3, <2>4 DEF TaskMove, Progress, On
    <3>2. QED BY <2>2, <2>3, <2>4, <3>1 DEF TaskOK
  <2>5. CASE ~Works(r, t)
    <3>1. Settled(t)' BY <1>4, <2>5 DEF TaskMove
    <3>2. QED BY <2>2, <2>3, <2>5, <3>1 DEF TaskOK
  <2>6. QED BY <2>4, <2>5
<1>5. QED BY <1>3, <1>4

\* A good step of one process keeps the invariant.
LEMMA Step ==
  ASSUME DevIInv, NEW p \in Proc, NEW r \in ProcRow, Shape(r), Takes(p, r),
         StateTypes', LockMove(p, r), ChainMove(p, r), RoutesOK',
         spoiled \subseteq spoiled',
         \A t \in Task \ spoiled' : Quiet(p, r, t) \/ TaskMove(p, r, t)
  PROVE  DevIInv'
<1>1. proc' \in [Proc -> ProcRow] /\ \A x \in Proc : Shape(proc'[x]) BY DEF DevIInv, Takes
<1>2. \A t \in Task : LockOK(t)' BY StaysOK, JoinsOK, LeavesOK DEF LockMove
<1>3. ChainOK' BY ChainKept
<1>4. ASSUME NEW t \in Task \ spoiled' PROVE TaskOK(t)'
  <2>1. TaskOK(t) BY DEF DevIInv
  <2>2. QED BY <2>1, TaskKept
<1>5. QED BY <1>1, <1>2, <1>3, <1>4 DEF DevIInv

-----------------------------------------------------------------------------
(* The routes *)

\* A step that leaves the gateway and the table alone.
LEMMA RoutesQuiet ==
  ASSUME DevIInv, NEW p \in Proc, NEW r \in ProcRow, Takes(p, r), UNCHANGED gate,
         Owes(proc[p]) => Owes(r)
  PROVE  RoutesOK'
<1>1. proc \in [Proc -> ProcRow] /\ RoutesOK BY DEF DevIInv
<1>2. \A x \in Proc : proc'[x] = IF x = p THEN r ELSE proc[x] BY <1>1 DEF Takes
<1>3. Pending => Pending' BY <1>2 DEF Pending
<1>4. QED BY <1>1, <1>3 DEF RoutesOK, gate

\* One more sync: it is the last, or the only one and has not read the table.
LEMMA RoutesAppended ==
  ASSUME DevIInv, NEW p \in Proc, chain' = Append(chain, p),
         UNCHANGED <<config, gateway, writer, drift>>
  PROVE  RoutesOK'
<1>1. chain \in Seq(Proc) /\ RoutesOK BY DEF DevIInv, StateTypes
<1>2. Len(chain') = Len(chain) + 1 /\ Len(chain) \in Nat /\ chain' # <<>> BY <1>1, AppendFacts
<1>3. CASE chain = <<>>
  <2>1. writer[Chain].pc = "idle" BY <1>1, <1>3 DEF RoutesOK
  <2>2. Len(chain') = 1 BY <1>2, <1>3
  <2>3. QED BY <1>1, <1>2, <2>1, <2>2 DEF RoutesOK
<1>4. CASE chain # <<>>
  <2>1. Len(chain) # 0 BY <1>1, <1>4
  <2>2. Len(chain') > 1 BY <1>2, <2>1
  <2>3. QED BY <1>1, <1>2, <2>2 DEF RoutesOK
<1>5. QED BY <1>3, <1>4

-----------------------------------------------------------------------------
(* Who is at work on a task *)

\* Whoever is at work on a task holds its lock, or is a run or a teardown of it.
LEMMA Workers ==
  ASSUME DevIInv, NEW q \in Proc, NEW t \in Task, Works(proc[q], t)
  PROVE  \/ /\ proc[q].kind \in Button \cup {"bulk"} /\ proc[q].task = {t}
            /\ Claims(proc[q], t) /\ Head(lockq[t]) = q /\ lockq[t] # <<>>
         \/ proc[q].kind = "run" /\ proc[q].task = {t}
         \/ proc[q].kind = "teardown" /\ proc[q].task = {t}
<1>1. Shape(proc[q]) BY DEF DevIInv
<1>2. proc[q].pc # "lock" /\ proc[q].pc # "next" /\ t \in proc[q].task BY DEF Works
<1>3. Claims(proc[q], t) => Head(lockq[t]) = q /\ lockq[t] # <<>> BY <1>2, Holds
<1>4. proc[q].task # {} /\ proc[q] # Idle BY <1>2, IdleRow
<1>5. One(proc[q].task) BY <1>1, <1>2, <1>4 DEF Shape
<1>6. proc[q].task = {t} BY <1>2, <1>5 DEF One
<1>7. QED BY <1>1, <1>2, <1>3, <1>4, <1>6 DEF Shape, Claims, Button

\* An idle process has no part in anything.
LEMMA IdleFacts ==
  /\ \A t \in Task : ~Claims(Idle, t) /\ ~Works(Idle, t)
  /\ ~Owes(Idle)
  BY IdleRow DEF Claims, Works, Owes

-----------------------------------------------------------------------------
(* The buttons *)

\* A button is pressed: its process joins the queue of the lock.
LEMMA PressOK ==
  ASSUME DevIInv, NEW p \in Proc, Press(p)
  PROVE  DevIInv'
<1>1. PICK kind \in Button, t \in Task :
        /\ Begins(p, [Idle EXCEPT !.kind = kind, !.task = {t}, !.pc = "lock"])
        /\ lockq' = [lockq EXCEPT ![t] = Append(@, p)]
        /\ UNCHANGED <<dev, gate, env, spoiled>>
  BY DEF Press
<1> PICK r : r = [Idle EXCEPT !.kind = kind, !.task = {t}, !.pc = "lock"] OBVIOUS
<1>2. kind \in Kind /\ "lock" \in Pc BY DEF Kind, Pc, Button
<1>3. Idle.todo = {} BY DEF Idle
<1>4. r \in ProcRow /\ r.pc = "lock" /\ r.kind = kind /\ r.task = {t} BY <1>2, IdleRow DEF ProcRow
<1>5. Takes(p, r) /\ proc[p] = Idle BY <1>1 DEF Begins, Takes
<1>6. Shape(r) BY <1>4 DEF Shape, One, Button
<1>7. StateTypes' BY <1>1, AppendFacts DEF DevIInv, StateTypes, gate
<1>8. Joins(p, r, t) BY <1>1, <1>4, <1>5, IdleFacts DEF Joins, Claims
<1>9. ChainMove(p, r) BY <1>1, <1>5, IdleRow DEF ChainMove, gate
<1>10. RoutesOK' BY <1>1, <1>4, <1>5, IdleFacts, RoutesQuiet
<1>11. \A u \in Task : Quiet(p, r, u)
  BY <1>1, <1>4, <1>5, IdleFacts DEF Quiet, SameTask, Works, gate
<1>12. spoiled \subseteq spoiled' BY <1>1
<1>13. QED BY <1>4, <1>5, <1>6, <1>7, <1>8, <1>9, <1>10, <1>11, <1>12, Step DEF LockMove

\* A bulk deletion begins at no task and holds no lock.
LEMMA PressManyOK ==
  ASSUME DevIInv, NEW p \in Proc, PressMany(p)
  PROVE  DevIInv'
<1> PICK r : r = [Idle EXCEPT !.kind = "bulk", !.pc = "next", !.todo = Task] OBVIOUS
<1>1. "bulk" \in Kind /\ "next" \in Pc BY DEF Kind, Pc
<1>3. r \in ProcRow /\ r.pc = "next" /\ r.kind = "bulk" /\ r.task = {} BY <1>1, IdleRow DEF ProcRow
<1>4. Takes(p, r) /\ proc[p] = Idle /\ UNCHANGED <<dev, gate, env, lockq, spoiled>>
  BY DEF PressMany, Begins, Takes
<1>5. Shape(r) BY <1>3 DEF Shape
<1>6. StateTypes' BY <1>4 DEF DevIInv, StateTypes, gate
<1>7. Stays(p, r) BY <1>3, <1>4, IdleFacts DEF Stays, Claims
<1>8. ChainMove(p, r) BY <1>4, IdleRow DEF ChainMove, gate
<1>9. RoutesOK' BY <1>3, <1>4, IdleFacts, RoutesQuiet
<1>10. \A u \in Task : Quiet(p, r, u)
  BY <1>3, <1>4, IdleFacts DEF Quiet, SameTask, Works, gate
<1>11. spoiled \subseteq spoiled' BY <1>4
<1>12. QED BY <1>3, <1>4, <1>5, <1>6, <1>7, <1>8, <1>9, <1>10, <1>11, Step DEF LockMove

\* Who has come to the head of a lock's queue.
LEMMA HeldFacts ==
  ASSUME DevIInv, NEW p \in Proc, NEW t \in Task, Held(p, t)
  PROVE  /\ proc[p].kind \in Button \cup {"bulk"} /\ proc[p].task = {t} /\ proc[p].pc = "lock"
         /\ Claims(proc[p], t) /\ Head(lockq[t]) = p /\ lockq[t] # <<>>
         /\ \A u \in Task : ~Works(proc[p], u)
<1>1. Shape(proc[p]) /\ lockq[t] \in Seq(Proc) /\ LockOK(t) BY DEF DevIInv, StateTypes
<1>2. proc[p].pc = "lock" /\ proc[p].task = {t} /\ Head(lockq[t]) = p BY DEF Held
<1>3. proc[p].kind \in Button \cup {"bulk"} BY <1>1, <1>2, IdleRow DEF Shape, Button
<1>4. Claims(proc[p], t) BY <1>2, <1>3 DEF Claims
<1>5. lockq[t] # <<>> BY <1>1, <1>4 DEF LockOK
<1>6. QED BY <1>2, <1>3, <1>4, <1>5 DEF Works

\* A refusal gives the lock back and touches no preview.
LEMMA RefuseOK ==
  ASSUME DevIInv, NEW p \in Proc, Refuse(p)
  PROVE  DevIInv'
<1>1. PICK t \in Task :
        /\ Held(p, t) /\ Released(t)
        /\ proc' = [proc EXCEPT ![p] =
                IF @.kind # "bulk" THEN Idle
                ELSE [@ EXCEPT !.pc = "next", !.ok = proc[p].ok \/ dev[t] = "deleted"]]
        /\ UNCHANGED <<dev, gate, env, bounds, spoiled>>
  BY DEF Refuse
<1> PICK r : r = proc'[p] OBVIOUS
<1>2. /\ proc \in [Proc -> ProcRow] /\ proc[p] \in ProcRow /\ lockq \in [Task -> Seq(Proc)]
  BY DEF DevIInv, StateTypes
<1>3. /\ r \in ProcRow
      /\ \/ r = Idle /\ proc[p].kind # "bulk"
         \/ r.pc = "next" /\ r.kind = "bulk" /\ (proc[p].ok => r.ok)
  <2>1. CASE proc[p].kind # "bulk" BY <1>1, <1>2, <2>1, IdleRow
  <2>2. CASE proc[p].kind = "bulk"
    <3>1. r = [proc[p] EXCEPT !.pc = "next", !.ok = proc[p].ok \/ dev[t] = "deleted"]
      BY <1>1, <1>2, <2>2
    <3>2. QED BY <1>2, <2>2, <3>1 DEF ProcRow, Pc
  <2>3. QED BY <2>1, <2>2
<1>4. Takes(p, r) BY <1>1, <1>2 DEF Takes
<1>5. Shape(r) BY <1>3, IdleRow DEF Shape
<1>6. \A u \in Task : ~Works(r, u) /\ ~Claims(r, u)
  BY <1>3, IdleFacts DEF Works, Claims, Button
<1>7. Owes(proc[p]) => Owes(r) BY <1>3 DEF Owes
<1>8. Leaves(p, r, t) BY <1>1, <1>6, HeldFacts DEF Leaves, Released
<1>9. StateTypes' BY <1>1, <1>2, HeldFacts, TailFacts DEF DevIInv, StateTypes, gate, Released
<1>10. ChainMove(p, r) BY <1>1, HeldFacts DEF ChainMove, gate
<1>11. RoutesOK' BY <1>1, <1>3, <1>4, <1>7, RoutesQuiet
<1>12. \A u \in Task : Quiet(p, r, u) BY <1>1, <1>6, HeldFacts DEF Quiet, SameTask, gate
<1>13. spoiled \subseteq spoiled' BY <1>1
<1>14. QED BY <1>3, <1>4, <1>5, <1>8, <1>9, <1>10, <1>11, <1>12, <1>13, Step DEF LockMove

\* Whoever is admitted finds the task settled, or it is spoiled.
LEMMA AdmitOK ==
  ASSUME DevIInv, NEW p \in Proc, Admit(p)
  PROVE  DevIInv'
<1>1. PICK t \in Task :
        /\ Held(p, t) /\ Applies(proc[p].kind, t)
        /\ Go(p, "kube")
        /\ Spoils(t, Meets(t, {"teardown"}))
        /\ UNCHANGED <<dev, gate, env, lockq, bounds>>
  BY DEF Admit
<1> PICK r : r = [proc[p] EXCEPT !.pc = "kube"] OBVIOUS
<1>2. proc[p] \in ProcRow /\ proc \in [Proc -> ProcRow] BY DEF DevIInv
<1>3. Takes(p, r) BY <1>1, <1>2 DEF Takes, Go
<1>4. /\ r \in ProcRow /\ r.pc = "kube" /\ r.kind = proc[p].kind
      /\ r.task = proc[p].task /\ r.ok = proc[p].ok
  BY <1>2, GoRow DEF Pc
<1>5. /\ proc[p].kind \in Button \cup {"bulk"} /\ proc[p].task = {t} /\ proc[p].pc = "lock"
      /\ Claims(proc[p], t) /\ Head(lockq[t]) = p /\ \A u \in Task : ~Works(proc[p], u)
  BY <1>1, HeldFacts
<1>6. Shape(r) BY <1>4, <1>5 DEF Shape, One, Button
<1>7. spoiled' = IF Meets(t, {"teardown"}) THEN spoiled \cup {t} ELSE spoiled BY <1>1 DEF Spoils
<1>8. StateTypes' BY <1>1, <1>7 DEF DevIInv, StateTypes, gate
<1>9. Stays(p, r)
  <2>1. \A u \in Task : Claims(r, u) <=> Claims(proc[p], u) BY <1>4, <1>5 DEF Claims
  <2>2. \A u \in Task : Claims(r, u) => u = t BY <1>4, <1>5 DEF Claims
  <2>3. QED BY <1>1, <1>5, <2>1, <2>2 DEF Stays
<1>10. ChainMove(p, r) BY <1>1, <1>5 DEF ChainMove, gate
<1>11. RoutesOK'
  <2>1. Owes(proc[p]) => Owes(r) BY <1>4, <1>5 DEF Owes
  <2>2. QED BY <1>1, <1>3, <1>4, <2>1, RoutesQuiet
<1>12. ASSUME NEW u \in Task \ spoiled', u # t PROVE Quiet(p, r, u)
  BY <1>1, <1>4, <1>5, <1>12 DEF Quiet, SameTask, Works, gate
<1>13. ASSUME t \notin spoiled' PROVE TaskMove(p, r, t)
  <2>1. ~Meets(t, {"teardown"}) /\ Mutable(t) /\ TaskOK(t)
    BY <1>1, <1>7, <1>13 DEF Applies, DevIInv
  <2>2. ASSUME NEW q \in Proc, Works(proc[q], t) PROVE FALSE
    <3>1. proc[q].kind # "run" \/ proc[q].task # {t} BY <2>1 DEF Mutable
    <3>2. proc[q].kind # "teardown" BY <2>1, <2>2 DEF Meets, Works
    <3>3. Head(lockq[t]) = q BY <2>2, <3>1, <3>2, Workers
    <3>4. QED BY <1>5, <2>2, <3>3
  <2>3. Settled(t) BY <2>1, <2>2 DEF TaskOK
  <2>4. Settled(t)' BY <1>1, <2>3 DEF Settled, gate
  <2>5. dev'[t] = dev[t] /\ dev[t] \in {"none", "active", "stopped", "deleted", "gone"}
    BY <1>1 DEF DevIInv, StateTypes
  <2>6. /\ proc[p].kind = "stop" => dev[t] = "active"
        /\ proc[p].kind \in {"delete", "bulk"} => dev[t] \in {"active", "stopped"}
        /\ dev[t] # "gone"
    BY <1>1, <2>5 DEF Applies
  <2>7. Progress(r, t)' BY <1>4, <1>5, <2>4, <2>5, <2>6 DEF Progress, On, Button
  <2>8. Works(r, t) BY <1>4, <1>5 DEF Works
  <2>9. QED BY <2>2, <2>7, <2>8 DEF TaskMove
<1>14. spoiled \subseteq spoiled' BY <1>7
<1>15. \A u \in Task \ spoiled' : Quiet(p, r, u) \/ TaskMove(p, r, u) BY <1>12, <1>13
<1>16. QED BY <1>3, <1>4, <1>6, <1>8, <1>9, <1>10, <1>11, <1>14, <1>15, Step DEF LockMove

\* Who has the lock of a task and is at work on it.
LEMMA AtWork ==
  ASSUME DevIInv, NEW p \in Proc, NEW t \in proc[p].task, proc[p].pc \in {"kube", "wait", "sync"}
  PROVE  /\ t \in Task /\ proc[p].task = {t} /\ Works(proc[p], t)
         /\ \A u \in Task : u # t => ~Works(proc[p], u) /\ ~Claims(proc[p], u)
         /\ proc[p].kind \in Button \cup {"bulk"} =>
              Claims(proc[p], t) /\ Head(lockq[t]) = p /\ lockq[t] # <<>>
         /\ t \notin spoiled => TaskOK(t) /\ Progress(proc[p], t)
<1>1. proc[p] \in ProcRow BY DEF DevIInv
<1>2. t \in Task BY <1>1 DEF ProcRow
<1>3. Works(proc[p], t) BY DEF Works
<1>4. proc[p].task = {t} BY <1>2, <1>3, Workers
<1>5. \A u \in Task : u # t => ~Works(proc[p], u) /\ ~Claims(proc[p], u)
  BY <1>4 DEF Works, Claims
<1>6. proc[p].kind \in Button \cup {"bulk"} =>
        Claims(proc[p], t) /\ Head(lockq[t]) = p /\ lockq[t] # <<>>
  BY <1>2, <1>3, Workers DEF Button
<1>7. t \notin spoiled => TaskOK(t) /\ Progress(proc[p], t) BY <1>2, <1>3 DEF DevIInv, TaskOK
<1>8. QED BY <1>2, <1>3, <1>4, <1>5, <1>6, <1>7

\* What was taken down is out of the table before its sync is queued.
LEMMA TakeDownOK ==
  ASSUME DevIInv, NEW p \in Proc, TakeDown(p)
  PROVE  DevIInv'
<1>1. PICK t \in proc[p].task :
        /\ At(p, {"stop", "delete", "bulk"}, "kube")
        /\ \/ /\ env' = [env EXCEPT ![t] = Downed(proc[p].kind, @)]
              /\ UNCHANGED <<bounds, spoiled>>
           \/ Mishap /\ Spoils(t, TRUE) /\ UNCHANGED env
        /\ table' = table \ {t}
        /\ IF proc[p].kind = "bulk"
           THEN /\ Recorded(t, "deleted") /\ Released(t)
                /\ proc' = [proc EXCEPT ![p].pc = "next", ![p].ok = TRUE]
                /\ UNCHANGED chain
           ELSE /\ chain' = Append(chain, p) /\ Go(p, "sync")
                /\ UNCHANGED <<dev, lockq>>
        /\ UNCHANGED <<config, gateway, writer, drift>>
  BY DEF TakeDown
<1>2. /\ proc[p].kind \in {"stop", "delete", "bulk"} /\ proc[p].pc = "kube"
      /\ proc[p] \in ProcRow /\ proc \in [Proc -> ProcRow] /\ StateTypes
  BY <1>1 DEF At, DevIInv
<1>3. /\ t \in Task /\ proc[p].task = {t} /\ Works(proc[p], t)
      /\ \A u \in Task : u # t => ~Works(proc[p], u) /\ ~Claims(proc[p], u)
      /\ Claims(proc[p], t) /\ Head(lockq[t]) = p /\ lockq[t] # <<>>
      /\ t \notin spoiled => TaskOK(t) /\ Progress(proc[p], t)
  BY <1>2, AtWork DEF Button
<1>4. /\ spoiled \subseteq spoiled' /\ spoiled' \subseteq Task
      /\ t \notin spoiled' => env'[t] = Downed(proc[p].kind, env[t]) /\ t \notin spoiled
      /\ \A u \in Task : u # t => env'[u] = env[u]
      /\ env' \in [Task -> {"none", "bare", "app", "going"}]
  <2>1. Downed(proc[p].kind, env[t]) \in {"none", "bare", "app", "going"}
    BY <1>2, <1>3 DEF Downed, StateTypes
  <2>2. CASE /\ env' = [env EXCEPT ![t] = Downed(proc[p].kind, @)]
             /\ UNCHANGED <<bounds, spoiled>>
    BY <1>2, <1>3, <2>1, <2>2 DEF StateTypes
  <2>3. CASE Mishap /\ Spoils(t, TRUE) /\ UNCHANGED env
    BY <1>2, <1>3, <2>3 DEF StateTypes, Spoils
  <2>4. QED BY <1>1, <2>2, <2>3
<1>5. CASE proc[p].kind = "bulk"
  <2> PICK r : r = [proc[p] EXCEPT !.pc = "next", !.ok = TRUE] OBVIOUS
  <2>1. r \in ProcRow /\ r.pc = "next" /\ r.kind = "bulk" /\ r.ok
    BY <1>2, <1>5 DEF ProcRow, Pc
  <2>2. Takes(p, r) BY <1>1, <1>2, <1>5 DEF Takes
  <2>3. Shape(r) BY <2>1 DEF Shape
  <2>4. \A u \in Task : ~Works(r, u) /\ ~Claims(r, u) BY <2>1 DEF Works, Claims, Button
  <2>5. Leaves(p, r, t) BY <1>1, <1>3, <1>5, <2>4 DEF Leaves, Released
  <2>6. StateTypes'
    <3>0. Tail(lockq[t]) \in Seq(Proc) BY <1>2, <1>3, TailFacts DEF StateTypes
    <3>1. lockq' \in [Task -> Seq(Proc)] BY <1>1, <1>2, <1>5, <3>0 DEF StateTypes, Released
    <3>2. QED BY <1>1, <1>2, <1>4, <1>5, <3>1 DEF StateTypes, Recorded
  <2>7. ChainMove(p, r) BY <1>1, <1>2, <1>5 DEF ChainMove
  <2>8. RoutesOK'
    <3>1. proc'[p] = r BY <1>2, <2>2 DEF Takes
    <3>2. Pending' BY <2>1, <3>1 DEF Pending, Owes
    <3>3. QED BY <1>1, <1>5, <3>2 DEF DevIInv, RoutesOK
  <2>9. ASSUME NEW u \in Task, u # t PROVE Quiet(p, r, u)
    BY <1>1, <1>2, <1>3, <1>4, <1>5, <2>4, <2>9 DEF Quiet, SameTask, Recorded, StateTypes
  <2>10. ASSUME t \notin spoiled' PROVE TaskMove(p, r, t)
    <3>1. dev[t] \in {"active", "stopped"} /\ Settled(t)
      BY <1>2, <1>3, <1>4, <1>5, <2>10 DEF Progress, On
    <3>2. env[t] \in {"app", "bare"} BY <3>1 DEF Settled
    <3>3. env'[t] = "going" BY <1>4, <1>5, <2>10, <3>2 DEF Downed
    <3>4. dev'[t] = "deleted" BY <1>1, <1>2, <1>3, <1>5, <3>1 DEF Recorded, StateTypes
    <3>5. Settled(t)' BY <1>1, <3>3, <3>4 DEF Settled
    <3>6. QED BY <1>3, <2>4, <3>5 DEF TaskMove
  <2>11. \A u \in Task \ spoiled' : Quiet(p, r, u) \/ TaskMove(p, r, u) BY <2>9, <2>10
  <2>12. QED BY <1>3, <1>4, <2>1, <2>2, <2>3, <2>5, <2>6, <2>7, <2>8, <2>11, Step DEF LockMove
<1>6. CASE proc[p].kind # "bulk"
  <2> PICK r : r = [proc[p] EXCEPT !.pc = "sync"] OBVIOUS
  <2>1. r \in ProcRow /\ r.pc = "sync" /\ r.kind = proc[p].kind /\ r.task = {t}
    BY <1>2, <1>3, GoRow DEF Pc
  <2>2. Takes(p, r) BY <1>1, <1>2, <1>6 DEF Takes, Go
  <2>3. Shape(r) BY <1>2, <1>3, <1>6, <2>1 DEF Shape, One
  <2>4. Stays(p, r) BY <1>1, <1>2, <1>3, <1>6, <2>1 DEF Stays, Claims, Button
  <2>5. StateTypes'
    <3>1. Append(chain, p) \in Seq(Proc) BY <1>2, AppendFacts DEF StateTypes
    <3>2. QED BY <1>1, <1>2, <1>4, <1>6, <3>1 DEF StateTypes
  <2>6. ChainMove(p, r) BY <1>1, <1>2, <1>6, <2>1 DEF ChainMove
  <2>7. RoutesOK' BY <1>1, <1>6, RoutesAppended
  <2>8. ASSUME NEW u \in Task, u # t PROVE Quiet(p, r, u)
    BY <1>1, <1>2, <1>3, <1>4, <1>6, <2>1, <2>8 DEF Quiet, SameTask, Works
  <2>9. ASSUME t \notin spoiled' PROVE TaskMove(p, r, t)
    <3>1. /\ proc[p].kind = "stop" => dev[t] = "active"
          /\ proc[p].kind = "delete" => dev[t] \in {"active", "stopped"}
          /\ Settled(t)
      BY <1>2, <1>3, <1>4, <1>6, <2>9 DEF Progress, On
    <3>2. /\ proc[p].kind = "stop" => env'[t] = "bare"
          /\ proc[p].kind = "delete" => env'[t] \in {"going", "none"}
      BY <1>2, <1>4, <1>6, <2>9, <3>1 DEF Settled, Downed
    <3>3. t \notin table' /\ dev'[t] # "gone" BY <1>1, <1>2, <1>6, <3>1
    <3>4. Progress(r, t)' BY <1>2, <1>6, <2>1, <3>2, <3>3 DEF Progress, On
    <3>5. Works(r, t) BY <2>1 DEF Works
    <3>6. QED BY <1>3, <3>4, <3>5 DEF TaskMove
  <2>10. \A u \in Task \ spoiled' : Quiet(p, r, u) \/ TaskMove(p, r, u) BY <2>8, <2>9
  <2>11. QED BY <1>4, <2>1, <2>2, <2>3, <2>4, <2>5, <2>6, <2>7, <2>10, Step DEF LockMove
<1>7. QED BY <1>5, <1>6

\* The bulk deletion takes the next lock, or queues its one sync.
LEMMA NextOfManyOK ==
  ASSUME DevIInv, NEW p \in Proc, NextOfMany(p)
  PROVE  DevIInv'
<1>1. /\ proc[p].kind = "bulk" /\ proc[p].pc = "next" /\ proc[p] \in ProcRow
      /\ proc \in [Proc -> ProcRow] /\ StateTypes
      /\ UNCHANGED <<dev, table, config, gateway, writer, drift, env, bounds, spoiled>>
  BY DEF NextOfMany, At, DevIInv
<1>2. \A u \in Task : ~Works(proc[p], u) /\ ~Claims(proc[p], u) BY <1>1 DEF Works, Claims, Button
<1>3. ASSUME NEW t \in proc[p].todo,
             proc' = [proc EXCEPT ![p].pc = "lock", ![p].task = {t}, ![p].todo = @ \ {t}],
             lockq' = [lockq EXCEPT ![t] = Append(@, p)], UNCHANGED chain
      PROVE  DevIInv'
  <2> PICK r : r = [proc[p] EXCEPT !.pc = "lock", !.task = {t}, !.todo = proc[p].todo \ {t}]
    OBVIOUS
  <2>1. t \in Task BY <1>1 DEF ProcRow
  <2>2. r \in ProcRow /\ r.pc = "lock" /\ r.kind = "bulk" /\ r.task = {t} /\ r.ok = proc[p].ok
    BY <1>1, <2>1 DEF ProcRow, Pc
  <2>3. Takes(p, r) BY <1>1, <1>3 DEF Takes
  <2>4. Shape(r) BY <2>1, <2>2 DEF Shape, One
  <2>5. Joins(p, r, t) BY <1>2, <1>3, <2>2 DEF Joins, Claims
  <2>6. StateTypes' BY <1>1, <1>3, <2>1, AppendFacts DEF StateTypes
  <2>7. ChainMove(p, r) BY <1>1, <1>3 DEF ChainMove
  <2>8. RoutesOK'
    <3>1. Owes(proc[p]) => Owes(r) BY <1>1, <2>2 DEF Owes
    <3>2. UNCHANGED gate BY <1>1, <1>3 DEF gate
    <3>3. QED BY <2>2, <2>3, <3>1, <3>2, RoutesQuiet
  <2>9. \A u \in Task : Quiet(p, r, u) BY <1>1, <1>2, <2>2 DEF Quiet, SameTask, Works
  <2>10. spoiled \subseteq spoiled' BY <1>1
  <2>11. QED BY <2>1, <2>2, <2>3, <2>4, <2>5, <2>6, <2>7, <2>8, <2>9, <2>10, Step DEF LockMove
<1>4. ASSUME proc[p].ok, UNCHANGED lockq, chain' = Append(chain, p),
             proc' = [proc EXCEPT ![p].pc = "sync", ![p].task = {}]
      PROVE  DevIInv'
  <2> PICK r : r = [proc[p] EXCEPT !.pc = "sync", !.task = {}] OBVIOUS
  <2>1. r \in ProcRow /\ r.pc = "sync" /\ r.kind = "bulk" /\ r.task = {} BY <1>1 DEF ProcRow, Pc
  <2>2. Takes(p, r) BY <1>1, <1>4 DEF Takes
  <2>3. Shape(r) BY <2>1 DEF Shape
  <2>4. \A u \in Task : ~Works(r, u) /\ ~Claims(r, u) BY <2>1 DEF Works, Claims
  <2>5. Stays(p, r) BY <1>2, <1>4, <2>4 DEF Stays
  <2>6. StateTypes' BY <1>1, <1>4, AppendFacts DEF StateTypes
  <2>7. ChainMove(p, r) BY <1>1, <1>4, <2>1 DEF ChainMove
  <2>8. RoutesOK' BY <1>1, <1>4, RoutesAppended
  <2>9. \A u \in Task : Quiet(p, r, u) BY <1>1, <1>2, <2>4 DEF Quiet, SameTask
  <2>10. spoiled \subseteq spoiled' BY <1>1
  <2>11. QED BY <2>1, <2>2, <2>3, <2>5, <2>6, <2>7, <2>8, <2>9, <2>10, Step DEF LockMove
<1>5. ASSUME ~proc[p].ok, UNCHANGED <<lockq, chain>>, Ends(p)
      PROVE  DevIInv'
  <2>1. Takes(p, Idle) BY <1>5 DEF Takes, Ends
  <2>2. Stays(p, Idle) BY <1>2, <1>5, IdleFacts DEF Stays
  <2>3. StateTypes' BY <1>1, <1>5 DEF StateTypes
  <2>4. ChainMove(p, Idle) BY <1>1, <1>5 DEF ChainMove
  <2>5. RoutesOK'
    <3>1. ~Owes(proc[p]) /\ UNCHANGED gate BY <1>1, <1>5 DEF Owes, gate
    <3>2. QED BY <2>1, <3>1, IdleRow, RoutesQuiet
  <2>6. \A u \in Task : Quiet(p, Idle, u) BY <1>1, <1>2, IdleFacts DEF Quiet, SameTask
  <2>7. spoiled \subseteq spoiled' BY <1>1
  <2>8. QED BY <2>1, <2>2, <2>3, <2>4, <2>5, <2>6, <2>7, IdleRow, Step DEF LockMove
<1>6. QED BY <1>3, <1>4, <1>5 DEF NextOfMany

-----------------------------------------------------------------------------
(* Deployments *)

\* Nobody is at work on a task that a run or a teardown did not meet.
LEMMA Alone ==
  ASSUME DevIInv, NEW t \in Task, NEW kinds, ~Meets(t, kinds),
         Button \cup {"bulk"} \subseteq kinds,
         Mutable(t) \/ "run" \in kinds,
         "teardown" \in kinds \/ ~Meets(t, {"teardown"}),
         t \notin spoiled
  PROVE  (\A q \in Proc : ~Works(proc[q], t)) /\ Settled(t)
<1>1. ASSUME NEW q \in Proc, Works(proc[q], t) PROVE FALSE
  <2>1. proc[q].pc # "lock" /\ t \in proc[q].task BY <1>1 DEF Works
  <2>2. proc[q].kind \notin kinds BY <2>1 DEF Meets
  <2>3. proc[q].kind \notin Button \cup {"bulk"} BY <2>2
  <2>4. proc[q].kind # "teardown" BY <2>1, <2>2 DEF Meets
  <2>5. proc[q].kind # "run" \/ proc[q].task # {t} BY <2>2 DEF Mutable
  <2>6. QED BY <1>1, <2>3, <2>4, <2>5, Workers
<1>2. QED BY <1>1 DEF DevIInv, TaskOK

\* A run begins alone on its task, or spoils it.
LEMMA BeginRunOK ==
  ASSUME DevIInv, NEW p \in Proc, BeginRun(p)
  PROVE  DevIInv'
<1>1. PICK t \in Task :
        /\ dev[t] # "gone" /\ Mutable(t)
        /\ Begins(p, [Idle EXCEPT !.kind = "run", !.task = {t}, !.pc = "kube"])
        /\ dev' = IF dev[t] = "none" THEN [dev EXCEPT ![t] = "stopped"] ELSE dev
        /\ Spoils(t, Meets(t, Button \cup {"bulk", "teardown"}))
        /\ UNCHANGED <<gate, env, lockq>>
  BY DEF BeginRun
<1> PICK r : r = [Idle EXCEPT !.kind = "run", !.task = {t}, !.pc = "kube"] OBVIOUS
<1>2. r \in ProcRow /\ r.pc = "kube" /\ r.kind = "run" /\ r.task = {t}
  BY IdleRow DEF ProcRow, Kind, Pc
<1>3. Takes(p, r) /\ proc[p] = Idle BY <1>1 DEF Begins, Takes
<1>4. Shape(r) BY <1>2 DEF Shape, One
<1>5. spoiled' = IF Meets(t, Button \cup {"bulk", "teardown"}) THEN spoiled \cup {t} ELSE spoiled
  BY <1>1 DEF Spoils
<1>6. StateTypes' BY <1>1, <1>5 DEF DevIInv, StateTypes, gate
<1>7. Stays(p, r) BY <1>1, <1>2, <1>3, IdleFacts DEF Stays, Claims, Button
<1>8. ChainMove(p, r) BY <1>1, <1>3, IdleRow DEF ChainMove, gate
<1>9. RoutesOK' BY <1>1, <1>2, <1>3, IdleFacts, RoutesQuiet
<1>10. ASSUME NEW u \in Task, u # t PROVE Quiet(p, r, u)
  BY <1>1, <1>2, <1>3, <1>10, IdleFacts DEF Quiet, SameTask, Works, gate, DevIInv, StateTypes
<1>11. ASSUME t \notin spoiled' PROVE TaskMove(p, r, t)
  <2>1. \A q \in Proc : ~Works(proc[q], t)
    <3>1. ~Meets(t, Button \cup {"bulk", "teardown"}) /\ t \notin spoiled BY <1>5, <1>11
    <3>2. QED BY <1>1, <3>1, Alone
  <2>2. dev'[t] # "gone" BY <1>1 DEF DevIInv, StateTypes
  <2>3. Progress(r, t)' BY <1>2, <2>2 DEF Progress, On
  <2>4. Works(r, t) BY <1>2 DEF Works
  <2>5. QED BY <2>1, <2>3, <2>4 DEF TaskMove
<1>12. spoiled \subseteq spoiled' BY <1>5
<1>13. \A u \in Task \ spoiled' : Quiet(p, r, u) \/ TaskMove(p, r, u) BY <1>10, <1>11
<1>14. QED BY <1>2, <1>3, <1>4, <1>6, <1>7, <1>8, <1>9, <1>12, <1>13, Step DEF LockMove

\* A deployment puts the app there and waits for it.
LEMMA DeployOK ==
  ASSUME DevIInv, NEW p \in Proc, Deploy(p)
  PROVE  DevIInv'
<1>1. PICK t \in proc[p].task :
        /\ At(p, {"start", "run"}, "kube") /\ env[t] # "going"
        /\ env' = [env EXCEPT ![t] = "app"]
        /\ Go(p, "wait")
        /\ UNCHANGED <<dev, gate, lockq, bounds, spoiled>>
  BY DEF Deploy
<1>2. /\ proc[p].kind \in {"start", "run"} /\ proc[p].pc = "kube"
      /\ proc[p] \in ProcRow /\ proc \in [Proc -> ProcRow] /\ StateTypes
  BY <1>1 DEF At, DevIInv
<1>3. /\ t \in Task /\ proc[p].task = {t} /\ Works(proc[p], t)
      /\ \A u \in Task : u # t => ~Works(proc[p], u)
      /\ t \notin spoiled => Progress(proc[p], t)
  BY <1>2, AtWork
<1> PICK r : r = [proc[p] EXCEPT !.pc = "wait"] OBVIOUS
<1>4. r \in ProcRow /\ r.pc = "wait" /\ r.kind = proc[p].kind /\ r.task = {t}
  BY <1>2, <1>3, GoRow DEF Pc
<1>5. Takes(p, r) BY <1>1, <1>2 DEF Takes, Go
<1>6. Shape(r) BY <1>2, <1>3, <1>4 DEF Shape, One
<1>7. StateTypes' BY <1>1, <1>2 DEF StateTypes, gate
<1>8. Stays(p, r) BY <1>1, <1>2, <1>3, <1>4 DEF Stays, Claims, Button
<1>9. ChainMove(p, r) BY <1>1, <1>2 DEF ChainMove, gate
<1>10. RoutesOK'
  <2>1. ~Owes(proc[p]) BY <1>2 DEF Owes
  <2>2. QED BY <1>1, <1>4, <1>5, <2>1, RoutesQuiet
<1>11. ASSUME NEW u \in Task, u # t PROVE Quiet(p, r, u)
  BY <1>1, <1>2, <1>3, <1>4, <1>11 DEF Quiet, SameTask, Works, gate, StateTypes
<1>12. ASSUME t \notin spoiled' PROVE TaskMove(p, r, t)
  <2>1. dev'[t] # "gone" BY <1>1, <1>2, <1>3, <1>12 DEF Progress, On
  <2>2. env'[t] = "app" BY <1>1, <1>2, <1>3 DEF StateTypes
  <2>3. Progress(r, t)' BY <1>2, <1>4, <2>1, <2>2 DEF Progress, On
  <2>4. Works(r, t) BY <1>4 DEF Works
  <2>5. QED BY <1>3, <2>3, <2>4 DEF TaskMove
<1>13. spoiled \subseteq spoiled' BY <1>1
<1>14. \A u \in Task \ spoiled' : Quiet(p, r, u) \/ TaskMove(p, r, u) BY <1>11, <1>12
<1>15. QED BY <1>4, <1>5, <1>6, <1>7, <1>8, <1>9, <1>10, <1>13, <1>14, Step DEF LockMove

\* A failed deployment spoils its task and keeps no lock.
LEMMA DeployFailsOK ==
  ASSUME DevIInv, NEW p \in Proc, DeployFails(p)
  PROVE  DevIInv'
<1>1. PICK t \in proc[p].task :
        /\ At(p, {"start", "run"}, "kube")
        /\ \/ env[t] = "going" /\ UNCHANGED <<bounds, env>>
           \/ /\ env[t] # "going" /\ Mishap
              /\ env' = [env EXCEPT ![t] = IF @ = "none" THEN "bare" ELSE @]
        /\ Spoils(t, TRUE) /\ Ends(p)
        /\ IF proc[p].kind = "start" THEN Released(t) ELSE UNCHANGED lockq
        /\ UNCHANGED <<dev, gate>>
  BY DEF DeployFails
<1>2. /\ proc[p].kind \in {"start", "run"} /\ proc[p].pc = "kube"
      /\ proc \in [Proc -> ProcRow] /\ StateTypes
  BY <1>1 DEF At, DevIInv
<1>3. /\ t \in Task /\ proc[p].task = {t}
      /\ \A u \in Task : u # t => ~Works(proc[p], u)
      /\ proc[p].kind = "start" =>
           Claims(proc[p], t) /\ Head(lockq[t]) = p /\ lockq[t] # <<>>
  BY <1>2, AtWork DEF Button
<1>4. Takes(p, Idle) BY <1>1 DEF Takes, Ends
<1>5. spoiled' = spoiled \cup {t} BY <1>1 DEF Spoils
<1>6. /\ env' \in [Task -> {"none", "bare", "app", "going"}]
      /\ \A u \in Task : u # t => env'[u] = env[u]
  BY <1>1, <1>2, <1>3 DEF StateTypes
<1>7. LockMove(p, Idle) /\ lockq' \in [Task -> Seq(Proc)]
  <2>1. CASE proc[p].kind = "start"
    <3>1. Leaves(p, Idle, t) BY <1>1, <1>3, <2>1, IdleFacts DEF Leaves, Released
    <3>2. Tail(lockq[t]) \in Seq(Proc) BY <1>2, <1>3, <2>1, TailFacts DEF StateTypes
    <3>3. lockq' \in [Task -> Seq(Proc)] BY <1>1, <1>2, <2>1, <3>2 DEF StateTypes, Released
    <3>4. QED BY <1>3, <3>1, <3>3 DEF LockMove
  <2>2. CASE proc[p].kind = "run"
    <3>1. Stays(p, Idle) BY <1>1, <2>2, IdleFacts DEF Stays, Claims, Button
    <3>2. QED BY <1>1, <1>2, <2>2, <3>1 DEF LockMove, StateTypes
  <2>3. QED BY <1>2, <2>1, <2>2
<1>8. StateTypes' BY <1>1, <1>2, <1>3, <1>5, <1>6, <1>7 DEF StateTypes, gate
<1>9. ChainMove(p, Idle) BY <1>1, <1>2 DEF ChainMove, gate
<1>10. RoutesOK'
  <2>1. ~Owes(proc[p]) BY <1>2 DEF Owes
  <2>2. QED BY <1>1, <1>4, <2>1, IdleRow, RoutesQuiet
<1>11. \A u \in Task \ spoiled' : Quiet(p, Idle, u)
  BY <1>1, <1>3, <1>5, <1>6, IdleFacts DEF Quiet, SameTask, gate
<1>12. spoiled \subseteq spoiled' BY <1>5
<1>13. QED BY <1>4, <1>7, <1>8, <1>9, <1>10, <1>11, <1>12, IdleRow, Step

\* A preview that is up enters the table before its sync is queued.
LEMMA PublishOK ==
  ASSUME DevIInv, NEW p \in Proc, Publish(p)
  PROVE  DevIInv'
<1>1. PICK t \in proc[p].task :
        /\ At(p, {"start", "run"}, "wait")
        /\ table' = table \cup {t}
        /\ chain' = Append(chain, p) /\ Go(p, "sync")
        /\ UNCHANGED <<dev, config, gateway, writer, drift, env, lockq, bounds, spoiled>>
  BY DEF Publish
<1>2. /\ proc[p].kind \in {"start", "run"} /\ proc[p].pc = "wait"
      /\ proc[p] \in ProcRow /\ proc \in [Proc -> ProcRow] /\ StateTypes
  BY <1>1 DEF At, DevIInv
<1>3. /\ t \in Task /\ proc[p].task = {t} /\ Works(proc[p], t)
      /\ \A u \in Task : u # t => ~Works(proc[p], u)
      /\ t \notin spoiled => Progress(proc[p], t)
  BY <1>2, AtWork
<1> PICK r : r = [proc[p] EXCEPT !.pc = "sync"] OBVIOUS
<1>4. r \in ProcRow /\ r.pc = "sync" /\ r.kind = proc[p].kind /\ r.task = {t}
  BY <1>2, <1>3, GoRow DEF Pc
<1>5. Takes(p, r) BY <1>1, <1>2 DEF Takes, Go
<1>6. Shape(r) BY <1>2, <1>3, <1>4 DEF Shape, One
<1>7. StateTypes'
  <2>1. Append(chain, p) \in Seq(Proc) BY <1>2, AppendFacts DEF StateTypes
  <2>2. QED BY <1>1, <1>2, <1>3, <2>1 DEF StateTypes
<1>8. Stays(p, r) BY <1>1, <1>2, <1>3, <1>4 DEF Stays, Claims, Button
<1>9. ChainMove(p, r) BY <1>1, <1>2, <1>4 DEF ChainMove
<1>10. RoutesOK' BY <1>1, RoutesAppended
<1>11. ASSUME NEW u \in Task, u # t PROVE Quiet(p, r, u)
  BY <1>1, <1>3, <1>4, <1>11 DEF Quiet, SameTask, Works
<1>12. ASSUME t \notin spoiled' PROVE TaskMove(p, r, t)
  <2>1. dev'[t] # "gone" /\ env'[t] = "app" BY <1>1, <1>2, <1>3, <1>12 DEF Progress, On
  <2>2. t \in table' BY <1>1
  <2>3. Progress(r, t)' BY <1>2, <1>4, <2>1, <2>2 DEF Progress, On
  <2>4. Works(r, t) BY <1>4 DEF Works
  <2>5. QED BY <1>3, <2>3, <2>4 DEF TaskMove
<1>13. spoiled \subseteq spoiled' BY <1>1
<1>14. \A u \in Task \ spoiled' : Quiet(p, r, u) \/ TaskMove(p, r, u) BY <1>11, <1>12
<1>15. QED BY <1>4, <1>5, <1>6, <1>7, <1>8, <1>9, <1>10, <1>13, <1>14, Step DEF LockMove

-----------------------------------------------------------------------------
(* The syncs *)

\* A step that only reads or writes the gateway's map.
LEMMA GateStep ==
  ASSUME DevIInv, UNCHANGED <<dev, table, env, proc, lockq, chain, spoiled>>,
         StateTypes', RoutesOK'
  PROVE  DevIInv'
<1>1. \A t \in Task : LockOK(t)' <=> LockOK(t) BY DEF LockOK
<1>2. ChainOK' BY DEF DevIInv, ChainOK
<1>3. \A t \in Task : Settled(t)' <=> Settled(t) BY DEF Settled
<1>4. \A t \in Task, p \in Proc : Progress(proc[p], t)' <=> Progress(proc[p], t)
  BY <1>3 DEF Progress, On
<1>5. \A t \in Task : TaskOK(t)' <=> TaskOK(t) BY <1>3, <1>4 DEF TaskOK
<1>6. QED BY <1>1, <1>2, <1>5 DEF DevIInv

\* A sync compares what is configured with its snapshot.
LEMMA SyncReadsOK ==
  ASSUME DevIInv, NEW w \in Writer, SyncReads(w)
  PROVE  DevIInv'
<1>1. /\ writer[w].pc = "read" /\ writer \in [Writer -> WriterRow] /\ StateTypes /\ RoutesOK
      /\ writer' = [writer EXCEPT ![w].pc = IF config = writer[w].snap THEN "same" ELSE "write",
                                  ![w].fresh = TRUE]
      /\ UNCHANGED <<dev, table, config, gateway, chain, drift, env, proc, lockq, bounds, spoiled>>
  BY DEF SyncReads, DevIInv, StateTypes
<1>2. /\ writer' \in [Writer -> WriterRow]
      /\ writer'[w].fresh /\ writer'[w].snap = writer[w].snap
      /\ writer'[w].pc = IF config = writer[w].snap THEN "same" ELSE "write"
      /\ \A v \in Writer : v # w => writer'[v] = writer[v]
  BY <1>1 DEF WriterRow
<1>3. StateTypes' BY <1>1, <1>2 DEF StateTypes
<1>4. Pending' <=> Pending BY <1>1 DEF Pending
<1>5. RoutesOK'
  <2>1. CASE w = Chain BY <1>1, <1>2, <1>4, <2>1 DEF RoutesOK
  <2>2. CASE w # Chain
    <3>1. writer'[Chain] = writer[Chain] BY <1>2, <2>2, ProcFacts
    <3>2. QED BY <1>1, <1>4, <3>1 DEF RoutesOK
  <2>3. QED BY <2>1, <2>2
<1>6. QED BY <1>1, <1>3, <1>5, GateStep

\* A sync writes its snapshot, and nobody else's routes stay.
LEMMA SyncWritesOK ==
  ASSUME DevIInv, NEW w \in Writer, SyncWrites(w)
  PROVE  DevIInv'
<1>1. /\ writer[w].pc = "write" /\ writer[w].fresh /\ writer \in [Writer -> WriterRow]
      /\ StateTypes /\ RoutesOK
      /\ config' = writer[w].snap
      /\ writer' = [v \in Writer |-> IF v = w THEN [writer[v] EXCEPT !.pc = "reload"]
                                              ELSE [writer[v] EXCEPT !.fresh = FALSE]]
      /\ drift' = drift \cup {"gateway"} \cup (IF w = Chain THEN {} ELSE {"config"})
      /\ UNCHANGED <<dev, table, gateway, chain, env, proc, lockq, bounds, spoiled>>
  BY DEF SyncWrites, DevIInv, StateTypes
<1>2. /\ writer' \in [Writer -> WriterRow] /\ config' \subseteq Task
      /\ writer'[w].fresh = writer[w].fresh /\ writer'[w].snap = writer[w].snap
      /\ writer'[w].pc = "reload"
      /\ \A v \in Writer : v # w => ~writer'[v].fresh /\ writer'[v].pc = writer[v].pc
  BY <1>1 DEF WriterRow
<1>3. StateTypes' BY <1>1, <1>2 DEF StateTypes
<1>4. Pending' <=> Pending BY <1>1 DEF Pending
<1>5. RoutesOK'
  <2>1. CASE w = Chain BY <1>1, <1>2, <1>4, <2>1 DEF RoutesOK
  <2>2. CASE w # Chain
    <3>1. ~writer'[Chain].fresh /\ writer'[Chain].pc = writer[Chain].pc BY <1>2, <2>2, ProcFacts
    <3>2. "config" \in drift' /\ "gateway" \in drift' BY <1>1, <2>2
    <3>3. QED BY <1>1, <3>1, <3>2 DEF RoutesOK
  <2>3. QED BY <2>1, <2>2
<1>6. QED BY <1>1, <1>3, <1>5, GateStep

\* A writer that rests.
LEMMA NoSyncRow == NoSync \in WriterRow /\ NoSync.pc = "idle" BY DEF NoSync, WriterRow

\* The chain's next sync takes the table as it is now.
LEMMA ChainStartsOK == DevIInv /\ ChainStarts => DevIInv'
<1> SUFFICES ASSUME DevIInv, ChainStarts PROVE DevIInv' OBVIOUS
<1> PICK s : s = [NoSync EXCEPT !.pc = "read", !.snap = table] OBVIOUS
<1>1. /\ chain # <<>> /\ writer[Chain].pc = "idle" /\ writer \in [Writer -> WriterRow]
      /\ StateTypes /\ RoutesOK
      /\ writer' = [writer EXCEPT ![Chain] = s]
      /\ UNCHANGED <<dev, table, config, gateway, chain, drift, env, proc, lockq, bounds, spoiled>>
  BY DEF ChainStarts, DevIInv, StateTypes
<1>2. s \in WriterRow /\ s.pc = "read" /\ s.snap = table
  BY <1>1 DEF WriterRow, NoSync, StateTypes
<1>3. writer' \in [Writer -> WriterRow] /\ writer'[Chain] = s BY <1>1, <1>2, ProcFacts
<1>4. StateTypes' BY <1>1, <1>3 DEF StateTypes
<1>5. Pending' <=> Pending BY <1>1 DEF Pending
<1>6. RoutesOK' BY <1>1, <1>2, <1>3, <1>5 DEF RoutesOK
<1>7. QED BY <1>1, <1>4, <1>6, GateStep

\* However a sync ends, its writer is free again.
LEMMA SyncEnds ==
  ASSUME DevIInv, NEW w \in Writer, SyncSucceeds(w) \/ SyncFails(w)
  PROVE  /\ writer' = [writer EXCEPT ![w] = NoSync] /\ writer' \in [Writer -> WriterRow]
         /\ writer[w].pc # "idle" /\ UNCHANGED <<table, config>>
         /\ gateway' \subseteq Task /\ drift' \subseteq {"config", "gateway"}
         /\ gateway' = gateway \/ gateway' = config
         /\ "gateway" \notin drift' => gateway' = config
         /\ "config" \notin drift' =>
              \/ "config" \notin drift /\ (w = Chain => writer[w].pc \in {"same", "reload"})
              \/ /\ w = Chain /\ writer[w].pc \in {"same", "reload"}
                 /\ writer[w].fresh /\ writer[w].snap = table
<1>1. StateTypes /\ RoutesOK BY DEF DevIInv
<1>2. writer' = [writer EXCEPT ![w] = NoSync] BY DEF SyncSucceeds, SyncFails
<1>3. writer' \in [Writer -> WriterRow] BY <1>1, <1>2, NoSyncRow DEF StateTypes
<1>4. CASE SyncSucceeds(w) BY <1>1, <1>2, <1>3, <1>4 DEF SyncSucceeds, StateTypes, RoutesOK
<1>5. CASE SyncFails(w) BY <1>1, <1>2, <1>3, <1>5 DEF SyncFails, StateTypes, RoutesOK
<1>6. QED BY <1>4, <1>5

\* The end of the chain's sync.
LEMMA ChainRoutes ==
  ASSUME DevIInv, chain # <<>>, chain' = Tail(chain), NEW p \in Proc, p = Head(chain),
         Takes(p, Idle), SyncSucceeds(Chain) \/ SyncFails(Chain)
  PROVE  RoutesOK'
<1>1. /\ chain \in Seq(Proc) /\ RoutesOK /\ ChainOK /\ proc \in [Proc -> ProcRow]
      /\ writer \in [Writer -> WriterRow]
  BY DEF DevIInv, StateTypes
<1>2. /\ Len(chain) \in Nat \ {0} /\ chain' \in Seq(Proc) /\ Len(chain') = Len(chain) - 1
      /\ p = chain[1] /\ 1 \in DOMAIN chain
  BY <1>1, TailFacts
<1>3. ~Owes(proc[p]) BY <1>1, <1>2 DEF ChainOK, Owes
<1>4. Pending => Pending' BY <1>1, <1>3 DEF Pending, Takes
<1>5. /\ writer' = [writer EXCEPT ![Chain] = NoSync]
      /\ writer[Chain].pc # "idle" /\ UNCHANGED <<table, config>>
      /\ "gateway" \notin drift' => gateway' = config
      /\ "config" \notin drift' =>
           \/ "config" \notin drift /\ writer[Chain].pc \in {"same", "reload"}
           \/ /\ writer[Chain].pc \in {"same", "reload"}
              /\ writer[Chain].fresh /\ writer[Chain].snap = table
  BY SyncEnds, ProcFacts
<1>6. writer'[Chain].pc = "idle" BY <1>1, <1>5, NoSyncRow, ProcFacts
<1>7. CASE "config" \in drift' BY <1>5, <1>6, <1>7 DEF RoutesOK
<1>8. CASE "config" \notin drift'
  <2>1. config = writer[Chain].snap BY <1>1, <1>5, <1>8 DEF RoutesOK
  <2>2. Len(chain) > 1 \/ Pending \/ (Len(chain) = 1 /\ writer[Chain].snap = table)
    <3>1. CASE "config" \notin drift
      <4>1. \/ Len(chain) > 1 \/ Pending
            \/ chain = <<>> /\ config = table
            \/ Len(chain) = 1 /\ (writer[Chain].pc = "idle" \/ writer[Chain].snap = table)
        BY <1>1, <3>1 DEF RoutesOK
      <4>2. writer[Chain].pc # "idle" BY <1>5
      <4>3. QED BY <4>1, <4>2
    <3>2. CASE writer[Chain].snap = table BY <1>2, <3>2
    <3>3. QED BY <1>5, <1>8, <3>1, <3>2
  <2>3. CASE Len(chain) > 1
    <3>1. Len(chain') > 1 \/ Len(chain') = 1 BY <1>2, <2>3
    <3>2. QED BY <1>5, <1>6, <3>1 DEF RoutesOK
  <2>4. CASE Pending BY <1>4, <1>5, <1>6, <2>4 DEF RoutesOK
  <2>5. CASE Len(chain) = 1 /\ writer[Chain].snap = table
    <3>1. chain' = <<>> BY <1>2, <2>5
    <3>2. QED BY <1>5, <1>6, <2>1, <2>5, <3>1 DEF RoutesOK
  <2>6. QED BY <2>2, <2>3, <2>4, <2>5
<1>9. QED BY <1>7, <1>8

\* A sync ends, and the one that waited for it settles its task or spoils it.
LEMMA ChainEndsOK == DevIInv /\ ChainEnds => DevIInv'
<1> SUFFICES ASSUME DevIInv, ChainEnds PROVE DevIInv' OBVIOUS
<1> PICK p : p = Head(chain) OBVIOUS
<1>1. /\ chain # <<>> /\ chain' = Tail(chain) /\ UNCHANGED env
      /\ SyncSucceeds(Chain) \/ SyncFails(Chain)
      /\ \E ok \in BOOLEAN : Synced(p, ok)
  BY DEF ChainEnds
<1>2. PICK ok \in BOOLEAN : Synced(p, ok) BY <1>1
<1>3. /\ StateTypes /\ proc \in [Proc -> ProcRow] /\ chain \in Seq(Proc) /\ ChainOK
  BY DEF DevIInv, StateTypes
<1>4. p \in Proc /\ p = chain[1] /\ 1 \in DOMAIN chain /\ chain' \in Seq(Proc)
  BY <1>1, <1>3, TailFacts
<1>5. /\ proc[p].pc = "sync" /\ Shape(proc[p]) BY <1>3, <1>4 DEF ChainOK, DevIInv
<1>6. /\ Takes(p, Idle) BY <1>2 DEF Synced, Ends, Takes
<1>7. ChainMove(p, Idle) BY <1>1 DEF ChainMove
<1>8. RoutesOK' BY <1>1, <1>4, <1>6, ChainRoutes
<1>9. /\ writer' \in [Writer -> WriterRow] /\ UNCHANGED <<table, config>>
      /\ gateway' \subseteq Task /\ drift' \subseteq {"config", "gateway"}
  BY <1>1, SyncEnds, ProcFacts
<1>10. CASE proc[p].kind = "bulk"
  <2>1. UNCHANGED <<dev, lockq, spoiled>> BY <1>2, <1>10 DEF Synced
  <2>2. \A u \in Task : ~Works(proc[p], u) /\ ~Claims(proc[p], u)
    BY <1>5, <1>10, IdleRow DEF Shape, Works, Claims, Button
  <2>3. Stays(p, Idle) BY <2>1, <2>2, IdleFacts DEF Stays
  <2>4. StateTypes' BY <1>1, <1>3, <1>4, <1>9, <2>1 DEF StateTypes
  <2>5. \A u \in Task : Quiet(p, Idle, u) BY <1>1, <1>9, <2>1, <2>2, IdleFacts DEF Quiet, SameTask
  <2>6. spoiled \subseteq spoiled' BY <2>1
  <2>7. QED BY <1>4, <1>6, <1>7, <1>8, <2>3, <2>4, <2>5, <2>6, IdleRow, Step DEF LockMove
<1>11. CASE proc[p].kind # "bulk"
  <2>1. proc[p].kind \in {"stop", "delete", "start", "run"}
    BY <1>5, <1>11, IdleRow DEF Shape
  <2> PICK state : state = CASE proc[p].kind = "stop" -> "stopped"
                             [] proc[p].kind = "delete" -> "deleted" [] OTHER -> "active"
    OBVIOUS
  <2> PICK done : done = (ok \/ proc[p].kind \in {"stop", "delete"}) OBVIOUS
  <2>2. PICK t \in proc[p].task :
          /\ IF done THEN Recorded(t, state) ELSE UNCHANGED dev
          /\ Spoils(t, ~done)
          /\ lockq' = IF proc[p].kind = "run" THEN lockq ELSE [lockq EXCEPT ![t] = Tail(@)]
    BY <1>2, <1>11 DEF Synced
  <2>3. /\ t \in Task /\ proc[p].task = {t} /\ Works(proc[p], t)
        /\ \A u \in Task : u # t => ~Works(proc[p], u) /\ ~Claims(proc[p], u)
        /\ proc[p].kind # "run" => Claims(proc[p], t) /\ Head(lockq[t]) = p /\ lockq[t] # <<>>
        /\ t \notin spoiled => Progress(proc[p], t)
    BY <1>4, <1>5, <2>1, AtWork DEF Button
  <2>4. LockMove(p, Idle) /\ lockq' \in [Task -> Seq(Proc)]
    <3>1. CASE proc[p].kind # "run"
      <4>1. Leaves(p, Idle, t) BY <2>2, <2>3, <3>1, IdleFacts DEF Leaves
      <4>2. Tail(lockq[t]) \in Seq(Proc) BY <1>3, <2>3, <3>1, TailFacts DEF StateTypes
      <4>3. lockq' \in [Task -> Seq(Proc)] BY <1>3, <2>2, <3>1, <4>2 DEF StateTypes
      <4>4. QED BY <2>3, <4>1, <4>3 DEF LockMove
    <3>2. CASE proc[p].kind = "run"
      <4>1. Stays(p, Idle) BY <2>2, <3>2, IdleFacts DEF Stays, Claims, Button
      <4>2. QED BY <1>3, <2>2, <3>2, <4>1 DEF LockMove, StateTypes
    <3>3. QED BY <3>1, <3>2
  <2>5. /\ dev' \in [Task -> {"none", "active", "stopped", "deleted", "gone"}]
        /\ \A u \in Task : u # t => dev'[u] = dev[u]
        /\ spoiled \subseteq spoiled' /\ spoiled' \subseteq Task
    <3>1. state \in {"active", "stopped", "deleted"} OBVIOUS
    <3>2. QED BY <1>3, <2>2, <2>3, <3>1 DEF StateTypes, Recorded, Spoils
  <2>6. StateTypes' BY <1>1, <1>3, <1>4, <1>9, <2>4, <2>5 DEF StateTypes
  <2>7. ASSUME NEW u \in Task, u # t PROVE Quiet(p, Idle, u)
    BY <1>1, <1>9, <2>3, <2>5, <2>7, IdleFacts DEF Quiet, SameTask
  <2>8. ASSUME t \notin spoiled' PROVE TaskMove(p, Idle, t)
    <3>1. done /\ t \notin spoiled BY <2>2, <2>8 DEF Spoils
    <3>2. dev[t] # "gone" /\ Progress(proc[p], t)
      BY <1>5, <2>1, <2>3, <3>1 DEF Progress, On
    <3>3. dev'[t] = state BY <1>3, <2>2, <2>3, <3>1, <3>2 DEF Recorded, StateTypes
    <3>4. env'[t] = env[t] /\ (t \in table' <=> t \in table) BY <1>1, <1>9
    <3>5. Settled(t)' BY <1>5, <2>1, <3>2, <3>3, <3>4 DEF Settled, Progress, On
    <3>6. QED BY <2>3, <3>5, IdleFacts DEF TaskMove
  <2>9. \A u \in Task \ spoiled' : Quiet(p, Idle, u) \/ TaskMove(p, Idle, u) BY <2>7, <2>8
  <2>10. QED BY <1>4, <1>6, <1>7, <1>8, <2>4, <2>5, <2>6, <2>9, IdleRow, Step
<1>12. QED BY <1>10, <1>11

-----------------------------------------------------------------------------
(* The teardown, the namespaces and the restart *)

\* A teardown begins alone on its task, or spoils it.
LEMMA BeginTeardownOK ==
  ASSUME DevIInv, NEW p \in Proc, BeginTeardown(p)
  PROVE  DevIInv'
<1>1. PICK t \in Task :
        /\ dev[t] # "gone" /\ ~Meets(t, {"teardown"})
        /\ Begins(p, [Idle EXCEPT !.kind = "teardown", !.task = {t}, !.pc = "kube"])
        /\ Spoils(t, Meets(t, Button \cup {"bulk", "run"}))
        /\ UNCHANGED <<dev, gate, env, lockq>>
  BY DEF BeginTeardown
<1> PICK r : r = [Idle EXCEPT !.kind = "teardown", !.task = {t}, !.pc = "kube"] OBVIOUS
<1>2. r \in ProcRow /\ r.pc = "kube" /\ r.kind = "teardown" /\ r.task = {t}
  BY IdleRow DEF ProcRow, Kind, Pc
<1>3. Takes(p, r) /\ proc[p] = Idle BY <1>1 DEF Begins, Takes
<1>4. Shape(r) BY <1>2 DEF Shape, One
<1>5. spoiled' = IF Meets(t, Button \cup {"bulk", "run"}) THEN spoiled \cup {t} ELSE spoiled
  BY <1>1 DEF Spoils
<1>6. StateTypes' BY <1>1, <1>5 DEF DevIInv, StateTypes, gate
<1>7. Stays(p, r) BY <1>1, <1>2, <1>3, IdleFacts DEF Stays, Claims, Button
<1>8. ChainMove(p, r) BY <1>1, <1>3, IdleRow DEF ChainMove, gate
<1>9. RoutesOK' BY <1>1, <1>2, <1>3, IdleFacts, RoutesQuiet
<1>10. ASSUME NEW u \in Task, u # t PROVE Quiet(p, r, u)
  BY <1>1, <1>2, <1>3, <1>10, IdleFacts DEF Quiet, SameTask, Works, gate
<1>11. ASSUME t \notin spoiled' PROVE TaskMove(p, r, t)
  <2>1. (\A q \in Proc : ~Works(proc[q], t)) /\ Settled(t)
    <3>1. ~Meets(t, Button \cup {"bulk", "run"}) /\ t \notin spoiled BY <1>5, <1>11
    <3>2. QED BY <1>1, <3>1, Alone
  <2>2. dev'[t] # "gone" BY <1>1
  <2>3. Settled(t)' BY <1>1, <2>1 DEF Settled, gate
  <2>4. Progress(r, t)' BY <1>2, <2>2, <2>3 DEF Progress, On
  <2>5. Works(r, t) BY <1>2 DEF Works
  <2>6. QED BY <2>1, <2>4, <2>5 DEF TaskMove
<1>12. spoiled \subseteq spoiled' BY <1>5
<1>13. \A u \in Task \ spoiled' : Quiet(p, r, u) \/ TaskMove(p, r, u) BY <1>10, <1>11
<1>14. QED BY <1>2, <1>3, <1>4, <1>6, <1>7, <1>8, <1>9, <1>12, <1>13, Step DEF LockMove

\* A teardown takes the route out and writes past the chain.
LEMMA TearDownOK ==
  ASSUME DevIInv, NEW p \in Proc, TearDown(p)
  PROVE  DevIInv'
<1>1. PICK t \in proc[p].task :
        /\ At(p, {"teardown"}, "kube")
        /\ \/ /\ env' = [env EXCEPT ![t] = IF dev[t] = "none" THEN @ ELSE Downed("delete", @)]
              /\ UNCHANGED <<bounds, spoiled>>
           \/ Mishap /\ Spoils(t, TRUE) /\ UNCHANGED env
        /\ table' = table \ {t} /\ drift' = drift \cup {"config"}
        /\ writer' = [writer EXCEPT ![p] = [NoSync EXCEPT !.pc = "read", !.snap = table']]
        /\ Go(p, "raw")
        /\ UNCHANGED <<dev, config, gateway, chain, lockq>>
  BY DEF TearDown
<1>2. /\ proc[p].kind = "teardown" /\ proc[p].pc = "kube"
      /\ proc[p] \in ProcRow /\ proc \in [Proc -> ProcRow] /\ StateTypes /\ RoutesOK
  BY <1>1 DEF At, DevIInv
<1>3. /\ t \in Task /\ proc[p].task = {t} /\ Works(proc[p], t)
      /\ \A u \in Task : u # t => ~Works(proc[p], u)
      /\ t \notin spoiled => Progress(proc[p], t)
  BY <1>2, AtWork
<1>4. /\ spoiled \subseteq spoiled' /\ spoiled' \subseteq Task
      /\ t \notin spoiled' =>
           /\ t \notin spoiled
           /\ env'[t] = IF dev[t] = "none" THEN env[t] ELSE Downed("delete", env[t])
      /\ \A u \in Task : u # t => env'[u] = env[u]
      /\ env' \in [Task -> {"none", "bare", "app", "going"}]
  <2>1. Downed("delete", env[t]) \in {"none", "bare", "app", "going"}
    BY <1>2, <1>3 DEF Downed, StateTypes
  <2>2. CASE /\ env' = [env EXCEPT ![t] = IF dev[t] = "none" THEN @ ELSE Downed("delete", @)]
             /\ UNCHANGED <<bounds, spoiled>>
    BY <1>2, <1>3, <2>1, <2>2 DEF StateTypes
  <2>3. CASE Mishap /\ Spoils(t, TRUE) /\ UNCHANGED env
    BY <1>2, <1>3, <2>3 DEF StateTypes, Spoils
  <2>4. QED BY <1>1, <2>2, <2>3
<1>5. /\ writer' \in [Writer -> WriterRow] /\ writer'[Chain] = writer[Chain]
  <2>1. [NoSync EXCEPT !.pc = "read", !.snap = table'] \in WriterRow
    BY <1>1, <1>2 DEF NoSync, WriterRow, StateTypes
  <2>2. QED BY <1>1, <1>2, <2>1, ProcFacts DEF StateTypes
<1> PICK r : r = [proc[p] EXCEPT !.pc = "raw"] OBVIOUS
<1>6. r \in ProcRow /\ r.pc = "raw" /\ r.kind = "teardown" /\ r.task = {t}
  BY <1>2, <1>3, GoRow DEF Pc
<1>7. Takes(p, r) BY <1>1, <1>2 DEF Takes, Go
<1>8. Shape(r) BY <1>3, <1>6 DEF Shape, One
<1>9. StateTypes' BY <1>1, <1>2, <1>4, <1>5 DEF StateTypes
<1>10. Stays(p, r) BY <1>1, <1>2, <1>6 DEF Stays, Claims, Button
<1>11. ChainMove(p, r) BY <1>1, <1>2 DEF ChainMove
<1>12. RoutesOK' BY <1>1, <1>2, <1>5 DEF RoutesOK
<1>13. ASSUME NEW u \in Task, u # t PROVE Quiet(p, r, u)
  BY <1>1, <1>3, <1>4, <1>6, <1>13 DEF Quiet, SameTask, Works
<1>14. ASSUME t \notin spoiled' PROVE TaskMove(p, r, t)
  <2>1. dev[t] # "gone" /\ Settled(t) BY <1>2, <1>3, <1>4, <1>14 DEF Progress, On
  <2>2. env'[t] # "app"
    <3>1. CASE dev[t] = "none" BY <1>4, <1>14, <2>1, <3>1 DEF Settled
    <3>2. CASE dev[t] # "none" BY <1>4, <1>14, <3>2 DEF Downed
    <3>3. QED BY <3>1, <3>2
  <2>3. t \notin table' BY <1>1
  <2>4. Progress(r, t)' BY <1>6, <2>2, <2>3 DEF Progress, On
  <2>5. Works(r, t) BY <1>6 DEF Works
  <2>6. QED BY <1>3, <2>4, <2>5 DEF TaskMove
<1>15. \A u \in Task \ spoiled' : Quiet(p, r, u) \/ TaskMove(p, r, u) BY <1>13, <1>14
<1>16. QED BY <1>4, <1>6, <1>7, <1>8, <1>9, <1>10, <1>11, <1>12, <1>15, Step DEF LockMove

\* The write past the chain is over; the chain may have to make up for it.
LEMMA RawEndsOK ==
  ASSUME DevIInv, NEW p \in Proc, RawEnds(p)
  PROVE  DevIInv'
<1>1. /\ proc[p].pc = "raw" /\ (SyncSucceeds(p) \/ SyncFails(p)) /\ Ends(p)
      /\ dev' = [t \in Task |-> IF t \in proc[p].task THEN "gone" ELSE dev[t]]
      /\ UNCHANGED <<chain, env, lockq, spoiled>>
  BY DEF RawEnds
<1>2. /\ Shape(proc[p]) /\ proc[p] \in ProcRow /\ proc \in [Proc -> ProcRow] /\ StateTypes
      /\ RoutesOK
  BY DEF DevIInv
<1>3. /\ writer' = [writer EXCEPT ![p] = NoSync] /\ writer' \in [Writer -> WriterRow]
      /\ UNCHANGED <<table, config>>
      /\ gateway' \subseteq Task /\ drift' \subseteq {"config", "gateway"}
      /\ "gateway" \notin drift' => gateway' = config
      /\ "config" \notin drift' => "config" \notin drift
  BY <1>1, SyncEnds, ProcFacts
<1>4. writer'[Chain] = writer[Chain] BY <1>2, <1>3, ProcFacts DEF StateTypes
<1>5. Takes(p, Idle) BY <1>1 DEF Takes, Ends
<1>6. \A u \in Task : ~Claims(proc[p], u) BY <1>1, <1>2 DEF Shape, Claims, Button, Idle
<1>7. Stays(p, Idle) BY <1>1, <1>6, IdleFacts DEF Stays
<1>8. ChainMove(p, Idle) BY <1>1 DEF ChainMove
<1>9. StateTypes' BY <1>1, <1>2, <1>3 DEF StateTypes
<1>10. RoutesOK'
  <2>1. ~Owes(proc[p]) BY <1>1 DEF Owes
  <2>2. Pending => Pending' BY <1>2, <1>5, <2>1 DEF Pending, Takes
  <2>3. "config" \notin drift' =>
          writer[Chain].fresh \/ writer[Chain].pc \notin {"same", "write", "reload"}
    BY <1>2, <1>3 DEF RoutesOK
  <2>4. QED BY <1>1, <1>2, <1>3, <1>4, <2>2, <2>3 DEF RoutesOK
<1>11. ASSUME NEW u \in Task \ spoiled' PROVE Quiet(p, Idle, u) \/ TaskMove(p, Idle, u)
  <2>1. CASE u \notin proc[p].task
    BY <1>1, <1>3, <2>1, IdleFacts DEF Quiet, SameTask, Works
  <2>2. CASE u \in proc[p].task
    <3>1. proc[p].kind = "teardown" /\ Works(proc[p], u)
      BY <1>1, <1>2, <2>2 DEF Shape, Works, Idle
    <3>2. Progress(proc[p], u) BY <1>1, <3>1 DEF DevIInv, TaskOK
    <3>3. env[u] # "app" /\ u \notin table BY <1>1, <3>1, <3>2 DEF Progress, On
    <3>4. dev'[u] = "gone" /\ env'[u] # "app" /\ u \notin table' BY <1>1, <1>3, <2>2, <3>3
    <3>5. Settled(u)' BY <3>4 DEF Settled
    <3>6. QED BY <3>1, <3>5, IdleFacts DEF TaskMove
  <2>3. QED BY <2>1, <2>2
<1>12. spoiled \subseteq spoiled' BY <1>1
<1>13. QED BY <1>5, <1>7, <1>8, <1>9, <1>10, <1>11, <1>12, IdleRow, Step DEF LockMove

\* A namespace that was going is gone; no row counted on it.
LEMMA NamespaceGoneOK ==
  ASSUME DevIInv, NEW t \in Task, NamespaceGone(t)
  PROVE  DevIInv'
<1>1. /\ env[t] = "going" /\ env' = [env EXCEPT ![t] = "none"]
      /\ UNCHANGED <<dev, gate, proc, lockq, bounds, spoiled>> /\ StateTypes /\ RoutesOK
  BY DEF NamespaceGone, DevIInv
<1>2. StateTypes' BY <1>1 DEF StateTypes, gate
<1>3. \A u \in Task : LockOK(u)' <=> LockOK(u) BY <1>1 DEF LockOK
<1>4. ChainOK' /\ RoutesOK' BY <1>1 DEF DevIInv, ChainOK, RoutesOK, Pending, gate
<1>5. \A u \in Task : u # t => env'[u] = env[u] BY <1>1
<1>6. env'[t] = "none" BY <1>1 DEF StateTypes
<1>7. \A u \in Task : Settled(u) => Settled(u)' BY <1>1, <1>5, <1>6 DEF Settled, gate
<1>8. ASSUME NEW u \in Task, NEW q \in Proc, Progress(proc[q], u) PROVE Progress(proc[q], u)'
  <2>1. CASE u = t BY <1>1, <1>6, <1>7, <1>8, <2>1 DEF Progress, On, gate
  <2>2. CASE u # t BY <1>1, <1>5, <1>7, <1>8, <2>2 DEF Progress, On, gate
  <2>3. QED BY <2>1, <2>2
<1>9. \A u \in Task : TaskOK(u) => TaskOK(u)' BY <1>1, <1>7, <1>8 DEF TaskOK
<1>10. QED BY <1>1, <1>2, <1>3, <1>4, <1>9 DEF DevIInv

\* A restart forgets whoever was at work, and their tasks are spoiled.
LEMMA RestartOK == DevIInv /\ Restart => DevIInv'
<1> SUFFICES ASSUME DevIInv, Restart PROVE DevIInv' OBVIOUS
<1> PICK restored : restored = {t \in Task : dev[t] = "active"} OBVIOUS
<1> PICK r : r = [Idle EXCEPT !.kind = "restore", !.pc = "raw"] OBVIOUS
<1> PICK s : s = [NoSync EXCEPT !.pc = "read", !.snap = restored] OBVIOUS
<1>1. /\ spoiled' = spoiled \cup UNION {proc[p].task : p \in Proc}
      /\ table' = restored /\ drift' = drift \cup {"config", "gateway"}
      /\ chain' = <<>> /\ lockq' = [t \in Task |-> <<>>]
      /\ proc' = [p \in Proc |-> IF p = 1 /\ restored # {} THEN r ELSE Idle]
      /\ writer' = [w \in Writer |-> IF w = 1 /\ restored # {} THEN s ELSE NoSync]
      /\ UNCHANGED <<dev, config, gateway, env>>
  BY DEF Restart
<1>2. StateTypes /\ proc \in [Proc -> ProcRow] BY DEF DevIInv
<1>3. r \in ProcRow /\ r.pc = "raw" /\ r.kind = "restore" /\ r.task = {}
  BY IdleRow DEF ProcRow, Kind, Pc
<1>4. s \in WriterRow BY NoSyncRow DEF WriterRow, NoSync
<1>5. /\ proc' \in [Proc -> ProcRow]
      /\ \A p \in Proc : proc'[p] = r \/ proc'[p] = Idle
  BY <1>1, <1>3, IdleRow
<1>6. /\ writer' \in [Writer -> WriterRow] /\ writer'[Chain] = NoSync
  BY <1>1, <1>4, NoSyncRow, ProcFacts DEF Chain
<1>7. spoiled' \subseteq Task
  <2>1. \A p \in Proc : proc[p].task \subseteq Task BY <1>2 DEF ProcRow
  <2>2. spoiled \subseteq Task BY <1>2 DEF StateTypes
  <2>3. QED BY <1>1, <2>1, <2>2, Zenon
<1>8. StateTypes'
  <2>0. <<>> \in Seq(Proc) OBVIOUS
  <2>1. lockq' \in [Task -> Seq(Proc)] /\ chain' \in Seq(Proc) BY <1>1, <2>0
  <2>2. QED BY <1>1, <1>2, <1>6, <1>7, <2>1 DEF StateTypes
<1>9. \A p \in Proc : Shape(proc'[p])
  <2>1. Shape(r) BY <1>3 DEF Shape
  <2>2. QED BY <1>5, <2>1, IdleRow
<1>10. ASSUME NEW t \in Task PROVE LockOK(t)'
  <2>0. lockq'[t] = <<>> BY <1>1, Zenon
  <2>1. DOMAIN lockq'[t] = {} BY <2>0
  <2>2. \A p \in Proc : ~Claims(proc'[p], t) BY <1>3, <1>5, IdleFacts DEF Claims, Button
  <2>3. QED BY <2>1, <2>2 DEF LockOK
<1>11. ChainOK'
  <2>1. chain' = <<>> BY <1>1, Zenon
  <2>2. DOMAIN chain' = {} BY <2>1
  <2>3. QED BY <2>2 DEF ChainOK
<1>12. RoutesOK' BY <1>1, <1>6, NoSyncRow DEF RoutesOK
<1>13. ASSUME NEW t \in Task \ spoiled' PROVE TaskOK(t)'
  <2>1. \A p \in Proc : ~Works(proc[p], t) BY <1>1, <1>13 DEF Works
  <2>2. Settled(t) BY <1>1, <1>13, <2>1 DEF DevIInv, TaskOK
  <2>3. t \in table' <=> dev[t] = "active" BY <1>1
  <2>4. Settled(t)' BY <1>1, <2>2, <2>3 DEF Settled
  <2>5. \A p \in Proc : ~Works(proc'[p], t) BY <1>3, <1>5, IdleRow DEF Works
  <2>6. QED BY <2>4, <2>5 DEF TaskOK
<1>14. QED BY <1>5, <1>8, <1>9, <1>10, <1>11, <1>12, <1>13 DEF DevIInv

-----------------------------------------------------------------------------
(* The theorems *)

\* Nothing is deployed or under way in the beginning.
LEMMA DevInitOK == DevInit => DevIInv
<1> SUFFICES ASSUME DevInit PROVE DevIInv OBVIOUS
<1> USE DEF DevInit
<1>1. StateTypes
  <2>1. writer \in [Writer -> WriterRow] BY NoSyncRow
  <2>2. lockq \in [Task -> Seq(Proc)] /\ chain \in Seq(Proc) OBVIOUS
  <2>3. env \in [Task -> {"none", "bare", "app", "going"}] OBVIOUS
  <2>4. QED BY <2>1, <2>2, <2>3 DEF StateTypes
<1>2. proc \in [Proc -> ProcRow] /\ \A p \in Proc : proc[p] = Idle BY IdleRow
<1>3. ASSUME NEW t \in Task PROVE LockOK(t)
  <2>1. lockq[t] = <<>> /\ DOMAIN <<>> = {} OBVIOUS
  <2>2. QED BY <1>2, <2>1, IdleFacts DEF LockOK
<1>4. ChainOK BY DEF ChainOK
<1>5. RoutesOK
  <2>1. writer[Chain].pc = "idle" BY NoSyncRow, ProcFacts
  <2>2. QED BY <2>1 DEF RoutesOK
<1>6. ASSUME NEW t \in Task PROVE TaskOK(t)
  <2>1. Settled(t) BY DEF Settled
  <2>2. QED BY <1>2, <2>1, IdleFacts DEF TaskOK
<1>7. QED BY <1>1, <1>2, <1>3, <1>4, <1>5, <1>6, IdleRow DEF DevIInv

\* Every step keeps the invariant.
LEMMA DevNextOK == DevIInv /\ [DevNext]_devVars => DevIInv'
<1> SUFFICES ASSUME DevIInv, [DevNext]_devVars PROVE DevIInv' OBVIOUS
<1>1. CASE UNCHANGED devVars
  <2>1. StateTypes' /\ RoutesOK' BY <1>1 DEF devVars, gate, DevIInv, StateTypes, RoutesOK, Pending
  <2>2. QED BY <1>1, <2>1, GateStep DEF devVars, gate
<1>2. CASE SyncSteps BY <1>2, SyncReadsOK, SyncWritesOK, ChainStartsOK, ChainEndsOK DEF SyncSteps
<1>3. ASSUME NEW p \in Proc, StepOf(p) PROVE DevIInv'
  BY <1>3, RefuseOK, AdmitOK, TakeDownOK, NextOfManyOK, DeployOK, DeployFailsOK, PublishOK,
     TearDownOK, RawEndsOK DEF StepOf
<1>4. ASSUME NEW p \in Proc, People(p) PROVE DevIInv'
  BY <1>4, PressOK, PressManyOK, BeginRunOK, BeginTeardownOK DEF People
<1>5. ASSUME NEW t \in Task, NamespaceGone(t) PROVE DevIInv' BY <1>5, NamespaceGoneOK
<1>6. CASE Restart BY <1>6, RestartOK
<1>7. QED BY <1>1, <1>2, <1>3, <1>4, <1>5, <1>6 DEF DevNext

\* The locks, the chain of syncs, the gateway's map and what each process has
\* done to its task so far stay in step, for any number of them.
THEOREM DevInvariant == DevSpec => []DevIInv
<1>1. DevInit => DevIInv BY DevInitOK
<1>2. DevIInv /\ [DevNext]_devVars => DevIInv' BY DevNextOK
<1>3. QED BY <1>1, <1>2, PTL DEF DevSpec

\* The queues of withTaskLifecycleLock and of routesSyncChain hold what is under
\* way, and once the chain is empty the gateway serves the routes of devEnvs,
\* whatever order the syncs were asked for in: unless somebody wrote past the
\* chain, or a write failed, since its last sync.
THEOREM DevCorrect == DevSpec => []DevInv
<1>1. ASSUME DevIInv PROVE DevTypeOK
  <2>1. StateTypes /\ ChainOK /\ writer \in [Writer -> WriterRow] BY <1>1 DEF DevIInv, StateTypes
  <2>2. \A t \in Task : \A i \in DOMAIN lockq[t] : proc[lockq[t][i]].task = {t}
    BY <1>1 DEF DevIInv, LockOK, Claims
  <2>3. \A w \in Writer : writer[w].pc \in {"idle", "read", "same", "write", "reload"}
    BY <2>1 DEF WriterRow
  <2>4. QED BY <2>1, <2>2, <2>3 DEF DevTypeOK, StateTypes, ChainOK
<1>2. ASSUME DevIInv PROVE RoutesFollowTable
  <2>1. SUFFICES ASSUME chain = <<>>, ~\E p \in Proc : proc[p].kind = "bulk"
                 PROVE  /\ "config" \notin drift => config = table
                        /\ drift = {} => gateway = config
    BY DEF RoutesFollowTable
  <2>2. ~Pending BY <2>1 DEF Pending, Owes
  <2>3. Len(chain) = 0 BY <2>1
  <2>4. QED BY <1>2, <2>1, <2>2, <2>3 DEF DevIInv, RoutesOK
<1>3. DevIInv => DevInv BY <1>1, <1>2 DEF DevInv
<1>4. QED BY <1>3, DevInvariant, PTL

\* A task on which nothing is at work, and that no failed or unlocked step has
\* spoiled, is in the cluster and in the table as its row (devEnvState) says.
THEOREM DevEnvAsRecorded == DevSpec => []EnvAsRecorded
<1>1. ASSUME DevIInv, NEW t \in Task \ spoiled, \A p \in Proc : t \notin proc[p].task
      PROVE  Settled(t)
  <2>1. \A p \in Proc : ~Works(proc[p], t) BY <1>1 DEF Works
  <2>2. QED BY <1>1, <2>1 DEF DevIInv, TaskOK
<1>2. DevIInv => EnvAsRecorded BY <1>1 DEF EnvAsRecorded, Settled
<1>3. QED BY <1>2, DevInvariant, PTL

=============================================================================
