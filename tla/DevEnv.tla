------------------------------- MODULE DevEnv -------------------------------
(***************************************************************************)
(* The preview environments (engine/agent-engine.ts, k8s-deployer.ts) and  *)
(* their routes in the gateway (nginx-patcher.ts).  Stop, start and delete *)
(* take a lock per task; whoever changes the table of routes writes it     *)
(* through a chain of syncs that recompute it -- all but the teardown of a *)
(* task and the restore at boot, which write a snapshot of their own.      *)
(* Runs deploy without the lock: the buttons only look at their status     *)
(* before the first await.                                                 *)
(***************************************************************************)
EXTENDS Naturals, Sequences, FiniteSets

CONSTANTS
  Task,
  MaxProc,    \* bound: what is under way at once
  MaxBegin,   \* bound: what is begun at all
  MaxMishap,  \* bound: calls that fail
  MaxCrash    \* bound: process deaths

ASSUME DevAssumption ==
  MaxProc \in Nat \ {0} /\ MaxBegin \in Nat /\ MaxMishap \in Nat /\ MaxCrash \in Nat

Proc == 1..MaxProc
Button == {"stop", "start", "delete"}   \* under withTaskLifecycleLock
\* Those who write the gateway's configuration: the chain, and the two that
\* go past it.
Writer == {0} \cup Proc
Chain == 0

VARIABLES
  dev,       \* rows: devEnvState ("none": no namespace yet; "gone": torn down)
  table,     \* devEnvs, in memory: the tasks that have a route
  config,    \* the routes in the gateway's config map
  gateway,   \* the routes the gateway's pods have loaded
  env,       \* Kubernetes: "none", a bare namespace, one with the app, or one going
  proc,      \* requests and runs under way
  lockq,     \* taskLifecycleLocks: who holds and who waits, in order
  chain,     \* routesSyncChain: whose syncs are under way and waiting
  writer,    \* each writer's syncRoutes
  bounds,    \* begun, mishaps and crashes so far
  drift,     \* history: "config" if the map was written past the chain, or in vain,
             \* since the chain's last sync; "gateway" if it was not loaded since
  spoiled    \* history: tasks with a step that failed, or that met one without the lock

gate == <<table, config, gateway, chain, writer, drift>>
devVars == <<dev, gate, env, proc, lockq, bounds, spoiled>>

Idle == [kind |-> "none", task |-> {}, pc |-> "free", todo |-> {}, ok |-> FALSE]
NoSync == [pc |-> "idle", snap |-> {}, fresh |-> FALSE]

\* Tasks without a preview, with one, and with one somebody took down;
\* nothing under way.
DevInit ==
  /\ dev \in [Task -> {"none", "active", "stopped", "deleted"}]
  /\ table = {t \in Task : dev[t] = "active"}
  /\ config = table /\ gateway = table
  /\ env = [t \in Task |-> CASE dev[t] = "active" -> "app" [] dev[t] = "stopped" -> "bare"
                           [] OTHER -> "none"]
  /\ proc = [p \in Proc |-> Idle]
  /\ lockq = [t \in Task |-> <<>>]
  /\ chain = <<>> /\ writer = [w \in Writer |-> NoSync]
  /\ bounds = [begun |-> 0, mishaps |-> 0, crashes |-> 0]
  /\ drift = {} /\ spoiled = {}

At(p, kinds, pc) == proc[p].kind \in kinds /\ proc[p].pc = pc
Go(p, pc) == proc' = [proc EXCEPT ![p].pc = pc]
Ends(p) == proc' = [proc EXCEPT ![p] = Idle]
Mishap == bounds.mishaps < MaxMishap /\ bounds' = [bounds EXCEPT !.mishaps = @ + 1]
Recorded(t, state) == dev' = IF dev[t] = "gone" THEN dev ELSE [dev EXCEPT ![t] = state]

\* Those of these kinds that are at work on the task, the lock's waiters apart.
Meets(t, kinds) == \E p \in Proc : proc[p].kind \in kinds /\ t \in proc[p].task /\ proc[p].pc # "lock"
Spoils(t, cond) == spoiled' = IF cond THEN spoiled \cup {t} ELSE spoiled

\* Slots are taken in order.
Begins(p, new) ==
  /\ bounds.begun < MaxBegin /\ bounds' = [bounds EXCEPT !.begun = @ + 1]
  /\ proc[p] = Idle /\ \A q \in Proc : proc[q] = Idle => p <= q
  /\ proc' = [proc EXCEPT ![p] = new]

-----------------------------------------------------------------------------
(* syncRoutes: the config map as it is read, a replace that the API server *)
(* refuses if it was written since, and the gateway's pods deleted so that *)
(* new ones load it.  A map that is as it should be is left alone, and the *)
(* pods with it.                                                           *)

SyncReads(w) ==
  /\ writer[w].pc = "read"
  /\ writer' = [writer EXCEPT ![w].pc = IF config = writer[w].snap THEN "same" ELSE "write",
                              ![w].fresh = TRUE]
  /\ UNCHANGED <<dev, table, config, gateway, chain, drift, env, proc, lockq, bounds, spoiled>>

SyncWrites(w) ==
  /\ writer[w].pc = "write" /\ writer[w].fresh
  /\ config' = writer[w].snap
  /\ writer' = [v \in Writer |-> IF v = w THEN [writer[v] EXCEPT !.pc = "reload"]
                                          ELSE [writer[v] EXCEPT !.fresh = FALSE]]
  /\ drift' = drift \cup {"gateway"} \cup (IF w = Chain THEN {} ELSE {"config"})
  /\ UNCHANGED <<dev, table, gateway, chain, env, proc, lockq, bounds, spoiled>>

\* How syncRoutes ends, and what that leaves behind.
SyncSucceeds(w) ==
  /\ writer[w].pc \in {"same", "reload"} /\ UNCHANGED <<table, config, bounds>>
  /\ gateway' = IF writer[w].pc = "reload" THEN config ELSE gateway
  /\ drift' = drift \ ((IF writer[w].pc = "reload" THEN {"gateway"} ELSE {})
                       \cup (IF w = Chain /\ writer[w].fresh /\ writer[w].snap = table
                           THEN {"config"} ELSE {}))
  /\ writer' = [writer EXCEPT ![w] = NoSync]

SyncFails(w) ==
  /\ \/ writer[w].pc = "write" /\ ~writer[w].fresh /\ UNCHANGED bounds
     \/ writer[w].pc \in {"read", "write", "reload"} /\ Mishap
  /\ drift' = IF writer[w].pc = "reload" THEN drift ELSE drift \cup {"config"}
  /\ writer' = [writer EXCEPT ![w] = NoSync]
  /\ UNCHANGED <<table, config, gateway>>

\* The routes are those of the table when the sync's turn comes.
ChainStarts ==
  /\ chain # <<>> /\ writer[Chain].pc = "idle"
  /\ writer' = [writer EXCEPT ![Chain] = [NoSync EXCEPT !.pc = "read", !.snap = table]]
  /\ UNCHANGED <<dev, table, config, gateway, chain, drift, env, proc, lockq, bounds, spoiled>>

\* The one that waited goes on: a stop and a delete in any case, a start and
\* a run if the gateway has the route.
Synced(p, ok) ==
  LET kind == proc[p].kind
      state == CASE kind = "stop" -> "stopped" [] kind = "delete" -> "deleted" [] OTHER -> "active"
      done == kind # "bulk" /\ (ok \/ kind \in {"stop", "delete"})
  IN /\ Ends(p)
     /\ IF kind = "bulk" THEN UNCHANGED <<dev, lockq, spoiled>>
        ELSE \E t \in proc[p].task :
               /\ IF done THEN Recorded(t, state) ELSE UNCHANGED dev
               /\ Spoils(t, ~done)
               /\ lockq' = IF kind = "run" THEN lockq ELSE [lockq EXCEPT ![t] = Tail(@)]

ChainEnds ==
  /\ chain # <<>> /\ chain' = Tail(chain)
  /\ \/ SyncSucceeds(Chain) /\ Synced(Head(chain), TRUE)
     \/ SyncFails(Chain) /\ Synced(Head(chain), FALSE)
  /\ UNCHANGED env

-----------------------------------------------------------------------------
(* The buttons.  stopDevEnvForTask, startDevEnvForTask, deleteDevEnvForTask *)
(* take the lock of their task; deleteDevEnvsForTasks takes each in turn.  *)

Press(p) == \E kind \in Button, t \in Task :
  /\ dev[t] # "gone"
  /\ Begins(p, [Idle EXCEPT !.kind = kind, !.task = {t}, !.pc = "lock"])
  /\ lockq' = [lockq EXCEPT ![t] = Append(@, p)]
  /\ UNCHANGED <<dev, gate, env, spoiled>>

PressMany(p) ==
  /\ Begins(p, [Idle EXCEPT !.kind = "bulk", !.pc = "next", !.todo = Task])
  /\ UNCHANGED <<dev, gate, env, lockq, spoiled>>

\* Mutant: no lock.
HeldByAll(p, t) == proc[p].pc = "lock" /\ proc[p].task = {t}

Held(p, t) == proc[p].pc = "lock" /\ proc[p].task = {t} /\ Head(lockq[t]) = p

\* assertDevEnvMutable: a run keeps its task's status at building, deploying
\* or shipping, or has its agent in flight.
Mutable(t) == ~\E p \in Proc : proc[p].kind = "run" /\ proc[p].task = {t}

\* What each button asks of the row.
Applies(kind, t) ==
  /\ dev[t] \notin {"none", "gone"} /\ Mutable(t)
  /\ CASE kind = "stop" -> dev[t] = "active"
       [] kind = "start" -> dev[t] \in {"stopped", "deleted"}
       [] OTHER -> dev[t] # "deleted"

Released(t) == lockq' = [lockq EXCEPT ![t] = Tail(@)]

\* Mutant: a refusal forgets what was done before it.
RefuseForgetting(p) == \E t \in Task :
  /\ Held(p, t) /\ ~Applies(proc[p].kind, t) /\ Released(t)
  /\ proc' = [proc EXCEPT ![p] = IF @.kind # "bulk" THEN Idle
                                 ELSE [@ EXCEPT !.pc = "next", !.ok = dev[t] = "deleted"]]
  /\ UNCHANGED <<dev, gate, env, bounds, spoiled>>

\* Nothing to do, or refused.  For the many, one already deleted counts as done.
Refuse(p) == \E t \in Task :
  /\ Held(p, t) /\ ~Applies(proc[p].kind, t) /\ Released(t)
  /\ proc' = [proc EXCEPT ![p] = IF @.kind # "bulk" THEN Idle
                                 ELSE [@ EXCEPT !.pc = "next",
                                           !.ok = proc[p].ok \/ dev[t] = "deleted"]]
  /\ UNCHANGED <<dev, gate, env, bounds, spoiled>>

Admit(p) == \E t \in Task :
  /\ Held(p, t) /\ Applies(proc[p].kind, t)
  /\ Go(p, "kube")
  /\ Spoils(t, Meets(t, {"teardown"}))
  /\ UNCHANGED <<dev, gate, env, lockq, bounds>>

\* deleteDeployment and deleteService, or deleteNamespace -- which only asks
\* for it; a failure is logged.
Downed(kind, e) == CASE e \in {"none", "going"} -> e
                     [] kind = "stop" -> "bare"
                     [] OTHER -> "going"

\* Then the route goes: each button syncs for itself, the many once at the end.
TakeDown(p) == \E t \in proc[p].task :
  /\ At(p, {"stop", "delete", "bulk"}, "kube")
  /\ \/ /\ env' = [env EXCEPT ![t] = Downed(proc[p].kind, @)]
        /\ UNCHANGED <<bounds, spoiled>>
     \/ Mishap /\ Spoils(t, TRUE) /\ UNCHANGED env
  /\ table' = table \ {t}
  /\ IF proc[p].kind = "bulk"
     THEN /\ Recorded(t, "deleted") /\ Released(t)
          /\ proc' = [proc EXCEPT ![p].pc = "next", ![p].ok = TRUE]
          /\ UNCHANGED chain
     ELSE /\ chain' = Append(chain, p) /\ Go(p, "sync")
          /\ UNCHANGED <<dev, lockq>>
  /\ UNCHANGED <<config, gateway, writer, drift>>

\* The bulk deletion's next task, and its one sync.
NextOfMany(p) ==
  /\ At(p, {"bulk"}, "next")
  /\ \/ \E t \in proc[p].todo :
          /\ proc' = [proc EXCEPT ![p].pc = "lock", ![p].task = {t}, ![p].todo = @ \ {t}]
          /\ lockq' = [lockq EXCEPT ![t] = Append(@, p)]
          /\ UNCHANGED chain
     \/ /\ proc[p].todo = {} /\ UNCHANGED lockq
        /\ IF proc[p].ok
           THEN /\ proc' = [proc EXCEPT ![p].pc = "sync", ![p].task = {}]
                /\ chain' = Append(chain, p)
           ELSE Ends(p) /\ UNCHANGED chain
  /\ UNCHANGED <<dev, table, config, gateway, writer, drift, env, bounds, spoiled>>

-----------------------------------------------------------------------------
(* Deployments: those of the start button and those of a run, which holds  *)
(* no lock.                                                                *)

\* The first run records a preview that is not up yet.
BeginRun(p) == \E t \in Task :
  /\ dev[t] # "gone" /\ Mutable(t)
  /\ Begins(p, [Idle EXCEPT !.kind = "run", !.task = {t}, !.pc = "kube"])
  /\ dev' = IF dev[t] = "none" THEN [dev EXCEPT ![t] = "stopped"] ELSE dev
  /\ Spoils(t, Meets(t, Button \cup {"bulk", "teardown"}))
  /\ UNCHANGED <<gate, env, lockq>>

\* ensureNamespace and deployApp: nothing is created in a namespace that goes.
Deploy(p) == \E t \in proc[p].task :
  /\ At(p, {"start", "run"}, "kube") /\ env[t] # "going"
  /\ env' = [env EXCEPT ![t] = "app"]
  /\ Go(p, "wait")
  /\ UNCHANGED <<dev, gate, lockq, bounds, spoiled>>

\* Mutant: a failed start keeps its lock.
DeployFailsHolding(p) == \E t \in proc[p].task :
  /\ At(p, {"start", "run"}, "kube")
  /\ \/ env[t] = "going" /\ UNCHANGED bounds
     \/ env[t] # "going" /\ Mishap
  /\ Spoils(t, TRUE) /\ Ends(p)
  /\ UNCHANGED <<dev, gate, env, lockq>>

DeployFails(p) == \E t \in proc[p].task :
  /\ At(p, {"start", "run"}, "kube")
  /\ \/ env[t] = "going" /\ UNCHANGED <<bounds, env>>
     \/ /\ env[t] # "going" /\ Mishap
        /\ env' = [env EXCEPT ![t] = IF @ = "none" THEN "bare" ELSE @]
  /\ Spoils(t, TRUE) /\ Ends(p)
  /\ IF proc[p].kind = "start" THEN Released(t) ELSE UNCHANGED lockq
  /\ UNCHANGED <<dev, gate>>

\* waitDeploymentReady, then publishDevRoute.
Publish(p) == \E t \in proc[p].task :
  /\ At(p, {"start", "run"}, "wait")
  /\ table' = table \cup {t}
  /\ chain' = Append(chain, p) /\ Go(p, "sync")
  /\ UNCHANGED <<dev, config, gateway, writer, drift, env, lockq, bounds, spoiled>>

NamespaceGone(t) ==
  /\ env[t] = "going"
  /\ env' = [env EXCEPT ![t] = "none"]
  /\ UNCHANGED <<dev, gate, proc, lockq, bounds, spoiled>>

-----------------------------------------------------------------------------
(* teardownTask and restoreDevRoutesFromStore: a snapshot, past the chain. *)

\* discardTask, purgeTask.
BeginTeardown(p) == \E t \in Task :
  /\ dev[t] # "gone" /\ ~Meets(t, {"teardown"})
  /\ Begins(p, [Idle EXCEPT !.kind = "teardown", !.task = {t}, !.pc = "kube"])
  /\ Spoils(t, Meets(t, Button \cup {"bulk", "run"}))
  /\ UNCHANGED <<dev, gate, env, lockq>>

TearDown(p) == \E t \in proc[p].task :
  /\ At(p, {"teardown"}, "kube")
  /\ \/ /\ env' = [env EXCEPT ![t] = IF dev[t] = "none" THEN @ ELSE Downed("delete", @)]
        /\ UNCHANGED <<bounds, spoiled>>
     \/ Mishap /\ Spoils(t, TRUE) /\ UNCHANGED env
  /\ table' = table \ {t} /\ drift' = drift \cup {"config"}
  /\ writer' = [writer EXCEPT ![p] = [NoSync EXCEPT !.pc = "read", !.snap = table']]
  /\ Go(p, "raw")
  /\ UNCHANGED <<dev, config, gateway, chain, lockq>>

RawEnds(p) ==
  /\ proc[p].pc = "raw" /\ (SyncSucceeds(p) \/ SyncFails(p)) /\ Ends(p)
  /\ dev' = [t \in Task |-> IF t \in proc[p].task THEN "gone" ELSE dev[t]]
  /\ UNCHANGED <<chain, env, lockq, spoiled>>

\* A restart: the table is built from the rows and, unless it is empty,
\* written by a sync of its own.
Restart ==
  LET restored == {t \in Task : dev[t] = "active"}
  IN /\ bounds.crashes < MaxCrash /\ bounds' = [bounds EXCEPT !.crashes = @ + 1]
     /\ spoiled' = spoiled \cup UNION {proc[p].task : p \in Proc}
     /\ table' = restored /\ drift' = drift \cup {"config", "gateway"}
     /\ chain' = <<>> /\ lockq' = [t \in Task |-> <<>>]
     /\ proc' = [p \in Proc |-> IF p = 1 /\ restored # {}
                                THEN [Idle EXCEPT !.kind = "restore", !.pc = "raw"] ELSE Idle]
     /\ writer' = [w \in Writer |-> IF w = 1 /\ restored # {}
                                    THEN [NoSync EXCEPT !.pc = "read", !.snap = restored] ELSE NoSync]
     /\ UNCHANGED <<dev, config, gateway, env>>

-----------------------------------------------------------------------------
SyncSteps == (\E w \in Writer : SyncReads(w) \/ SyncWrites(w)) \/ ChainStarts \/ ChainEnds
StepOf(p) == \/ Refuse(p) \/ Admit(p) \/ TakeDown(p) \/ NextOfMany(p)
             \/ Deploy(p) \/ DeployFails(p) \/ Publish(p) \/ TearDown(p) \/ RawEnds(p)
People(p) == Press(p) \/ PressMany(p) \/ BeginRun(p) \/ BeginTeardown(p)

DevNext ==
  \/ SyncSteps
  \/ \E p \in Proc : StepOf(p) \/ People(p)
  \/ \E t \in Task : NamespaceGone(t)
  \/ Restart

\* Every call that is awaited comes back, and a promise's callbacks run.
DevFairness ==
  /\ WF_devVars(ChainStarts) /\ WF_devVars(ChainEnds)
  /\ \A w \in Writer : WF_devVars(SyncReads(w)) /\ WF_devVars(SyncWrites(w))
  /\ \A p \in Proc : WF_devVars(StepOf(p))
  /\ \A t \in Task : WF_devVars(NamespaceGone(t))

DevSpec == DevInit /\ [][DevNext]_devVars /\ DevFairness

-----------------------------------------------------------------------------
(* Properties *)

\* The types of the state, and that who holds a lock or waits for one is under way.
DevTypeOK ==
  /\ dev \in [Task -> {"none", "active", "stopped", "deleted", "gone"}]
  /\ table \subseteq Task /\ config \subseteq Task /\ gateway \subseteq Task
  /\ env \in [Task -> {"none", "bare", "app", "going"}]
  /\ \A t \in Task : \A i \in DOMAIN lockq[t] : proc[lockq[t][i]].task = {t}
  /\ \A i \in DOMAIN chain : proc[chain[i]].pc = "sync"
  /\ \A w \in Writer : writer[w].pc \in {"idle", "read", "same", "write", "reload"}

\* Once the chain is empty the gateway serves the routes of the table, in
\* whatever order the buttons and the runs asked for their syncs: except for
\* what was written past the chain, or failed to be written, since its last
\* sync (and what the bulk deletion has still to sync).
RoutesFollowTable ==
  (chain = <<>> /\ ~\E p \in Proc : proc[p].kind = "bulk") =>
    /\ "config" \notin drift => config = table
    /\ drift = {} => gateway = config

\* The queue of the syncs and the locks hold what is under way, and an empty
\* queue means that the gateway has caught up with the table.
DevInv == DevTypeOK /\ RoutesFollowTable

\* When nothing works on a task its row says what the cluster and the gateway
\* have: the lock keeps the buttons apart, whatever order they are pressed in.
\* Only a task one of whose steps failed, or that a run or a teardown met in the
\* middle of a button's work, may be otherwise.
EnvAsRecorded == \A t \in Task \ spoiled :
  (\A p \in Proc : t \notin proc[p].task) =>
    CASE dev[t] = "active" -> env[t] = "app" /\ t \in table
      [] dev[t] = "stopped" -> env[t] = "bare" /\ t \notin table
      [] dev[t] = "deleted" -> env[t] \in {"going", "none"} /\ t \notin table
      [] dev[t] = "gone" -> env[t] # "app" /\ t \notin table
      [] OTHER -> env[t] = "none"

\* Whatever is begun ends: no failure keeps a lock or a place in the chain.
OpsEnd == <>[](\A p \in Proc : proc[p] = Idle)

=============================================================================
