---------------------------- MODULE AgentSessions ----------------------------
(***************************************************************************)
(* The agents' sessions and the one Copilot client they all share          *)
(* (engine/agent-loop.ts, copilot-client.ts, force-effort.ts; the retries  *)
(* of iterateTask and startBuild in agent-engine.ts; the bounded turns of  *)
(* pipeline-stages.ts and reviewer-loop.ts; the one-shot calls of          *)
(* spec-generator.ts and feature-decomposer-runner.ts), and the turns on   *)
(* which what they use is counted (stores/turn-store.ts, task-store.ts).   *)
(*                                                                         *)
(* A client is a process; it is known by a number.  Whoever meets a closed *)
(* connection discards the client that is current, whichever it met.       *)
(***************************************************************************)
EXTENDS Naturals, Sequences, FiniteSets

CONSTANTS
  Task,
  Effort,       \* the values of reasoning effort people choose
  ShotEffort,   \* the effort of the bounded turns and of the one-shot calls
  MaxAttempts,  \* AGENT_MAX_RETRY_ATTEMPTS
  MaxClient,    \* bound: clients that anybody still refers to
  MaxCall,      \* bound: calls of the model for a task
  MaxFault,     \* bound: processes that die or do not start, turns that get stuck
  MaxOutside    \* bound: faults, messages, changes of effort and one-shot calls

ASSUME SessionsAssumption ==
  /\ ShotEffort \in Effort
  /\ {MaxAttempts, MaxClient} \subseteq Nat \ {0}
  /\ {MaxCall, MaxFault, MaxOutside} \subseteq Nat

VARIABLES
  current,  \* clientPromise: the client everybody gets, 0 when there is none
  process,  \* the clients' processes
  stopping, \* clients a reset took and has not stopped yet
  file,     \* /tmp/liliput-current-effort
  session,  \* liveSessions: the client each session is on, and its effort
  wants,    \* the effort the task's row asks for
  run,      \* iterateTask
  shot,     \* a one-shot call
  turns,    \* the turns of each task: open or not, and the calls counted on each
  made,     \* history: calls of the model made for each task
  lost,     \* history: the failure of a start has forgotten a client
  bounds    \* what the bounds count

clientVars == <<current, process, stopping, lost>>
sessionsVars == <<clientVars, file, session, wants, run, shot, turns, made, bounds>>

Client == 1..MaxClient
NoSession == [client |-> 0, effort |-> ShotEffort, broken |-> FALSE]
\* .client: what it works on now; .agent: the turn its agent was spawned in;
\* .queued: pendingChatMessages; .drained: its turns are those of messages that
\* came meanwhile; .mixed: somebody else wrote the file since the turn began;
\* .misled: a call of the turn went out with another effort.
Rest == [at |-> "idle", attempt |-> 1, client |-> 0, agent |-> 0, queued |-> 0,
         drained |-> FALSE, stuck |-> FALSE, mixed |-> FALSE, misled |-> FALSE]
NoShot == [at |-> "idle", attempt |-> 1, client |-> 0]

SessionsInit ==
  /\ current = 0 /\ process = [c \in Client |-> "dead"] /\ stopping = {} /\ lost = FALSE
  /\ file = ShotEffort
  /\ session = [t \in Task |-> NoSession]
  /\ wants = [t \in Task |-> ShotEffort]
  /\ run = [t \in Task |-> Rest] /\ shot = NoShot
  /\ turns = [t \in Task |-> <<>>] /\ made = [t \in Task |-> 0]
  /\ bounds = [outside |-> 0, faults |-> 0]

-----------------------------------------------------------------------------
(* The shared client                                                       *)

Outside == bounds.outside < MaxOutside /\ bounds' = [bounds EXCEPT !.outside = @ + 1]
Fault ==
  /\ bounds.faults < MaxFault /\ bounds.outside < MaxOutside
  /\ bounds' = [outside |-> bounds.outside + 1, faults |-> bounds.faults + 1]

\* The first number that nobody refers to any more, 0 when the bound is met.
Fresh(c) ==
  /\ c # current /\ c \notin stopping /\ process[c] \notin {"starting", "up"}
  /\ shot.client # c /\ \A t \in Task : session[t].client # c /\ run[t].client # c
Unused == IF \E c \in Client : Fresh(c) THEN CHOOSE c \in Client : Fresh(c) ELSE 0

\* Mutant: the promise is kept only once the client has started.
GetClientLate(c) ==
  /\ c = Unused /\ process' = [process EXCEPT ![c] = "starting"]
  /\ UNCHANGED <<current, stopping, lost>>

\* getCopilotClient: the first that asks spawns it, the others share the promise.
GetClient(c) ==
  \/ c # 0 /\ c = current /\ UNCHANGED clientVars
  \/ /\ current = 0 /\ c = Unused
     /\ current' = c /\ process' = [process EXCEPT ![c] = "starting"]
     /\ UNCHANGED <<stopping, lost>>

Starts(c) ==
  /\ process[c] = "starting" /\ process' = [process EXCEPT ![c] = "up"]
  /\ UNCHANGED <<current, stopping, lost, file, session, wants, run, shot, turns, made, bounds>>

\* The catch of a start that failed clears the promise, whosever it is by now.
StartFails(c) ==
  /\ process[c] = "starting" /\ process' = [process EXCEPT ![c] = "dead"] /\ Fault
  /\ current' = 0 /\ lost' = (lost \/ current \notin {0, c})
  /\ UNCHANGED <<stopping, file, session, wants, run, shot, turns, made>>

Dies(c) ==
  /\ process[c] = "up" /\ process' = [process EXCEPT ![c] = "dead"] /\ Fault
  /\ UNCHANGED <<current, stopping, lost, file, session, wants, run, shot, turns, made>>

\* resetCopilotClient, up to its first await.
Reset ==
  /\ current' = 0 /\ UNCHANGED <<process, lost>>
  /\ stopping' = IF current = 0 THEN stopping ELSE stopping \cup {current}

\* The rest of it: a start under way is waited for.
Stops(c) ==
  /\ c \in stopping /\ process[c] # "starting"
  /\ stopping' = stopping \ {c} /\ process' = [process EXCEPT ![c] = "dead"]
  /\ UNCHANGED <<current, lost, file, session, wants, run, shot, turns, made, bounds>>

Closed(c) == process[c] = "dead"

\* setForceEffort; what follows notes it for the turns of others under way.
Writes(effort) == file' = effort
Mixed(others) == [u \in Task |-> IF u \in others /\ run[u].at = "running"
                                 THEN [run[u] EXCEPT !.mixed = TRUE] ELSE run[u]]

-----------------------------------------------------------------------------
(* Turns of the user, and what is counted on them                          *)

\* createTurn: whatever is open is closed.
OpenTurn(t) ==
  turns' = [turns EXCEPT ![t] =
              Append([i \in DOMAIN @ |-> [@[i] EXCEPT !.open = FALSE]],
                     [open |-> TRUE, calls |-> 0])]

\* closeCurrentTurn, when the status becomes one that ends a turn.
CloseTurn(t) ==
  turns' = [turns EXCEPT ![t] = [i \in DOMAIN @ |-> [@[i] EXCEPT !.open = FALSE]]]

\* Mutant: only on an open turn.
CountsOpen(t, n) ==
  /\ made' = [made EXCEPT ![t] = @ + 1]
  /\ turns' = IF turns[t][n].open THEN [turns EXCEPT ![t][n].calls = @ + 1] ELSE turns

\* recordUsage: on the turn the agent was spawned in, open or not.
Counts(t, n) ==
  /\ made' = [made EXCEPT ![t] = @ + 1]
  /\ turns' = [turns EXCEPT ![t][n].calls = @ + 1]

\* An agent of the run is registered as in flight.
InFlight(t) == run[t].at \in {"stage", "staging", "running", "delivering"}

\* A message: the chat route begins a run, or queues it for the agent in flight,
\* whose turn is aborted: a stuck one may end by that.  A run that has registered
\* no agent (again) yet does not hear of it.
Ask(t) ==
  /\ Outside /\ OpenTurn(t)
  /\ \/ run[t].at = "idle" /\ run' = [run EXCEPT ![t] = [Rest EXCEPT !.at = "session"]]
     \/ InFlight(t) /\ \E stuck \in {run[t].stuck, FALSE} :
          run' = [run EXCEPT ![t].queued = @ + 1, ![t].stuck = stuck]
     \/ run[t].at # "idle" /\ ~InFlight(t) /\ UNCHANGED run
  /\ UNCHANGED <<clientVars, file, session, wants, shot, made>>

\* The user picks another effort.
Choose(t) == \E e \in Effort \ {wants[t]} :
  /\ Outside /\ wants' = [wants EXCEPT ![t] = e]
  /\ UNCHANGED <<clientVars, file, session, run, shot, turns, made>>

-----------------------------------------------------------------------------
(* runIteration, as far as sessions go                                     *)

At(t, place) == run[t].at = place

\* resurrectLiveSession and createAgentSession without a session;
\* applyModelChange with one of another effort.
NeedsSession(t) == session[t].client = 0 \/ session[t].effort # wants[t]

\* spawnPhase and registerInFlightAgent: the coder of this attempt belongs to
\* the last turn there is, and no message waits for it.
Registered(t) ==
  [run[t] EXCEPT !.at = "stage", !.client = 0, !.agent = Len(turns[t]), !.queued = 0]

KeepsSession(t) ==
  /\ At(t, "session") /\ ~NeedsSession(t)
  /\ run' = [run EXCEPT ![t] = Registered(t)]
  /\ UNCHANGED <<clientVars, file, session, wants, shot, turns, made, bounds>>

AsksClient(t) == \E c \in Client :
  /\ At(t, "session") /\ NeedsSession(t) /\ GetClient(c)
  /\ run' = [run EXCEPT ![t].at = "creating", ![t].client = c]
  /\ UNCHANGED <<file, session, wants, shot, turns, made, bounds>>

\* createSession on a client that answers.
Created(t) ==
  /\ At(t, "creating") /\ process[run[t].client] = "up"
  /\ session' = [session EXCEPT ![t] = [client |-> run[t].client, effort |-> wants[t],
                                        broken |-> FALSE]]
  /\ Writes(wants[t])
  /\ run' = [Mixed(Task \ {t}) EXCEPT ![t] = Registered(t)]
  /\ UNCHANGED <<clientVars, wants, shot, turns, made, bounds>>

\* The run is over, and so is what is open of the task's turns.
RunOver(t) == run' = [run EXCEPT ![t] = Rest] /\ CloseTurn(t)

\* The client did not start, or was stopped meanwhile: tried again when the
\* error reads like a connection that was closed, else the end of the run.
CreateFails(t) ==
  /\ At(t, "creating") /\ Closed(run[t].client)
  /\ \/ run' = [run EXCEPT ![t].at = "failing", ![t].client = 0] /\ UNCHANGED turns
     \/ RunOver(t)
  /\ UNCHANGED <<clientVars, file, session, wants, shot, made, bounds>>

\* runBoundedTurn and reviewEvent: a session of their own, for the stages
\* around the agent's turn; a stage that fails is skipped.
StageBegins(t) == \E c \in Client :
  /\ At(t, "stage") /\ GetClient(c) /\ Writes(ShotEffort)
  /\ run' = [Mixed(Task \ {t}) EXCEPT ![t].at = "staging", ![t].client = c]
  /\ UNCHANGED <<session, wants, shot, turns, made, bounds>>

\* runAgentTurn: the effort is asserted again and the prompt sent.
Prompted(r) == [r EXCEPT !.at = "running", !.client = 0,
                         !.stuck = FALSE, !.mixed = FALSE, !.misled = FALSE]
TurnBegins(t) ==
  /\ Writes(session[t].effort)
  /\ run' = [Mixed(Task \ {t}) EXCEPT ![t] = Prompted(run[t])]

\* drainPendingChatMessages: a turn for the next message, on the session that
\* the run has, whatever became of it; agent is who it counts for.
Interrupted(t, agent) ==
  [Prompted(run[t]) EXCEPT !.agent = agent, !.queued = run[t].queued - 1, !.drained = TRUE]
FollowsUp(t, agent) ==
  /\ run[t].queued > 0 /\ Writes(session[t].effort)
  /\ run' = [Mixed(Task \ {t}) EXCEPT ![t] = Interrupted(t, agent)]

\* After a turn: the next message, or else the build and what follows it.
GoesOn(t) ==
  \/ FollowsUp(t, run[t].agent)
  \/ run[t].queued = 0 /\ run' = [run EXCEPT ![t].at = "delivering"] /\ UNCHANGED file

StageEnds(t) ==
  /\ At(t, "staging") /\ TurnBegins(t)
  /\ \/ process[run[t].client] = "up" /\ UNCHANGED clientVars
     \/ Closed(run[t].client) /\ Reset
  /\ UNCHANGED <<session, wants, shot, turns, made, bounds>>

\* A call of the model: the patched SDK reads the file.
Calls(t) ==
  /\ At(t, "running") /\ ~run[t].stuck /\ process[session[t].client] = "up"
  /\ made[t] < MaxCall
  /\ run' = [run EXCEPT ![t].misled = @ \/ file # session[t].effort]
  /\ Counts(t, run[t].agent)
  /\ UNCHANGED <<clientVars, file, session, wants, shot, bounds>>

TurnEnds(t) ==
  /\ At(t, "running") /\ ~run[t].stuck /\ process[session[t].client] = "up" /\ GoesOn(t)
  /\ UNCHANGED <<clientVars, session, wants, shot, turns, made, bounds>>

\* A model refuses an effort it does not have, and that is not tried again; a
\* message's turn that fails is logged, and the run goes on.
Refused(t) ==
  /\ At(t, "running") /\ run[t].misled
  /\ \/ run[t].drained /\ GoesOn(t) /\ UNCHANGED turns
     \/ ~run[t].drained /\ RunOver(t) /\ UNCHANGED file
  /\ UNCHANGED <<clientVars, session, wants, shot, made, bounds>>

\* What comes after the turns is left out here (Delivery), but for the messages
\* that wait when the preview is validated: another agent has their turns.
Delivered(t) ==
  /\ At(t, "delivering")
  /\ \/ FollowsUp(t, Len(turns[t])) /\ UNCHANGED turns
     \/ RunOver(t) /\ UNCHANGED file
  /\ UNCHANGED <<clientVars, session, wants, shot, made, bounds>>

GetsStuck(t) ==
  /\ At(t, "running") /\ ~run[t].stuck /\ process[session[t].client] = "up" /\ Fault
  /\ run' = [run EXCEPT ![t].stuck = TRUE]
  /\ UNCHANGED <<clientVars, file, session, wants, shot, turns, made>>

\* runAgentTurn discards the client, and the session is of no more use: the
\* first turn of an attempt fails the attempt, a message's does not.
TurnFails(t) ==
  /\ Reset /\ session' = [session EXCEPT ![t].broken = TRUE]
  /\ \/ run[t].drained /\ GoesOn(t)
     \/ ~run[t].drained /\ run' = [run EXCEPT ![t].at = "failing"] /\ UNCHANGED file
  /\ UNCHANGED <<wants, shot, turns, made, bounds>>

\* Mutant: any sign of life is enough, and the heartbeat is one.
WatchdogFooled(t) == At(t, "running") /\ run[t].stuck /\ Closed(session[t].client) /\ TurnFails(t)

\* No event for IDLE_THRESHOLD_MS.
Watchdog(t) == At(t, "running") /\ run[t].stuck /\ TurnFails(t)

\* The pending request is refused: the process is gone.
ConnectionClosed(t) == At(t, "running") /\ ~run[t].stuck /\ Closed(session[t].client) /\ TurnFails(t)

\* The loop of iterateTask: the session is dropped, the client discarded (once
\* more), and the whole run is begun again after a pause.
Retries(t) ==
  /\ At(t, "failing") /\ run[t].attempt < MaxAttempts
  /\ session' = [session EXCEPT ![t] = NoSession]
  /\ Reset
  /\ run' = [run EXCEPT ![t].at = "session", ![t].attempt = @ + 1]
  /\ UNCHANGED <<file, wants, shot, turns, made, bounds>>

GivesUp(t) ==
  /\ At(t, "failing") /\ run[t].attempt = MaxAttempts
  /\ RunOver(t)
  /\ UNCHANGED <<clientVars, file, session, wants, shot, made, bounds>>

-----------------------------------------------------------------------------
(* generateSpec, runFeatureDecomposer: one call, tried twice.              *)

ShotBegins == \E c \in Client :
  /\ shot.at = "idle" /\ Outside
  /\ Writes(ShotEffort) /\ run' = Mixed(Task)
  /\ GetClient(c) /\ shot' = [at |-> "calling", attempt |-> 1, client |-> c]
  /\ UNCHANGED <<session, wants, turns, made>>

ShotAsksAgain == \E c \in Client :
  /\ shot.at = "asking" /\ GetClient(c)
  /\ shot' = [shot EXCEPT !.at = "calling", !.client = c]
  /\ UNCHANGED <<file, session, wants, run, turns, made, bounds>>

ShotEnds ==
  /\ shot.at = "calling" /\ process[shot.client] = "up"
  /\ shot' = NoShot
  /\ UNCHANGED <<clientVars, file, session, wants, run, turns, made, bounds>>

ShotFails ==
  /\ shot.at = "calling" /\ Closed(shot.client) /\ Reset
  /\ shot' = IF shot.attempt = 1 THEN [NoShot EXCEPT !.at = "asking", !.attempt = 2] ELSE NoShot
  /\ UNCHANGED <<file, session, wants, run, turns, made, bounds>>

-----------------------------------------------------------------------------
ClientSteps == \E c \in Client : Starts(c) \/ Stops(c)
ClientFaults == \E c \in Client : StartFails(c) \/ Dies(c)
RunSteps(t) ==
  \/ KeepsSession(t) \/ AsksClient(t) \/ Created(t) \/ CreateFails(t) \/ StageBegins(t)
  \/ StageEnds(t) \/ TurnEnds(t) \/ Delivered(t) \/ Watchdog(t) \/ ConnectionClosed(t)
  \/ Retries(t) \/ GivesUp(t)
ShotSteps == ShotAsksAgain \/ ShotEnds \/ ShotFails

SessionsNext ==
  \/ ClientSteps \/ ClientFaults \/ ShotBegins \/ ShotSteps
  \/ \E t \in Task : Ask(t) \/ Choose(t) \/ RunSteps(t) \/ Calls(t) \/ Refused(t) \/ GetsStuck(t)

\* Processes start and stop; a run goes on, by the watchdog if nothing else; a
\* one-shot call has a time limit.
SessionsFairness ==
  /\ WF_sessionsVars(ClientSteps) /\ WF_sessionsVars(ShotSteps)
  /\ \A t \in Task : WF_sessionsVars(RunSteps(t))

SessionsSpec == SessionsInit /\ [][SessionsNext]_sessionsVars /\ SessionsFairness

-----------------------------------------------------------------------------
(* Properties *)

\* The types of the state, and that at most one turn of a task is open: the last.
SessionsTypeOK ==
  /\ current \in Client \cup {0} /\ stopping \subseteq Client
  /\ process \in [Client -> {"starting", "up", "dead"}]
  /\ file \in Effort /\ wants \in [Task -> Effort]
  /\ session \in [Task -> [client : Client \cup {0}, effort : Effort, broken : BOOLEAN]]
  /\ \A t \in Task : run[t].attempt \in 1..MaxAttempts /\ run[t].client \in Client \cup {0}
  /\ \A t \in Task : \A i \in DOMAIN turns[t] : turns[t][i].open => i = Len(turns[t])

\* A process that runs is the client everybody gets or is about to be stopped,
\* however many tasks asked for one and discarded one at once -- but for the
\* client that a start which failed late has made everybody forget.
NoStrayClient ==
  \A c \in Client : process[c] \in {"starting", "up"} => c = current \/ c \in stopping \/ lost

\* The first turn of a retry is never on a session on which a turn has failed,
\* though other tasks' failures discard clients all the while.  (The turns of
\* messages that came meanwhile are on the session of that turn, broken or not.)
RetryIsFresh ==
  \A t \in Task :
    run[t].at = "running" /\ run[t].attempt > 1 /\ ~run[t].drained => ~session[t].broken

\* A call goes out with the effort of its own session, unless somebody else
\* wrote the shared file after the turn had begun.
OwnEffortAlone == \A t \in Task : run[t].misled => run[t].mixed

\* The calls counted on a task's turns: the k-th of the i-th turn.
Counted(ts) == UNION {{i} \X (1..ts[i].calls) : i \in DOMAIN ts}

\* Every call of the model is counted on exactly one turn of its task: also when
\* the turn in which its agent was spawned was closed by the user's next message,
\* and when that message's own turn is the agent's who was at work.
CallsAddUp == \A t \in Task : made[t] = Cardinality(Counted(turns[t]))

\* Sessions, turns and the calls made on them fit together across retries,
\* new messages and other tasks' writes to the shared file.
SessionsInv == SessionsTypeOK /\ RetryIsFresh /\ OwnEffortAlone /\ CallsAddUp

\* Every run ends: a stuck turn is found, a client that is stopped under a turn
\* is noticed, and the retries are bounded.
RunsEnd == \A t \in Task : []<>(run[t].at = "idle")

\* "we keep trying with backoff rather than failing the task on transient SDK
\* problems" (iterateTask, up to MAX_ATTEMPTS): a run that is given up has seen
\* as many faults.
GivenUpAfterFaults == [][\A t \in Task : GivesUp(t) => bounds.faults >= MaxAttempts]_sessionsVars

\* "abort the turn so the iteration layer can resurrect and retry"
\* (agent-loop.ts): a silent turn fails its attempt.  A message's does not.
SilentTurnRetried == [][\A t \in Task : Watchdog(t) => run'[t].at = "failing"]_sessionsVars

\* "Liliput processes turns serially" (force-effort.ts), and "safe here because
\* the reviewer runs SERIALIZED with the coder" (reviewer-loop.ts): no call goes
\* out with another session's effort.
OwnEffort == \A t \in Task : ~run[t].misled

=============================================================================
