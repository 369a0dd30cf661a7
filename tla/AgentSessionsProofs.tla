------------------------- MODULE AgentSessionsProofs -------------------------
(***************************************************************************)
(* Proofs about AgentSessions for any tasks, efforts, retries and bounds.  *)
(*                                                                         *)
(* The state falls into three parts that hardly meet: the clients, the     *)
(* turns on which calls are counted, and the runs with their sessions and  *)
(* the file they share.  ClientMoves and TurnMoves list what a step may do *)
(* to the first two; of the runs, a step moves one and at most notes on    *)
(* the others that it wrote the file (Beside).                             *)
(***************************************************************************)
EXTENDS AgentSessions, FiniteSetTheorems, TLAPS

Place == {"idle", "session", "creating", "stage", "staging", "running", "delivering",
          "failing"}
RunRow == [at : Place, attempt : 1..MaxAttempts, client : Client \cup {0}, agent : Nat,
           queued : Nat, drained : BOOLEAN, stuck : BOOLEAN, mixed : BOOLEAN, misled : BOOLEAN]
SessionRow == [client : Client \cup {0}, effort : Effort, broken : BOOLEAN]
Turn == [open : BOOLEAN, calls : Nat]

Types ==
  /\ file \in Effort /\ wants \in [Task -> Effort]
  /\ session \in [Task -> SessionRow]
  /\ run \in [Task -> RunRow]
  /\ turns \in [Task -> Seq(Turn)]
  /\ made \in [Task -> Nat]

\* A process that runs has somebody who will stop it, or was forgotten.
ClientOK ==
  /\ current \in Client \cup {0} /\ stopping \subseteq Client
  /\ process \in [Client -> {"starting", "up", "dead"}]
  /\ lost \in BOOLEAN
  /\ NoStrayClient

\* A task's turns: the last may be open, and the calls counted are those made.
TurnsOK(t) ==
  /\ \A i \in DOMAIN turns[t] : turns[t][i].open => i = Len(turns[t])
  /\ IsFiniteSet(Counted(turns[t])) /\ made[t] = Cardinality(Counted(turns[t]))

\* A task's run: what it retries on, what its turn runs with, and who it counts
\* for.  Only the turns of messages may be on a session that is broken.
RunOK(t) ==
  /\ run[t].at \notin {"idle", "failing"} /\ run[t].attempt > 1 /\ ~run[t].drained
     => ~session[t].broken
  /\ run[t].drained => run[t].at \in {"running", "delivering"}
  /\ run[t].misled => run[t].mixed
  /\ run[t].at = "running" /\ ~run[t].mixed => file = session[t].effort
  /\ run[t].at # "idle" => Len(turns[t]) > 0
  /\ run[t].at \in {"stage", "staging", "running"} => run[t].agent \in 1..Len(turns[t])

SessionsIInv ==
  /\ Types /\ ClientOK
  /\ \A t \in Task : TurnsOK(t) /\ RunOK(t)

-----------------------------------------------------------------------------
(* The clients *)

ClientMoves ==
  \/ UNCHANGED clientVars
  \/ (\E c \in Client : GetClient(c)) \/ Reset
  \/ ClientSteps \/ ClientFaults

\* Whoever asks for, loses, discards or stops a client leaves none behind.
LEMMA ClientKept == ClientOK /\ ClientMoves => ClientOK'
<1> SUFFICES ASSUME ClientOK, ClientMoves PROVE ClientOK' OBVIOUS
<1> USE DEF ClientOK, NoStrayClient
<1>0. 0 \notin Client BY DEF Client
<1>1. CASE UNCHANGED clientVars BY <1>1 DEF clientVars
<1>2. ASSUME NEW c \in Client, GetClient(c) PROVE ClientOK'
  BY <1>0, <1>2 DEF GetClient, clientVars
<1>3. CASE Reset BY <1>0, <1>3 DEF Reset
<1>4. ASSUME NEW c \in Client, Starts(c) \/ Stops(c) PROVE ClientOK'
  BY <1>0, <1>4 DEF Starts, Stops
<1>5. ASSUME NEW c \in Client, StartFails(c) \/ Dies(c) PROVE ClientOK'
  BY <1>0, <1>5 DEF StartFails, Dies
<1>6. QED BY <1>1, <1>2, <1>3, <1>4, <1>5 DEF ClientMoves, ClientSteps, ClientFaults

-----------------------------------------------------------------------------
(* The turns and the calls counted on them *)

TurnMoves ==
  \/ UNCHANGED <<turns, made>>
  \/ \E t \in Task :
       \/ (OpenTurn(t) \/ CloseTurn(t)) /\ UNCHANGED made
       \/ run[t].agent \in 1..Len(turns[t]) /\ Counts(t, run[t].agent)

\* Opening and closing turns keeps the calls that were counted.
LEMMA CountedKept ==
  ASSUME NEW ts \in Seq(Turn), NEW us \in Seq(Turn), Len(us) >= Len(ts),
         \A i \in DOMAIN ts : us[i].calls = ts[i].calls,
         \A i \in DOMAIN us \ DOMAIN ts : us[i].calls = 0
  PROVE  Counted(us) = Counted(ts)
<1>1. \A i \in DOMAIN us \ DOMAIN ts : {i} \X (1..us[i].calls) = {} OBVIOUS
<1>2. DOMAIN ts \subseteq DOMAIN us OBVIOUS
<1>3. \A i \in DOMAIN ts : {i} \X (1..us[i].calls) = {i} \X (1..ts[i].calls) OBVIOUS
<1>4. QED BY <1>1, <1>2, <1>3 DEF Counted

\* What closing a turn and counting on it do to its row.
LEMMA TurnRows ==
  ASSUME NEW r \in Turn
  PROVE  /\ [r EXCEPT !.open = FALSE] \in Turn /\ ~[r EXCEPT !.open = FALSE].open
         /\ [r EXCEPT !.open = FALSE].calls = r.calls
         /\ r.calls \in Nat
         /\ \A k \in Nat : /\ [r EXCEPT !.calls = k] \in Turn
                          /\ [r EXCEPT !.calls = k].calls = k
                          /\ [r EXCEPT !.calls = k].open = r.open
  BY DEF Turn

\* A call that is counted is counted once.
LEMMA CountedOnce ==
  ASSUME NEW ts \in Seq(Turn), NEW n \in 1..Len(ts), IsFiniteSet(Counted(ts)),
         NEW us, us = [ts EXCEPT ![n].calls = @ + 1]
  PROVE  /\ us \in Seq(Turn) /\ Len(us) = Len(ts) /\ DOMAIN us = DOMAIN ts
         /\ \A i \in DOMAIN us : us[i].open = ts[i].open
         /\ IsFiniteSet(Counted(us))
         /\ Cardinality(Counted(us)) = Cardinality(Counted(ts)) + 1
<1> DEFINE k == ts[n].calls + 1
           p == <<n, k>>
<1>1. /\ ts[n] \in Turn /\ n \in DOMAIN ts /\ DOMAIN ts = 1..Len(ts) /\ Len(ts) \in Nat
      /\ \A i \in DOMAIN ts : ts[i] \in Turn
  OBVIOUS
<1>2. ts[n].calls \in Nat /\ k \in Nat /\ [ts[n] EXCEPT !.calls = k] \in Turn
      /\ [ts[n] EXCEPT !.calls = k].calls = k /\ [ts[n] EXCEPT !.calls = k].open = ts[n].open
  <2>1. ts[n].calls \in Nat BY <1>1, TurnRows
  <2>2. k \in Nat BY <2>1
  <2> HIDE DEF k
  <2>3. QED BY <1>1, <2>1, <2>2, TurnRows
<1>3. us = [ts EXCEPT ![n] = [ts[n] EXCEPT !.calls = k]] OBVIOUS
<1>4. /\ us \in Seq(Turn) /\ Len(us) = Len(ts) /\ DOMAIN us = DOMAIN ts
  BY <1>1, <1>2, <1>3
<1>5. /\ us[n] = [ts[n] EXCEPT !.calls = k] /\ \A i \in DOMAIN ts \ {n} : us[i] = ts[i]
  BY <1>1, <1>3
<1>6. us[n].calls = k /\ us[n].open = ts[n].open BY <1>2, <1>5
<1>7. \A i \in DOMAIN us : us[i].open = ts[i].open BY <1>4, <1>5, <1>6
<1>8. p \notin Counted(ts) BY <1>2 DEF Counted
<1>9. 1..k = (1..ts[n].calls) \cup {k} BY <1>2
<1>10. Counted(us) = Counted(ts) \cup {p}
  <2>1. ASSUME NEW x PROVE x \in Counted(us) <=> x \in Counted(ts) \cup {p}
    <3>1. x \in Counted(us) <=> \E i \in DOMAIN ts : x \in {i} \X (1..us[i].calls)
      BY <1>4 DEF Counted
    <3>2. x \in Counted(ts) <=> \E i \in DOMAIN ts : x \in {i} \X (1..ts[i].calls)
      BY DEF Counted
    <3>3. x \in {n} \X (1..k) <=> x \in {n} \X (1..ts[n].calls) \/ x = p
      BY <1>9
    <3>4. us[n].calls = k /\ n \in DOMAIN ts BY <1>1, <1>6
    <3> HIDE DEF p, k
    <3>5. QED BY <3>1, <3>2, <3>3, <3>4, <1>5
  <2>2. QED BY <2>1
<1> HIDE DEF p
<1>11. IsFiniteSet(Counted(us)) /\ Cardinality(Counted(us)) = Cardinality(Counted(ts)) + 1
  <2>1. /\ IsFiniteSet(Counted(ts) \cup {p})
        /\ Cardinality(Counted(ts) \cup {p}) =
             IF p \in Counted(ts) THEN Cardinality(Counted(ts)) ELSE Cardinality(Counted(ts)) + 1
    BY FS_AddElement, Zenon
  <2>2. QED BY <1>8, <1>10, <2>1
<1>12. QED BY <1>4, <1>7, <1>11

\* Every step opens a turn, closes turns or counts one call, and nothing else.
LEMMA TurnsKept ==
  ASSUME Types, \A t \in Task : TurnsOK(t), TurnMoves
  PROVE  /\ turns' \in [Task -> Seq(Turn)] /\ made' \in [Task -> Nat]
         /\ \A t \in Task : TurnsOK(t)' /\ Len(turns'[t]) >= Len(turns[t])
<1> USE DEF Types
<1>1. CASE UNCHANGED <<turns, made>>
  BY <1>1 DEF TurnsOK
<1>2. ASSUME NEW t \in Task, OpenTurn(t) \/ CloseTurn(t), UNCHANGED made
      PROVE  /\ turns' \in [Task -> Seq(Turn)] /\ made' \in [Task -> Nat]
             /\ \A u \in Task : TurnsOK(u)' /\ Len(turns'[u]) >= Len(turns[u])
  <2> DEFINE ts == turns[t]
             cs == [i \in DOMAIN ts |-> [ts[i] EXCEPT !.open = FALSE]]
             us == turns'[t]
  <2>1. ts \in Seq(Turn) /\ DOMAIN ts = 1..Len(ts) /\ Len(ts) \in Nat OBVIOUS
  <2>2. \A i \in DOMAIN ts : /\ [ts[i] EXCEPT !.open = FALSE] \in Turn
                             /\ [ts[i] EXCEPT !.open = FALSE].calls = ts[i].calls
                             /\ ~[ts[i] EXCEPT !.open = FALSE].open
    BY <2>1, TurnRows
  <2>3. cs \in Seq(Turn) /\ Len(cs) = Len(ts) /\ DOMAIN cs = DOMAIN ts
    BY <2>1, <2>2
  <2>4. \A i \in DOMAIN ts : cs[i].calls = ts[i].calls /\ ~cs[i].open
    BY <2>2
  <2> HIDE DEF cs
  <2>5. turns' = [turns EXCEPT ![t] = cs] \/
        turns' = [turns EXCEPT ![t] = Append(cs, [open |-> TRUE, calls |-> 0])]
    BY <1>2 DEF OpenTurn, CloseTurn, cs
  <2>6. [open |-> TRUE, calls |-> 0] \in Turn BY DEF Turn
  <2>7. /\ turns' \in [Task -> Seq(Turn)] /\ us \in Seq(Turn) /\ Len(us) >= Len(ts)
        /\ \A u \in Task \ {t} : turns'[u] = turns[u]
        /\ \A i \in DOMAIN ts : us[i].calls = ts[i].calls
        /\ \A i \in DOMAIN us \ DOMAIN ts : us[i].calls = 0
        /\ \A i \in DOMAIN us : us[i].open => i = Len(us)
    <3>1. CASE turns' = [turns EXCEPT ![t] = cs]
      <4>1. us = cs /\ \A u \in Task \ {t} : turns'[u] = turns[u] BY <3>1
      <4>2. QED BY <2>1, <2>3, <2>4, <3>1, <4>1
    <3>2. CASE turns' = [turns EXCEPT ![t] = Append(cs, [open |-> TRUE, calls |-> 0])]
      <4> DEFINE new == [open |-> TRUE, calls |-> 0]
      <4>1. us = Append(cs, new) /\ \A u \in Task \ {t} : turns'[u] = turns[u] BY <3>2
      <4>2. new.calls = 0 /\ new \in Turn BY <2>6
      <4> HIDE DEF new
      <4>3. /\ us \in Seq(Turn) /\ Len(us) = Len(ts) + 1 /\ DOMAIN us = 1..Len(ts) + 1
            /\ \A i \in DOMAIN ts : us[i] = cs[i]
            /\ us[Len(ts) + 1] = new
        BY <2>1, <2>3, <4>1, <4>2
      <4>4. turns' \in [Task -> Seq(Turn)] BY <3>2, <4>1, <4>3
      <4>5. \A i \in DOMAIN us \ DOMAIN ts : i = Len(us) /\ us[i] = new BY <2>1, <4>3
      <4>6. QED BY <2>1, <2>4, <4>1, <4>2, <4>3, <4>4, <4>5
    <3>3. QED BY <2>5, <3>1, <3>2
  <2>8. Counted(us) = Counted(ts) BY <2>1, <2>7, CountedKept
  <2>9. TurnsOK(t)' BY <1>2, <2>7, <2>8 DEF TurnsOK
  <2>10. \A u \in Task \ {t} : TurnsOK(u)' /\ Len(turns'[u]) >= Len(turns[u])
    BY <1>2, <2>7 DEF TurnsOK
  <2>11. QED BY <1>2, <2>7, <2>9, <2>10
<1>3. ASSUME NEW t \in Task, run[t].agent \in 1..Len(turns[t]), Counts(t, run[t].agent)
      PROVE  /\ turns' \in [Task -> Seq(Turn)] /\ made' \in [Task -> Nat]
             /\ \A u \in Task : TurnsOK(u)' /\ Len(turns'[u]) >= Len(turns[u])
  <2> DEFINE ts == turns[t]
             us == [ts EXCEPT ![run[t].agent].calls = @ + 1]
  <2>1. /\ turns' = [turns EXCEPT ![t] = us] /\ made' = [made EXCEPT ![t] = @ + 1]
        /\ ts \in Seq(Turn) /\ IsFiniteSet(Counted(ts))
    BY <1>3 DEF Counts, TurnsOK
  <2>2. /\ us \in Seq(Turn) /\ Len(us) = Len(ts) /\ DOMAIN us = DOMAIN ts
        /\ \A i \in DOMAIN us : us[i].open = ts[i].open
        /\ IsFiniteSet(Counted(us))
        /\ Cardinality(Counted(us)) = Cardinality(Counted(ts)) + 1
    BY <1>3, <2>1, CountedOnce
  <2> HIDE DEF us
  <2>3. turns' \in [Task -> Seq(Turn)] /\ made' \in [Task -> Nat]
        /\ turns'[t] = us /\ made'[t] = made[t] + 1
        /\ \A u \in Task \ {t} : turns'[u] = turns[u] /\ made'[u] = made[u]
    BY <2>1, <2>2
  <2>4. TurnsOK(t)' BY <2>2, <2>3 DEF TurnsOK
  <2>5. \A u \in Task \ {t} : TurnsOK(u)' /\ Len(turns'[u]) >= Len(turns[u])
    BY <2>3 DEF TurnsOK
  <2>6. Len(turns'[t]) >= Len(turns[t]) BY <2>1, <2>2, <2>3
  <2>7. QED BY <2>3, <2>4, <2>5, <2>6
<1>4. QED BY <1>1, <1>2, <1>3 DEF TurnMoves

-----------------------------------------------------------------------------
(* The runs *)

RunsKept ==
  /\ file' \in Effort /\ wants' \in [Task -> Effort]
  /\ session' \in [Task -> SessionRow] /\ run' \in [Task -> RunRow]
  /\ \A t \in Task : RunOK(t)'

TurnsGrow ==
  /\ turns' \in [Task -> Seq(Turn)]
  /\ \A t \in Task : Len(turns'[t]) >= Len(turns[t])

\* The run of u is left alone, or notes that somebody else wrote the file.
Beside(u) ==
  /\ session'[u] = session[u]
  /\ \/ run'[u] = run[u] /\ (file' = file \/ run[u].at # "running")
     \/ run'[u] = [run[u] EXCEPT !.mixed = TRUE]

\* Such a run keeps what it owes, also when its task is given another turn.
LEMMA BesideKept ==
  ASSUME Types, NEW u \in Task, RunOK(u), Beside(u), TurnsGrow
  PROVE  RunOK(u)' /\ run'[u] \in RunRow
<1>1. /\ run[u] \in RunRow /\ turns[u] \in Seq(Turn) /\ turns'[u] \in Seq(Turn)
      /\ Len(turns'[u]) >= Len(turns[u])
  BY DEF Types, TurnsGrow
<1>2. Len(turns[u]) \in Nat /\ Len(turns'[u]) \in Nat BY <1>1
<1>3. CASE run'[u] = run[u] /\ (file' = file \/ run[u].at # "running")
  BY <1>1, <1>2, <1>3 DEF RunOK, Beside, RunRow
<1>4. CASE run'[u] = [run[u] EXCEPT !.mixed = TRUE]
  <2>1. /\ run'[u] \in RunRow /\ run'[u].mixed
        /\ run'[u].at = run[u].at /\ run'[u].attempt = run[u].attempt
        /\ run'[u].agent = run[u].agent /\ run'[u].drained = run[u].drained
        /\ run'[u].queued = run[u].queued
    BY <1>1, <1>4 DEF RunRow
  <2>2. QED BY <1>1, <1>2, <2>1 DEF RunOK, Beside
<1>5. QED BY <1>3, <1>4 DEF Beside

\* The others' runs when t moves and writes the file, or leaves it alone.
LEMMA Moved ==
  ASSUME Types, \A u \in Task : RunOK(u), NEW t \in Task,
         TurnsGrow,
         file' \in Effort, wants' \in [Task -> Effort],
         NEW r \in RunRow, NEW s \in SessionRow,
         session' = [session EXCEPT ![t] = s],
         \/ run' = [run EXCEPT ![t] = r] /\ UNCHANGED file
         \/ run' = [Mixed(Task \ {t}) EXCEPT ![t] = r],
         RunOK(t)'
  PROVE  RunsKept
<1> USE DEF Types
<1>1. session' \in [Task -> SessionRow] OBVIOUS
<1>2. \A u \in Task \ {t} : Beside(u) BY DEF Beside, Mixed
<1>3. run'[t] = r BY DEF Mixed
<1>4. \A u \in Task \ {t} : RunOK(u)' /\ run'[u] \in RunRow BY <1>2, BesideKept
<1>5. run' \in [Task -> RunRow]
  <2>1. run' = [u \in Task |-> run'[u]] BY DEF Mixed
  <2>2. QED BY <1>3, <1>4, <2>1
<1>6. QED BY <1>1, <1>4, <1>5 DEF RunsKept

\* What is the same for every step of a run.
LEMMA TaskFacts ==
  ASSUME SessionsIInv, NEW t \in Task
  PROVE  /\ run[t] \in RunRow /\ session[t] \in SessionRow /\ turns[t] \in Seq(Turn)
         /\ wants[t] \in Effort /\ Len(turns[t]) \in Nat
         /\ RunOK(t) /\ TurnsOK(t)
         /\ session = [session EXCEPT ![t] = session[t]]
<1>1. session \in [Task -> SessionRow] /\ turns[t] \in Seq(Turn) BY DEF SessionsIInv, Types
<1>2. QED BY <1>1 DEF SessionsIInv, Types

\* What a step does to the clients and to the turns.
LEMMA StepMoves ==
  ASSUME SessionsIInv, SessionsNext
  PROVE  ClientMoves /\ TurnMoves
<1> USE DEF ClientMoves, TurnMoves
<1>1. CASE ClientSteps
  BY <1>1 DEF ClientSteps, Starts, Stops
<1>2. CASE ClientFaults
  BY <1>2 DEF ClientFaults, StartFails, Dies
<1>3. CASE ShotBegins BY <1>3 DEF ShotBegins
<1>4. CASE ShotSteps BY <1>4 DEF ShotSteps, ShotAsksAgain, ShotEnds, ShotFails
<1>5. ASSUME NEW t \in Task,
             Ask(t) \/ Choose(t) \/ RunSteps(t) \/ Calls(t) \/ Refused(t) \/ GetsStuck(t)
      PROVE  ClientMoves /\ TurnMoves
  <2>1. CASE Ask(t) BY <2>1 DEF Ask
  <2>2. CASE Choose(t) BY <2>2 DEF Choose
  <2>3. CASE KeepsSession(t) \/ AsksClient(t) \/ Created(t) \/ CreateFails(t) \/ StageBegins(t)
    BY <2>3 DEF KeepsSession, AsksClient, Created, CreateFails, StageBegins, RunOver
  <2>4. CASE StageEnds(t) BY <2>4 DEF StageEnds
  <2>5. CASE TurnEnds(t) \/ Delivered(t) BY <2>5 DEF TurnEnds, Delivered, RunOver
  <2>6. CASE Watchdog(t) \/ ConnectionClosed(t)
    BY <2>6 DEF Watchdog, ConnectionClosed, TurnFails
  <2>7. CASE Retries(t) \/ GivesUp(t) \/ Refused(t) \/ GetsStuck(t)
    BY <2>7 DEF Retries, GivesUp, Refused, GetsStuck, RunOver
  <2>8. CASE Calls(t)
    BY <2>8, TaskFacts DEF Calls, At, RunOK
  <2>9. QED BY <1>5, <2>1, <2>2, <2>3, <2>4, <2>5, <2>6, <2>7, <2>8 DEF RunSteps
<1>6. QED BY <1>1, <1>2, <1>3, <1>4, <1>5 DEF SessionsNext

\* What a prompt, and the prompt of a message, do to a run.
LEMMA PromptedRow ==
  ASSUME NEW r \in RunRow
  PROVE  /\ Prompted(r) \in RunRow /\ Prompted(r).at = "running"
         /\ ~Prompted(r).misled /\ ~Prompted(r).mixed
         /\ Prompted(r).attempt = r.attempt /\ Prompted(r).agent = r.agent
         /\ Prompted(r).queued = r.queued /\ Prompted(r).drained = r.drained
  BY DEF RunRow, Place, Prompted

LEMMA InterruptedRow ==
  ASSUME NEW t \in Task, run[t] \in RunRow, run[t].queued > 0, NEW a \in Nat
  PROVE  /\ Interrupted(t, a) \in RunRow /\ Interrupted(t, a).at = "running"
         /\ ~Interrupted(t, a).misled /\ ~Interrupted(t, a).mixed
         /\ Interrupted(t, a).agent = a /\ Interrupted(t, a).drained
<1> DEFINE p == Prompted(run[t])
           n == run[t].queued - 1
<1>1. p \in RunRow /\ p.at = "running" /\ ~p.misled /\ ~p.mixed BY PromptedRow
<1>2. n \in Nat BY DEF RunRow
<1>3. Interrupted(t, a) = [p EXCEPT !.agent = a, !.queued = n, !.drained = TRUE]
  BY DEF Interrupted
<1> HIDE DEF p, n
<1>4. QED BY <1>1, <1>2, <1>3 DEF RunRow

\* The first turn of an attempt begins on the session that the run got.
LEMMA TurnBeginsOK ==
  ASSUME SessionsIInv, NEW t \in Task, TurnBegins(t), UNCHANGED <<session, wants>>,
         TurnsGrow, run[t].at = "staging"
  PROVE  RunsKept
<1> DEFINE r == Prompted(run[t])
<1>1. /\ run[t] \in RunRow /\ session[t] \in SessionRow /\ Len(turns[t]) \in Nat
      /\ RunOK(t) /\ session' = [session EXCEPT ![t] = session[t]]
      /\ turns'[t] \in Seq(Turn) /\ Len(turns'[t]) >= Len(turns[t])
  BY TaskFacts DEF TurnsGrow
<1>2. /\ r \in RunRow /\ r.at = "running" /\ ~r.misled /\ ~r.mixed
      /\ r.attempt = run[t].attempt /\ r.agent = run[t].agent /\ r.drained = run[t].drained
  BY <1>1, PromptedRow
<1>3. run' = [Mixed(Task \ {t}) EXCEPT ![t] = r] /\ file' = session[t].effort
  BY DEF TurnBegins, Writes, Mixed
<1> HIDE DEF r
<1>4. run'[t] = r BY <1>3 DEF Mixed
<1>5. Len(turns'[t]) \in Nat BY <1>1
<1>6. RunOK(t)' BY <1>1, <1>2, <1>3, <1>4, <1>5 DEF RunOK
<1>7. QED
  BY <1>1, <1>2, <1>3, <1>6, Moved DEF SessionsIInv, Types, SessionRow

\* A message's turn begins on whatever session the run has.
LEMMA FollowsUpOK ==
  ASSUME SessionsIInv, TurnsGrow, NEW t \in Task, NEW a \in 1..Len(turns[t]), FollowsUp(t, a),
         NEW s \in SessionRow, s.effort = session[t].effort,
         session' = [session EXCEPT ![t] = s], UNCHANGED wants
  PROVE  RunsKept
<1> DEFINE r == Interrupted(t, a)
<1>1. /\ run[t] \in RunRow /\ session[t] \in SessionRow /\ Len(turns[t]) \in Nat
      /\ turns'[t] \in Seq(Turn) /\ Len(turns'[t]) >= Len(turns[t])
  BY TaskFacts DEF TurnsGrow
<1>2. a \in Nat /\ run[t].queued > 0 BY <1>1 DEF FollowsUp
<1>3. r \in RunRow /\ r.at = "running" /\ ~r.misled /\ ~r.mixed /\ r.agent = a /\ r.drained
  BY <1>1, <1>2, InterruptedRow
<1>4. run' = [Mixed(Task \ {t}) EXCEPT ![t] = r] /\ file' = session[t].effort
  BY DEF FollowsUp, Writes
<1> HIDE DEF r
<1>5. run'[t] = r BY <1>4 DEF Mixed
<1>6. session'[t] = s /\ Len(turns'[t]) \in Nat BY <1>1 DEF SessionsIInv, Types
<1>7. RunOK(t)' BY <1>1, <1>3, <1>4, <1>5, <1>6 DEF RunOK
<1>8. QED BY <1>1, <1>3, <1>4, <1>7, Moved DEF SessionsIInv, Types, SessionRow

\* Steps of clients and of people, and those of the one-shot call: no run moves.
LEMMA NoRunMoves ==
  ASSUME SessionsIInv, TurnsGrow, wants' \in [Task -> Effort],
         UNCHANGED <<session>>,
         \/ UNCHANGED <<file, run>>
         \/ file' \in Effort /\ run' = Mixed(Task)
  PROVE  RunsKept
<1> USE DEF SessionsIInv, Types
<1>1. \A u \in Task : Beside(u) BY DEF Beside, Mixed
<1>2. \A u \in Task : RunOK(u)' /\ run'[u] \in RunRow BY <1>1, BesideKept
<1>3. run' \in [Task -> RunRow]
  <2>1. run' = [u \in Task |-> run'[u]] BY DEF Mixed
  <2>2. QED BY <1>2, <2>1
<1>4. QED BY <1>2, <1>3 DEF RunsKept

\* Clients, the one-shot call and a change of effort do no run any harm.
LEMMA OthersOK ==
  ASSUME SessionsIInv, TurnsGrow,
         \/ ClientSteps \/ ClientFaults \/ ShotBegins \/ ShotSteps
         \/ \E t \in Task : Choose(t)
  PROVE  RunsKept
<1> USE NoRunMoves DEF SessionsIInv, Types
<1>1. CASE ClientSteps BY <1>1 DEF ClientSteps, Starts, Stops
<1>2. CASE ClientFaults BY <1>2 DEF ClientFaults, StartFails, Dies
<1>3. CASE ShotBegins BY <1>3, SessionsAssumption DEF ShotBegins, Writes
<1>4. CASE ShotSteps BY <1>4 DEF ShotSteps, ShotAsksAgain, ShotEnds, ShotFails
<1>5. ASSUME NEW t \in Task, Choose(t) PROVE RunsKept BY <1>5 DEF Choose
<1>6. QED BY <1>1, <1>2, <1>3, <1>4, <1>5

\* A message begins a run, with a turn of its own, or waits for the agent.
LEMMA AskOK == ASSUME SessionsIInv, TurnsGrow, NEW t \in Task, Ask(t) PROVE RunsKept
<1>0. /\ run[t] \in RunRow /\ RunOK(t) /\ session[t] \in SessionRow
      /\ session = [session EXCEPT ![t] = session[t]]
      /\ Len(turns[t]) \in Nat /\ turns'[t] \in Seq(Turn) /\ Len(turns'[t]) >= Len(turns[t])
      /\ UNCHANGED <<file, session, wants>>
  BY TaskFacts DEF TurnsGrow, Ask
<1>1. ASSUME run[t].at = "idle", run' = [run EXCEPT ![t] = [Rest EXCEPT !.at = "session"]]
      PROVE  RunsKept
  <2> DEFINE r == [Rest EXCEPT !.at = "session"]
  <2>1. /\ r \in RunRow /\ r.at = "session" /\ r.attempt = 1 /\ ~r.misled /\ ~r.drained
    <3>1. 1 \in 1..MaxAttempts BY SessionsAssumption
    <3>2. QED BY <3>1 DEF RunRow, Place, Rest
  <2>2. run' = [run EXCEPT ![t] = r] BY <1>1
  <2> HIDE DEF r
  <2>3. run'[t] = r BY <2>2 DEF SessionsIInv, Types
  <2>4. Len(turns'[t]) > 0
    <3> DEFINE cs == [i \in DOMAIN turns[t] |-> [turns[t][i] EXCEPT !.open = FALSE]]
               new == [open |-> TRUE, calls |-> 0]
    <3>1. turns'[t] = Append(cs, new) BY DEF Ask, OpenTurn, SessionsIInv, Types
    <3>2. \A i \in DOMAIN turns[t] : [turns[t][i] EXCEPT !.open = FALSE] \in Turn
      BY TaskFacts, TurnRows
    <3>3. cs \in Seq(Turn)
      <4>1. turns[t] \in Seq(Turn) /\ Len(turns[t]) \in Nat BY TaskFacts
      <4>2. DOMAIN turns[t] = 1..Len(turns[t]) BY <4>1
      <4>3. QED BY <3>2, <4>1, <4>2
    <3> HIDE DEF cs, new
    <3>4. QED BY <3>1, <3>3
  <2>5. RunOK(t)' BY <2>1, <2>3, <2>4 DEF RunOK
  <2>6. QED BY <1>0, <2>1, <2>2, <2>5, Moved DEF SessionsIInv, Types
<1>2. ASSUME InFlight(t), NEW b \in {run[t].stuck, FALSE},
             run' = [run EXCEPT ![t].queued = @ + 1, ![t].stuck = b]
      PROVE  RunsKept
  <2> DEFINE n == run[t].queued + 1
             r == [run[t] EXCEPT !.queued = n, !.stuck = b]
  <2>1. n \in Nat /\ b \in BOOLEAN
    <3>1. run[t].queued \in Nat /\ run[t].stuck \in BOOLEAN BY <1>0 DEF RunRow
    <3>2. b = run[t].stuck \/ b = FALSE BY <1>2
    <3>3. b \in BOOLEAN BY <3>1, <3>2, Zenon
    <3>4. QED BY <3>1, <3>3
  <2>2. run' = [run EXCEPT ![t] = r] BY <1>2
  <2> HIDE DEF n
  <2>3. /\ r \in RunRow /\ r.at = run[t].at /\ r.attempt = run[t].attempt
        /\ r.agent = run[t].agent /\ r.mixed = run[t].mixed /\ r.misled = run[t].misled
        /\ r.drained = run[t].drained
    BY <1>0, <2>1 DEF RunRow
  <2> HIDE DEF r
  <2>4. run'[t] = r BY <2>2 DEF SessionsIInv, Types
  <2>5. Len(turns'[t]) \in Nat BY <1>0
  <2>6. RunOK(t)' BY <1>0, <2>3, <2>4, <2>5 DEF RunOK
  <2>7. QED BY <1>0, <2>2, <2>3, <2>6, Moved DEF SessionsIInv, Types
<1>3. CASE UNCHANGED run BY <1>0, <1>3, NoRunMoves DEF SessionsIInv, Types
<1>4. QED BY <1>1, <1>2, <1>3 DEF Ask

\* A step that leaves the file alone and does not change what the turn of its
\* run is worth: to the next place on the way to a turn, to the end, to a
\* failure, or from the turns to the delivery.
LEMMA Onward ==
  ASSUME SessionsIInv, TurnsGrow, NEW t \in Task, NEW r \in RunRow, NEW s \in SessionRow,
         run' = [run EXCEPT ![t] = r], session' = [session EXCEPT ![t] = s],
         UNCHANGED <<file, wants>>,
         \/ r = Rest
         \/ /\ run[t].at # "idle" /\ r.misled = run[t].misled /\ r.mixed = run[t].mixed
            /\ r.drained = run[t].drained
            /\ \/ r.at = "failing" /\ ~r.drained
               \/ /\ r.at \in {"creating", "stage", "staging"}
                  /\ run[t].at \notin {"failing", "running", "delivering"}
                  /\ r.attempt = run[t].attempt /\ s = session[t]
                  /\ r.at # "creating" => r.agent \in 1..Len(turns[t])
               \/ /\ r.at = "delivering" /\ run[t].at # "failing"
                  /\ r.attempt = run[t].attempt /\ (s = session[t] \/ r.drained)
  PROVE  RunsKept
<1>1. /\ run[t] \in RunRow /\ session[t] \in SessionRow /\ Len(turns[t]) \in Nat
      /\ RunOK(t) /\ session'[t] = s
      /\ run'[t] = r /\ turns'[t] \in Seq(Turn) /\ Len(turns'[t]) >= Len(turns[t])
  BY TaskFacts DEF SessionsIInv, Types, TurnsGrow
<1>2. Len(turns'[t]) \in Nat BY <1>1
<1>3. RunOK(t)'
  <2>1. CASE r = Rest BY <1>1, <2>1 DEF RunOK, Rest
  <2>2. CASE r # Rest BY <1>1, <1>2, <2>2 DEF RunOK
  <2>3. QED BY <2>1, <2>2
<1>4. QED BY <1>3, Moved DEF SessionsIInv, Types

\* A run that is over rests.
LEMMA RunOverOK ==
  ASSUME SessionsIInv, TurnsGrow, NEW t \in Task, RunOver(t), UNCHANGED <<file, session, wants>>
  PROVE  RunsKept
<1>1. Rest \in RunRow
  <2>1. 1 \in 1..MaxAttempts BY SessionsAssumption
  <2>2. QED BY <2>1 DEF RunRow, Place, Rest
<1>2. session[t] \in SessionRow /\ session' = [session EXCEPT ![t] = session[t]] BY TaskFacts
<1>3. QED BY <1>1, <1>2, Onward DEF RunOver

\* After a turn the next message has its own, or the delivery comes; a message's
\* turn may have broken the session.
LEMMA GoesOnOK ==
  ASSUME SessionsIInv, TurnsGrow, NEW t \in Task, GoesOn(t), run[t].at = "running",
         NEW s \in SessionRow, s.effort = session[t].effort, s = session[t] \/ run[t].drained,
         session' = [session EXCEPT ![t] = s], UNCHANGED wants
  PROVE  RunsKept
<1>1. run[t] \in RunRow /\ RunOK(t) BY TaskFacts
<1>2. CASE FollowsUp(t, run[t].agent) BY <1>1, <1>2, FollowsUpOK DEF RunOK
<1>3. ASSUME run' = [run EXCEPT ![t].at = "delivering"], UNCHANGED file PROVE RunsKept
  <2> DEFINE r == [run[t] EXCEPT !.at = "delivering"]
  <2>1. /\ r \in RunRow /\ r.at = "delivering" /\ r.attempt = run[t].attempt
        /\ r.misled = run[t].misled /\ r.mixed = run[t].mixed /\ r.drained = run[t].drained
    BY <1>1 DEF RunRow, Place
  <2>2. run' = [run EXCEPT ![t] = r] BY <1>3
  <2> HIDE DEF r
  <2>3. QED BY <1>3, <2>1, <2>2, Onward
<1>4. QED BY <1>2, <1>3 DEF GoesOn

\* A turn that fails breaks its session, and fails its attempt unless it was a
\* message's.
LEMMA TurnFailsOK ==
  ASSUME SessionsIInv, NEW t \in Task, TurnFails(t), TurnsGrow, run[t].at = "running"
  PROVE  RunsKept
<1> DEFINE r == [run[t] EXCEPT !.at = "failing"]
           s == [session[t] EXCEPT !.broken = TRUE]
<1>1. run[t] \in RunRow /\ session[t] \in SessionRow BY TaskFacts
<1>2. /\ r \in RunRow /\ r.at = "failing" /\ r.misled = run[t].misled /\ r.mixed = run[t].mixed
      /\ r.drained = run[t].drained
      /\ s \in SessionRow /\ s.effort = session[t].effort
  BY <1>1 DEF RunRow, Place, SessionRow
<1>3. session' = [session EXCEPT ![t] = s] /\ UNCHANGED wants BY DEF TurnFails
<1>4. \/ run[t].drained /\ GoesOn(t)
      \/ ~run[t].drained /\ run' = [run EXCEPT ![t] = r] /\ UNCHANGED file
  BY DEF TurnFails
<1> HIDE DEF r, s
<1>5. CASE run[t].drained /\ GoesOn(t) BY <1>2, <1>3, <1>5, GoesOnOK
<1>6. CASE ~run[t].drained /\ run' = [run EXCEPT ![t] = r] /\ UNCHANGED file
  BY <1>2, <1>3, <1>6, Onward
<1>7. QED BY <1>4, <1>5, <1>6

\* The coder that is registered belongs to the last turn there is.
LEMMA RegisteredRow ==
  ASSUME SessionsIInv, NEW t \in Task, run[t].at # "idle"
  PROVE  /\ Registered(t) \in RunRow /\ Registered(t).at = "stage"
         /\ Registered(t).attempt = run[t].attempt
         /\ Registered(t).misled = run[t].misled /\ Registered(t).mixed = run[t].mixed
         /\ Registered(t).drained = run[t].drained
         /\ Registered(t).agent \in 1..Len(turns[t])
<1>1. run[t] \in RunRow /\ Len(turns[t]) \in Nat /\ Len(turns[t]) > 0
  BY TaskFacts DEF RunOK
<1>2. Len(turns[t]) \in 1..Len(turns[t]) BY <1>1
<1>3. QED BY <1>1, <1>2 DEF Registered, RunRow, Place

\* A run keeps its session, asks for a client, or gets none.
LEMMA SessionStepsOK ==
  ASSUME SessionsIInv, TurnsGrow, NEW t \in Task,
         KeepsSession(t) \/ AsksClient(t) \/ CreateFails(t)
  PROVE  RunsKept
<1>1. /\ run[t] \in RunRow /\ 0 \in Client \cup {0} /\ RunOK(t)
      /\ session[t] \in SessionRow /\ session = [session EXCEPT ![t] = session[t]]
  BY TaskFacts
<1>2. CASE KeepsSession(t)
  <2>1. /\ run' = [run EXCEPT ![t] = Registered(t)] /\ UNCHANGED <<file, session, wants>>
        /\ run[t].at = "session"
    BY <1>2 DEF KeepsSession, At
  <2>2. QED BY <1>1, <2>1, RegisteredRow, Onward
<1>3. ASSUME NEW c \in Client, run[t].at = "session",
             run' = [run EXCEPT ![t].at = "creating", ![t].client = c],
             UNCHANGED <<file, session, wants>>
      PROVE  RunsKept
  <2> DEFINE r == [run[t] EXCEPT !.at = "creating", !.client = c]
  <2>1. /\ r \in RunRow /\ r.at = "creating" /\ r.attempt = run[t].attempt
        /\ r.misled = run[t].misled /\ r.mixed = run[t].mixed /\ r.drained = run[t].drained
    BY <1>1 DEF RunRow, Place
  <2>2. run' = [run EXCEPT ![t] = r] BY <1>3
  <2> HIDE DEF r
  <2>3. QED BY <1>1, <1>3, <2>1, <2>2, Onward
<1>4. CASE CreateFails(t)
  <2> DEFINE r == [run[t] EXCEPT !.at = "failing", !.client = 0]
  <2>1. /\ r \in RunRow /\ r.at = "failing" /\ r.drained = run[t].drained
        /\ r.misled = run[t].misled /\ r.mixed = run[t].mixed
    BY <1>1 DEF RunRow, Place
  <2>2. /\ UNCHANGED <<file, session, wants>> /\ run[t].at = "creating"
        /\ run' = [run EXCEPT ![t] = r] \/ RunOver(t)
    BY <1>4 DEF CreateFails, At
  <2>3. ~run[t].drained BY <1>1, <2>2 DEF RunOK
  <2> HIDE DEF r
  <2>4. QED BY <1>1, <2>1, <2>2, <2>3, Onward, RunOverOK
<1>5. QED BY <1>2, <1>3, <1>4 DEF AsksClient, At

\* A new session and a bounded stage write the file, and have no turn themselves.
LEMMA WriteOK ==
  ASSUME SessionsIInv, TurnsGrow, NEW t \in Task, NEW r \in RunRow, NEW s \in SessionRow,
         run' = [Mixed(Task \ {t}) EXCEPT ![t] = r],
         session' = [session EXCEPT ![t] = s], file' \in Effort, UNCHANGED wants,
         r.at \in {"stage", "staging"}, run[t].at \notin {"idle", "failing"},
         r.misled = run[t].misled, r.mixed = run[t].mixed,
         r.drained = run[t].drained, ~r.drained, r.agent \in 1..Len(turns[t]),
         r.attempt = run[t].attempt, s = session[t] \/ ~s.broken
  PROVE  RunsKept
<1>1. /\ RunOK(t) /\ Len(turns[t]) \in Nat /\ run'[t] = r /\ session'[t] = s
      /\ turns'[t] \in Seq(Turn) /\ Len(turns'[t]) >= Len(turns[t])
  BY TaskFacts DEF SessionsIInv, Types, TurnsGrow, Mixed
<1>2. Len(turns'[t]) \in Nat BY <1>1
<1>3. RunOK(t)' BY <1>1, <1>2 DEF RunOK
<1>4. QED BY <1>3, Moved DEF SessionsIInv, Types

\* The new session is not broken.
LEMMA CreatedOK == ASSUME SessionsIInv, TurnsGrow, NEW t \in Task, Created(t) PROVE RunsKept
<1> DEFINE s == [client |-> run[t].client, effort |-> wants[t], broken |-> FALSE]
<1>1. /\ run[t] \in RunRow /\ wants[t] \in Effort /\ RunOK(t) BY TaskFacts
<1>2. s \in SessionRow /\ ~s.broken BY <1>1 DEF RunRow, SessionRow
<1>3. /\ run' = [Mixed(Task \ {t}) EXCEPT ![t] = Registered(t)]
      /\ session' = [session EXCEPT ![t] = s]
      /\ file' = wants[t] /\ UNCHANGED wants /\ run[t].at = "creating"
  BY DEF Created, Writes, At
<1>4. ~run[t].drained BY <1>1, <1>3 DEF RunOK
<1> HIDE DEF s
<1>5. QED BY <1>1, <1>2, <1>3, <1>4, RegisteredRow, WriteOK

\* A bounded stage writes the effort of its own.
LEMMA StageBeginsOK == ASSUME SessionsIInv, TurnsGrow, NEW t \in Task, StageBegins(t) PROVE RunsKept
<1>1. /\ run[t] \in RunRow /\ session[t] \in SessionRow /\ RunOK(t)
      /\ session = [session EXCEPT ![t] = session[t]]
  BY TaskFacts
<1>2. PICK c \in Client : run' = [Mixed(Task \ {t}) EXCEPT ![t].at = "staging", ![t].client = c]
  BY DEF StageBegins
<1> DEFINE r == [run[t] EXCEPT !.at = "staging", !.client = c]
<1>3. /\ r \in RunRow /\ r.at = "staging" /\ r.attempt = run[t].attempt
      /\ r.misled = run[t].misled /\ r.mixed = run[t].mixed
      /\ r.drained = run[t].drained /\ r.agent = run[t].agent
  BY <1>1 DEF RunRow, Place
<1>4. /\ run' = [Mixed(Task \ {t}) EXCEPT ![t] = r] BY <1>2 DEF Mixed
<1>5. /\ UNCHANGED <<session, wants>> /\ file' = ShotEffort /\ run[t].at = "stage"
  BY DEF StageBegins, Writes, At
<1> HIDE DEF r
<1>6. ~run[t].drained /\ run[t].agent \in 1..Len(turns[t]) BY <1>1, <1>5 DEF RunOK
<1>7. QED BY <1>1, <1>3, <1>4, <1>5, <1>6, WriteOK, SessionsAssumption

\* While its turn runs, the file holds the session's effort or somebody wrote it.
LEMMA RunningOK ==
  ASSUME SessionsIInv, TurnsGrow, NEW t \in Task, Calls(t) \/ GetsStuck(t)
  PROVE  RunsKept
<1>1. /\ run[t] \in RunRow /\ RunOK(t) /\ session[t] \in SessionRow
      /\ session = [session EXCEPT ![t] = session[t]]
      /\ Len(turns[t]) \in Nat /\ turns'[t] \in Seq(Turn) /\ Len(turns'[t]) >= Len(turns[t])
  BY TaskFacts DEF TurnsGrow
<1>2. Len(turns'[t]) \in Nat BY <1>1
<1>3. ASSUME NEW r \in RunRow, run' = [run EXCEPT ![t] = r], UNCHANGED <<file, session, wants>>,
             run[t].at = "running", r.at = "running", r.attempt = run[t].attempt,
             r.agent = run[t].agent, r.mixed = run[t].mixed, r.drained = run[t].drained,
             r.misled => run[t].misled \/ file # session[t].effort
      PROVE  RunsKept
  <2>1. run'[t] = r BY <1>3 DEF SessionsIInv, Types
  <2>2. RunOK(t)' BY <1>1, <1>2, <1>3, <2>1 DEF RunOK
  <2>3. QED BY <1>1, <1>3, <2>2, Moved DEF SessionsIInv, Types
<1>4. CASE Calls(t)
  <2> DEFINE b == run[t].misled \/ file # session[t].effort
             r == [run[t] EXCEPT !.misled = b]
  <2>1. b \in BOOLEAN OBVIOUS
  <2>2. run' = [run EXCEPT ![t] = r] /\ UNCHANGED <<file, session, wants>> /\ run[t].at = "running"
    BY <1>4 DEF Calls, At
  <2>3. b => run[t].misled \/ file # session[t].effort OBVIOUS
  <2> HIDE DEF b
  <2>4. /\ r \in RunRow /\ r.at = run[t].at /\ r.attempt = run[t].attempt
        /\ r.agent = run[t].agent /\ r.mixed = run[t].mixed /\ r.misled = b
        /\ r.drained = run[t].drained
    BY <1>1, <2>1 DEF RunRow
  <2> HIDE DEF r
  <2>5. QED BY <1>3, <2>2, <2>3, <2>4
<1>5. CASE GetsStuck(t)
  <2> DEFINE r == [run[t] EXCEPT !.stuck = TRUE]
  <2>1. run' = [run EXCEPT ![t] = r] /\ UNCHANGED <<file, session, wants>> /\ run[t].at = "running"
    BY <1>5 DEF GetsStuck, At
  <2>2. /\ r \in RunRow /\ r.at = run[t].at /\ r.attempt = run[t].attempt
        /\ r.agent = run[t].agent /\ r.mixed = run[t].mixed /\ r.misled = run[t].misled
        /\ r.drained = run[t].drained
    BY <1>1 DEF RunRow
  <2> HIDE DEF r
  <2>3. QED BY <1>3, <2>1, <2>2
<1>6. QED BY <1>4, <1>5

\* A retry leaves the broken session behind.
LEMMA RetriesOK == ASSUME SessionsIInv, TurnsGrow, NEW t \in Task, Retries(t) PROVE RunsKept
<1> DEFINE r == [run[t] EXCEPT !.at = "session", !.attempt = @ + 1]
<1>1. /\ run[t] \in RunRow /\ RunOK(t)
      /\ Len(turns[t]) \in Nat /\ turns'[t] \in Seq(Turn) /\ Len(turns'[t]) >= Len(turns[t])
  BY TaskFacts DEF TurnsGrow
<1>2. NoSession \in SessionRow /\ ~NoSession.broken
  BY SessionsAssumption DEF NoSession, SessionRow
<1>3. /\ run' = [run EXCEPT ![t] = r] /\ session' = [session EXCEPT ![t] = NoSession]
      /\ UNCHANGED <<file, wants>> /\ run[t].at = "failing" /\ run[t].attempt < MaxAttempts
  BY DEF Retries, At
<1>4. run[t].attempt + 1 \in 1..MaxAttempts
  BY <1>1, <1>3, SessionsAssumption DEF RunRow
<1>5. /\ r \in RunRow /\ r.at = "session" /\ r.misled = run[t].misled
      /\ r.mixed = run[t].mixed /\ r.drained = run[t].drained
  BY <1>1, <1>4 DEF RunRow, Place
<1> HIDE DEF r
<1>6. Len(turns'[t]) \in Nat /\ run'[t] = r /\ session'[t] = NoSession
  BY <1>1, <1>3 DEF SessionsIInv, Types
<1>7. RunOK(t)' BY <1>1, <1>2, <1>3, <1>5, <1>6 DEF RunOK
<1>8. QED BY <1>2, <1>3, <1>5, <1>7, Moved DEF SessionsIInv, Types

\* A turn begins, ends, is refused, given up or fails.
LEMMA TurnStepsOK ==
  ASSUME SessionsIInv, TurnsGrow, NEW t \in Task,
         \/ StageEnds(t) \/ TurnEnds(t) \/ Delivered(t) \/ Refused(t) \/ GivesUp(t)
         \/ Watchdog(t) \/ ConnectionClosed(t)
  PROVE  RunsKept
<1>1. CASE StageEnds(t) BY <1>1, TurnBeginsOK DEF StageEnds, At
<1>2. /\ RunOK(t) /\ session[t] \in SessionRow /\ Len(turns[t]) \in Nat
      /\ session = [session EXCEPT ![t] = session[t]]
  BY TaskFacts
<1>3. CASE TurnEnds(t) BY <1>2, <1>3, GoesOnOK DEF TurnEnds, At
<1>4. CASE Delivered(t)
  <2>1. CASE FollowsUp(t, Len(turns[t]))
    <3>1. Len(turns[t]) > 0 BY <1>2, <1>4 DEF RunOK, Delivered, At
    <3>2. Len(turns[t]) \in 1..Len(turns[t]) BY <1>2, <3>1
    <3>3. QED BY <1>2, <1>4, <2>1, <3>2, FollowsUpOK DEF Delivered
  <2>2. CASE RunOver(t) /\ UNCHANGED file BY <1>4, <2>2, RunOverOK DEF Delivered
  <2>3. QED BY <1>4, <2>1, <2>2 DEF Delivered
<1>5. CASE Refused(t)
  <2>1. CASE GoesOn(t) BY <1>2, <1>5, <2>1, GoesOnOK DEF Refused, At
  <2>2. CASE RunOver(t) /\ UNCHANGED file BY <1>5, <2>2, RunOverOK DEF Refused
  <2>3. QED BY <1>5, <2>1, <2>2 DEF Refused
<1>6. CASE GivesUp(t) BY <1>6, RunOverOK DEF GivesUp
<1>7. CASE Watchdog(t) \/ ConnectionClosed(t)
  BY <1>7, TurnFailsOK DEF Watchdog, ConnectionClosed, At
<1>8. QED BY <1>1, <1>3, <1>4, <1>5, <1>6, <1>7

-----------------------------------------------------------------------------

\* Nothing runs and nothing has been counted at first.
LEMMA InitSessions == SessionsInit => SessionsIInv
<1> SUFFICES ASSUME SessionsInit PROVE SessionsIInv OBVIOUS
<1> USE DEF SessionsInit
<1>1. /\ Rest \in RunRow /\ Rest.at = "idle" /\ ~Rest.misled /\ ~Rest.drained
      /\ NoSession \in SessionRow
  <2>1. 1 \in 1..MaxAttempts BY SessionsAssumption
  <2>2. QED BY <2>1, SessionsAssumption DEF RunRow, Place, Rest, NoSession, SessionRow
<1>2. <<>> \in Seq(Turn) OBVIOUS
<1>3. Types BY <1>1, <1>2, SessionsAssumption DEF Types
<1>4. ClientOK BY DEF ClientOK, NoStrayClient
<1>5. Counted(<<>>) = {} BY DEF Counted
<1>6. ASSUME NEW t \in Task PROVE TurnsOK(t)
  <2>1. turns[t] = <<>> /\ made[t] = 0 /\ DOMAIN <<>> = {} OBVIOUS
  <2>2. QED BY <1>5, <2>1, FS_EmptySet DEF TurnsOK
<1>7. \A t \in Task : RunOK(t) BY <1>1 DEF RunOK
<1>8. QED BY <1>3, <1>4, <1>6, <1>7 DEF SessionsIInv

\* Every step keeps the three parts.
LEMMA NextSessions == SessionsIInv /\ [SessionsNext]_sessionsVars => SessionsIInv'
<1> SUFFICES ASSUME SessionsIInv, [SessionsNext]_sessionsVars PROVE SessionsIInv' OBVIOUS
<1>1. CASE SessionsNext
  <2>1. ClientMoves /\ TurnMoves BY <1>1, StepMoves
  <2>2. ClientOK' BY <2>1, ClientKept DEF SessionsIInv
  <2>3. /\ TurnsGrow /\ made' \in [Task -> Nat] /\ \A t \in Task : TurnsOK(t)'
    BY <2>1, TurnsKept DEF SessionsIInv, TurnsGrow
  <2>4. RunsKept
    BY <1>1, <2>3, OthersOK, AskOK, SessionStepsOK, CreatedOK, StageBeginsOK, RunningOK,
       RetriesOK, TurnStepsOK
    DEF SessionsNext, RunSteps
  <2>5. Types' BY <2>3, <2>4 DEF Types, RunsKept, TurnsGrow
  <2>6. QED BY <2>2, <2>3, <2>4, <2>5 DEF SessionsIInv, RunsKept
<1>2. CASE UNCHANGED sessionsVars
  BY <1>2 DEF sessionsVars, clientVars, SessionsIInv, Types, ClientOK, NoStrayClient, TurnsOK, RunOK
<1>3. QED BY <1>1, <1>2

\* Clients, turns and runs keep to their invariants, whoever discards the
\* shared client, writes the shared file, asks for more or dies.
THEOREM SessionsInvariant == SessionsSpec => []SessionsIInv
  BY InitSessions, NextSessions, PTL DEF SessionsSpec

\* Across retries, new messages and other tasks' writes to the shared file: a
\* retry has its turn on a fresh session, a call goes out with its session's
\* effort unless somebody else wrote the file, and every call is counted once.
THEOREM SessionsCorrect == SessionsSpec => []SessionsInv
<1>1. SessionsIInv => SessionsInv
  BY DEF SessionsIInv, Types, ClientOK, TurnsOK, RunOK, RunRow, SessionRow, SessionsInv,
         SessionsTypeOK, RetryIsFresh, OwnEffortAlone, CallsAddUp
<1>2. QED BY <1>1, SessionsInvariant, PTL

\* A client's process that runs is the one everybody gets or is about to be
\* stopped, unless a start that failed late has made everybody forget it.
THEOREM SessionsLeaveNoStray == SessionsSpec => []NoStrayClient
<1>1. SessionsIInv => NoStrayClient BY DEF SessionsIInv, ClientOK
<1>2. QED BY <1>1, SessionsInvariant, PTL

=============================================================================
