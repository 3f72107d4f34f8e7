--------------------------- MODULE WorkflowProofs ---------------------------
(***************************************************************************)
(* Theorems about the workflow, for every value of the constants.          *)
(*                                                                         *)
(* The invariants come in layers, each preserved by every step given the   *)
(* layers below it: the types with the facts about unborn tasks and        *)
(* waiting calls; who holds which lease; and, above these two and each     *)
(* other's neighbour, the receipts, the roots and the event room.          *)
(***************************************************************************)
EXTENDS WorkflowEffects

Slots == [stage : Stages, task : Tasks \union {NoTask}, turn : Nat, mail : Nat, canceled : BOOLEAN]

\* A task exists only in a goal that was started, and has no history before.
Born ==
  \A t \in Tasks : /\ goalState[GoalOf[t]] = "none" => taskState[t] = "none"
                   /\ taskState[t] = "none" => turn[t] = 0 /\ sent[t] = 0

\* A call that waits may still be dispatched.
CallsOpen == \A t \in Tasks : callState[t] \in Waiting => sent[t] < MaxAttempts

TypeInv == TypeOK /\ Born /\ CallsOpen

\* The activations stay with their tasks, turns and deliveries.
SameLeases ==
  \A b \in Agents : /\ activation'[b].task = activation[b].task /\ activation'[b].turn = activation[b].turn
                    /\ activation'[b].mail = activation[b].mail
                    /\ activation'[b].stage = "idle" <=> activation[b].stage = "idle"

-----------------------------------------------------------------------------
(* Types *)

\* The goroutine of a's activation goes on to another stage.
LEMMA GoesOn ==
  ASSUME activation \in [Agents -> Slots], NEW a \in Agents, NEW s \in Stages, Goes(a, s)
  PROVE  /\ activation' \in [Agents -> Slots] /\ activation'[a].stage = s
         /\ \A b \in Agents \ {a} : activation'[b] = activation[b]
         /\ s # "idle" /\ activation[a].stage # "idle" => SameLeases
<1>1. activation'[a] = [activation[a] EXCEPT !.stage = s] /\ \A b \in Agents \ {a} : activation'[b] = activation[b]
  BY DEF Goes
<1>2. [activation[a] EXCEPT !.stage = s] \in Slots
  BY DEF Slots
<1>3. activation' \in [Agents -> Slots]
  BY <1>2 DEF Goes
<1>4. /\ activation'[a].stage = s /\ activation'[a].task = activation[a].task
      /\ activation'[a].turn = activation[a].turn /\ activation'[a].mail = activation[a].mail
  BY <1>1 DEF Slots
<1> QED
  BY <1>1, <1>3, <1>4 DEF SameLeases

\* A step that touches no task, mailbox, turn or receipt keeps the types.
LEMMA CallStepType ==
  ASSUME TypeInv, UNCHANGED <<taskState, mail, current, stopped, awaits, turn, inputs>>,
         goalControl' \in [Goals -> {"active", "paused", "stopped"}], expired' \in [Goals -> BOOLEAN],
         systemState' \in SystemStates, agentState' \in [Agents -> AgentStates], revoked' \subseteq Tasks, closing' \in BOOLEAN,
         receipt' \in [Tasks -> {"none", "running", "completed", "unknown"}],
         goalState' \in [Goals -> TaskStates], \A g \in Goals : goalState'[g] = "none" => goalState[g] = "none",
         callState' \in [Tasks -> CallStates], sent' \in [Tasks -> 0..MaxAttempts],
         \A t \in Tasks : callState'[t] \in Waiting => sent'[t] < MaxAttempts,
         \A t \in Tasks : taskState[t] = "none" => sent'[t] = sent[t],
         decision' \in [Tasks -> {"none"} \union Decisions], activation' \in [Agents -> Slots],
         broken' \in BOOLEAN, faults' \in 0..MaxFaults
  PROVE  TypeInv'
<1>1. TypeOK'
  BY DEF TypeInv, TypeOK, goalVars, SystemStates, AgentStates, TaskStates, CallStates, Slots
<1>2. Born'
  <2>1. \A t \in Tasks : GoalOf[t] \in Goals
    BY WorkflowAssumption
  <2> QED
    BY <2>1 DEF TypeInv, Born
<1>3. CallsOpen'
  BY DEF CallsOpen
<1> QED
  BY <1>1, <1>2, <1>3 DEF TypeInv

\* The types a call step starts from.
LEMMA TypeFacts ==
  ASSUME TypeInv
  PROVE  /\ systemState \in SystemStates /\ agentState \in [Agents -> AgentStates]
         /\ goalState \in [Goals -> TaskStates] /\ callState \in [Tasks -> CallStates]
         /\ taskState \in [Tasks -> TaskStates] /\ stopped \in [Tasks -> BOOLEAN]
         /\ awaits \in [Tasks -> Tasks \union {NoTask}] /\ turn \in [Tasks -> 0..MaxTurns]
         /\ sent \in [Tasks -> 0..MaxAttempts] /\ decision \in [Tasks -> {"none"} \union Decisions]
         /\ receipt \in [Tasks -> {"none", "running", "completed", "unknown"}]
         /\ activation \in [Agents -> Slots] /\ mail \in Seq(Deliveries)
         /\ revoked \subseteq Tasks /\ closing \in BOOLEAN /\ broken \in BOOLEAN
         /\ faults \in 0..MaxFaults /\ inputs \in 0..MaxInputs
         /\ \A t \in Tasks : callState[t] \in Waiting => sent[t] < MaxAttempts
         /\ goalControl \in [Goals -> {"active", "paused", "stopped"}] /\ expired \in [Goals -> BOOLEAN]
         /\ current \in Goals \union {NoGoal}
  BY DEF TypeInv, TypeOK, CallsOpen, SystemStates, AgentStates, TaskStates, CallStates, Slots, Deliveries

\* A counted fault stays within its bound.
LEMMA FaultType == ASSUME TypeInv, Fault PROVE faults' \in 0..MaxFaults
  BY WorkflowAssumption, TypeFacts DEF Fault

\* The words that steps write.
LEMMA Words ==
  /\ {"waiting", "running", "queued"} \subseteq TaskStates /\ "none" \notin {"waiting", "running", "queued"}
  /\ {"queued", "running", "rejected", "completed", "failed", "unknown", "canceled", "awaiting_worker"} \subseteq CallStates
  /\ {"running", "rejected", "completed", "failed", "unknown", "canceled"} \intersect Waiting = {}
  /\ {"call", "tool", "run", "done", "error"} \subseteq Stages \ {"idle"}
  BY DEF TaskStates, LiveStates, EndStates, CallStates, Waiting, Stages

\* The model calls of an activation keep the types.
LEMMA CallActionsType ==
  ASSUME TypeInv, NEW a \in Agents, NEW t \in Tasks,
         \/ AskModel(a, t) \/ RejectQueued(t) \/ Dispatch(a, t) \/ Answer(a, t)
         \/ SettleFails(a, t) \/ LeaveBroker(a, t) \/ GiveUp(a, t) \/ WorkerFails(a)
  PROVE  TypeInv'
<1>1. GoalOf[t] \in Goals
  BY WorkflowAssumption
<1> USE TypeFacts, Words, <1>1
<1>2. CASE AskModel(a, t)
  <2>1. activation' \in [Agents -> Slots]
    BY <1>2, GoesOn DEF AskModel
  <2>2. CASE callState[t] = "awaiting_worker"
    <3>1. sent[t] < MaxAttempts
      BY <2>2 DEF Waiting
    <3> QED
      BY <1>2, <2>1, <2>2, <3>1, CallStepType, ZenonT(30) DEF AskModel, OnlyCall, Calls, Goal, goalVars
  <2>3. CASE callState[t] # "awaiting_worker"
    BY <1>2, <2>1, <2>3, CallStepType DEF AskModel, OnlyCall, goalVars
  <2> QED
    BY <2>2, <2>3
<1>3. CASE RejectQueued(t)
  BY <1>3, CallStepType DEF RejectQueued, OnlyCall, Calls, goalVars
<1>4. CASE Dispatch(a, t)
  <2>1. sent[t] < MaxAttempts /\ taskState[t] # "none" /\ activation[a].task = t /\ callState[t] = "queued"
    BY <1>4, StatesApart DEF Dispatch, Barred, Live, Admitting, At, Waiting
  <2>2. sent' \in [Tasks -> 0..MaxAttempts]
    <3>0. sent[t] \in 0..MaxAttempts
      OBVIOUS
    <3>1. sent[t] + 1 \in 0..MaxAttempts
      BY ONLY <2>1, <3>0 DEF MaxAttempts
    <3> QED
      BY <1>4, <3>1 DEF Dispatch
  <2> QED
    BY <1>4, <2>1, <2>2, CallStepType DEF Dispatch, OnlyCall, Calls, Goal, goalVars
<1>5. CASE Answer(a, t)
  <2> USE DEF Answer, OnlyCall, goalVars
  <2>1. CASE \E d \in Decisions : Calls(t, "completed") /\ decision' = [decision EXCEPT ![t] = d] /\ UNCHANGED goalState
    BY <1>5, <2>1, CallStepType DEF Calls
  <2>2. CASE \E state \in {"failed", "unknown"} : Calls(t, state) /\ UNCHANGED <<decision, goalState>>
    BY <1>5, <2>2, CallStepType DEF Calls
  <2>3. CASE /\ sent[t] < MaxAttempts /\ Calls(t, "queued") /\ Goal(t, "waiting") /\ UNCHANGED decision
    BY <1>5, <2>3, CallStepType DEF Calls, Goal
  <2> QED
    BY <1>5, <2>1, <2>2, <2>3
<1>6. CASE SettleFails(a, t)
  <2>1. activation' \in [Agents -> Slots] /\ faults' \in 0..MaxFaults
    BY <1>6, GoesOn, FaultType DEF SettleFails
  <2> QED
    BY <1>6, <2>1, CallStepType DEF SettleFails, OnlyCall, goalVars
<1>7. CASE LeaveBroker(a, t)
  <2>1. activation' \in [Agents -> Slots]
    BY <1>7, GoesOn DEF LeaveBroker
  <2> QED
    BY <1>7, <2>1, CallStepType DEF LeaveBroker, OnlyCall, goalVars
<1>8. CASE GiveUp(a, t)
  <2>1. activation' \in [Agents -> Slots]
    BY <1>8, GoesOn DEF GiveUp
  <2>2. callState' \in [Tasks -> CallStates] /\ \A u \in Tasks : callState'[u] \in Waiting => callState[u] \in Waiting
    BY <1>8 DEF GiveUp, Calls
  <2> QED
    BY <1>8, <2>1, <2>2, CallStepType DEF GiveUp, OnlyCall, goalVars
<1>9. CASE WorkerFails(a)
  <2>1. activation' \in [Agents -> Slots] /\ faults' \in 0..MaxFaults
    BY <1>9, GoesOn, FaultType DEF WorkerFails
  <2> QED
    BY <1>9, <2>1, CallStepType DEF WorkerFails, OnlyCall, goalVars
<1> QED
  BY <1>2, <1>3, <1>4, <1>5, <1>6, <1>7, <1>8, <1>9
\* The tools of an activation that put nobody to sleep and post nothing.
LEMMA ToolActionsType ==
  ASSUME TypeInv, NEW a \in Agents, NEW t \in Tasks,
         ReplayTool(a, t) \/ ToolRefused(a, t) \/ StartTool(a, t) \/ FinishTool(a, t) \/ ToolLost(a, t)
  PROVE  TypeInv'
<1> USE TypeFacts, Words
<1> USE DEF OnlyTool, ruled, goalVars
<1>1. CASE ReplayTool(a, t)
  <2>1. activation' \in [Agents -> Slots]
    BY <1>1, GoesOn DEF ReplayTool
  <2> QED
    BY <1>1, <2>1, CallStepType DEF ReplayTool
<1>2. CASE ToolRefused(a, t)
  <2>1. activation' \in [Agents -> Slots]
    BY <1>2, GoesOn DEF ToolRefused
  <2> QED
    BY <1>2, <2>1, CallStepType DEF ToolRefused
<1>3. CASE StartTool(a, t)
  <2>1. activation' \in [Agents -> Slots] /\ receipt' \in [Tasks -> {"none", "running", "completed", "unknown"}]
    BY <1>3, GoesOn DEF StartTool, Receives
  <2> QED
    BY <1>3, <2>1, CallStepType DEF StartTool
<1>4. CASE FinishTool(a, t)
  <2>1. activation' \in [Agents -> Slots] /\ receipt' \in [Tasks -> {"none", "running", "completed", "unknown"}]
    BY <1>4, GoesOn DEF FinishTool, Receives
  <2> QED
    BY <1>4, <2>1, CallStepType DEF FinishTool
<1>5. CASE ToolLost(a, t)
  <2>1. activation' \in [Agents -> Slots] /\ faults' \in 0..MaxFaults
    BY <1>5, GoesOn, FaultType DEF ToolLost
  <2> QED
    BY <1>5, <2>1, CallStepType DEF ToolLost, taskVars
<1> QED
  BY <1>1, <1>2, <1>3, <1>4, <1>5

\* Controls that pause, deadlines, cancellations and the shutdown.
Pauses ==
  \/ ControlSystem
  \/ \E g \in Goals : Unlocked /\ UNCHANGED <<ruled, stopped, activation, revoked>> /\ OnlyControl
       /\ \E state \in {"active", "paused"} \ {goalControl[g]} :
            goalControl[g] # "stopped" /\ goalControl' = [goalControl EXCEPT ![g] = state]
  \/ \E b \in Agents : Unlocked /\ UNCHANGED <<goalControl, stopped, activation, revoked>> /\ OnlyControl
       /\ agentState[b] # "stopped"
       /\ \E state \in {"active", "paused"} \ {agentState[b]} : Becomes([World EXCEPT !.agents[b] = state])

\* They keep the types.
LEMMA ControlActionsType ==
  ASSUME TypeInv, Pauses \/ Cancel \/ Shutdown \/ \E g \in Goals : Expire(g)
  PROVE  TypeInv'
<1> USE TypeFacts
<1>1. CASE ControlSystem
  <2>1. PICK s \in {"running", "paused"} : Becomes([World EXCEPT !.system = s])
    BY <1>1 DEF ControlSystem
  <2>2. World \in Worlds
    BY WorldType DEF TypeInv
  <2>3. /\ systemState' = s /\ goalState' = goalState /\ agentState' = agentState /\ taskState' = taskState
        /\ callState' = callState /\ mail' = mail
    BY <2>1, <2>2, WorldType DEF Becomes, Worlds, TypeInv
  <2> QED
    BY <1>1, <2>3, CallStepType DEF ControlSystem, OnlyControl, SystemStates
<1>2. CASE \E g \in Goals : Unlocked /\ UNCHANGED <<ruled, stopped, activation, revoked>> /\ OnlyControl
       /\ \E state \in {"active", "paused"} \ {goalControl[g]} :
            goalControl[g] # "stopped" /\ goalControl' = [goalControl EXCEPT ![g] = state]
  <2>1. goalControl' \in [Goals -> {"active", "paused", "stopped"}]
    BY <1>2
  <2> QED
    BY <1>2, <2>1, CallStepType DEF OnlyControl, ruled
<1>3. CASE \E b \in Agents : Unlocked /\ UNCHANGED <<goalControl, stopped, activation, revoked>> /\ OnlyControl
       /\ agentState[b] # "stopped"
       /\ \E state \in {"active", "paused"} \ {agentState[b]} : Becomes([World EXCEPT !.agents[b] = state])
  <2>1. PICK b \in Agents, s \in {"active", "paused"} : Becomes([World EXCEPT !.agents[b] = s])
    BY <1>3
  <2>2. World \in Worlds
    BY WorldType DEF TypeInv
  <2>3. /\ systemState' = systemState /\ goalState' = goalState /\ agentState' = [agentState EXCEPT ![b] = s]
        /\ taskState' = taskState /\ callState' = callState /\ mail' = mail
    BY <2>1, <2>2, WorldType DEF Becomes, Worlds, TypeInv
  <2>4. agentState' \in [Agents -> AgentStates]
    BY <2>3 DEF AgentStates
  <2> QED
    BY <1>3, <2>3, <2>4, CallStepType DEF OnlyControl
<1>4. CASE Cancel
  <2>1. activation' \in [Agents -> Slots]
    <3>1. \A r \in Slots : [r EXCEPT !.canceled = TRUE] \in Slots
      BY ONLY DEF Slots
    <3>2. \A b \in Agents : activation[b] \in Slots /\ [activation[b] EXCEPT !.canceled = TRUE] \in Slots
      BY <3>1
    <3> QED
      BY <1>4, <3>2 DEF Cancel
  <2> QED
    BY <1>4, <2>1, CallStepType DEF Cancel, ruled, goalVars, taskVars
<1>5. CASE Shutdown
  <2>1. activation' \in [Agents -> Slots]
    <3>1. \A a \in Agents : [activation[a] EXCEPT !.canceled = activation[a].stage # "idle"] \in Slots
      BY ZenonT(30) DEF Slots
    <3> QED
      BY <1>5, <3>1 DEF Shutdown
  <2>2. faults' \in 0..MaxFaults
    BY <1>5, FaultType DEF Shutdown
  <2> QED
    BY <1>5, <2>1, <2>2, CallStepType DEF Shutdown, ruled, goalVars, taskVars
<1>6. CASE \E g \in Goals : Expire(g)
  <2>1. expired' \in [Goals -> BOOLEAN]
    BY <1>6 DEF Expire
  <2> QED
    BY <1>6, <2>1, CallStepType DEF Expire, ruled, taskVars, daemonVars
<1> QED
  BY <1>1, <1>2, <1>3, <1>4, <1>5, <1>6 DEF Pauses
\* What the rest of the state is after most steps.
LEMMA RestKept ==
  ASSUME TypeInv, UNCHANGED <<goalVars, closing, broken>>, revoked' \subseteq Tasks,
         activation' \in [Agents -> Slots], faults' \in 0..MaxFaults, inputs' \in 0..MaxInputs,
         awaits' \in [Tasks -> Tasks \union {NoTask}], turn' \in [Tasks -> 0..MaxTurns],
         sent' \in [Tasks -> 0..MaxAttempts], decision' \in [Tasks -> {"none"} \union Decisions],
         receipt' \in [Tasks -> {"none", "running", "completed", "unknown"}]
  PROVE  RestType'
  BY TypeFacts DEF RestType, goalVars, Slots

\* No goal is forgotten, and an unborn task stays untouched.
LEMMA BornKept ==
  ASSUME TypeInv,
         \A t \in Tasks : goalState'[GoalOf[t]] = "none" => goalState[GoalOf[t]] = "none",
         \A t \in Tasks : taskState'[t] = "none" <=> taskState[t] = "none",
         \A t \in Tasks : taskState[t] = "none" => turn'[t] = turn[t] /\ sent'[t] = sent[t]
  PROVE  Born'
  BY DEF TypeInv, Born

\* A call waits on, or it is a new one.
LEMMA CallsOpenKept ==
  ASSUME TypeInv,
         \A t \in Tasks : callState'[t] \in Waiting =>
           (callState'[t] = callState[t] /\ sent'[t] = sent[t]) \/ sent'[t] = 0
  PROVE  CallsOpen'
  BY DEF TypeInv, CallsOpen, MaxAttempts

\* The parts of the type invariant after a step.
LEMMA TypeInvParts == World' \in Worlds /\ RestType' /\ Born' /\ CallsOpen' => TypeInv'
  BY TypePartsNext DEF TypeInv

\* A task that may take another turn has one left.
LEMMA TurnLeft ==
  ASSUME TypeInv, NEW t \in Tasks, CanPrepare(t)
  PROVE  turn[t] < MaxTurns
<1> DEFINE S == {u \in Tasks : AgentOf[u] = AgentOf[t] /\ GoalOf[u] = GoalOf[t]}
<1>1. IsFiniteSet(S) /\ {t} \subseteq S
  BY WorkflowAssumption, FS_Subset
<1>2. \A x \in S : turn[x] \in Nat
  BY TypeFacts
<1>3. Weight({t}, turn) <= Weight(S, turn)
  BY <1>1, <1>2, WeightMonotone
<1>4. Weight({t}, turn) = turn[t]
  <2>1. Units({t}, turn) = UnitsOf(t, turn)
    BY DEF Units
  <2> QED
    BY <1>1, <1>2, <2>1, UnitsOfSize DEF Weight
<1>5. Weight(S, turn) \in Nat /\ Weight(S, turn) < MaxTurns
  BY <1>1, <1>2, WeightType DEF CanPrepare, TurnsOf
<1>6. turn[t] \in Nat
  BY <1>1, <1>2
<1> QED
  BY <1>3, <1>4, <1>5, <1>6, WorkflowAssumption

\* The next call of a task.
LEMMA PreparesType ==
  ASSUME TypeInv, NEW t \in Tasks, Prepares(t), turn[t] < MaxTurns
  PROVE  /\ turn' \in [Tasks -> 0..MaxTurns] /\ sent' \in [Tasks -> 0..MaxAttempts]
         /\ decision' \in [Tasks -> {"none"} \union Decisions]
         /\ receipt' \in [Tasks -> {"none", "running", "completed", "unknown"}]
         /\ awaits' \in [Tasks -> Tasks \union {NoTask}]
         /\ turn'[t] = turn[t] + 1 /\ sent'[t] = 0 /\ receipt'[t] = "none" /\ awaits'[t] = NoTask
         /\ \A u \in Tasks \ {t} : turn'[u] = turn[u] /\ sent'[u] = sent[u] /\ receipt'[u] = receipt[u] /\ awaits'[u] = awaits[u]
<1>1. turn[t] \in 0..MaxTurns /\ MaxTurns \in Nat
  BY TypeFacts, WorkflowAssumption
<1>2. turn[t] + 1 \in 0..MaxTurns /\ 0 \in 0..MaxAttempts
  BY <1>1 DEF MaxAttempts
<1> QED
  BY <1>2, TypeFacts DEF Prepares

\* An activation ends.
LEMMA FinishingType ==
  ASSUME TypeInv, NEW a \in Agents, NEW t \in Tasks, Finishing(a, t)
  PROVE  /\ activation' \in [Agents -> Slots] /\ activation'[a] = Idle
         /\ \A b \in Agents \ {a} : activation'[b] = activation[b]
         /\ activation[a].stage \in {"done", "error"} /\ activation[a].task = t
<1>1. Idle \in Slots
  BY DEF Idle, Slots, Stages
<1> QED
  BY <1>1, TypeFacts DEF Finishing

\* Starting a goal, posting an input and delegating keep the types.
LEMMA PostingType ==
  ASSUME TypeInv, NEW a \in Agents, NEW t \in Tasks, NEW c \in Tasks,
         Start(t) \/ AddInput(t) \/ Delegate(a, t, c)
  PROVE  TypeInv'
<1> USE TypeFacts, Words
<1>0. TypeOK /\ \A u \in Tasks : GoalOf[u] \in Goals
  BY WorkflowAssumption DEF TypeInv
<1>1. CASE Start(t)
  <2>1. taskState[t] = "none" /\ turn[t] = 0
    BY <1>1 DEF Start, TypeInv, Born
  <2>2. turn[t] < MaxTurns /\ Prepares(t)
    BY <1>1, <2>1, WorkflowAssumption DEF Start
  <2>3. /\ World' \in Worlds /\ goalState' = [goalState EXCEPT ![GoalOf[t]] = "queued"]
        /\ taskState' = [taskState EXCEPT ![t] = "queued"]
        /\ callState' = [callState EXCEPT ![t] = "awaiting_worker"]
    BY <1>0, <1>1, StartStep
  <2>4. RestType'
    <3>1. current' \in Goals \union {NoGoal}
      BY <1>0, <1>1 DEF Start
    <3> QED
      BY <1>1, <2>2, <3>1, PreparesType DEF Start, daemonVars, RestType, Slots
  <2>5. /\ turn' \in [Tasks -> 0..MaxTurns] /\ sent'[t] = 0
        /\ \A u \in Tasks \ {t} : turn'[u] = turn[u] /\ sent'[u] = sent[u]
    BY <2>2, PreparesType
  <2>6. Born'
    <3>1. ASSUME NEW u \in Tasks, u # t
          PROVE  /\ goalState'[GoalOf[u]] = "none" => taskState'[u] = "none"
                 /\ taskState'[u] = "none" => turn'[u] = 0 /\ sent'[u] = 0
      BY <1>0, <2>3, <2>5, <3>1 DEF TypeInv, Born
    <3>2. goalState'[GoalOf[t]] # "none" /\ taskState'[t] # "none"
      BY <1>0, <2>3
    <3> QED
      BY <3>1, <3>2 DEF Born
  <2>7. CallsOpen'
    BY <2>3, <2>5, CallsOpenKept
  <2> QED
    BY <2>3, <2>4, <2>6, <2>7, TypeInvParts
<1>2. CASE AddInput(t)
  <2>1. World' \in Worlds /\ UNCHANGED <<goalState, taskState, callState>>
    BY <1>0, <1>2, AddInputStep
  <2>2. inputs' \in 0..MaxInputs
    BY <1>2, WorkflowAssumption DEF AddInput
  <2>3. RestType'
    BY <1>2, <2>2, RestKept DEF AddInput, taskVars
  <2>4. Born' /\ CallsOpen'
    BY <1>2, <2>1, BornKept, CallsOpenKept DEF AddInput, taskVars
  <2> QED
    BY <2>1, <2>3, <2>4, TypeInvParts
<1>3. CASE Delegate(a, t, c)
  <2>1. /\ World' \in Worlds /\ UNCHANGED goalState /\ c # t
        /\ taskState' = [taskState EXCEPT ![c] = "queued", ![t] = "waiting"]
        /\ callState' = [callState EXCEPT ![c] = "awaiting_worker"]
    BY <1>0, <1>3, DelegateStep
  <2>2. taskState[c] = "none" /\ Live(t) /\ UNCHANGED sent
    BY <1>3 DEF Delegate, MayUseTool
  <2>3. /\ turn' \in [Tasks -> 0..MaxTurns] /\ \A u \in Tasks \ {c} : turn'[u] = turn[u]
    BY <1>3, WorkflowAssumption DEF Delegate
  <2>4. activation' \in [Agents -> Slots]
    BY <1>3, GoesOn DEF Delegate
  <2>5. RestType'
    BY <1>3, <2>3, <2>4, RestKept DEF Delegate, OnlyTool, Receives
  <2>6. sent[c] = 0 /\ goalState[GoalOf[t]] # "none" /\ GoalOf[c] = GoalOf[t]
    <3>1. ParentOf[c] = t
      BY <1>3 DEF Delegate
    <3> QED
      BY <2>2, <3>1, StatesApart, WorkflowAssumption DEF TypeInv, Born, Live
  <2>7. Born'
    <3>1. ASSUME NEW u \in Tasks, u # t, u # c
          PROVE  /\ goalState'[GoalOf[u]] = "none" => taskState'[u] = "none"
                 /\ taskState'[u] = "none" => turn'[u] = 0 /\ sent'[u] = 0
      BY <2>1, <2>2, <2>3, <3>1 DEF TypeInv, Born
    <3>2. taskState'[t] # "none" /\ taskState'[c] # "none"
      BY <2>1
    <3> QED
      BY <2>1, <2>6, <3>1, <3>2 DEF Born
  <2>8. CallsOpen'
    BY <2>1, <2>2, <2>6, CallsOpenKept
  <2> QED
    BY <2>1, <2>5, <2>7, <2>8, TypeInvParts
<1> QED
  BY <1>1, <1>2, <1>3
\* A control stops the live tasks S, from world w on.
StopsFrom(w, S) ==
  /\ w \in Worlds /\ w.goals = goalState /\ w.tasks = taskState /\ w.calls = callState
  /\ w.mail = mail /\ w.stopped = stopped
  /\ w.system = systemState \/ S = {t \in Tasks : Live(t)}
  /\ systemState = "stopping" => w.system = "stopping"
  /\ w.system = "stopped" => systemState \in {"inactive", "stopped"}
  /\ S \subseteq {t \in Tasks : Live(t)}
  /\ \E v \in StopTasks(w, S) : Becomes(v) /\ stopped' = v.stopped
  /\ revoked' \subseteq Tasks /\ goalControl' \in [Goals -> {"active", "paused", "stopped"}]
  /\ UNCHANGED activation /\ OnlyControl

\* Every control of a goal, an agent or the system pauses, resumes or stops.
LEMMA ControlKinds ==
  ASSUME TypeInv, ControlSystem \/ StopSystem \/ (\E g \in Goals : ControlGoal(g)) \/ (\E b \in Agents : ControlAgent(b))
  PROVE  Pauses \/ \E w \in Worlds, S \in SUBSET {t \in Tasks : Live(t)} : StopsFrom(w, S)
<1> USE TypeFacts
<1>0. TypeOK /\ World \in Worlds
  BY WorldType DEF TypeInv
<1>1. CASE ControlSystem
  BY <1>1 DEF Pauses
<1>2. CASE StopSystem
  <2> DEFINE S == {t \in Tasks : Live(t)}
             state == IF systemState \in {"running", "stopping", "paused"} THEN "stopping" ELSE "stopped"
             w == [World EXCEPT !.system = state]
  <2>1. /\ state \in SystemStates /\ (systemState = "stopping" => state = "stopping")
        /\ state = "stopped" => systemState \in {"inactive", "stopped"}
    BY <1>0 DEF SystemStates, TypeOK
  <2>2. /\ \E v \in StopTasks(w, S) : Becomes(v) /\ stopped' = v.stopped
        /\ goalControl' \in [Goals -> {"active", "paused", "stopped"}]
        /\ revoked' \subseteq Tasks /\ UNCHANGED activation /\ OnlyControl
    BY <1>2 DEF StopSystem, Cancels
  <2> HIDE DEF state
  <2>3. /\ w \in Worlds /\ w.goals = goalState /\ w.tasks = taskState /\ w.calls = callState
        /\ w.mail = mail /\ w.stopped = stopped /\ w.system = state
    BY <1>0, <2>1, WorldType DEF Worlds
  <2> HIDE DEF w
  <2>4. StopsFrom(w, S)
    BY <2>1, <2>2, <2>3 DEF StopsFrom
  <2> QED
    BY <2>3, <2>4
<1>3. ASSUME NEW g \in Goals, ControlGoal(g)
      PROVE  Pauses \/ \E w \in Worlds, S \in SUBSET {t \in Tasks : Live(t)} : StopsFrom(w, S)
  <2>1. CASE \E state \in {"active", "paused"} \ {goalControl[g]} :
               "pause goal" \in Commands /\ goalControl' = [goalControl EXCEPT ![g] = state]
               /\ UNCHANGED <<ruled, stopped, activation, revoked>> /\ OnlyControl
    BY <1>3, <2>1 DEF Pauses, ControlGoal
  <2>2. CASE goalControl' = [goalControl EXCEPT ![g] = "stopped"] /\ Stop("goal", g, World)
    <3> DEFINE S == {t \in Scope("goal", g) : Live(t)}
    <3>1. S \subseteq {t \in Tasks : Live(t)}
      BY DEF Scope
    <3>2. /\ \E v \in StopTasks(World, S) : Becomes(v) /\ stopped' = v.stopped
          /\ revoked' \subseteq Tasks /\ UNCHANGED activation /\ OnlyControl
      BY <2>2, <3>1 DEF Stop, Cancels
    <3>3. goalControl' \in [Goals -> {"active", "paused", "stopped"}]
      BY <2>2
    <3> HIDE DEF S
    <3>4. StopsFrom(World, S)
      BY <1>0, <3>1, <3>2, <3>3, WorldType DEF StopsFrom
    <3> QED
      BY <1>0, <3>1, <3>4
  <2> QED
    BY <1>3, <2>1, <2>2 DEF ControlGoal
<1>4. ASSUME NEW b \in Agents, ControlAgent(b)
      PROVE  Pauses \/ \E w \in Worlds, S \in SUBSET {t \in Tasks : Live(t)} : StopsFrom(w, S)
  <2> DEFINE agents == [agentState EXCEPT ![b] = "stopped"]
             w == [World EXCEPT !.agents = agents]
             S == {t \in Scope("agent", b) : Live(t)}
  <2>1. CASE \E state \in {"active", "paused"} \ {agentState[b]} :
               "pause agent" \in Commands /\ Becomes([World EXCEPT !.agents[b] = state])
               /\ UNCHANGED <<stopped, activation, revoked>> /\ OnlyControl
    BY <1>4, <2>1 DEF Pauses, ControlAgent
  <2>2. CASE Stop("agent", b, [World EXCEPT !.agents[b] = "stopped"])
    <3>1. w = [World EXCEPT !.agents[b] = "stopped"]
      BY DEF World
    <3>2. S \subseteq {t \in Tasks : Live(t)}
      BY DEF Scope
    <3>3. /\ \E v \in StopTasks(w, S) : Becomes(v) /\ stopped' = v.stopped
          /\ revoked' \subseteq Tasks /\ UNCHANGED activation /\ OnlyControl /\ UNCHANGED goalControl
      BY <1>4, <2>2, <3>1, <3>2 DEF Stop, Cancels, ControlAgent
    <3>4. agents \in [Agents -> AgentStates]
      BY DEF AgentStates
    <3> HIDE DEF agents, S
    <3>5. /\ w \in Worlds /\ w.goals = goalState /\ w.tasks = taskState /\ w.calls = callState
          /\ w.mail = mail /\ w.stopped = stopped /\ w.system = systemState
      BY <1>0, <3>4, WorldType DEF Worlds
    <3> HIDE DEF w
    <3>6. StopsFrom(w, S)
      BY <3>2, <3>3, <3>5 DEF StopsFrom
    <3> QED
      BY <3>2, <3>5, <3>6
  <2> QED
    BY <1>4, <2>1, <2>2 DEF ControlAgent
<1> QED
  BY <1>1, <1>2, <1>3, <1>4

\* What a stop leaves.
LEMMA StopsFromStep ==
  ASSUME TypeInv, NEW w, NEW S, StopsFrom(w, S)
  PROVE  /\ World' \in Worlds /\ \A t \in Tasks : stopped'[t] <=> stopped[t] \/ t \in S
         /\ \E gone \in SUBSET Tasks :
              /\ Over(gone) /\ Kept(gone)
              /\ SystemEnds(gone, IF \E t \in S : Root(t) THEN "stopping" ELSE w.system, systemState', mail')
              /\ \A t \in Tasks : IF t \in gone THEN taskState'[t] \in {"canceled", "rejected"}
                                  ELSE taskState'[t] = taskState[t]
              /\ \A j \in DOMAIN mail : Old(mail[j], mail'[j], gone)
<1>1. PICK v \in StopTasks(w, S) : Becomes(v) /\ stopped' = v.stopped
  BY DEF StopsFrom
<1>2. TypeOK /\ w \in Worlds /\ S \in SUBSET {t \in Tasks : Live(t)}
  BY DEF StopsFrom, TypeInv
<1>3. w.goals = goalState /\ w.tasks = taskState /\ w.calls = callState /\ w.mail = mail /\ w.stopped = stopped
  BY DEF StopsFrom
<1> QED
  BY <1>1, <1>2, <1>3, StopStep

\* After tasks ended, unborn tasks are those from before, and waiting calls too.
LEMMA EndingType ==
  ASSUME TypeInv, NEW gone, Over(gone), Kept(gone), UNCHANGED <<turn, sent>>,
         \A t \in Tasks \ gone : taskState'[t] = "none" <=> taskState[t] = "none"
  PROVE  Born' /\ CallsOpen'
<1>1. \A t \in Tasks : taskState'[t] = "none" <=> taskState[t] = "none"
  BY StatesApart DEF Over, Live
<1>2. \A t \in Tasks : GoalOf[t] \in Goals
  BY WorkflowAssumption
<1> QED
  BY <1>1, <1>2, BornKept, CallsOpenKept DEF Kept

\* The controls that stop, and the restarts.
Stops == \E w \in Worlds, S \in SUBSET {t \in Tasks : Live(t)} : StopsFrom(w, S)
Recovers == Recover /\ faults' \in 0..MaxFaults

\* Scheduling, stops and recoveries keep the types.
LEMMA EndingActionsType ==
  ASSUME TypeInv, ClaimNone \/ Recovers \/ Stops
  PROVE  TypeInv'
<1> USE TypeFacts
<1>0. TypeOK
  BY DEF TypeInv
<1>1. CASE ClaimNone
  <2>1. PICK gone \in SUBSET Tasks :
          /\ World' \in Worlds /\ Over(gone) /\ Kept(gone)
          /\ \A t \in Tasks \ gone : taskState'[t] = taskState[t]
    <3> HIDE TypeFacts
    <3> QED
      BY <1>0, <1>1, ClaimNoneStep
  <2>2. RestType'
    BY <1>1, RestKept DEF ClaimNone, taskVars, daemonVars
  <2>3. Born' /\ CallsOpen'
    BY <1>1, <2>1, EndingType DEF ClaimNone, taskVars
  <2> QED
    BY <2>1, <2>2, <2>3, TypeInvParts
<1>2. ASSUME Recover, faults' \in 0..MaxFaults PROVE TypeInv'
  <2>1. PICK gone \in SUBSET Tasks :
          /\ World' \in Worlds /\ Over(gone) /\ Kept(gone)
          /\ \A t \in Tasks \ gone : taskState'[t] = IF taskState[t] = "running" THEN "queued" ELSE taskState[t]
    <3> HIDE TypeFacts
    <3> QED
      BY <1>0, <1>2, RecoverStep
  <2>2. RestType'
    <3>1. Idle \in Slots
      BY DEF Idle, Slots, Stages
    <3>2. /\ activation' \in [Agents -> Slots]
          /\ receipt' \in [Tasks -> {"none", "running", "completed", "unknown"}]
      BY <1>2, <3>1 DEF Recover, Unresolved
    <3> QED
      BY <1>2, <3>2 DEF Recover, RestType, goalVars, Slots
  <2>3. \A t \in Tasks \ gone : taskState'[t] = "none" <=> taskState[t] = "none"
    BY <2>1
  <2>4. Born' /\ CallsOpen'
    BY <1>2, <2>1, <2>3, EndingType DEF Recover
  <2> QED
    BY <2>1, <2>2, <2>4, TypeInvParts
<1>3. ASSUME NEW w \in Worlds, NEW S \in SUBSET {t \in Tasks : Live(t)}, StopsFrom(w, S) PROVE TypeInv'
  <2>1. PICK gone \in SUBSET Tasks :
          /\ World' \in Worlds /\ Over(gone) /\ Kept(gone)
          /\ \A t \in Tasks : IF t \in gone THEN taskState'[t] \in {"canceled", "rejected"}
                              ELSE taskState'[t] = taskState[t]
    <3> HIDE TypeFacts
    <3> QED
      BY <1>3, StopsFromStep
  <2>2. RestType'
    BY <1>3 DEF StopsFrom, OnlyControl, RestType, Slots
  <2>3. Born' /\ CallsOpen'
    BY <1>3, <2>1, EndingType DEF StopsFrom, OnlyControl
  <2> QED
    BY <2>1, <2>2, <2>3, TypeInvParts
<1> QED
  BY <1>1, <1>2, <1>3 DEF Stops, Recovers
\* A delivery that is claimed keeps the types.
LEMMA ClaimType ==
  ASSUME TypeInv, NEW i \in DOMAIN mail, Claim(i)
  PROVE  TypeInv'
<1> USE TypeFacts
<1>0. TypeOK /\ mail[i].task \in Tasks /\ i \in Nat
  <2>1. mail \in Seq(Deliveries) /\ TypeOK
    BY DEF TypeInv
  <2>2. mail[i] \in Deliveries /\ i \in 1..Len(mail) /\ Len(mail) \in Nat
    BY <2>1, MailType
  <2> QED
    BY <2>1, <2>2 DEF Deliveries
<1>1. PICK t \in Tasks : t = mail[i].task
  BY <1>0
<1>10. /\ World' \in Worlds /\ i \in Deliverable
      /\ \E gone \in SUBSET Tasks : ClaimEnds(i, t, gone)
  <2> HIDE TypeFacts
  <2> QED
    BY <1>0, <1>1, ClaimStep
<1>2. PICK gone \in SUBSET Tasks :
        /\ World' \in Worlds /\ i \in Deliverable /\ t \notin gone /\ Over(gone)
        /\ \A g \in Goals : goalState'[g] = "none" => goalState[g] = "none"
        /\ \A u \in Tasks : u # t /\ callState'[u] \in Waiting => callState'[u] = callState[u]
        /\ callState'[t] = (IF Resumes(i) THEN "awaiting_worker" ELSE callState[t])
        /\ taskState'[t] = "running"
        /\ \A u \in Tasks \ {t} : u \notin gone => taskState'[u] = taskState[u]
  <2> HIDE TypeFacts
  <2> QED
    BY <1>10 DEF ClaimEnds
<1>3. /\ Live(t) /\ IF Resumes(i) THEN CanPrepare(t) /\ Prepares(t) ELSE KeepsCall
      /\ activation' = [activation EXCEPT ![AgentOf[t]] =
           [stage |-> "start", task |-> t, turn |-> turn'[t], mail |-> i, canceled |-> FALSE]]
      /\ UNCHANGED <<goalVars, closing, revoked, broken, faults, inputs>>
  BY <1>1, <1>2 DEF Claim, Deliverable, Doomed
<1>4. /\ turn' \in [Tasks -> 0..MaxTurns] /\ sent' \in [Tasks -> 0..MaxAttempts]
      /\ decision' \in [Tasks -> {"none"} \union Decisions]
      /\ receipt' \in [Tasks -> {"none", "running", "completed", "unknown"}]
      /\ awaits' \in [Tasks -> Tasks \union {NoTask}]
      /\ \A u \in Tasks \ {t} : turn'[u] = turn[u] /\ sent'[u] = sent[u]
      /\ IF Resumes(i) THEN sent'[t] = 0 ELSE sent'[t] = sent[t]
  <2>1. CASE Resumes(i)
    <3>1. Prepares(t) /\ turn[t] < MaxTurns
      BY <1>3, <2>1, TurnLeft
    <3> QED
      BY <2>1, <3>1, PreparesType
  <2>2. CASE ~Resumes(i)
    BY <1>3, <2>2 DEF KeepsCall
  <2> QED
    BY <2>1, <2>2
<1>5. activation' \in [Agents -> Slots]
  <2>1. turn'[t] \in Nat
    BY <1>4
  <2>2. [stage |-> "start", task |-> t, turn |-> turn'[t], mail |-> i, canceled |-> FALSE] \in Slots
    BY <1>0, <2>1 DEF Slots, Stages
  <2> QED
    BY <1>3, <2>2
<1>6. RestType'
  BY <1>3, <1>4, <1>5, RestKept
<1>7. Born'
  <2>1. \A u \in Tasks : taskState'[u] = "none" <=> taskState[u] = "none"
    <3>1. taskState[t] # "none" /\ taskState'[t] # "none"
      BY <1>2, <1>3, StatesApart DEF Live
    <3>2. \A u \in gone : taskState[u] # "none" /\ taskState'[u] # "none"
      BY <1>2, StatesApart DEF Over, Live
    <3> QED
      BY <1>2, <3>1, <3>2
  <2>2. taskState[t] # "none" /\ \A u \in Tasks : GoalOf[u] \in Goals
    BY <1>3, StatesApart, WorkflowAssumption DEF Live
  <2> QED
    BY <1>2, <1>4, <2>1, <2>2, BornKept
<1>8. CallsOpen'
  <2>1. \A u \in Tasks : callState'[u] \in Waiting => (callState'[u] = callState[u] /\ sent'[u] = sent[u]) \/ sent'[u] = 0
    BY <1>2, <1>4
  <2> QED
    BY <2>1, CallsOpenKept
<1> QED
  BY <1>2, <1>6, <1>7, <1>8, TypeInvParts

\* The end of a backoff changes one delivery only.
LEMMA BackoffStep ==
  ASSUME TypeOK, NEW k \in DOMAIN mail, BackoffEnds(k)
  PROVE  /\ World' \in Worlds /\ stopped' = stopped /\ mail[k].state = "pending" /\ DOMAIN mail' = DOMAIN mail
         /\ \A j \in DOMAIN mail : mail'[j] = IF j = k THEN [mail[j] EXCEPT !.due = TRUE] ELSE mail[j]
         /\ UNCHANGED <<systemState, goalState, agentState, taskState, callState>>
<1>1. mail \in Seq(Deliveries) /\ World \in Worlds
  BY WorldType DEF TypeOK, Deliveries
<1>2. Len(mail) \in Nat /\ DOMAIN mail = 1..Len(mail) /\ \A j \in DOMAIN mail : mail[j] \in Deliveries
  BY <1>1, MailType
<1>3. \A d \in Deliveries : [d EXCEPT !.due = TRUE] \in Deliveries
  BY ONLY DEF Deliveries
<1>4. /\ DOMAIN mail' = DOMAIN mail
      /\ \A j \in DOMAIN mail : mail'[j] = IF j = k THEN [mail[j] EXCEPT !.due = TRUE] ELSE mail[j]
  BY <1>2 DEF BackoffEnds
<1>5. mail' \in [1..Len(mail) -> Deliveries]
  BY <1>2, <1>3 DEF BackoffEnds
<1>6. mail' \in Seq(Deliveries)
  BY <1>2, <1>5, SeqFromFunction
<1>7. World' \in Worlds
  BY <1>1, <1>6 DEF BackoffEnds, World, Worlds, taskVars
<1> QED
  BY <1>4, <1>7 DEF BackoffEnds, taskVars

\* A notice to the parent is one more delivery, for which there was room.
LEMMA ProgressStep ==
  ASSUME TypeOK, NEW a \in Agents, NEW t \in Tasks, Progress(a, t)
  PROVE  /\ World' \in Worlds /\ stopped' = stopped /\ ParentOf[t] \in Tasks
         /\ UNCHANGED <<systemState, goalState, agentState, taskState, callState>>
         /\ mail' = Append(mail, Event(ParentOf[t], "progress", t)) /\ Event(ParentOf[t], "progress", t) \in Deliveries
         /\ RoomFor(GoalOf[ParentOf[t]])
<1>1. ParentOf[t] \in Tasks
  BY WorkflowAssumption DEF Progress, Root
<1>2. Event(ParentOf[t], "progress", t) \in Deliveries
  <2>1. "progress" \in Kinds
    BY DEF Kinds
  <2> QED
    BY <1>1, <2>1, EventType
<1>3. mail \in Seq(Deliveries) /\ World \in Worlds
  BY WorldType DEF TypeOK, Deliveries
<1>4. mail' \in Seq(Deliveries)
  BY <1>2, <1>3, AppendMail DEF Progress
<1>5. World' \in Worlds
  BY <1>3, <1>4 DEF Progress, OnlyTool, World, Worlds
<1>6. RoomFor(GoalOf[ParentOf[t]])
  <2>1. CanEmit(World, ParentOf[t]) /\ taskState' = taskState
    BY DEF Progress
  <2> QED
    BY <1>1, <1>3, <2>1, WorldType, RoomFound
<1> QED
  BY <1>1, <1>2, <1>5, <1>6 DEF Progress, OnlyTool

\* Sleeping, notices and backoffs keep the types.
LEMMA SmallStepsType ==
  ASSUME TypeInv, NEW a \in Agents, NEW t \in Tasks,
         Wait(a, t) \/ Progress(a, t) \/ \E j \in DOMAIN mail : BackoffEnds(j)
  PROVE  TypeInv'
<1> USE TypeFacts, Words
<1>0. TypeOK
  BY DEF TypeInv
<1>1. CASE Wait(a, t)
  <2>1. /\ activation' \in [Agents -> Slots] /\ receipt' \in [Tasks -> {"none", "running", "completed", "unknown"}]
        /\ awaits' \in [Tasks -> Tasks \union {NoTask}] /\ taskState' \in [Tasks -> TaskStates]
    BY <1>1, GoesOn DEF Wait, Receives
  <2>2. World' \in Worlds
    <3>1. World \in Worlds
      BY <1>0, WorldType
    <3> QED
      BY <1>1, <2>1, <3>1 DEF Wait, OnlyTool, World, Worlds
  <2>3. RestType'
    BY <1>1, <2>1, RestKept DEF Wait, OnlyTool
  <2>4. \A u \in Tasks : taskState'[u] = "none" <=> taskState[u] = "none"
    BY <1>1, StatesApart DEF Wait, MayUseTool, Live
  <2>5. Born' /\ CallsOpen'
    BY <1>1, <2>4, BornKept, CallsOpenKept DEF Wait
  <2> QED
    BY <2>2, <2>3, <2>5, TypeInvParts
<1>2. CASE Progress(a, t)
  <2>1. World' \in Worlds
    BY <1>0, <1>2, ProgressStep
  <2>2. activation' \in [Agents -> Slots] /\ receipt' \in [Tasks -> {"none", "running", "completed", "unknown"}]
    BY <1>2, GoesOn DEF Progress, Receives
  <2>3. RestType'
    BY <1>2, <2>2, RestKept DEF Progress, OnlyTool
  <2>4. Born' /\ CallsOpen'
    BY <1>2, BornKept, CallsOpenKept DEF Progress
  <2> QED
    BY <2>1, <2>3, <2>4, TypeInvParts
<1>3. ASSUME NEW j \in DOMAIN mail, BackoffEnds(j) PROVE TypeInv'
  <2>1. World' \in Worlds
    BY <1>0, <1>3, BackoffStep
  <2>2. RestType'
    BY <1>3, RestKept DEF BackoffEnds, taskVars, daemonVars
  <2>3. Born' /\ CallsOpen'
    BY <1>3, BornKept, CallsOpenKept DEF BackoffEnds, taskVars
  <2> QED
    BY <2>1, <2>2, <2>3, TypeInvParts
<1> QED
  BY <1>1, <1>2, <1>3

\* finishDelivery keeps the types.
LEMMA FinishActionsType ==
  ASSUME TypeInv, NEW a \in Agents, NEW t \in Tasks, Finish(a, t) \/ FinishFails(a, t)
  PROVE  TypeInv'
<1> USE TypeFacts
<1>0. TypeOK /\ \A u \in Tasks : GoalOf[u] \in Goals
  BY WorkflowAssumption DEF TypeInv
<1>1. activation' \in [Agents -> Slots]
  BY FinishingType DEF Finish, FinishStale, FinishPreserved, FinishRetry, FinishWaiting, FinishContinue, FinishTask, FinishFails
<1>2. Stale(a, t) \/ taskState[t] # "none"
  BY StatesApart DEF Stale, Live
<1>3. CASE FinishStale(a, t)
  <2>1. World' \in Worlds /\ UNCHANGED <<goalState, taskState, callState>>
    BY <1>0, <1>3, FinishStaleStep
  <2>2. RestType' /\ Born' /\ CallsOpen'
    BY <1>1, <1>3, <2>1, RestKept, BornKept, CallsOpenKept DEF FinishStale, taskVars
  <2> QED
    BY <2>1, <2>2, TypeInvParts
<1>4. CASE FinishPreserved(a, t)
  <2>1. /\ World' \in Worlds /\ UNCHANGED <<goalState, callState>>
        /\ taskState' = [taskState EXCEPT ![t] = IF @ = "waiting" THEN @ ELSE "queued"]
    BY <1>0, <1>4, FinishPreservedStep
  <2>2. taskState[t] # "none"
    BY <1>2, <1>4 DEF FinishPreserved, Preserved
  <2>3. \A u \in Tasks : taskState'[u] = "none" <=> taskState[u] = "none"
    BY <2>1, <2>2
  <2>4. RestType' /\ Born' /\ CallsOpen'
    BY <1>1, <1>4, <2>1, <2>3, RestKept, BornKept, CallsOpenKept DEF FinishPreserved, taskVars
  <2> QED
    BY <2>1, <2>4, TypeInvParts
<1>5. CASE FinishRetry(a, t)
  <2>1. /\ World' \in Worlds /\ UNCHANGED goalState /\ taskState' = [taskState EXCEPT ![t] = "queued"]
        /\ callState' = [callState EXCEPT ![t] = "awaiting_worker"]
    BY <1>0, <1>5, FinishRetryStep
  <2>2. taskState[t] # "none" /\ sent[t] = 0
    BY <1>2, <1>5 DEF FinishRetry, Retried
  <2>3. \A u \in Tasks : taskState'[u] = "none" <=> taskState[u] = "none"
    BY <2>1, <2>2
  <2>4. RestType' /\ Born' /\ CallsOpen'
    BY <1>1, <1>5, <2>1, <2>2, <2>3, RestKept, BornKept, CallsOpenKept DEF FinishRetry, taskVars
  <2> QED
    BY <2>1, <2>4, TypeInvParts
<1>6. CASE FinishWaiting(a, t)
  <2>1. World' \in Worlds /\ UNCHANGED <<goalState, taskState, callState>>
    BY <1>0, <1>6, FinishWaitingStep
  <2>2. RestType' /\ Born' /\ CallsOpen'
    BY <1>1, <1>6, <2>1, RestKept, BornKept, CallsOpenKept DEF FinishWaiting, taskVars
  <2> QED
    BY <2>1, <2>2, TypeInvParts
<1>7. CASE FinishContinue(a, t)
  <2>1. /\ World' \in Worlds /\ UNCHANGED goalState /\ taskState' = [taskState EXCEPT ![t] = "queued"]
        /\ callState' = [callState EXCEPT ![t] = "awaiting_worker"]
    BY <1>0, <1>7, FinishContinueStep
  <2>2. taskState[t] # "none" /\ Prepares(t) /\ turn[t] < MaxTurns
    BY <1>2, <1>7, TurnLeft DEF FinishContinue, Concluding
  <2>3. \A u \in Tasks : taskState'[u] = "none" <=> taskState[u] = "none"
    BY <2>1, <2>2
  <2>4. /\ turn' \in [Tasks -> 0..MaxTurns] /\ sent' \in [Tasks -> 0..MaxAttempts]
        /\ decision' \in [Tasks -> {"none"} \union Decisions]
        /\ receipt' \in [Tasks -> {"none", "running", "completed", "unknown"}]
        /\ awaits' \in [Tasks -> Tasks \union {NoTask}] /\ sent'[t] = 0
        /\ \A u \in Tasks \ {t} : turn'[u] = turn[u] /\ sent'[u] = sent[u]
    BY <2>2, PreparesType
  <2>5. RestType'
    BY <1>1, <1>7, <2>4, RestKept DEF FinishContinue
  <2>6. Born' /\ CallsOpen'
    BY <2>1, <2>2, <2>3, <2>4, BornKept, CallsOpenKept
  <2> QED
    BY <2>1, <2>5, <2>6, TypeInvParts
<1>8. CASE FinishTask(a, t)
  <2>1. /\ World' \in Worlds
        /\ \E gone \in SUBSET Tasks :
             /\ t \in gone /\ Over(gone) /\ Kept(gone) /\ SystemEnds(gone, systemState, systemState', mail')
             /\ \A u \in Tasks : taskState'[u] = IF u = t THEN Verdict(a, t)
                                                 ELSE IF u \in gone THEN "rejected" ELSE taskState[u]
    <3> HIDE TypeFacts
    <3> QED
      BY <1>0, <1>8, FinishTaskStep
  <2>2. RestType'
    BY <1>1, <1>8, RestKept DEF FinishTask, taskVars
  <2>3. PICK gone \in SUBSET Tasks :
          /\ t \in gone /\ Over(gone) /\ Kept(gone)
          /\ \A u \in Tasks \ gone : taskState'[u] = taskState[u]
    <3> HIDE TypeFacts
    <3> QED
      BY <2>1
  <2>4. Born' /\ CallsOpen'
    BY <1>8, <2>3, EndingType DEF FinishTask, taskVars
  <2> QED
    BY <2>1, <2>2, <2>4, TypeInvParts
<1>9. CASE FinishFails(a, t)
  <2>1. faults' \in 0..MaxFaults /\ World \in Worlds
    BY <1>0, <1>9, FaultType, WorldType DEF FinishFails
  <2> QED
    BY <1>1, <1>9, <2>1, CallStepType DEF FinishFails, ruled, goalVars, taskVars
<1> QED
  BY <1>3, <1>4, <1>5, <1>6, <1>7, <1>8, <1>9 DEF Finish
\* The steps of one kind that Next is made of.
Steps(a, t) ==
  \/ AskModel(a, t) \/ RejectQueued(t) \/ Dispatch(a, t) \/ Answer(a, t)
  \/ SettleFails(a, t) \/ LeaveBroker(a, t) \/ GiveUp(a, t) \/ WorkerFails(a)
Tools(a, t) == ReplayTool(a, t) \/ ToolRefused(a, t) \/ StartTool(a, t) \/ FinishTool(a, t) \/ ToolLost(a, t)
Rests == Pauses \/ Cancel \/ Shutdown \/ \E g \in Goals : Expire(g)

\* Every step is of one of these kinds.
LEMMA NextKinds ==
  ASSUME TypeInv, Next
  PROVE  \/ \E a \in Agents, t \in Tasks :
              \/ Steps(a, t) \/ Tools(a, t) \/ Wait(a, t) \/ Progress(a, t)
              \/ Finish(a, t) \/ FinishFails(a, t) \/ \E c \in Tasks : Delegate(a, t, c)
         \/ \E a \in Agents : WorkerFails(a)
         \/ \E t \in Tasks : Start(t) \/ AddInput(t)
         \/ ClaimNone \/ (\E i \in DOMAIN mail : Claim(i) \/ BackoffEnds(i))
         \/ Rests \/ Stops \/ Recovers
<1>1. CASE ControlSystem \/ StopSystem \/ (\E g \in Goals : ControlGoal(g)) \/ (\E b \in Agents : ControlAgent(b))
  BY <1>1, ControlKinds DEF Rests, Stops
<1>2. CASE Crash \/ Reopen
  BY <1>2, TypeFacts, FaultType DEF Crash, Reopen, Recovers
<1>3. CASE Cancel \/ Shutdown \/ \E g \in Goals : Expire(g)
  BY <1>3 DEF Rests
<1>4. CASE Schedule
  BY <1>4 DEF Schedule
<1>5. ASSUME NEW a \in Agents, NEW t \in Tasks,
             Ask(a, t) \/ Admit(a, t) \/ Answer(a, t) \/ SettleFails(a, t) \/ Work(a, t) \/ ToolLost(a, t)
      PROVE  Steps(a, t) \/ Tools(a, t) \/ Wait(a, t) \/ Progress(a, t) \/ \E c \in Tasks : Delegate(a, t, c)
  BY <1>5 DEF Ask, Admit, Work, Steps, Tools
<1> QED
  BY <1>1, <1>2, <1>3, <1>4, <1>5 DEF Next

\* Every step keeps the types.
LEMMA TypeInvNext == TypeInv /\ [Next]_vars => TypeInv'
<1> SUFFICES ASSUME TypeInv, [Next]_vars PROVE TypeInv'
  OBVIOUS
<1>1. ASSUME NEW a \in Agents, NEW t \in Tasks, Steps(a, t) \/ Tools(a, t) PROVE TypeInv'
  BY <1>1, CallActionsType, ToolActionsType DEF Steps, Tools
<1>2. ASSUME NEW a \in Agents, NEW t \in Tasks, Wait(a, t) \/ Progress(a, t) \/ Finish(a, t) \/ FinishFails(a, t)
      PROVE  TypeInv'
  BY <1>2, SmallStepsType, FinishActionsType
<1>3. ASSUME NEW a \in Agents, NEW t \in Tasks, NEW c \in Tasks, Delegate(a, t, c) PROVE TypeInv'
  BY <1>3, PostingType
<1>4. ASSUME NEW t \in Tasks, Start(t) \/ AddInput(t) PROVE TypeInv'
  BY <1>4, PostingType, WorkflowAssumption
<1>5. ASSUME NEW i \in DOMAIN mail, Claim(i) PROVE TypeInv'
  BY <1>5, ClaimType
<1>6. ASSUME NEW i \in DOMAIN mail, BackoffEnds(i) PROVE TypeInv'
  <2>1. mail[i].task \in Tasks
    <3>1. mail \in Seq(Deliveries)
      BY TypeFacts
    <3>2. mail[i] \in Deliveries
      BY <3>1, MailType
    <3> QED
      BY <3>2 DEF Deliveries
  <2> QED
    BY <1>6, <2>1, SmallStepsType, WorkflowAssumption
<1>7. CASE ClaimNone \/ Stops \/ Recovers
  BY <1>7, EndingActionsType
<1>8. CASE Rests
  BY <1>8, ControlActionsType DEF Rests
<1>9. ASSUME NEW a \in Agents, WorkerFails(a) PROVE TypeInv'
  <2>1. activation' \in [Agents -> Slots] /\ faults' \in 0..MaxFaults
    BY <1>9, GoesOn, FaultType, TypeFacts, Words DEF WorkerFails
  <2> QED
    BY <1>9, <2>1, TypeFacts, CallStepType DEF WorkerFails, OnlyCall, goalVars
<1>10. CASE UNCHANGED vars
  BY <1>10 DEF TypeInv, TypeOK, Born, CallsOpen, vars, ruled, goalVars, taskVars, daemonVars
<1> QED
  BY <1>1, <1>2, <1>3, <1>4, <1>5, <1>6, <1>7, <1>8, <1>9, <1>10, NextKinds

\* The initial state has the types.
LEMMA TypeInvInit == Init => TypeInv
<1> SUFFICES ASSUME Init PROVE TypeInv
  OBVIOUS
<1>1. Idle \in Slots
  BY DEF Idle, Slots, Stages
<1>2. MaxTurns \in Nat /\ MaxInputs \in Nat /\ MaxFaults \in Nat
  BY WorkflowAssumption
<1>3. TypeOK
  <2>1. mail \in Seq(Deliveries)
    BY DEF Init
  <2>2. activation \in [Agents -> Slots]
    BY <1>1 DEF Init
  <2>3. /\ sent \in [Tasks -> 0..MaxAttempts] /\ turn \in [Tasks -> 0..MaxTurns]
        /\ faults \in 0..MaxFaults /\ inputs \in 0..MaxInputs
    BY <1>2 DEF Init, MaxAttempts
  <2> QED
    BY <2>1, <2>2, <2>3 DEF Init, TypeOK, Slots, Deliveries
<1> QED
  BY <1>3 DEF TypeInv, Born, CallsOpen, Init, Waiting, MaxAttempts

\* Always: every variable has its type, an unborn task has no history, a call
\* that waits may still be dispatched.
LEMMA TypeInvAlways == Spec => []TypeInv
<1>1. TypeInv /\ [Next]_vars => TypeInv'
  BY TypeInvNext
<1> QED
  BY TypeInvInit, <1>1, PTL DEF Spec

\* The types of the workflow, for any goals, tasks, agents and limits.
THEOREM WorkflowTypes == Spec => []TypeOK
<1>1. TypeInv => TypeOK
  BY DEF TypeInv
<1> QED
  BY <1>1, TypeInvAlways, PTL

-----------------------------------------------------------------------------
(* Steps that move no delivery and no task *)

\* A tool's receipt changes, and a call is dispatched, only like this.
QuietTools ==
  /\ \A t \in Tasks : \/ receipt'[t] = receipt[t]
                      \/ receipt[t] = "none" /\ receipt'[t] = "running" /\ ~Halted(t)
                      \/ receipt'[t] \in {"completed", "unknown"} /\ \E a \in Agents : At(a, "run", t)
  /\ \A t \in Tasks : sent'[t] = sent[t] \/ ~Halted(t)
  /\ \A a \in Agents : activation'[a].stage = "run" =>
       activation[a].stage = "run" \/ receipt'[activation[a].task] = "running"

\* The step leaves the tasks, their mailboxes and the leases as they are; the
\* system at most pauses or resumes, and only a worker's own call is asked.
Quiet ==
  /\ UNCHANGED <<taskState, mail, stopped, turn, awaits>> /\ SameLeases
  /\ systemState' = systemState \/ {systemState, systemState'} \subseteq {"running", "paused"}
  /\ broken => broken'
  /\ \A t \in Tasks : Unasked(t) /\ ~Unasked(t)' => \E a \in Agents : activation[a].task = t /\ activation[a].stage # "idle"
  /\ QuietTools

\* The calls and tools of a worker are such steps.
LEMMA QuietWork ==
  ASSUME TypeInv, NEW a \in Agents, NEW t \in Tasks, Steps(a, t) \/ Tools(a, t)
  PROVE  Quiet
<1> USE Words
<1>0. activation \in [Agents -> Slots] /\ callState \in [Tasks -> CallStates] /\ sent \in [Tasks -> 0..MaxAttempts]
      /\ receipt \in [Tasks -> {"none", "running", "completed", "unknown"}]
  BY TypeFacts
<1>a. ASSUME NEW s \in Stages \ {"run"}, Goes(a, s), UNCHANGED <<receipt, sent>> PROVE QuietTools
  BY <1>0, <1>a, GoesOn DEF QuietTools
<1>1. CASE AskModel(a, t)
  <2>1. SameLeases /\ activation[a].task = t /\ activation[a].stage # "idle"
    BY <1>0, <1>1, GoesOn DEF AskModel, At
  <2>2. \A u \in Tasks \ {t} : callState'[u] = callState[u]
    BY <1>0, <1>1 DEF AskModel, Calls
  <2>3. QuietTools
    BY <1>1, <1>a DEF AskModel, OnlyCall
  <2> QED
    BY <1>1, <2>1, <2>2, <2>3 DEF AskModel, OnlyCall, Quiet, Unasked
<1>2. CASE RejectQueued(t) \/ Dispatch(a, t) \/ Answer(a, t)
  <2>1. UNCHANGED <<systemState, taskState, mail, stopped, turn, awaits, receipt, activation, broken>>
    BY <1>2 DEF RejectQueued, Dispatch, Answer, OnlyCall
  <2>2. callState[t] # "awaiting_worker"
    BY <1>2 DEF RejectQueued, Dispatch, Answer, Admitting, At
  <2>3. /\ \A u \in Tasks \ {t} : callState'[u] = callState[u] /\ sent'[u] = sent[u]
        /\ sent'[t] = sent[t] \/ ~Halted(t)
    BY <1>0, <1>2 DEF RejectQueued, Dispatch, Answer, Calls, Barred, Halted
  <2> QED
    BY <2>1, <2>2, <2>3 DEF Quiet, QuietTools, Unasked, SameLeases
<1>3. CASE SettleFails(a, t)
  <2>1. SameLeases /\ QuietTools
    BY <1>0, <1>3, <1>a, GoesOn DEF SettleFails, At, OnlyCall
  <2> QED
    BY <1>3, <2>1 DEF SettleFails, OnlyCall, Quiet, Unasked
<1>4. CASE LeaveBroker(a, t)
  <2>1. PICK s \in {"error", "done", "tool"} : Goes(a, s)
    BY <1>4 DEF LeaveBroker
  <2>2. activation[a].stage # "idle" /\ UNCHANGED <<receipt, sent>>
    BY <1>4 DEF LeaveBroker, At, OnlyCall
  <2>3. SameLeases /\ QuietTools
    BY <1>0, <1>a, <2>1, <2>2, GoesOn
  <2> QED
    BY <1>4, <2>3 DEF LeaveBroker, OnlyCall, Quiet, Unasked
<1>5. CASE GiveUp(a, t)
  <2>1. SameLeases /\ QuietTools
    BY <1>0, <1>5, <1>a, GoesOn DEF GiveUp, At, OnlyCall
  <2>2. callState[t] # "awaiting_worker" /\ \A u \in Tasks \ {t} : callState'[u] = callState[u]
    BY <1>0, <1>5 DEF GiveUp, Calls
  <2> QED
    BY <1>5, <2>1, <2>2 DEF GiveUp, OnlyCall, Quiet, Unasked
<1>6. CASE WorkerFails(a)
  <2>1. SameLeases /\ QuietTools
    BY <1>0, <1>6, <1>a, GoesOn DEF WorkerFails, OnlyCall
  <2> QED
    BY <1>6, <2>1 DEF WorkerFails, OnlyCall, Quiet, Unasked
<1>7. CASE Tools(a, t)
  <2>1. /\ UNCHANGED <<ruled, awaits, turn, sent, stopped, broken>>
        /\ activation[a].stage # "idle" /\ \E s \in Stages \ {"idle"} : Goes(a, s)
    BY <1>7 DEF Tools, ReplayTool, ToolRefused, StartTool, FinishTool, ToolLost, OnlyTool, taskVars, MayUseTool, At
  <2>2. SameLeases
    BY <1>0, <2>1, GoesOn
  <2>3. QuietTools
    <3>1. CASE ReplayTool(a, t) \/ ToolRefused(a, t) \/ ToolLost(a, t)
      BY <1>a, <3>1 DEF ReplayTool, ToolRefused, ToolLost, OnlyTool, taskVars
    <3>2. CASE StartTool(a, t)
      <4>1. /\ receipt[t] = "none" /\ receipt'[t] = "running" /\ ~Halted(t) /\ activation[a].task = t
            /\ \A u \in Tasks \ {t} : receipt'[u] = receipt[u]
            /\ \A b \in Agents \ {a} : activation'[b] = activation[b]
        BY <1>0, <3>2, GoesOn DEF StartTool, Receives, MayUseTool, At
      <4> QED
        BY <2>1, <4>1 DEF QuietTools
    <3>3. CASE FinishTool(a, t)
      <4>1. /\ receipt'[t] \in {"completed", "unknown"} /\ At(a, "run", t)
            /\ \A u \in Tasks \ {t} : receipt'[u] = receipt[u]
        BY <1>0, <3>3 DEF FinishTool, Receives
      <4>2. activation'[a].stage # "run" /\ \A b \in Agents \ {a} : activation'[b] = activation[b]
        BY <1>0, <3>3, GoesOn DEF FinishTool
      <4> QED
        BY <2>1, <4>1, <4>2 DEF QuietTools
    <3> QED
      BY <1>7, <3>1, <3>2, <3>3 DEF Tools
  <2> QED
    BY <2>1, <2>2, <2>3 DEF Quiet, Unasked, ruled
<1> QED
  BY <1>1, <1>2, <1>3, <1>4, <1>5, <1>6, <1>7 DEF Steps

\* A worker that fails leaves its delivery leased.
LEMMA QuietFailure ==
  ASSUME TypeInv, NEW a \in Agents, WorkerFails(a)
  PROVE  Quiet
<1>1. activation \in [Agents -> Slots] /\ "error" \in Stages
  BY TypeFacts DEF Stages
<1>2. SameLeases /\ QuietTools
  BY <1>1, GoesOn DEF WorkerFails, OnlyCall, QuietTools
<1> QED
  BY <1>2 DEF WorkerFails, OnlyCall, Quiet, Unasked

\* Pauses, deadlines, cancellations and the shutdown are such steps.
LEMMA QuietRests ==
  ASSUME TypeInv, Rests
  PROVE  Quiet
<1>0. World \in Worlds /\ activation \in [Agents -> Slots]
  BY WorldType, TypeFacts DEF TypeInv
<1>1. CASE ControlSystem
  <2>1. PICK s \in {"running", "paused"} : Becomes([World EXCEPT !.system = s])
    BY <1>1 DEF ControlSystem
  <2>2. /\ systemState' = s /\ taskState' = taskState /\ callState' = callState /\ mail' = mail
    BY <1>0, <2>1, WorldType DEF Becomes, Worlds, TypeInv
  <2>3. systemState \in {"running", "paused"} /\ UNCHANGED <<stopped, turn, awaits, sent, receipt, activation, broken>>
    BY <1>1 DEF ControlSystem, OnlyControl
  <2> QED
    BY <2>2, <2>3 DEF Quiet, QuietTools, Unasked, SameLeases
<1>2. CASE \E g \in Goals : Unlocked /\ UNCHANGED <<ruled, stopped, activation, revoked>> /\ OnlyControl
       /\ \E state \in {"active", "paused"} \ {goalControl[g]} :
            goalControl[g] # "stopped" /\ goalControl' = [goalControl EXCEPT ![g] = state]
  BY <1>2 DEF Quiet, QuietTools, Unasked, SameLeases, OnlyControl, ruled
<1>3. CASE \E b \in Agents : Unlocked /\ UNCHANGED <<goalControl, stopped, activation, revoked>> /\ OnlyControl
       /\ agentState[b] # "stopped"
       /\ \E state \in {"active", "paused"} \ {agentState[b]} : Becomes([World EXCEPT !.agents[b] = state])
  <2>1. PICK b \in Agents, s \in {"active", "paused"} : Becomes([World EXCEPT !.agents[b] = s])
    BY <1>3
  <2>2. /\ systemState' = systemState /\ taskState' = taskState /\ callState' = callState /\ mail' = mail
    BY <1>0, <2>1, WorldType DEF Becomes, Worlds, TypeInv
  <2>3. UNCHANGED <<stopped, turn, awaits, sent, receipt, activation, broken>>
    BY <1>3 DEF OnlyControl
  <2> QED
    BY <2>2, <2>3 DEF Quiet, QuietTools, Unasked, SameLeases
<1>4. CASE Cancel
  <2>1. \A r \in Slots : LET s == [r EXCEPT !.canceled = TRUE] IN
          s.task = r.task /\ s.turn = r.turn /\ s.mail = r.mail /\ s.stage = r.stage
    BY ONLY DEF Slots
  <2>2. \A b \in Agents : activation[b] \in Slots
    BY <1>0
  <2>3. SameLeases /\ QuietTools
    BY <1>4, <2>1, <2>2 DEF Cancel, SameLeases, QuietTools, taskVars
  <2> QED
    BY <1>4, <2>3 DEF Cancel, Quiet, Unasked, ruled, taskVars
<1>5. CASE Shutdown
  <2>1. \A r \in Slots, x \in BOOLEAN : LET s == [r EXCEPT !.canceled = x] IN
          s.task = r.task /\ s.turn = r.turn /\ s.mail = r.mail /\ s.stage = r.stage
    BY ONLY DEF Slots
  <2>2. \A b \in Agents : activation[b] \in Slots /\ (activation[b].stage # "idle") \in BOOLEAN
    BY <1>0
  <2>3. \A b \in Agents : activation'[b] = [activation[b] EXCEPT !.canceled = activation[b].stage # "idle"]
    BY <1>5 DEF Shutdown
  <2>4. SameLeases /\ QuietTools
    BY <1>5, <2>1, <2>2, <2>3 DEF Shutdown, SameLeases, QuietTools, taskVars
  <2> QED
    BY <1>5, <2>4 DEF Shutdown, Quiet, Unasked, ruled, taskVars
<1>6. CASE \E g \in Goals : Expire(g)
  BY <1>6 DEF Expire, Quiet, QuietTools, Unasked, SameLeases, ruled, taskVars, daemonVars
<1> QED
  BY <1>1, <1>2, <1>3, <1>4, <1>5, <1>6 DEF Rests, Pauses

\* So every step is quiet, or it starts, ends or moves tasks and deliveries.
LEMMA LoudKinds ==
  ASSUME TypeInv, [Next]_vars
  PROVE  \/ Quiet
         \/ \E a \in Agents, t \in Tasks :
              \/ Wait(a, t) \/ Progress(a, t) \/ \E c \in Tasks : Delegate(a, t, c)
              \/ Finish(a, t) \/ FinishFails(a, t)
         \/ \E t \in Tasks : Start(t) \/ AddInput(t)
         \/ ClaimNone \/ (\E i \in DOMAIN mail : Claim(i) \/ BackoffEnds(i))
         \/ Stops \/ Recovers
<1>1. CASE UNCHANGED vars
  BY <1>1 DEF vars, ruled, taskVars, daemonVars, Quiet, QuietTools, Unasked, SameLeases
<1>2. CASE Next
  BY <1>2, NextKinds, QuietWork, QuietFailure, QuietRests
<1> QED
  BY <1>1, <1>2

-----------------------------------------------------------------------------
(* What a step makes of the mailbox *)

\* Delivery e is what became of d: a delivery never changes its task, kind or
\* origin, what was applied stays applied, and what is settled stays so.
Same(d, e) ==
  /\ e.task = d.task /\ e.kind = d.kind /\ e.from = d.from /\ (d.applied => e.applied)
  /\ d.state \in {"acked", "dead"} => e = d

\* No delivery disappears, a new one is pending and unread, and the leased
\* ones are those of S.
KeepsMail(S) ==
  /\ DOMAIN mail \subseteq DOMAIN mail' /\ Leased(mail') = S
  /\ \A j \in DOMAIN mail : Same(mail[j], mail'[j])
  /\ \A j \in DOMAIN mail' \ DOMAIN mail :
       mail'[j].state = "pending" /\ ~mail'[j].applied /\ mail'[j].copies = 0 /\ mail'[j].due

\* The edits that steps make.
LEMMA Edits ==
  ASSUME NEW d \in Deliveries
  PROVE  /\ \A s \in {"pending", "leased", "acked", "dead"} :
              LET e == [d EXCEPT !.state = s] IN
              e.task = d.task /\ e.kind = d.kind /\ e.from = d.from /\ e.applied = d.applied /\ e.state = s
              /\ e.copies = d.copies /\ e.due = d.due
         /\ LET e == [d EXCEPT !.state = "pending", !.due = FALSE] IN
              e.task = d.task /\ e.kind = d.kind /\ e.from = d.from /\ e.applied = d.applied /\ e.state = "pending"
              /\ e.copies = d.copies /\ ~e.due
         /\ LET e == [d EXCEPT !.due = TRUE] IN
              e.task = d.task /\ e.kind = d.kind /\ e.from = d.from /\ e.applied = d.applied /\ e.state = d.state
              /\ e.copies = d.copies /\ e.due
         /\ LET e == [d EXCEPT !.state = "acked", !.applied = TRUE] IN
              e.task = d.task /\ e.kind = d.kind /\ e.from = d.from /\ e.applied /\ e.state = "acked"
              /\ e.copies = d.copies /\ e.due = d.due
         /\ LET e == [d EXCEPT !.state = "acked", !.applied = TRUE, !.copies = @ + 1] IN
              e.task = d.task /\ e.kind = d.kind /\ e.from = d.from /\ e.applied /\ e.state = "acked"
              /\ e.copies = d.copies + 1 /\ e.due = d.due
         /\ \A x \in BOOLEAN :
              LET e == [d EXCEPT !.state = "leased", !.applied = TRUE, !.attempts = @ + 1,
                                 !.copies = IF x THEN @ + 1 ELSE @] IN
              e.task = d.task /\ e.kind = d.kind /\ e.from = d.from /\ e.applied /\ e.state = "leased"
              /\ e.copies = (IF x THEN d.copies + 1 ELSE d.copies) /\ e.due = d.due
  BY ONLY DEF Deliveries

\* Ends and sorting keep a delivery, and whether it is leased.
LEMMA SiftedDelivery ==
  ASSUME TypeInv, NEW j \in DOMAIN mail, NEW i, NEW e, NEW gone, Sifted(i, j, e, gone) \/ Old(mail[j], e, gone)
  PROVE  /\ Same(mail[j], e) /\ (e.state = "leased" <=> mail[j].state = "leased") /\ e.copies = mail[j].copies
         /\ e.due = mail[j].due
<1>1. mail[j] \in Deliveries
  <2>1. mail \in Seq(Deliveries)
    BY TypeFacts
  <2> QED
    BY <2>1, MailType
<1>2. \/ e = mail[j]
      \/ mail[j].state = "pending" /\ e = [mail[j] EXCEPT !.state = "dead"]
      \/ mail[j].state = "pending" /\ e = [mail[j] EXCEPT !.state = "acked", !.applied = TRUE]
  BY DEF Sifted, Old, Notices, Candidates
<1>3. CASE e = mail[j]
  BY <1>3 DEF Same
<1>4. CASE mail[j].state = "pending" /\ e = [mail[j] EXCEPT !.state = "dead"]
  <2>1. /\ e.task = mail[j].task /\ e.kind = mail[j].kind /\ e.from = mail[j].from /\ e.applied = mail[j].applied
        /\ e.state = "dead" /\ e.copies = mail[j].copies /\ e.due = mail[j].due
    BY <1>1, <1>4 DEF Deliveries
  <2> QED
    BY <1>4, <2>1 DEF Same
<1>5. CASE mail[j].state = "pending" /\ e = [mail[j] EXCEPT !.state = "acked", !.applied = TRUE]
  <2>1. /\ e.task = mail[j].task /\ e.kind = mail[j].kind /\ e.from = mail[j].from /\ e.applied
        /\ e.state = "acked" /\ e.copies = mail[j].copies /\ e.due = mail[j].due
    BY <1>1, <1>5 DEF Deliveries
  <2> QED
    BY <1>5, <2>1 DEF Same
<1> QED
  BY <1>2, <1>3, <1>4, <1>5

\* The results of ended tasks are new, pending deliveries.
LEMMA PostedMail ==
  ASSUME NEW gone \in SUBSET Tasks, Posted(mail', gone)
  PROVE  /\ DOMAIN mail \subseteq DOMAIN mail'
         /\ \A j \in DOMAIN mail' \ DOMAIN mail :
              /\ mail'[j].state = "pending" /\ ~mail'[j].applied /\ mail'[j].copies = 0 /\ mail'[j].due
              /\ mail'[j].task \in Tasks /\ mail'[j].kind = "result" /\ mail'[j].from \in gone
              /\ ParentOf[mail'[j].from] = mail'[j].task /\ mail'[j].task \notin gone /\ Live(mail'[j].task)
<1>1. DOMAIN mail \subseteq DOMAIN mail'
  BY DEF Posted
<1>2. ASSUME NEW j \in DOMAIN mail' \ DOMAIN mail
      PROVE  /\ mail'[j].state = "pending" /\ ~mail'[j].applied /\ mail'[j].copies = 0 /\ mail'[j].due
             /\ mail'[j].task \in Tasks /\ mail'[j].kind = "result" /\ mail'[j].from \in gone
             /\ ParentOf[mail'[j].from] = mail'[j].task /\ mail'[j].task \notin gone /\ Live(mail'[j].task)
  <2>1. PICK c \in gone : /\ ParentOf[c] \in Tasks \ gone /\ Live(ParentOf[c])
                          /\ mail'[j] = Event(ParentOf[c], "result", c)
    BY DEF Posted
  <2> QED
    BY <2>1 DEF Event
<1> QED
  BY <1>1, <1>2

\* So are the mailboxes after a step that ended tasks.
LEMMA EndedMail ==
  ASSUME TypeInv, NEW i, NEW gone \in SUBSET Tasks, Over(gone),
         \A j \in DOMAIN mail : Sifted(i, j, mail'[j], gone) \/ Old(mail[j], mail'[j], gone)
  PROVE  KeepsMail(Leased(mail))
<1>1. \A j \in DOMAIN mail : Same(mail[j], mail'[j]) /\ (mail'[j].state = "leased" <=> mail[j].state = "leased")
  BY SiftedDelivery
<1>2. /\ DOMAIN mail \subseteq DOMAIN mail'
      /\ \A j \in DOMAIN mail' \ DOMAIN mail :
           mail'[j].state = "pending" /\ ~mail'[j].applied /\ mail'[j].copies = 0 /\ mail'[j].due
  BY PostedMail DEF Over
<1>3. Leased(mail') = Leased(mail)
  BY <1>1, <1>2 DEF Leased
<1> QED
  BY <1>1, <1>2, <1>3 DEF KeepsMail

\* An event that is posted is a new, pending delivery.
LEMMA AppendedMail ==
  ASSUME TypeInv, NEW t \in Tasks, NEW kind \in Kinds, NEW from \in Tasks \union {NoTask},
         mail' = Append(mail, Event(t, kind, from))
  PROVE  /\ KeepsMail(Leased(mail)) /\ \A j \in DOMAIN mail : mail'[j] = mail[j]
         /\ DOMAIN mail' = DOMAIN mail \union {Len(mail) + 1} /\ Len(mail) + 1 \notin DOMAIN mail
         /\ mail'[Len(mail) + 1] = Event(t, kind, from)
<1>1. mail \in Seq(Deliveries) /\ Event(t, kind, from) \in Deliveries
  BY TypeFacts, EventType
<1>2. /\ DOMAIN mail' = DOMAIN mail \union {Len(mail) + 1} /\ Len(mail) + 1 \notin DOMAIN mail
      /\ mail'[Len(mail) + 1] = Event(t, kind, from)
      /\ \A j \in DOMAIN mail : mail'[j] = mail[j]
  BY <1>1, AppendMail
<1>3. Event(t, kind, from).state = "pending" /\ ~Event(t, kind, from).applied /\ Event(t, kind, from).copies = 0
      /\ Event(t, kind, from).due
  BY EventType
<1>4. KeepsMail(Leased(mail))
  BY <1>2, <1>3 DEF KeepsMail, Same, Leased
<1> QED
  BY <1>2, <1>4

\* Deliveries have their types, also after the step.
LEMMA MailFacts ==
  ASSUME TypeInv
  PROVE  /\ mail \in Seq(Deliveries) /\ Len(mail) \in Nat /\ DOMAIN mail = 1..Len(mail)
         /\ \A j \in DOMAIN mail : mail[j] \in Deliveries /\ mail[j].task \in Tasks /\ j \in Nat
<1>1. mail \in Seq(Deliveries)
  BY TypeFacts
<1>2. Len(mail) \in Nat /\ DOMAIN mail = 1..Len(mail) /\ \A j \in DOMAIN mail : mail[j] \in Deliveries
  BY <1>1, MailType
<1>3. \A d \in Deliveries : d.task \in Tasks
  BY ONLY DEF Deliveries
<1> QED
  BY <1>1, <1>2, <1>3

\* A backoff that ends moves no delivery.
LEMMA BackoffMail ==
  ASSUME TypeInv, NEW k \in DOMAIN mail, BackoffEnds(k)
  PROVE  KeepsMail(Leased(mail))
<1>1. TypeOK
  BY DEF TypeInv
<1>2. DOMAIN mail' = DOMAIN mail /\ \A j \in DOMAIN mail : mail'[j] = IF j = k THEN [mail[j] EXCEPT !.due = TRUE] ELSE mail[j]
  BY <1>1, BackoffStep
<1>3. mail[k].state = "pending"
  BY DEF BackoffEnds
<1>4. \A j \in DOMAIN mail : /\ mail'[j].task = mail[j].task /\ mail'[j].kind = mail[j].kind
                             /\ mail'[j].from = mail[j].from /\ mail'[j].applied = mail[j].applied
                             /\ mail'[j].state = mail[j].state /\ (mail'[j] = mail[j] \/ mail[j].state = "pending")
  <2> TAKE j \in DOMAIN mail
  <2>1. CASE j = k
    <3>1. mail[j] \in Deliveries /\ mail'[j] = [mail[j] EXCEPT !.due = TRUE]
      BY <1>2, <2>1, MailFacts
    <3> QED
      BY <1>3, <2>1, <3>1 DEF Deliveries
  <2>2. CASE j # k
    BY <1>2, <2>2
  <2> QED
    BY <2>1, <2>2
<1> QED
  BY <1>2, <1>4 DEF KeepsMail, Same, Leased

\* A claim leases its delivery.
LEMMA ClaimMail ==
  ASSUME TypeInv, NEW i \in DOMAIN mail, NEW t \in Tasks, t = mail[i].task, NEW gone \in SUBSET Tasks,
         ClaimEnds(i, t, gone), mail[i].state = "pending"
  PROVE  /\ KeepsMail(Leased(mail) \union {i}) /\ mail'[i].applied /\ mail'[i].due = mail[i].due
         /\ mail'[i].copies = IF Takes(i) THEN mail[i].copies + 1 ELSE mail[i].copies
<1>1. \A j \in DOMAIN mail : mail[j] \in Deliveries
  BY MailFacts
<1>2. mail'[i] = [mail[i] EXCEPT !.state = "leased", !.applied = TRUE, !.attempts = @ + 1,
                                 !.copies = IF Takes(i) THEN @ + 1 ELSE @]
  BY DEF ClaimEnds
<1>3. Takes(i) \in BOOLEAN
  BY DEF Takes
<1>4. /\ mail'[i].task = mail[i].task /\ mail'[i].kind = mail[i].kind /\ mail'[i].from = mail[i].from
      /\ mail'[i].applied /\ mail'[i].state = "leased" /\ mail'[i].due = mail[i].due
      /\ mail'[i].copies = (IF Takes(i) THEN mail[i].copies + 1 ELSE mail[i].copies)
  BY <1>1, <1>2, <1>3, Edits
<1>5. ASSUME NEW j \in DOMAIN mail \ {i}
      PROVE  Same(mail[j], mail'[j]) /\ (mail'[j].state = "leased" <=> mail[j].state = "leased")
  <2>1. CASE Read(i, j) /\ mail'[j] = [mail[j] EXCEPT !.state = "acked", !.applied = TRUE, !.copies = @ + 1]
    <3>1. /\ mail'[j].task = mail[j].task /\ mail'[j].kind = mail[j].kind /\ mail'[j].from = mail[j].from
          /\ mail'[j].applied /\ mail'[j].state = "acked" /\ mail[j].state = "pending"
      BY <1>1, <2>1, Edits DEF Read
    <3> QED
      BY <3>1 DEF Same
  <2>2. CASE Sifted(i, j, mail'[j], gone)
    BY <2>2, SiftedDelivery
  <2> QED
    BY <2>1, <2>2 DEF ClaimEnds
<1>6. /\ DOMAIN mail \subseteq DOMAIN mail'
      /\ \A j \in DOMAIN mail' \ DOMAIN mail :
           mail'[j].state = "pending" /\ ~mail'[j].applied /\ mail'[j].copies = 0 /\ mail'[j].due
  BY PostedMail DEF ClaimEnds, Over
<1>7. Leased(mail') = Leased(mail) \union {i}
  BY <1>4, <1>5, <1>6 DEF Leased
<1>8. Same(mail[i], mail'[i])
  BY <1>4 DEF Same
<1> QED
  BY <1>4, <1>5, <1>6, <1>7, <1>8 DEF KeepsMail

\* A restart takes every lease back.
LEMMA RecoverMail ==
  ASSUME TypeInv, NEW gone \in SUBSET Tasks, Over(gone), Leased(mail') = {},
         \A j \in DOMAIN mail : Old(Returned(j), mail'[j], gone)
  PROVE  /\ KeepsMail({})
         /\ \A j \in DOMAIN mail : mail'[j].applied = mail[j].applied /\ mail'[j].copies = mail[j].copies
                                   /\ mail'[j].due = mail[j].due
<1>1. TypeOK
  BY DEF TypeInv
<1>2. ASSUME NEW j \in DOMAIN mail
      PROVE  /\ Same(mail[j], mail'[j]) /\ mail'[j].applied = mail[j].applied /\ mail'[j].copies = mail[j].copies
             /\ mail'[j].due = mail[j].due
  <2>1. /\ Returned(j) = [mail[j] EXCEPT !.state = Returned(j).state]
        /\ Returned(j) \in Deliveries
        /\ mail[j].state \in {"acked", "dead"} => Returned(j).state = mail[j].state
    BY <1>1, ReturnedDelivery
  <2>2. mail[j] \in Deliveries
    BY MailFacts
  <2>3. /\ Returned(j).task = mail[j].task /\ Returned(j).kind = mail[j].kind /\ Returned(j).from = mail[j].from
        /\ Returned(j).applied = mail[j].applied /\ Returned(j).copies = mail[j].copies /\ Returned(j).due = mail[j].due
    BY <2>1, <2>2 DEF Deliveries
  <2>4. mail[j].state \in {"acked", "dead"} => Returned(j) = mail[j]
    BY <2>1, <2>2 DEF Deliveries
  <2>5. mail'[j] = Returned(j) \/ (Returned(j).state = "pending" /\ mail'[j] = [Returned(j) EXCEPT !.state = "dead"])
    BY DEF Old
  <2>6. CASE mail'[j] = Returned(j)
    BY <2>3, <2>4, <2>6 DEF Same
  <2>7. CASE Returned(j).state = "pending" /\ mail'[j] = [Returned(j) EXCEPT !.state = "dead"]
    <3>1. /\ mail'[j].task = mail[j].task /\ mail'[j].kind = mail[j].kind /\ mail'[j].from = mail[j].from
          /\ mail'[j].applied = mail[j].applied /\ mail'[j].copies = mail[j].copies /\ mail'[j].due = mail[j].due
      BY <2>1, <2>3, <2>7 DEF Deliveries
    <3>2. mail[j].state \notin {"acked", "dead"}
      BY <2>1, <2>7
    <3> QED
      BY <3>1, <3>2 DEF Same
  <2> QED
    BY <2>5, <2>6, <2>7
<1>3. /\ DOMAIN mail \subseteq DOMAIN mail'
      /\ \A j \in DOMAIN mail' \ DOMAIN mail :
           mail'[j].state = "pending" /\ ~mail'[j].applied /\ mail'[j].copies = 0 /\ mail'[j].due
  BY PostedMail DEF Over
<1> QED
  BY <1>2, <1>3 DEF KeepsMail

\* finishDelivery gives its own lease up, and no other.
LEMMA FinishMail ==
  ASSUME TypeInv, NEW a \in Agents, NEW t \in Tasks, Finish(a, t), activation[a].mail \in Leased(mail)
  PROVE  /\ KeepsMail(Leased(mail) \ {activation[a].mail})
         /\ LET k == activation[a].mail IN mail'[k].applied = mail[k].applied /\ mail'[k].copies = mail[k].copies
<1> DEFINE k == activation[a].mail
<1>0. TypeOK /\ k \in DOMAIN mail /\ mail[k].state = "leased" /\ \A j \in DOMAIN mail : mail[j] \in Deliveries
  BY MailFacts DEF TypeInv, Leased
<1> DEFINE Given(s, d, e) == e.task = d.task /\ e.kind = d.kind /\ e.from = d.from /\ e.applied = d.applied
                             /\ e.state = s /\ e.copies = d.copies
           Kind(s) == s \in {"pending", "acked", "dead"} /\ Given(s, mail[k], mail'[k])
           New(j) == mail'[j].state = "pending" /\ ~mail'[j].applied /\ mail'[j].copies = 0 /\ mail'[j].due
           Others == \A j \in DOMAIN mail \ {k} : Same(mail[j], mail'[j]) /\ (mail'[j].state = "leased" <=> mail[j].state = "leased")
<1>1. ASSUME NEW s, Kind(s), Others, DOMAIN mail \subseteq DOMAIN mail', \A j \in DOMAIN mail' \ DOMAIN mail : New(j)
      PROVE  /\ KeepsMail(Leased(mail) \ {k})
             /\ mail'[k].applied = mail[k].applied /\ mail'[k].copies = mail[k].copies
  <2>1. Same(mail[k], mail'[k]) /\ mail'[k].state # "leased"
    BY <1>0, <1>1 DEF Same
  <2>2. Leased(mail') = Leased(mail) \ {k}
    BY <1>0, <1>1, <2>1 DEF Leased
  <2> QED
    BY <1>1, <2>1, <2>2 DEF KeepsMail
<1>2. ASSUME NEW s \in {"pending", "acked", "dead"}, Hands(a, s) PROVE Kind(s) /\ Others /\ DOMAIN mail \subseteq DOMAIN mail'
  <2>1. mail'[k] = [mail[k] EXCEPT !.state = s] /\ \A j \in DOMAIN mail \ {k} : mail'[j] = mail[j]
    BY <1>0, <1>2 DEF Hands
  <2>2. Kind(s)
    BY <1>0, <2>1 DEF Deliveries
  <2>3. Others
    BY <2>1 DEF Same
  <2> QED
    BY <1>2, <2>2, <2>3 DEF Hands
<1> HIDE DEF Kind, Others, New
<1>3. CASE FinishStale(a, t)
  <2>1. Hands(a, "dead") /\ DOMAIN mail' = DOMAIN mail
    BY <1>0, <1>3, FinishStaleStep
  <2> QED
    BY <1>1, <1>2, <2>1
<1>4. CASE FinishPreserved(a, t)
  <2>1. Hands(a, "pending") /\ DOMAIN mail' = DOMAIN mail
    BY <1>0, <1>4, FinishPreservedStep
  <2> QED
    BY <1>1, <1>2, <2>1
<1>5. CASE FinishRetry(a, t)
  <2>1. /\ DOMAIN mail' = DOMAIN mail
        /\ \A j \in DOMAIN mail : mail'[j] = IF j = activation[a].mail
                                             THEN [mail[j] EXCEPT !.state = "pending", !.due = FALSE] ELSE mail[j]
    BY <1>0, <1>5, FinishRetryStep
  <2>2. Kind("pending")
    <3>1. mail'[k] = [mail[k] EXCEPT !.state = "pending", !.due = FALSE]
      BY <1>0, <2>1
    <3> QED
      BY <1>0, <3>1 DEF Deliveries, Kind
  <2>3. Others
    BY <2>1 DEF Same, Others
  <2> QED
    BY <1>1, <2>1, <2>2, <2>3
<1>6. CASE FinishWaiting(a, t)
  <2>1. Hands(a, "acked") /\ DOMAIN mail' = DOMAIN mail
    BY <1>0, <1>6, FinishWaitingStep
  <2> QED
    BY <1>1, <1>2, <2>1
<1>7. CASE FinishContinue(a, t)
  <2>1. /\ Hands(a, "acked")
        /\ \/ DOMAIN mail' = DOMAIN mail
           \/ DOMAIN mail' = DOMAIN mail \union {Len(mail) + 1} /\ mail'[Len(mail) + 1] = Event(t, "continue", NoTask)
    BY <1>0, <1>7, FinishContinueStep
  <2>2. \A j \in DOMAIN mail' \ DOMAIN mail : New(j)
    BY <2>1 DEF Event, New
  <2> QED
    BY <1>1, <1>2, <2>1, <2>2
<1>8. CASE FinishTask(a, t)
  <2> DEFINE s == IF activation[a].stage = "done" THEN "acked" ELSE "dead"
  <2>1. PICK gone \in SUBSET Tasks :
          /\ Over(gone)
          /\ \A j \in DOMAIN mail : IF j = k THEN mail'[j] = [mail[j] EXCEPT !.state = s]
                                    ELSE Old(mail[j], mail'[j], gone)
    BY <1>0, <1>8, FinishTaskStep
  <2>2. Kind(s)
    BY <1>0, <2>1 DEF Deliveries, Kind
  <2>3. Others
    BY <2>1, SiftedDelivery DEF Others
  <2>4. DOMAIN mail \subseteq DOMAIN mail' /\ \A j \in DOMAIN mail' \ DOMAIN mail : New(j)
    BY <2>1, PostedMail DEF Over, New
  <2> QED
    BY <1>1, <2>2, <2>3, <2>4
<1> QED
  BY <1>3, <1>4, <1>5, <1>6, <1>7, <1>8 DEF Finish

-----------------------------------------------------------------------------
(* Who holds which lease *)

\* The task of a worker was born.
ActBorn == \A a \in Active : taskState[activation[a].task] # "none"

LeaseInv == LeaseOwned /\ ActBorn

\* What the lease invariant says of one activation, and of one lease.
LEMMA LeaseFacts ==
  ASSUME TypeInv, LeaseInv
  PROVE  /\ \A a \in Agents : activation[a].stage # "idle" =>
              /\ activation[a].mail \in Leased(mail) /\ mail[activation[a].mail].task = activation[a].task
              /\ activation[a].task \in Tasks /\ AgentOf[activation[a].task] = a
              /\ taskState[activation[a].task] # "none"
              /\ Live(activation[a].task) => activation[a].turn = turn[activation[a].task]
         /\ \A j \in Leased(mail) : j \in DOMAIN mail /\ mail[j].task \in Tasks
         /\ \A j, k \in Leased(mail) : AgentOf[mail[j].task] = AgentOf[mail[k].task] => j = k
         /\ \A j \in Leased(mail) : broken \/ activation[AgentOf[mail[j].task]].mail = j
<1>1. \A j \in Leased(mail) : j \in DOMAIN mail /\ mail[j].task \in Tasks
  BY MailFacts DEF Leased
<1> QED
  BY <1>1 DEF LeaseInv, LeaseOwned, ActBorn, Active

\* A step that leases nothing and wakes no task leaves the leases owned.
LEMMA LeasesStay ==
  ASSUME TypeInv, LeaseInv, KeepsMail(Leased(mail)), SameLeases, broken => broken',
         \A t \in Tasks : taskState[t] # "none" => taskState'[t] # "none" /\ (Live(t)' => Live(t) /\ turn'[t] = turn[t])
  PROVE  LeaseInv'
<1>1. \A j \in Leased(mail) : mail'[j].task = mail[j].task /\ mail[j].task \in Tasks
  BY LeaseFacts DEF KeepsMail, Same
<1>2. Leased(mail') = Leased(mail) /\ \A t \in Tasks : AgentOf[t] \in Agents
  BY WorkflowAssumption DEF KeepsMail
<1>3. \A a \in Agents : activation'[a].stage # "idle" =>
        /\ activation'[a].mail \in Leased(mail') /\ mail'[activation'[a].mail].task = activation'[a].task
        /\ AgentOf[activation'[a].task] = a /\ taskState'[activation'[a].task] # "none"
        /\ taskState'[activation'[a].task] \in LiveStates => activation'[a].turn = turn'[activation'[a].task]
  <2> TAKE a \in Agents
  <2> HAVE activation'[a].stage # "idle"
  <2>0. PICK s \in Tasks : s = activation[a].task
    BY LeaseFacts DEF SameLeases
  <2>1. /\ activation[a].stage # "idle" /\ activation'[a].task = s /\ activation'[a].turn = activation[a].turn
        /\ activation'[a].mail = activation[a].mail
    BY <2>0 DEF SameLeases
  <2>2. /\ activation[a].mail \in Leased(mail) /\ mail[activation[a].mail].task = s
        /\ s \in Tasks /\ AgentOf[s] = a /\ taskState[s] # "none"
        /\ Live(s) => activation[a].turn = turn[s]
    BY <2>0, <2>1, LeaseFacts
  <2>3. taskState'[s] # "none" /\ (taskState'[s] \in LiveStates => Live(s) /\ turn'[s] = turn[s])
    BY <2>2 DEF Live
  <2> QED
    BY <1>1, <1>2, <2>1, <2>2, <2>3
<1>4. \A j \in Leased(mail') : broken' \/ activation'[AgentOf[mail'[j].task]].mail = j
  BY <1>1, <1>2, LeaseFacts DEF SameLeases
<1>5. \A j, k \in Leased(mail') : AgentOf[mail'[j].task] = AgentOf[mail'[k].task] => j = k
  BY <1>1, <1>2, LeaseFacts
<1> QED
  BY <1>3, <1>4, <1>5 DEF LeaseInv, LeaseOwned, ActBorn, Active, Live

\* The end of an activation takes its own lease only.
LEMMA LeaseEnds ==
  ASSUME TypeInv, LeaseInv, NEW a \in Agents, NEW t \in Tasks, Finishing(a, t),
         KeepsMail(Leased(mail) \ {activation[a].mail}), broken => broken',
         \A u \in Tasks : taskState[u] # "none" => taskState'[u] # "none",
         \A u \in Tasks \ {t} : Live(u)' => Live(u) /\ turn'[u] = turn[u]
  PROVE  LeaseInv'
<1> DEFINE k == activation[a].mail
           S == Leased(mail) \ {k}
<1>1. activation[a].stage # "idle" /\ activation[a].task = t /\ activation'[a] = Idle
      /\ \A b \in Agents \ {a} : activation'[b] = activation[b]
  BY FinishingType
<1>2. AgentOf[t] = a /\ mail[k].task = t /\ k \in Leased(mail)
  BY <1>1, LeaseFacts
<1>3. \A j \in S : j \in Leased(mail) /\ mail'[j].task = mail[j].task /\ mail[j].task \in Tasks
                   /\ AgentOf[mail[j].task] \in Agents \ {a}
  <2> TAKE j \in S
  <2>1. j \in Leased(mail) /\ j # k /\ mail[j].task \in Tasks /\ j \in DOMAIN mail
    BY LeaseFacts
  <2>2. AgentOf[mail[j].task] # a
    BY <1>2, <2>1, LeaseFacts
  <2>3. mail'[j].task = mail[j].task
    BY <2>1 DEF KeepsMail, Same
  <2> QED
    BY <2>1, <2>2, <2>3, WorkflowAssumption
<1>4. \A b \in Agents : activation'[b].stage # "idle" =>
        /\ activation'[b].mail \in S /\ mail'[activation'[b].mail].task = activation'[b].task
        /\ AgentOf[activation'[b].task] = b /\ taskState'[activation'[b].task] # "none"
        /\ taskState'[activation'[b].task] \in LiveStates => activation'[b].turn = turn'[activation'[b].task]
  <2> TAKE b \in Agents
  <2> HAVE activation'[b].stage # "idle"
  <2>1. b # a /\ activation'[b] = activation[b] /\ activation[b].stage # "idle"
    BY <1>1 DEF Idle
  <2>0. PICK s \in Tasks : s = activation[b].task
    BY <2>1, LeaseFacts
  <2>2. /\ activation[b].mail \in Leased(mail) /\ mail[activation[b].mail].task = s
        /\ s \in Tasks /\ AgentOf[s] = b /\ taskState[s] # "none"
        /\ Live(s) => activation[b].turn = turn[s]
    BY <2>0, <2>1, LeaseFacts
  <2>3. activation[b].mail # k /\ s # t
    BY <1>2, <2>1, <2>2
  <2>4. taskState'[s] # "none" /\ (taskState'[s] \in LiveStates => Live(s) /\ turn'[s] = turn[s])
    BY <2>2, <2>3 DEF Live
  <2> QED
    BY <1>3, <2>0, <2>1, <2>2, <2>3, <2>4
<1>5. \A j \in S : broken' \/ activation'[AgentOf[mail'[j].task]].mail = j
  BY <1>1, <1>3, LeaseFacts
<1>6. \A j, l \in S : AgentOf[mail'[j].task] = AgentOf[mail'[l].task] => j = l
  BY <1>3, LeaseFacts
<1>7. Leased(mail') = S
  BY DEF KeepsMail
<1> QED
  BY <1>4, <1>5, <1>6, <1>7 DEF LeaseInv, LeaseOwned, ActBorn, Active, Live

\* The facts about a claim that several proofs need.
LEMMA ClaimFacts ==
  ASSUME TypeInv, NEW i \in DOMAIN mail, NEW t \in Tasks, t = mail[i].task, Claim(i)
  PROVE  /\ TypeOK /\ i \in Deliverable /\ i \in Candidates /\ mail[i].state = "pending" /\ mail[i].due
         /\ mail[i].kind # "progress" /\ Live(t) /\ ~Halted(t) /\ systemState = "running"
         /\ mail[i].attempts < MaxDeliveries
         /\ activation[AgentOf[t]].stage = "idle" /\ \A j \in Leased(mail) : AgentOf[mail[j].task] # AgentOf[t]
         /\ activation' = [activation EXCEPT ![AgentOf[t]] =
              [stage |-> "start", task |-> t, turn |-> turn'[t], mail |-> i, canceled |-> FALSE]]
         /\ UNCHANGED <<stopped, broken>> /\ ~broken
         /\ IF Resumes(i) THEN CanPrepare(t) /\ Prepares(t) ELSE KeepsCall
         /\ \A u \in Tasks \ {t} : turn'[u] = turn[u] /\ sent'[u] = sent[u] /\ receipt'[u] = receipt[u] /\ awaits'[u] = awaits[u]
<1>1. i \in Deliverable /\ TypeOK /\ mail[i] \in Deliveries
  BY MailFacts DEF Claim, TypeInv
<1>2. i \in Candidates /\ ~Doomed(i) /\ Runnable(i) /\ i \notin Notices
  BY <1>1 DEF Deliverable
<1>3. mail[i].kind # "progress"
  BY <1>2 DEF Notices
<1>4. /\ mail[i].state = "pending" /\ mail[i].due /\ Free(AgentOf[t]) /\ Live(t) /\ ~Halted(t)
      /\ systemState = "running"
  BY <1>2 DEF Candidates, Doomed, Runnable
<1>5. mail[i].attempts < MaxDeliveries
  BY <1>1, <1>2 DEF Doomed, Deliveries, MaxDeliveries
<1>6. IF Resumes(i) THEN CanPrepare(t) /\ Prepares(t) ELSE KeepsCall
  BY DEF Claim
<1>7. \A u \in Tasks \ {t} : turn'[u] = turn[u] /\ sent'[u] = sent[u] /\ receipt'[u] = receipt[u] /\ awaits'[u] = awaits[u]
  BY <1>6, TypeFacts DEF Prepares, KeepsCall
<1> QED
  BY <1>1, <1>2, <1>3, <1>4, <1>5, <1>6, <1>7 DEF Claim, Free

\* A claim leases to an agent that was free.
LEMMA LeaseClaim ==
  ASSUME TypeInv, LeaseInv, NEW i \in DOMAIN mail, Claim(i)
  PROVE  LeaseInv'
<1>1. PICK t \in Tasks : t = mail[i].task
  BY MailFacts
<1> DEFINE a == AgentOf[t]
<1>2. /\ TypeOK /\ mail[i].state = "pending" /\ activation[a].stage = "idle" /\ UNCHANGED broken
      /\ \A j \in Leased(mail) : AgentOf[mail[j].task] # a
      /\ activation' = [activation EXCEPT ![a] =
           [stage |-> "start", task |-> t, turn |-> turn'[t], mail |-> i, canceled |-> FALSE]]
      /\ \A u \in Tasks \ {t} : turn'[u] = turn[u]
  BY <1>1, ClaimFacts
<1>3. PICK gone \in SUBSET Tasks : ClaimEnds(i, t, gone)
  BY <1>1, <1>2, ClaimStep
<1>4. KeepsMail(Leased(mail) \union {i})
  BY <1>1, <1>2, <1>3, ClaimMail
<1>5. /\ \A u \in gone : taskState'[u] \in EndStates
      /\ \A u \in Tasks : taskState'[u] \in LiveStates => Live(u)
      /\ taskState'[t] = "running" /\ \A u \in Tasks : taskState[u] # "none" => taskState'[u] # "none"
  <2>1. \A u \in Tasks : taskState'[u] \in LiveStates => Live(u)
    BY <1>3 DEF ClaimEnds, Over, Live
  <2>2. taskState'[t] = "running" /\ \A u \in Tasks \ {t} : u \notin gone => taskState'[u] = taskState[u]
    BY <1>3 DEF ClaimEnds
  <2>3. \A u \in gone : taskState'[u] \in EndStates
    BY <1>3 DEF ClaimEnds, Over
  <2>4. "none" \notin EndStates
    BY StatesApart
  <2> QED
    BY <2>1, <2>2, <2>3, <2>4
<1>6. a \in Agents /\ \A u \in Tasks : AgentOf[u] \in Agents
  BY WorkflowAssumption
<1>7. /\ activation'[a].stage = "start" /\ activation'[a].task = t /\ activation'[a].turn = turn'[t]
      /\ activation'[a].mail = i /\ \A b \in Agents \ {a} : activation'[b] = activation[b]
  BY <1>2, <1>6, TypeFacts
<1>8. \A j \in Leased(mail) : mail'[j].task = mail[j].task /\ mail[j].task \in Tasks /\ j # i
  <2>1. \A j \in Leased(mail) : j \in DOMAIN mail /\ mail[j].task \in Tasks /\ j # i
    BY <1>2, LeaseFacts DEF Leased
  <2> QED
    BY <1>4, <2>1 DEF KeepsMail, Same
<1>9. mail'[i].task = t /\ Leased(mail') = Leased(mail) \union {i}
  BY <1>1, <1>4 DEF KeepsMail, Same
<1>10. \A b \in Agents : activation'[b].stage # "idle" =>
        /\ activation'[b].mail \in Leased(mail') /\ mail'[activation'[b].mail].task = activation'[b].task
        /\ AgentOf[activation'[b].task] = b /\ taskState'[activation'[b].task] # "none"
        /\ taskState'[activation'[b].task] \in LiveStates => activation'[b].turn = turn'[activation'[b].task]
  <2> TAKE b \in Agents
  <2> HAVE activation'[b].stage # "idle"
  <2>1. CASE b = a
    BY <1>5, <1>7, <1>9, <2>1
  <2>2. CASE b # a
    <3>1. activation'[b] = activation[b] /\ activation[b].stage # "idle"
      BY <1>7, <2>2
    <3>2. PICK s \in Tasks : s = activation[b].task
      BY <3>1, LeaseFacts
    <3>3. /\ activation[b].mail \in Leased(mail) /\ mail[activation[b].mail].task = s
          /\ AgentOf[s] = b /\ taskState[s] # "none" /\ (Live(s) => activation[b].turn = turn[s])
      BY <3>1, <3>2, LeaseFacts
    <3>4. s # t /\ turn'[s] = turn[s]
      BY <1>2, <2>2, <3>3
    <3> QED
      BY <1>5, <1>8, <1>9, <3>1, <3>2, <3>3, <3>4
  <2> QED
    BY <2>1, <2>2
<1>11. \A j \in Leased(mail') : broken' \/ activation'[AgentOf[mail'[j].task]].mail = j
  <2> TAKE j \in Leased(mail')
  <2>1. CASE j = i
    BY <1>7, <1>9, <2>1
  <2>2. CASE j # i
    <3>1. j \in Leased(mail) /\ mail'[j].task = mail[j].task /\ AgentOf[mail[j].task] \in Agents \ {a}
      BY <1>2, <1>6, <1>8, <1>9, <2>2
    <3> QED
      BY <1>2, <1>7, <3>1, LeaseFacts
  <2> QED
    BY <2>1, <2>2
<1>12. \A j, k \in Leased(mail') : AgentOf[mail'[j].task] = AgentOf[mail'[k].task] => j = k
  BY <1>2, <1>8, <1>9, LeaseFacts
<1> QED
  BY <1>10, <1>11, <1>12 DEF LeaseInv, LeaseOwned, ActBorn, Active, Live

\* What finishDelivery makes of the tasks: it ends some, its own task may go
\* on, and no other task changes.
LEMMA FinishTasks ==
  ASSUME TypeInv, NEW a \in Agents, NEW t \in Tasks, Finish(a, t)
  PROVE  /\ \A u \in Tasks : taskState[u] # "none" => taskState'[u] # "none"
         /\ \A u \in Tasks : Live(u)' => Live(u)
         /\ \A u \in Tasks \ {t} : turn'[u] = turn[u] /\ receipt'[u] = receipt[u] /\ sent'[u] = sent[u] /\ awaits'[u] = awaits[u]
         /\ UNCHANGED <<stopped, broken>>
<1>0. TypeOK /\ (~Stale(a, t) => Live(t))
  BY DEF TypeInv, Stale
<1>1. CASE FinishStale(a, t)
  <2>1. UNCHANGED taskState
    BY <1>0, <1>1, FinishStaleStep
  <2> QED
    BY <1>1, <2>1 DEF FinishStale, taskVars, Live
<1>2. ASSUME Live(t), taskState' = [taskState EXCEPT ![t] = "queued"] \/ taskState' = [taskState EXCEPT ![t] = IF @ = "waiting" THEN @ ELSE "queued"] \/ taskState' = taskState
      PROVE  /\ \A u \in Tasks : taskState[u] # "none" => taskState'[u] # "none"
             /\ \A u \in Tasks : Live(u)' => Live(u)
  <2>1. \A u \in Tasks \ {t} : taskState'[u] = taskState[u]
    BY <1>2, TypeFacts
  <2>2. taskState'[t] \in LiveStates
    BY <1>2, TypeFacts DEF Live, LiveStates
  <2> QED
    BY <1>2, <2>1, <2>2, StatesApart DEF Live
<1>3. CASE FinishPreserved(a, t)
  <2>1. taskState' = [taskState EXCEPT ![t] = IF @ = "waiting" THEN @ ELSE "queued"] /\ Live(t)
    BY <1>0, <1>3, FinishPreservedStep DEF FinishPreserved, Preserved
  <2> QED
    BY <1>2, <1>3, <2>1 DEF FinishPreserved, taskVars
<1>4. CASE FinishRetry(a, t)
  <2>1. taskState' = [taskState EXCEPT ![t] = "queued"] /\ Live(t)
    BY <1>0, <1>4, FinishRetryStep DEF FinishRetry, Retried
  <2> QED
    BY <1>2, <1>4, <2>1 DEF FinishRetry, taskVars
<1>5. CASE FinishWaiting(a, t)
  <2>1. taskState' = taskState /\ Live(t)
    BY <1>0, <1>5, FinishWaitingStep DEF FinishWaiting, Concluding
  <2> QED
    BY <1>2, <1>5, <2>1 DEF FinishWaiting, taskVars
<1>6. CASE FinishContinue(a, t)
  <2>1. taskState' = [taskState EXCEPT ![t] = "queued"] /\ Live(t)
    BY <1>0, <1>6, FinishContinueStep DEF FinishContinue, Concluding
  <2>2. \A u \in Tasks \ {t} : turn'[u] = turn[u] /\ receipt'[u] = receipt[u] /\ sent'[u] = sent[u] /\ awaits'[u] = awaits[u]
    BY <1>6, TypeFacts DEF FinishContinue, Prepares
  <2> QED
    BY <1>2, <1>6, <2>1, <2>2 DEF FinishContinue
<1>7. CASE FinishTask(a, t)
  <2>1. PICK gone \in SUBSET Tasks :
          /\ Over(gone)
          /\ \A u \in Tasks : taskState'[u] = IF u = t THEN Verdict(a, t)
                                              ELSE IF u \in gone THEN "rejected" ELSE taskState[u]
    BY <1>0, <1>7, FinishTaskStep
  <2>2. Verdict(a, t) # "none"
    BY DEF Verdict
  <2>3. \A u \in Tasks : (taskState[u] # "none" => taskState'[u] # "none") /\ (Live(u)' => Live(u))
    BY <2>1, <2>2 DEF Over
  <2> QED
    BY <1>7, <2>3 DEF FinishTask, taskVars
<1> QED
  BY <1>1, <1>3, <1>4, <1>5, <1>6, <1>7 DEF Finish

\* Every step leaves the leases owned.
LEMMA LeaseInvNext == TypeInv /\ LeaseInv /\ [Next]_vars => LeaseInv'
<1> SUFFICES ASSUME TypeInv, LeaseInv, [Next]_vars PROVE LeaseInv'
  OBVIOUS
<1> DEFINE Settled == \A t \in Tasks : taskState[t] # "none" =>
                        taskState'[t] # "none" /\ (Live(t)' => Live(t) /\ turn'[t] = turn[t])
<1>0. TypeOK /\ activation \in [Agents -> Slots] /\ "done" \in Stages
  BY TypeFacts DEF TypeInv, Stages
<1>1. mail' = mail => KeepsMail(Leased(mail))
  BY DEF KeepsMail, Same, Leased
<1>2. UNCHANGED activation => SameLeases
  BY DEF SameLeases
<1>3. \A gone \in SUBSET Tasks : /\ Over(gone) /\ UNCHANGED turn
                                 /\ \A t \in Tasks \ gone : taskState[t] # "none" => taskState'[t] # "none"
                                 => Settled
  BY StatesApart DEF Over
<1>4. CASE Quiet
  BY <1>1, <1>4, LeasesStay DEF Quiet, Live
<1>5. ASSUME NEW a \in Agents, NEW t \in Tasks, Wait(a, t) PROVE LeaseInv'
  <2>1. SameLeases
    BY <1>0, <1>5, GoesOn DEF Wait, MayUseTool, At
  <2>2. taskState' = [taskState EXCEPT ![t] = "waiting"] /\ Live(t) /\ UNCHANGED <<turn, mail, broken>>
    BY <1>5 DEF Wait, MayUseTool, OnlyTool
  <2>3. Settled
    BY <2>2, TypeFacts DEF Live
  <2> QED
    BY <1>1, <2>1, <2>2, <2>3, LeasesStay
<1>6. ASSUME NEW a \in Agents, NEW t \in Tasks, Progress(a, t) PROVE LeaseInv'
  <2>1. SameLeases
    BY <1>0, <1>6, GoesOn DEF Progress, MayUseTool, At
  <2>2. mail' = Append(mail, Event(ParentOf[t], "progress", t)) /\ ParentOf[t] \in Tasks
    BY <1>0, <1>6, ProgressStep
  <2>3. KeepsMail(Leased(mail))
    <3>1. "progress" \in Kinds
      BY DEF Kinds
    <3> QED
      BY <2>2, <3>1, AppendedMail
  <2> QED
    BY <1>6, <2>1, <2>3, LeasesStay DEF Progress, OnlyTool, Live
<1>7. ASSUME NEW a \in Agents, NEW t \in Tasks, NEW c \in Tasks, Delegate(a, t, c) PROVE LeaseInv'
  <2>1. SameLeases
    BY <1>0, <1>7, GoesOn DEF Delegate, MayUseTool, At
  <2>2. /\ taskState' = [taskState EXCEPT ![c] = "queued", ![t] = "waiting"]
        /\ mail' = Append(mail, Event(c, "ready", NoTask))
    BY <1>0, <1>7, DelegateStep DEF Post
  <2>3. KeepsMail(Leased(mail))
    <3>1. "ready" \in Kinds /\ NoTask \in Tasks \union {NoTask}
      BY DEF Kinds
    <3> QED
      BY <2>2, <3>1, AppendedMail
  <2>4. Live(t) /\ taskState[c] = "none" /\ turn' = [turn EXCEPT ![c] = 1] /\ broken' = broken
    BY <1>7 DEF Delegate, MayUseTool, OnlyTool
  <2>5. Settled
    BY <2>2, <2>4, TypeFacts DEF Live
  <2> QED
    BY <2>1, <2>3, <2>4, <2>5, LeasesStay
<1>8. ASSUME NEW a \in Agents, NEW t \in Tasks, Finish(a, t) PROVE LeaseInv'
  <2>1. Finishing(a, t)
    BY <1>8 DEF Finish, FinishStale, FinishPreserved, FinishRetry, FinishWaiting, FinishContinue, FinishTask
  <2>2. activation[a].mail \in Leased(mail)
    BY <2>1, LeaseFacts DEF Finishing
  <2>3. KeepsMail(Leased(mail) \ {activation[a].mail})
    BY <1>8, <2>2, FinishMail
  <2>4. /\ \A u \in Tasks : taskState[u] # "none" => taskState'[u] # "none"
        /\ \A u \in Tasks \ {t} : Live(u)' => Live(u) /\ turn'[u] = turn[u]
        /\ broken' = broken
    BY <1>8, FinishTasks
  <2> QED
    BY <2>1, <2>3, <2>4, LeaseEnds
<1>9. ASSUME NEW a \in Agents, NEW t \in Tasks, FinishFails(a, t) PROVE LeaseInv'
  <2>1. /\ activation[a].stage # "idle" /\ activation'[a] = Idle
        /\ \A b \in Agents \ {a} : activation'[b] = activation[b]
    BY <1>9, FinishingType DEF FinishFails
  <2>2. broken' /\ UNCHANGED <<mail, taskState, turn>>
    BY <1>9 DEF FinishFails, ruled, taskVars
  <2> QED
    BY <2>1, <2>2, LeaseFacts DEF LeaseInv, LeaseOwned, ActBorn, Active, Live, Idle
<1>10. ASSUME NEW t \in Tasks, Start(t) PROVE LeaseInv'
  <2>1. /\ taskState' = [taskState EXCEPT ![t] = "queued"] /\ mail' = Append(mail, Event(t, "ready", NoTask))
    BY <1>0, <1>10, StartStep DEF Post
  <2>2. KeepsMail(Leased(mail))
    <3>1. "ready" \in Kinds /\ NoTask \in Tasks \union {NoTask}
      BY DEF Kinds
    <3> QED
      BY <2>1, <3>1, AppendedMail
  <2>3. taskState[t] = "none" /\ turn' = [turn EXCEPT ![t] = @ + 1] /\ UNCHANGED <<activation, broken>>
    BY <1>10 DEF Start, TypeInv, Born, Prepares, daemonVars
  <2>4. Settled
    BY <2>1, <2>3, TypeFacts DEF Live
  <2> QED
    BY <1>2, <2>2, <2>3, <2>4, LeasesStay
<1>11. ASSUME NEW t \in Tasks, AddInput(t) PROVE LeaseInv'
  <2>1. taskState' = taskState /\ mail' = Append(mail, Event(t, "input", NoTask))
    BY <1>0, <1>11, AddInputStep DEF Post
  <2>2. KeepsMail(Leased(mail))
    <3>1. "input" \in Kinds /\ NoTask \in Tasks \union {NoTask}
      BY DEF Kinds
    <3> QED
      BY <2>1, <3>1, AppendedMail
  <2> QED
    BY <1>2, <1>11, <2>1, <2>2, LeasesStay DEF AddInput, taskVars, Live
<1>12. CASE ClaimNone
  <2>1. PICK gone \in SUBSET Tasks :
          /\ Over(gone) /\ \A t \in Tasks \ gone : taskState'[t] = taskState[t]
          /\ \A j \in DOMAIN mail : Sifted(Len(mail) + 1, j, mail'[j], gone)
    BY <1>0, <1>12, ClaimNoneStep
  <2>2. KeepsMail(Leased(mail))
    BY <2>1, EndedMail
  <2>3. Settled
    BY <1>3, <1>12, <2>1 DEF ClaimNone, taskVars
  <2> QED
    BY <1>2, <1>12, <2>2, <2>3, LeasesStay DEF ClaimNone, daemonVars
<1>13. ASSUME NEW i \in DOMAIN mail, Claim(i) PROVE LeaseInv'
  BY <1>13, LeaseClaim
<1>14. ASSUME NEW i \in DOMAIN mail, BackoffEnds(i) PROVE LeaseInv'
  BY <1>2, <1>14, BackoffMail, LeasesStay DEF BackoffEnds, taskVars, daemonVars, Live
<1>15. ASSUME NEW w, NEW S, StopsFrom(w, S) PROVE LeaseInv'
  <2>1. PICK gone \in SUBSET Tasks :
          /\ Over(gone) /\ \A t \in Tasks \ gone : taskState'[t] = taskState[t]
          /\ \A j \in DOMAIN mail : Old(mail[j], mail'[j], gone)
    BY <1>15, StopsFromStep
  <2>2. KeepsMail(Leased(mail))
    BY <2>1, EndedMail
  <2>3. Settled
    BY <1>3, <1>15, <2>1 DEF StopsFrom, OnlyControl
  <2> QED
    BY <1>2, <1>15, <2>2, <2>3, LeasesStay DEF StopsFrom, OnlyControl
<1>16. CASE Recovers
  <2>1. PICK gone \in SUBSET Tasks :
          /\ Over(gone) /\ Leased(mail') = {} /\ \A j \in DOMAIN mail : Old(Returned(j), mail'[j], gone)
    BY <1>0, <1>16, RecoverStep DEF Recovers
  <2>2. \A a \in Agents : activation'[a].stage = "idle"
    BY <1>16 DEF Recovers, Recover, Idle
  <2> QED
    BY <2>1, <2>2 DEF LeaseInv, LeaseOwned, ActBorn, Active
<1> QED
  BY <1>4, <1>5, <1>6, <1>7, <1>8, <1>9, <1>10, <1>11, <1>12, <1>13, <1>14, <1>15, <1>16, LoudKinds DEF Stops

\* Always: the types, and every lease with its owner.
LEMMA LeaseInvAlways == Spec => [](TypeInv /\ LeaseInv)
<1>1. Init => LeaseInv
  BY DEF Init, LeaseInv, LeaseOwned, ActBorn, Active, Leased, Idle
<1>2. (TypeInv /\ LeaseInv) /\ [Next]_vars => (TypeInv /\ LeaseInv)'
  BY TypeInvNext, LeaseInvNext
<1> QED
  BY TypeInvInit, <1>1, <1>2, PTL DEF Spec

\* A recipient has one lease at most, a worker holds its task's lease and works
\* on its current call, and a lease without a worker means a failed commit.
THEOREM LeasesAreOwned == Spec => []LeaseOwned
<1>1. TypeInv /\ LeaseInv => LeaseOwned
  BY DEF LeaseInv
<1> QED
  BY <1>1, LeaseInvAlways, PTL

-----------------------------------------------------------------------------
(* Stopping *)

\* Stopping leads to stopped only, and to stopped only without leases, except
\* from inactive under workers that are told or over.
StopsDrained ==
  /\ systemState = "stopping" => systemState' \in {"stopping", "stopped"}
  /\ systemState' = "stopped" /\ systemState # "stopped" =>
       \A j \in Leased(mail') :
         /\ systemState = "inactive"
         /\ stopped'[mail'[j].task] \/ taskState'[mail'[j].task] \notin LiveStates

\* A step that leaves the system as it is, or takes it to an undrained state.
LEMMA StateKept ==
  systemState' = systemState \/ (systemState # "stopping" /\ systemState' # "stopped") => StopsDrained
  BY DEF StopsDrained

\* Whatever ends tasks in the system as it is stops it drained.
LEMMA EndsDrained ==
  ASSUME NEW gone, SystemEnds(gone, systemState, systemState', mail')
  PROVE  StopsDrained
  BY DEF SystemEnds, Drained, StopsDrained

\* A stop of tasks leaves the system undrained only if it was inactive, and
\* then it reached every live task.
LEMMA StopsFromDrained ==
  ASSUME TypeInv, NEW w, NEW S, StopsFrom(w, S)
  PROVE  StopsDrained
<1> DEFINE s == IF \E t \in S : Root(t) THEN "stopping" ELSE w.system
<1>1. PICK gone \in SUBSET Tasks : Over(gone) /\ SystemEnds(gone, s, systemState', mail')
  BY StopsFromStep
<1>2. World' \in Worlds /\ \A t \in Tasks : stopped'[t] <=> stopped[t] \/ t \in S
  BY StopsFromStep
<1>3. w.system = systemState \/ S = {t \in Tasks : Live(t)}
  BY DEF StopsFrom
<1>4. /\ systemState = "stopping" => s = "stopping"
      /\ s = "stopped" => systemState \in {"inactive", "stopped"}
      /\ s \in {"stopping", systemState} \/ S = {t \in Tasks : Live(t)}
  BY <1>3 DEF StopsFrom
<1> HIDE DEF s
<1>5. systemState = "stopping" => systemState' \in {"stopping", "stopped"}
  BY <1>1, <1>4 DEF SystemEnds, Drained
<1>6. ASSUME systemState' = "stopped", systemState # "stopped", NEW j \in Leased(mail')
      PROVE  /\ systemState = "inactive"
             /\ stopped'[mail'[j].task] \/ taskState'[mail'[j].task] \notin LiveStates
  <2>1. s = "stopped"
    BY <1>1, <1>6 DEF SystemEnds, Drained
  <2>2. systemState = "inactive" /\ S = {t \in Tasks : Live(t)}
    BY <1>4, <1>6, <2>1
  <2>3. mail'[j].task \in Tasks
    <3>1. mail' \in Seq(Deliveries) /\ j \in DOMAIN mail'
      BY <1>2, <1>6 DEF World, Worlds, Leased
    <3>2. mail'[j] \in Deliveries
      BY <3>1, MailType
    <3> QED
      BY <3>2 DEF Deliveries
  <2>4. CASE taskState'[mail'[j].task] \in LiveStates
    <3>1. mail'[j].task \in S
      BY <1>1, <2>2, <2>3, <2>4 DEF Over, Live
    <3> QED
      BY <1>2, <2>2, <2>3, <3>1
  <2>5. CASE taskState'[mail'[j].task] \notin LiveStates
    BY <2>2, <2>5
  <2> QED
    BY <2>4, <2>5
<1> QED
  BY <1>5, <1>6 DEF StopsDrained

\* A system that stops waits for the last lease.
LEMMA StopWaitsStep ==
  ASSUME TypeInv, [Next]_vars
  PROVE  StopsDrained
<1>0. TypeOK
  BY DEF TypeInv
<1>2. CASE Quiet
  BY <1>2, StateKept DEF Quiet
<1>3. ASSUME NEW a \in Agents, NEW t \in Tasks, Wait(a, t) \/ Progress(a, t) \/ FinishFails(a, t) \/ \E c \in Tasks : Delegate(a, t, c)
      PROVE  StopsDrained
  BY <1>0, <1>3, StateKept, DelegateStep DEF Wait, Progress, FinishFails, ruled
<1>4. ASSUME NEW a \in Agents, NEW t \in Tasks, Finish(a, t) PROVE StopsDrained
  <2>1. CASE FinishStale(a, t)
    <3>1. systemState' = IF systemState = "stopping" THEN Drained(mail') ELSE systemState
      BY <1>0, <2>1, FinishStaleStep
    <3> QED
      BY <3>1 DEF Drained, StopsDrained
  <2>2. CASE FinishPreserved(a, t) \/ FinishRetry(a, t) \/ FinishWaiting(a, t) \/ FinishContinue(a, t)
    BY <1>0, <2>2, StateKept, FinishPreservedStep, FinishRetryStep, FinishWaitingStep, FinishContinueStep
  <2>3. CASE FinishTask(a, t)
    <3>1. PICK gone : SystemEnds(gone, systemState, systemState', mail')
      BY <1>0, <2>3, FinishTaskStep
    <3> QED
      BY <3>1, EndsDrained
  <2> QED
    BY <1>4, <2>1, <2>2, <2>3 DEF Finish
<1>5. ASSUME NEW t \in Tasks, Start(t) PROVE StopsDrained
  <2>1. systemState' = "running" /\ systemState # "stopping"
    BY <1>0, <1>5, StartStep DEF Start
  <2> QED
    BY <2>1, StateKept
<1>6. ASSUME NEW t \in Tasks, AddInput(t) PROVE StopsDrained
  BY <1>0, <1>6, StateKept, AddInputStep
<1>7. CASE ClaimNone
  <2>1. PICK gone : SystemEnds(gone, systemState, systemState', mail')
    BY <1>0, <1>7, ClaimNoneStep
  <2> QED
    BY <2>1, EndsDrained
<1>8. ASSUME NEW i \in DOMAIN mail, Claim(i) PROVE StopsDrained
  <2>1. mail[i].task \in Tasks
    BY <1>8, MailFacts
  <2>2. PICK gone : ClaimEnds(i, mail[i].task, gone)
    BY <1>0, <1>8, <2>1, ClaimStep
  <2> QED
    BY <2>2, EndsDrained DEF ClaimEnds
<1>9. ASSUME NEW i \in DOMAIN mail, BackoffEnds(i) PROVE StopsDrained
  BY <1>9, StateKept DEF BackoffEnds
<1>10. ASSUME NEW w, NEW S, StopsFrom(w, S) PROVE StopsDrained
  BY <1>10, StopsFromDrained
<1>11. CASE Recovers
  <2>1. PICK gone : /\ Leased(mail') = {}
                    /\ SystemEnds(gone, systemState, systemState', mail') \/ systemState' = "stopped"
    BY <1>0, <1>11, RecoverStep DEF Recovers
  <2> QED
    BY <2>1, EndsDrained DEF StopsDrained
<1> QED
  BY <1>2, <1>3, <1>4, <1>5, <1>6, <1>7, <1>8, <1>9, <1>10, <1>11, LoudKinds DEF Stops

\* Stopping ends only in stopped.  A running, paused or stopping system is stopped only
\* when no worker holds a lease; an inactive one may be stopped under workers, whose
\* tasks are then told to stop or over (StopSystem, terminateTask, finishDelivery).
THEOREM StoppingWaits == Spec => StopWaits
<1>1. TypeInv /\ [Next]_vars =>
        [/\ systemState = "stopping" => systemState' \in {"stopping", "stopped"}
         /\ systemState' = "stopped" /\ systemState # "stopped" =>
              \A j \in Leased(mail') :
                /\ systemState = "inactive"
                /\ stopped'[mail'[j].task] \/ taskState'[mail'[j].task] \notin LiveStates]_vars
  BY StopWaitsStep DEF StopsDrained
<1> QED
  BY <1>1, TypeInvAlways, PTL DEF Spec, StopWaits

-----------------------------------------------------------------------------
(* Receipts *)

\* A worker that runs a tool has its receipt.
RunReceipt == \A a \in Agents, t \in Tasks : At(a, "run", t) => receipt[t] # "none"

\* A new receipt, a new turn or a new activation are the only ways to lose it.
LEMMA ReceiptsStay ==
  ASSUME RunReceipt,
         \A b \in Agents : activation'[b].stage = "run" => activation'[b] = activation[b],
         \A b \in Agents, u \in Tasks : At(b, "run", u) => turn'[u] = turn[u] /\ (receipt'[u] = "none" => receipt[u] = "none"),
         \A b \in Agents, u \in Tasks : activation[b].stage = "run" /\ activation[b].task = u => turn'[u] = turn[u]
  PROVE  RunReceipt'
  BY DEF RunReceipt, At

\* Every step keeps the receipts of the running tools.
LEMMA RunReceiptNext == TypeInv /\ LeaseInv /\ RunReceipt /\ [Next]_vars => RunReceipt'
<1> SUFFICES ASSUME TypeInv, LeaseInv, RunReceipt, [Next]_vars PROVE RunReceipt'
  OBVIOUS
<1>0. TypeOK /\ activation \in [Agents -> Slots] /\ "done" \in Stages
      /\ receipt \in [Tasks -> {"none", "running", "completed", "unknown"}] /\ turn \in [Tasks -> 0..MaxTurns]
  BY TypeFacts DEF TypeInv, Stages
<1>1. CASE Quiet
  <2> SUFFICES ASSUME NEW a \in Agents, NEW t \in Tasks, At(a, "run", t)' PROVE receipt'[t] # "none"
    BY DEF RunReceipt
  <2>1. activation[a].task = t /\ activation[a].turn = turn[t] /\ activation'[a].stage = "run"
    BY <1>1 DEF At, Quiet, SameLeases
  <2>2. activation[a].stage = "run" \/ receipt'[t] = "running"
    BY <1>1, <2>1 DEF Quiet, QuietTools
  <2>3. At(a, "run", t) => receipt[t] # "none"
    BY DEF RunReceipt
  <2>4. receipt[t] # "none" => receipt'[t] # "none"
    BY <1>1 DEF Quiet, QuietTools
  <2> QED
    BY <2>1, <2>2, <2>3, <2>4 DEF At
<1>2. ASSUME UNCHANGED <<activation, turn, receipt>> PROVE RunReceipt'
  BY <1>2 DEF RunReceipt, At
<1>3. ASSUME NEW a \in Agents, Goes(a, "done"), NEW t \in Tasks, receipt' = [receipt EXCEPT ![t] = "completed"],
             \A u \in Tasks : taskState[u] # "none" => turn'[u] = turn[u]
      PROVE  RunReceipt'
  <2>1. \A b \in Agents : activation'[b].stage = "run" => activation'[b] = activation[b]
    BY <1>0, <1>3, GoesOn
  <2>2. \A b \in Agents, u \in Tasks : activation[b].stage = "run" /\ activation[b].task = u => turn'[u] = turn[u]
    BY <1>3, LeaseFacts
  <2>3. \A u \in Tasks : receipt'[u] = "none" => receipt[u] = "none"
    BY <1>0, <1>3
  <2> QED
    BY <2>1, <2>2, <2>3, ReceiptsStay DEF At
<1>4. ASSUME NEW a \in Agents, NEW t \in Tasks, Wait(a, t) \/ Progress(a, t) PROVE RunReceipt'
  BY <1>3, <1>4 DEF Wait, Progress, Receives
<1>5. ASSUME NEW a \in Agents, NEW t \in Tasks, NEW c \in Tasks, Delegate(a, t, c) PROVE RunReceipt'
  <2>1. \A u \in Tasks : taskState[u] # "none" => turn'[u] = turn[u]
    BY <1>0, <1>5 DEF Delegate
  <2> QED
    BY <1>3, <1>5, <2>1 DEF Delegate, Receives
<1>6. ASSUME NEW a \in Agents, NEW t \in Tasks, Finishing(a, t),
             \A u \in Tasks \ {t} : turn'[u] = turn[u] /\ receipt'[u] = receipt[u]
      PROVE  RunReceipt'
  <2>1. /\ activation[a].stage # "idle" /\ activation[a].task = t /\ activation'[a] = Idle
        /\ \A b \in Agents \ {a} : activation'[b] = activation[b]
    BY <1>6, FinishingType
  <2>2. \A b \in Agents \ {a}, u \in Tasks : activation[b].stage = "run" /\ activation[b].task = u => u # t
    BY <2>1, LeaseFacts
  <2>3. \A b \in Agents : activation'[b].stage = "run" => b # a /\ activation'[b] = activation[b]
    BY <2>1 DEF Idle
  <2> QED
    BY <1>6, <2>2, <2>3 DEF RunReceipt, At
<1>7. ASSUME NEW a \in Agents, NEW t \in Tasks, Finish(a, t) \/ FinishFails(a, t) PROVE RunReceipt'
  <2>1. Finishing(a, t)
    BY <1>7 DEF Finish, FinishStale, FinishPreserved, FinishRetry, FinishWaiting, FinishContinue, FinishTask, FinishFails
  <2>2. \A u \in Tasks \ {t} : turn'[u] = turn[u] /\ receipt'[u] = receipt[u]
    BY <1>7, FinishTasks DEF FinishFails, taskVars
  <2> QED
    BY <1>6, <2>1, <2>2
<1>8. ASSUME NEW t \in Tasks, Start(t) PROVE RunReceipt'
  <2>1. taskState[t] = "none" /\ UNCHANGED activation
    BY <1>8 DEF Start, TypeInv, Born, daemonVars
  <2>2. \A u \in Tasks \ {t} : turn'[u] = turn[u] /\ receipt'[u] = receipt[u]
    BY <1>0, <1>8 DEF Start, Prepares
  <2>3. \A b \in Agents, u \in Tasks : activation[b].stage = "run" /\ activation[b].task = u => u # t
    BY <2>1, LeaseFacts
  <2> QED
    BY <2>1, <2>2, <2>3, ReceiptsStay DEF At
<1>9. ASSUME NEW i \in DOMAIN mail, Claim(i) PROVE RunReceipt'
  <2>1. PICK t \in Tasks : t = mail[i].task
    BY MailFacts
  <2>2. /\ activation[AgentOf[t]].stage = "idle"
        /\ activation' = [activation EXCEPT ![AgentOf[t]] =
             [stage |-> "start", task |-> t, turn |-> turn'[t], mail |-> i, canceled |-> FALSE]]
        /\ \A u \in Tasks \ {t} : turn'[u] = turn[u] /\ receipt'[u] = receipt[u]
    BY <1>9, <2>1, ClaimFacts
  <2>3. \A b \in Agents : activation'[b].stage = "run" => activation'[b] = activation[b] /\ b # AgentOf[t]
    BY <1>0, <2>2
  <2>4. \A b \in Agents, u \in Tasks : activation[b].stage = "run" /\ activation[b].task = u => u # t
    BY <2>2, LeaseFacts
  <2> QED
    BY <2>2, <2>3, <2>4, ReceiptsStay DEF At
<1>10. CASE Recovers
  BY <1>10 DEF Recovers, Recover, Idle, RunReceipt, At
<1>11. ASSUME NEW t \in Tasks, AddInput(t) PROVE RunReceipt'
  BY <1>2, <1>11 DEF AddInput, taskVars
<1>12. CASE ClaimNone \/ \E i \in DOMAIN mail : BackoffEnds(i)
  BY <1>2, <1>12 DEF ClaimNone, BackoffEnds, taskVars, daemonVars
<1>13. ASSUME NEW w, NEW S, StopsFrom(w, S) PROVE RunReceipt'
  BY <1>2, <1>13 DEF StopsFrom, OnlyControl
<1> QED
  BY <1>1, <1>4, <1>5, <1>7, <1>8, <1>9, <1>10, <1>11, <1>12, <1>13, LoudKinds DEF Stops

\* A receipt is never taken back within its call, and never runs anew.
LEMMA ToolOnceStep ==
  ASSUME TypeInv, LeaseInv, RunReceipt, [Next]_vars, NEW t \in Tasks, turn'[t] = turn[t], receipt[t] # "none"
  PROVE  receipt'[t] # "none" /\ (receipt'[t] = "running" => receipt[t] = "running")
<1> DEFINE Goal1 == receipt'[t] # "none" /\ (receipt'[t] = "running" => receipt[t] = "running")
<1>0. TypeOK /\ receipt \in [Tasks -> {"none", "running", "completed", "unknown"}] /\ turn \in [Tasks -> 0..MaxTurns]
  BY TypeFacts DEF TypeInv
<1>1. receipt'[t] = receipt[t] => Goal1
  OBVIOUS
<1>2. CASE Quiet
  BY <1>2 DEF Quiet, QuietTools
<1>3. ASSUME NEW u \in Tasks, Prepares(u) PROVE u # t
  <2>1. turn'[u] = turn[u] + 1 /\ turn[u] \in Nat
    BY <1>0, <1>3 DEF Prepares
  <2> QED
    BY <2>1
<1>4. ASSUME NEW a \in Agents, NEW u \in Tasks, Wait(a, u) \/ Progress(a, u) \/ \E c \in Tasks : Delegate(a, u, c) PROVE Goal1
  BY <1>0, <1>4 DEF Wait, Progress, Delegate, Receives
<1>5. ASSUME NEW a \in Agents, NEW u \in Tasks, Finish(a, u) \/ FinishFails(a, u) PROVE Goal1
  <2>1. CASE u # t
    BY <1>1, <1>5, <2>1, FinishTasks DEF FinishFails, taskVars
  <2>2. CASE u = t
    <3>1. ~FinishContinue(a, u)
      BY <1>3, <2>2 DEF FinishContinue
    <3> QED
      BY <1>1, <1>5, <3>1 DEF Finish, FinishStale, FinishPreserved, FinishRetry, FinishWaiting, FinishTask, FinishFails, taskVars
  <2> QED
    BY <2>1, <2>2
<1>6. ASSUME NEW u \in Tasks, Start(u) PROVE Goal1
  BY <1>0, <1>1, <1>3, <1>6 DEF Start, Prepares
<1>7. ASSUME NEW i \in DOMAIN mail, Claim(i) PROVE Goal1
  <2>1. PICK u \in Tasks : u = mail[i].task
    BY MailFacts
  <2>2. /\ IF Resumes(i) THEN CanPrepare(u) /\ Prepares(u) ELSE KeepsCall
        /\ \A x \in Tasks \ {u} : receipt'[x] = receipt[x]
    BY <1>7, <2>1, ClaimFacts, ZenonT(30)
  <2> QED
    BY <1>1, <1>3, <2>2 DEF KeepsCall
<1>8. CASE Recovers
  BY <1>8 DEF Recovers, Recover, Unresolved
<1>9. ASSUME NEW u \in Tasks, AddInput(u) PROVE Goal1
  BY <1>1, <1>9 DEF AddInput, taskVars
<1>10. CASE ClaimNone \/ \E i \in DOMAIN mail : BackoffEnds(i)
  BY <1>1, <1>10 DEF ClaimNone, BackoffEnds, taskVars, daemonVars
<1>11. ASSUME NEW w, NEW S, StopsFrom(w, S) PROVE Goal1
  BY <1>1, <1>11 DEF StopsFrom, OnlyControl
<1> QED
  BY <1>2, <1>4, <1>5, <1>6, <1>7, <1>8, <1>9, <1>10, <1>11, LoudKinds DEF Stops

\* A stopped task takes no turn, dispatch or tool any more.
LEMMA StopIsFinalStep ==
  ASSUME TypeInv, LeaseInv, RunReceipt, [Next]_vars, NEW t \in Tasks, stopped[t], Live(t)
  PROVE  /\ stopped'[t] /\ turn'[t] = turn[t] /\ sent'[t] = sent[t]
         /\ ~(receipt[t] = "none" /\ receipt'[t] # "none")
         /\ taskState'[t] # "completed"
<1> DEFINE Kept1 == stopped'[t] /\ turn'[t] = turn[t] /\ sent'[t] = sent[t] /\ receipt'[t] = receipt[t]
           Done == taskState'[t] # "completed"
           Goal1 == stopped'[t] /\ turn'[t] = turn[t] /\ sent'[t] = sent[t]
                    /\ ~(receipt[t] = "none" /\ receipt'[t] # "none") /\ Done
<1>0. /\ TypeOK /\ receipt \in [Tasks -> {"none", "running", "completed", "unknown"}] /\ turn \in [Tasks -> 0..MaxTurns]
      /\ taskState \in [Tasks -> TaskStates] /\ taskState[t] # "completed" /\ taskState[t] # "none" /\ Halted(t)
  BY TypeFacts, StatesApart DEF TypeInv, Live, EndStates, Halted
<1>1. Kept1 /\ Done => Goal1
  OBVIOUS
<1>2. CASE Quiet
  <2>1. /\ stopped'[t] /\ turn'[t] = turn[t] /\ sent'[t] = sent[t] /\ taskState'[t] = taskState[t]
        /\ \/ receipt'[t] = receipt[t]
           \/ \E a \in Agents : At(a, "run", t)
    BY <1>0, <1>2 DEF Quiet, QuietTools
  <2> QED
    BY <1>0, <2>1 DEF RunReceipt
<1>3. ASSUME NEW a \in Agents, NEW u \in Tasks, Wait(a, u) \/ Progress(a, u) PROVE Goal1
  BY <1>0, <1>3 DEF Wait, Progress, Receives, OnlyTool, MayUseTool
<1>4. ASSUME NEW a \in Agents, NEW u \in Tasks, NEW c \in Tasks, Delegate(a, u, c) PROVE Goal1
  <2>1. taskState' = [taskState EXCEPT ![c] = "queued", ![u] = "waiting"]
    BY <1>0, <1>4, DelegateStep
  <2>2. u # t /\ c # t /\ stopped' = stopped /\ sent' = sent
    BY <1>0, <1>4 DEF Delegate, OnlyTool, MayUseTool
  <2> QED
    BY <1>0, <1>4, <2>1, <2>2 DEF Delegate, Receives
<1>5. ASSUME NEW a \in Agents, NEW u \in Tasks, Finish(a, u) PROVE Goal1
  <2>0. u = t => ~Succeeds(a, u)
    BY <1>0 DEF Succeeds, Halting
  <2>1. Kept1
    <3>1. CASE u # t
      BY <1>5, <3>1, FinishTasks
    <3>2. CASE u = t
      <4>1. ~FinishContinue(a, u)
        BY <2>0, <3>2 DEF FinishContinue
      <4> QED
        BY <1>5, <4>1 DEF Finish, FinishStale, FinishPreserved, FinishRetry, FinishWaiting, FinishTask, taskVars
    <3> QED
      BY <3>1, <3>2
  <2>2. Done
    <3>1. CASE FinishStale(a, u) \/ FinishWaiting(a, u)
      BY <1>0, <3>1, FinishStaleStep, FinishWaitingStep
    <3>2. CASE FinishPreserved(a, u)
      BY <1>0, <3>2, FinishPreservedStep
    <3>3. CASE FinishRetry(a, u)
      <4>1. taskState' = [taskState EXCEPT ![u] = "queued"]
        BY <1>0, <3>3, FinishRetryStep
      <4> QED
        BY <1>0, <4>1
    <3>5. CASE FinishContinue(a, u)
      <4>1. taskState' = [taskState EXCEPT ![u] = "queued"]
        BY <1>0, <3>5, FinishContinueStep
      <4> QED
        BY <1>0, <4>1
    <3>4. CASE FinishTask(a, u)
      <4>1. PICK gone \in SUBSET Tasks :
              \A x \in Tasks : taskState'[x] = IF x = u THEN Verdict(a, u)
                                               ELSE IF x \in gone THEN "rejected" ELSE taskState[x]
        BY <1>0, <3>4, FinishTaskStep
      <4>2. u = t => Verdict(a, u) # "completed"
        BY <2>0 DEF Verdict
      <4> QED
        BY <1>0, <4>1, <4>2
    <3> QED
      BY <1>5, <3>1, <3>2, <3>3, <3>4, <3>5 DEF Finish
  <2> QED
    BY <1>1, <2>1, <2>2
<1>6. ASSUME NEW a \in Agents, NEW u \in Tasks, FinishFails(a, u) PROVE Goal1
  BY <1>0, <1>6 DEF FinishFails, ruled, taskVars
<1>7. ASSUME NEW u \in Tasks, Start(u) PROVE Goal1
  <2>1. taskState' = [taskState EXCEPT ![u] = "queued"] /\ u # t
    BY <1>0, <1>7, StartStep DEF Start, TypeInv, Born
  <2> QED
    BY <1>0, <1>7, <2>1 DEF Start, Prepares
<1>8. ASSUME NEW u \in Tasks, AddInput(u) PROVE Goal1
  BY <1>0, <1>8, AddInputStep DEF AddInput, taskVars
<1>9. CASE ClaimNone
  <2>1. PICK gone \in SUBSET Tasks :
          \A x \in Tasks : IF x \in gone THEN taskState'[x] \in {"failed", "rejected", "canceled"}
                           ELSE taskState'[x] = taskState[x]
    BY <1>0, <1>9, ClaimNoneStep
  <2>2. Done
    BY <1>0, <2>1
  <2> QED
    BY <1>1, <1>9, <2>2 DEF ClaimNone, taskVars
<1>10. ASSUME NEW i \in DOMAIN mail, Claim(i) PROVE Goal1
  <2>1. PICK u \in Tasks : u = mail[i].task
    BY MailFacts
  <2>2. /\ ~Halted(u) /\ stopped' = stopped
        /\ \A x \in Tasks \ {u} : turn'[x] = turn[x] /\ sent'[x] = sent[x] /\ receipt'[x] = receipt[x]
    BY <1>10, <2>1, ClaimFacts, ZenonT(30)
  <2>3. PICK gone \in SUBSET Tasks : ClaimEnds(i, u, gone)
    BY <1>0, <1>10, <2>1, ClaimStep
  <2>4. Done
    BY <1>0, <2>3 DEF ClaimEnds
  <2> QED
    BY <1>0, <1>1, <2>2, <2>4
<1>11. ASSUME NEW i \in DOMAIN mail, BackoffEnds(i) PROVE Goal1
  BY <1>0, <1>11 DEF BackoffEnds, taskVars
<1>12. ASSUME NEW w, NEW S, StopsFrom(w, S) PROVE Goal1
  <2>1. /\ \A x \in Tasks : stopped'[x] <=> stopped[x] \/ x \in S
        /\ \E gone \in SUBSET Tasks :
             \A x \in Tasks : IF x \in gone THEN taskState'[x] \in {"canceled", "rejected"}
                              ELSE taskState'[x] = taskState[x]
    BY <1>12, StopsFromStep
  <2>2. stopped'[t] /\ Done
    BY <1>0, <2>1
  <2> QED
    BY <1>1, <1>12, <2>2 DEF StopsFrom, OnlyControl
<1>13. CASE Recovers
  <2>1. PICK gone \in SUBSET Tasks :
          \A x \in Tasks : IF x \in gone THEN taskState'[x] \in {"failed", "rejected"}
                           ELSE taskState'[x] = IF taskState[x] = "running" THEN "queued" ELSE taskState[x]
    BY <1>0, <1>13, RecoverStep DEF Recovers
  <2>2. Done
    BY <1>0, <2>1
  <2> QED
    BY <1>13, <2>2 DEF Recovers, Recover, Unresolved
<1> QED
  BY <1>2, <1>3, <1>4, <1>5, <1>6, <1>7, <1>8, <1>9, <1>10, <1>11, <1>12, <1>13, LoudKinds DEF Stops

\* Always: the types, the leases and the receipts of the running tools.
LEMMA RunReceiptAlways == Spec => [](TypeInv /\ LeaseInv /\ RunReceipt)
<1>1. Init => RunReceipt
  BY DEF Init, RunReceipt, At, Idle
<1>2. (TypeInv /\ LeaseInv /\ RunReceipt) /\ [Next]_vars => RunReceipt'
  BY RunReceiptNext
<1> QED
  BY <1>1, <1>2, LeaseInvAlways, PTL DEF Spec

\* A tool that was started for a call is never started again for it, neither by
\* a redelivery nor after a crash.
THEOREM ToolsRunOnce == Spec => ToolOnce
<1>1. TypeInv /\ LeaseInv /\ RunReceipt /\ [Next]_vars =>
        [\A t \in Tasks : turn'[t] = turn[t] /\ receipt[t] # "none" =>
           receipt'[t] # "none" /\ (receipt'[t] = "running" => receipt[t] = "running")]_vars
  BY ToolOnceStep
<1> QED
  BY <1>1, RunReceiptAlways, PTL DEF Spec, ToolOnce

\* After a stop has committed, its task takes no turn, dispatches no call, starts
\* no tool and does not complete, whatever its worker still does.
THEOREM StopsAreFinal == Spec => StopIsFinal
<1>1. TypeInv /\ LeaseInv /\ RunReceipt /\ [Next]_vars =>
        [\A t \in Tasks : stopped[t] /\ Live(t) =>
           /\ stopped'[t] /\ turn'[t] = turn[t] /\ sent'[t] = sent[t]
           /\ ~(receipt[t] = "none" /\ receipt'[t] # "none")
           /\ taskState'[t] # "completed"]_vars
  BY StopIsFinalStep
<1> QED
  BY <1>1, RunReceiptAlways, PTL DEF Spec, StopIsFinal


-----------------------------------------------------------------------------
(* Roots *)

NoRootStopped == \A t \in Tasks : Root(t) => ~stopped[t]

\* As long as no root was stopped, a live root is the only one, and its system
\* runs or is paused.
RootLaw ==
  NoRootStopped =>
    \A t \in Tasks : Root(t) /\ Live(t) =>
      systemState \in {"running", "paused"} /\ \A u \in Tasks : Root(u) /\ Live(u) => u = t

\* A step that brings no root to life keeps the law if the system runs on, or
\* pauses, while a root lives.
LEMMA RootsStay ==
  ASSUME RootLaw, NoRootStopped' => NoRootStopped,
         \A t \in Tasks : NoRootStopped' /\ Root(t) /\ Live(t)' => Live(t) /\ systemState' \in {"running", "paused"}
  PROVE  RootLaw'
  BY DEF RootLaw, Root

\* So does a step that ends tasks, since the root that lives on is the only one.
LEMMA RootsEnd ==
  ASSUME RootLaw, NoRootStopped, NEW gone, Over(gone), NEW t \in Tasks, Root(t), Live(t)',
         \/ SystemEnds(gone, systemState, systemState', mail')
         \/ systemState' = "stopped" /\ ((\E u \in gone : Root(u)) \/ \A u \in Tasks : ~Live(u)')
  PROVE  Live(t) /\ systemState' \in {"running", "paused"}
<1>1. Live(t) /\ t \notin gone /\ \A u \in gone : u \in Tasks /\ Live(u)
  BY DEF Over
<1>2. systemState \in {"running", "paused"} /\ \A u \in Tasks : Root(u) /\ Live(u) => u = t
  BY <1>1 DEF RootLaw
<1>3. \A u \in gone : ~Root(u)
  BY <1>1, <1>2
<1>4. SystemEnds(gone, systemState, systemState', mail')
  BY <1>3
<1> QED
  BY <1>1, <1>2, <1>3, <1>4 DEF SystemEnds

\* Every step keeps the law of the roots.
LEMMA RootLawNext == TypeInv /\ RootLaw /\ [Next]_vars => RootLaw'
<1> SUFFICES ASSUME TypeInv, RootLaw, [Next]_vars PROVE RootLaw'
  OBVIOUS
<1> DEFINE Runs(t) == systemState' \in {"running", "paused"}
           Keeps == \A t \in Tasks : NoRootStopped' /\ Root(t) /\ Live(t)' => Live(t) /\ systemState' \in {"running", "paused"}
<1>0. TypeOK /\ NoTask \notin Tasks
  BY WorkflowAssumption DEF TypeInv
<1>1. stopped' = stopped => (NoRootStopped' => NoRootStopped)
  BY DEF NoRootStopped, Root
<1>2. ASSUME stopped' = stopped, systemState' = systemState,
             \A t \in Tasks : Root(t) /\ Live(t)' => Live(t)
      PROVE  RootLaw'
  BY <1>1, <1>2, RootsStay DEF RootLaw
<1>3. ASSUME NEW gone, Over(gone), stopped' = stopped,
             \/ SystemEnds(gone, systemState, systemState', mail')
             \/ systemState' = "stopped" /\ ((\E u \in gone : Root(u)) \/ \A u \in Tasks : ~Live(u)')
      PROVE  RootLaw'
  <2>1. \A t \in Tasks : NoRootStopped' /\ Root(t) /\ Live(t)' => Live(t) /\ systemState' \in {"running", "paused"}
    BY <1>1, <1>3, RootsEnd
  <2> QED
    BY <1>1, <1>3, <2>1, RootsStay
<1>4. CASE Quiet
  <2>1. \A t \in Tasks : Live(t)' => Live(t)
    BY <1>4 DEF Quiet, Live
  <2>2. \A t \in Tasks : NoRootStopped' /\ Root(t) /\ Live(t)' => Live(t) /\ systemState' \in {"running", "paused"}
    BY <1>1, <1>4, <2>1 DEF Quiet, RootLaw
  <2> QED
    BY <1>1, <1>4, <2>2, RootsStay DEF Quiet
<1>5. ASSUME NEW a \in Agents, NEW u \in Tasks, Wait(a, u) \/ Progress(a, u) PROVE RootLaw'
  <2>1. stopped' = stopped /\ systemState' = systemState /\ \A t \in Tasks : Live(t)' => Live(t)
    <3>1. taskState \in [Tasks -> TaskStates]
      BY TypeFacts
    <3> QED
      BY <1>5, <3>1 DEF Wait, Progress, OnlyTool, MayUseTool, Live
  <2> QED
    BY <1>2, <2>1
<1>6. ASSUME NEW a \in Agents, NEW u \in Tasks, NEW c \in Tasks, Delegate(a, u, c) PROVE RootLaw'
  <2>1. /\ stopped' = stopped /\ systemState' = systemState
        /\ taskState' = [taskState EXCEPT ![c] = "queued", ![u] = "waiting"]
    BY <1>0, <1>6, DelegateStep
  <2>2. ~Root(c) /\ Live(u) /\ taskState \in [Tasks -> TaskStates]
    BY <1>0, <1>6, TypeFacts DEF Delegate, MayUseTool, Root
  <2>3. \A t \in Tasks : Root(t) /\ Live(t)' => Live(t)
    BY <2>1, <2>2 DEF Live
  <2> QED
    BY <1>2, <2>1, <2>3
<1>7. ASSUME NEW a \in Agents, NEW u \in Tasks, Finish(a, u) PROVE RootLaw'
  <2>1. stopped' = stopped /\ \A t \in Tasks : Live(t)' => Live(t)
    BY <1>7, FinishTasks
  <2>2. CASE FinishTask(a, u)
    <3>1. PICK gone \in SUBSET Tasks : Over(gone) /\ SystemEnds(gone, systemState, systemState', mail')
      BY <1>0, <2>2, FinishTaskStep
    <3> QED
      BY <1>3, <2>1, <3>1
  <2>3. CASE FinishStale(a, u)
    <3>1. systemState' = IF systemState = "stopping" THEN Drained(mail') ELSE systemState
      BY <1>0, <2>3, FinishStaleStep
    <3>2. \A t \in Tasks : NoRootStopped' /\ Root(t) /\ Live(t)' => Live(t) /\ systemState' \in {"running", "paused"}
      BY <1>1, <2>1, <3>1 DEF RootLaw
    <3> QED
      BY <1>1, <2>1, <3>2, RootsStay
  <2>4. CASE FinishPreserved(a, u)
    BY <1>0, <1>2, <2>1, <2>4, FinishPreservedStep
  <2>5. CASE FinishRetry(a, u)
    BY <1>0, <1>2, <2>1, <2>5, FinishRetryStep
  <2>6. CASE FinishWaiting(a, u)
    BY <1>0, <1>2, <2>1, <2>6, FinishWaitingStep
  <2>7. CASE FinishContinue(a, u)
    BY <1>0, <1>2, <2>1, <2>7, FinishContinueStep
  <2> QED
    BY <1>7, <2>2, <2>3, <2>4, <2>5, <2>6, <2>7 DEF Finish
<1>8. ASSUME NEW a \in Agents, NEW u \in Tasks, FinishFails(a, u) PROVE RootLaw'
  <2>1. stopped' = stopped /\ systemState' = systemState /\ taskState' = taskState
    BY <1>8 DEF FinishFails, ruled, taskVars
  <2>2. \A t \in Tasks : Live(t)' => Live(t)
    BY <2>1 DEF Live
  <2> QED
    BY <1>2, <2>1, <2>2
<1>9. ASSUME NEW u \in Tasks, Start(u) PROVE RootLaw'
  <2>1. /\ stopped' = stopped /\ systemState' = "running" /\ taskState' = [taskState EXCEPT ![u] = "queued"]
        /\ systemState \in {"inactive", "stopped"} /\ taskState \in [Tasks -> TaskStates]
    BY <1>0, <1>9, StartStep, TypeFacts DEF Start
  <2>2. ASSUME NoRootStopped', NEW t \in Tasks, Root(t), Live(t)' PROVE t = u
    <3>1. ~Live(t)
      BY <1>1, <2>1, <2>2 DEF RootLaw
    <3> QED
      BY <2>1, <2>2, <3>1 DEF Live
  <2> QED
    BY <2>1, <2>2 DEF RootLaw, Root
<1>10. ASSUME NEW u \in Tasks, AddInput(u) PROVE RootLaw'
  <2>1. stopped' = stopped /\ systemState' = systemState /\ taskState' = taskState
    BY <1>0, <1>10, AddInputStep
  <2>2. \A t \in Tasks : Live(t)' => Live(t)
    BY <2>1 DEF Live
  <2> QED
    BY <1>2, <2>1, <2>2
<1>11. CASE ClaimNone
  <2>1. stopped' = stopped /\ \E gone : Over(gone) /\ SystemEnds(gone, systemState, systemState', mail')
    BY <1>0, <1>11, ClaimNoneStep
  <2> QED
    BY <1>3, <2>1
<1>12. ASSUME NEW i \in DOMAIN mail, Claim(i) PROVE RootLaw'
  <2>1. PICK u \in Tasks : u = mail[i].task
    BY MailFacts
  <2>2. stopped' = stopped /\ \E gone \in SUBSET Tasks : ClaimEnds(i, u, gone)
    BY <1>0, <1>12, <2>1, ClaimStep
  <2> QED
    BY <1>3, <2>2 DEF ClaimEnds
<1>13. ASSUME NEW i \in DOMAIN mail, BackoffEnds(i) PROVE RootLaw'
  <2>1. stopped' = stopped /\ systemState' = systemState /\ taskState' = taskState
    BY <1>0, <1>13, BackoffStep
  <2>2. \A t \in Tasks : Live(t)' => Live(t)
    BY <2>1 DEF Live
  <2> QED
    BY <1>2, <2>1, <2>2
<1>14. ASSUME NEW w \in Worlds, NEW S \in SUBSET {t \in Tasks : Live(t)}, StopsFrom(w, S) PROVE RootLaw'
  <2>1. /\ \A t \in Tasks : stopped'[t] <=> stopped[t] \/ t \in S
        /\ \E gone \in SUBSET Tasks :
             Over(gone) /\ SystemEnds(gone, IF \E t \in S : Root(t) THEN "stopping" ELSE w.system, systemState', mail')
    BY <1>14, StopsFromStep
  <2>2. NoRootStopped' => NoRootStopped /\ \A t \in S : ~Root(t)
    BY <2>1 DEF NoRootStopped, Root
  <2>3. w.system = systemState \/ S = {t \in Tasks : Live(t)}
    BY <1>14 DEF StopsFrom
  <2>4. PICK gone \in SUBSET Tasks :
          Over(gone) /\ SystemEnds(gone, IF \E t \in S : Root(t) THEN "stopping" ELSE w.system, systemState', mail')
    BY <2>1
  <2>5. ASSUME NoRootStopped', NEW t \in Tasks, Root(t), Live(t)'
        PROVE  Live(t) /\ systemState' \in {"running", "paused"}
    <3>1. Live(t) /\ t \notin S
      BY <2>2, <2>4, <2>5 DEF Over
    <3>2. SystemEnds(gone, systemState, systemState', mail')
      BY <2>2, <2>3, <2>4, <2>5, <3>1
    <3> QED
      BY <2>2, <2>4, <2>5, <3>2, RootsEnd
  <2> QED
    BY <2>2, <2>5, RootsStay
<1>15. CASE Recovers
  <2>1. /\ stopped' = stopped
        /\ \E gone : /\ Over(gone)
                     /\ \/ SystemEnds(gone, systemState, systemState', mail')
                        \/ systemState' = "stopped" /\ ((\E t \in gone : Root(t)) \/ \A t \in Tasks : ~Live(t)')
    BY <1>0, <1>15, RecoverStep DEF Recovers
  <2> QED
    BY <1>3, <2>1
<1> QED
  BY <1>4, <1>5, <1>6, <1>7, <1>8, <1>9, <1>10, <1>11, <1>12, <1>13, <1>14, <1>15, LoudKinds DEF Stops

\* Until a root is stopped, a goal's live root keeps its system from being
\* started again, and no second root lives beside it.
THEOREM RootsHoldSystem == Spec => []RootHoldsSystem
<1>1. Init => RootLaw
  BY StatesApart DEF Init, RootLaw, Live
<1>2. TypeInv /\ RootLaw /\ [Next]_vars => RootLaw'
  BY RootLawNext
<1>3. RootLaw => RootHoldsSystem
  BY DEF RootLaw, RootHoldsSystem, NoRootStopped
<1> QED
  BY <1>1, <1>2, <1>3, TypeInvAlways, PTL DEF Spec


-----------------------------------------------------------------------------
(* The room for events *)

\* The events and the live tasks of goal g.
Letters(g) == {j \in DOMAIN mail : GoalOf[mail[j].task] = g}
Alive(g) == {t \in Tasks : Live(t) /\ GoalOf[t] = g}

\* Both are finite, before and after the step.
LEMMA RoomFinite ==
  ASSUME TypeInv, TypeInv', NEW g \in Goals
  PROVE  /\ IsFiniteSet(Letters(g)) /\ IsFiniteSet(Letters(g)') /\ IsFiniteSet(Alive(g)) /\ IsFiniteSet(Alive(g)')
         /\ Cardinality(Letters(g)) \in Nat /\ Cardinality(Letters(g)') \in Nat
         /\ Cardinality(Alive(g)) \in Nat /\ Cardinality(Alive(g)') \in Nat /\ MaxEvents \in Nat
<1>1. \A m \in Seq(Deliveries) : Len(m) \in Nat /\ DOMAIN m = 1..Len(m)
  BY LenProperties
<1>2. mail \in Seq(Deliveries) /\ mail' \in Seq(Deliveries)
  BY DEF TypeInv, TypeOK, Deliveries
<1>3. IsFiniteSet(DOMAIN mail) /\ IsFiniteSet(DOMAIN mail')
  BY <1>1, <1>2, FS_Interval
<1>4. Letters(g) \in SUBSET DOMAIN mail /\ Letters(g)' \in SUBSET DOMAIN mail'
  BY DEF Letters
<1>5. Alive(g) \in SUBSET Tasks /\ Alive(g)' \in SUBSET Tasks /\ IsFiniteSet(Tasks) /\ MaxEvents \in Nat
  BY WorkflowAssumption DEF Alive
<1> QED
  BY <1>3, <1>4, <1>5, FS_Subset, FS_CardinalityType

\* The size of the union of two disjoint finite sets.
LEMMA DisjointSizes ==
  ASSUME NEW S, NEW T, IsFiniteSet(S), IsFiniteSet(T), S \intersect T = {}
  PROVE  Cardinality(S \union T) = Cardinality(S) + Cardinality(T)
<1>1. Cardinality(S \union T) = Cardinality(S) + Cardinality(T) - Cardinality(S \intersect T)
  BY FS_Union
<1>2. Cardinality(S) \in Nat /\ Cardinality(T) \in Nat /\ Cardinality(S \intersect T) = 0
  BY FS_CardinalityType, FS_EmptySet
<1> QED
  BY <1>1, <1>2

\* A step that posts nothing and creates no task leaves the room.
LEMMA RoomStays ==
  ASSUME TypeInv, TypeInv', EventRoom, DOMAIN mail' = DOMAIN mail,
         \A j \in DOMAIN mail : mail'[j].task = mail[j].task, \A t \in Tasks : Live(t)' => Live(t)
  PROVE  EventRoom'
<1> SUFFICES ASSUME NEW g \in Goals PROVE Cardinality(Letters(g)') + Cardinality(Alive(g)') <= MaxEvents
  BY DEF EventRoom, Letters, Alive
<1>1. Letters(g)' = Letters(g) /\ Alive(g)' \in SUBSET Alive(g)
  BY DEF Letters, Alive
<1>2. Cardinality(Alive(g)') <= Cardinality(Alive(g))
  BY <1>1, RoomFinite, FS_Subset
<1>3. Cardinality(Letters(g)) + Cardinality(Alive(g)) <= MaxEvents
  BY DEF EventRoom, Letters, Alive
<1> QED
  BY <1>1, <1>2, <1>3, RoomFinite

\* An event is posted only when there is room for it.
LEMMA RoomPosted ==
  ASSUME TypeInv, TypeInv', EventRoom, NEW u \in Tasks, RoomFor(GoalOf[u]), NEW n,
         DOMAIN mail' = DOMAIN mail \union {n}, n \notin DOMAIN mail, mail'[n].task = u,
         \A j \in DOMAIN mail : mail'[j].task = mail[j].task,
         \A t \in Tasks : Live(t)' => Live(t) \/ GoalOf[t] = GoalOf[u]
  PROVE  EventRoom'
<1> SUFFICES ASSUME NEW g \in Goals PROVE Cardinality(Letters(g)') + Cardinality(Alive(g)') <= MaxEvents
  BY DEF EventRoom, Letters, Alive
<1>1. CASE g = GoalOf[u]
  <2>1. Letters(g)' = Letters(g) \union {n} /\ n \notin Letters(g)
    BY <1>1 DEF Letters
  <2>2. Cardinality(Letters(g)') = Cardinality(Letters(g)) + 1
    BY <2>1, RoomFinite, FS_AddElement
  <2>3. Cardinality(Letters(g)) + Cardinality(Alive(g)') < MaxEvents
    BY <1>1 DEF RoomFor, Letters, Alive
  <2> QED
    BY <2>2, <2>3, RoomFinite
<1>2. CASE g # GoalOf[u]
  <2>1. Letters(g)' = Letters(g) /\ Alive(g)' \in SUBSET Alive(g)
    BY <1>2 DEF Letters, Alive
  <2>2. Cardinality(Alive(g)') <= Cardinality(Alive(g))
    BY <2>1, RoomFinite, FS_Subset
  <2>3. Cardinality(Letters(g)) + Cardinality(Alive(g)) <= MaxEvents
    BY DEF EventRoom, Letters, Alive
  <2> QED
    BY <2>1, <2>2, <2>3, RoomFinite
<1> QED
  BY <1>1, <1>2

\* The results of ended tasks take the room that was kept for these tasks.
LEMMA RoomEnds ==
  ASSUME TypeInv, TypeInv', EventRoom, NEW gone \in SUBSET Tasks, Over(gone),
         \A j \in DOMAIN mail : mail'[j].task = mail[j].task
  PROVE  EventRoom'
<1> SUFFICES ASSUME NEW g \in Goals PROVE Cardinality(Letters(g)') + Cardinality(Alive(g)') <= MaxEvents
  BY DEF EventRoom, Letters, Alive
<1> DEFINE New == {j \in DOMAIN mail' \ DOMAIN mail : GoalOf[mail'[j].task] = g}
           Gone == {t \in gone : GoalOf[t] = g}
           f == [j \in New |-> mail'[j].from]
<1>0. /\ DOMAIN mail \subseteq DOMAIN mail'
      /\ \A j \in DOMAIN mail' \ DOMAIN mail :
           mail'[j].task \in Tasks /\ mail'[j].from \in gone /\ ParentOf[mail'[j].from] = mail'[j].task
  BY PostedMail DEF Over
<1>1. Letters(g)' = Letters(g) \union New /\ Letters(g) \intersect New = {}
  BY <1>0 DEF Letters
<1>2. Alive(g) = Alive(g)' \union Gone /\ Alive(g)' \intersect Gone = {}
  BY DEF Over, Alive
<1>3. f \in Injection(New, Gone)
  <2>1. \A j \in New : mail'[j].from \in Gone
    BY <1>0, WorkflowAssumption
  <2>2. \A j, k \in New : mail'[j].from = mail'[k].from => j = k
    BY DEF Over, Posted
  <2> QED
    BY <2>1, <2>2 DEF Injection, IsInjective
<1>4. IsFiniteSet(Gone)
  <2>1. Gone \in SUBSET Alive(g)
    BY <1>2
  <2> QED
    BY <2>1, RoomFinite, FS_Subset
<1>5. IsFiniteSet(New) /\ Cardinality(New) <= Cardinality(Gone)
  BY <1>3, <1>4, FS_Injection
<1> HIDE DEF New, Gone, f
<1>6. Cardinality(Letters(g)') = Cardinality(Letters(g)) + Cardinality(New)
  BY <1>1, <1>5, RoomFinite, DisjointSizes
<1>7. Cardinality(Alive(g)) = Cardinality(Alive(g)') + Cardinality(Gone)
  BY <1>2, <1>4, RoomFinite, DisjointSizes
<1>8. Cardinality(Letters(g)) + Cardinality(Alive(g)) <= MaxEvents
  BY DEF EventRoom, Letters, Alive
<1>9. Cardinality(New) \in Nat /\ Cardinality(Gone) \in Nat
  BY <1>4, <1>5, FS_CardinalityType
<1> QED
  BY <1>5, <1>6, <1>7, <1>8, <1>9, RoomFinite

\* Every step keeps the room.
LEMMA EventRoomNext ==
  ASSUME TypeInv, LeaseInv, EventRoom, [Next]_vars
  PROVE  EventRoom'
<1>0. TypeOK /\ TypeInv' /\ taskState \in [Tasks -> TaskStates]
  BY TypeInvNext, TypeFacts DEF TypeInv
<1>1. ASSUME mail' = mail, \A t \in Tasks : Live(t)' => Live(t) PROVE EventRoom'
  BY <1>0, <1>1, RoomStays
<1>2. ASSUME NEW gone \in SUBSET Tasks, Over(gone), NEW S, KeepsMail(S) PROVE EventRoom'
  <2>1. \A j \in DOMAIN mail : mail'[j].task = mail[j].task
    BY <1>2 DEF KeepsMail, Same
  <2> QED
    BY <1>0, <1>2, <2>1, RoomEnds
<1>3. ASSUME NEW u \in Tasks, NEW kind \in Kinds, NEW from \in Tasks \union {NoTask}, RoomFor(GoalOf[u]),
             mail' = Append(mail, Event(u, kind, from)), \A t \in Tasks : Live(t)' => Live(t) \/ GoalOf[t] = GoalOf[u]
      PROVE  EventRoom'
  <2>1. /\ DOMAIN mail' = DOMAIN mail \union {Len(mail) + 1} /\ Len(mail) + 1 \notin DOMAIN mail
        /\ mail'[Len(mail) + 1] = Event(u, kind, from) /\ \A j \in DOMAIN mail : mail'[j] = mail[j]
    BY <1>3, AppendedMail
  <2>2. mail'[Len(mail) + 1].task = u
    BY <2>1 DEF Event
  <2> QED
    BY <1>0, <1>3, <2>1, <2>2, RoomPosted
<1>4. CASE Quiet
  BY <1>1, <1>4 DEF Quiet, Live
<1>5. ASSUME NEW a \in Agents, NEW u \in Tasks, Wait(a, u) PROVE EventRoom'
  BY <1>0, <1>1, <1>5 DEF Wait, OnlyTool, MayUseTool, Live
<1>6. ASSUME NEW a \in Agents, NEW u \in Tasks, Progress(a, u) PROVE EventRoom'
  <2>1. /\ ParentOf[u] \in Tasks /\ taskState' = taskState /\ RoomFor(GoalOf[ParentOf[u]])
        /\ mail' = Append(mail, Event(ParentOf[u], "progress", u))
    BY <1>0, <1>6, ProgressStep
  <2>2. \A t \in Tasks : Live(t)' => Live(t)
    BY <2>1 DEF Live
  <2> QED
    BY <1>3, <2>1, <2>2 DEF Kinds
<1>7. ASSUME NEW a \in Agents, NEW u \in Tasks, NEW c \in Tasks, Delegate(a, u, c) PROVE EventRoom'
  <2>1. taskState' = [taskState EXCEPT ![c] = "queued", ![u] = "waiting"] /\ Post(c, "ready")
    BY <1>0, <1>7, DelegateStep
  <2>2. Live(u)
    BY <1>7 DEF Delegate, MayUseTool
  <2>3. \A t \in Tasks : Live(t)' => Live(t) \/ GoalOf[t] = GoalOf[c]
    BY <1>0, <2>1, <2>2 DEF Live
  <2> QED
    BY <1>3, <2>1, <2>3 DEF Post, Kinds
<1>8. ASSUME NEW a \in Agents, NEW u \in Tasks, Finish(a, u) PROVE EventRoom'
  <2>1. KeepsMail(Leased(mail) \ {activation[a].mail}) /\ \A t \in Tasks : Live(t)' => Live(t)
    <3>1. activation[a].mail \in Leased(mail)
      BY <1>8, LeaseFacts DEF Finish, FinishStale, FinishPreserved, FinishRetry, FinishWaiting, FinishContinue, FinishTask, Finishing
    <3> QED
      BY <1>8, <3>1, FinishMail, FinishTasks
  <2>2. \A j \in DOMAIN mail : mail'[j].task = mail[j].task
    BY <2>1 DEF KeepsMail, Same
  <2>3. DOMAIN mail' = DOMAIN mail => EventRoom'
    BY <1>0, <2>1, <2>2, RoomStays
  <2>4. CASE FinishStale(a, u) \/ FinishPreserved(a, u)
    BY <1>0, <2>3, <2>4, FinishStaleStep, FinishPreservedStep
  <2>5. CASE FinishRetry(a, u) \/ FinishWaiting(a, u)
    BY <1>0, <2>3, <2>5, FinishRetryStep, FinishWaitingStep
  <2>6. CASE FinishContinue(a, u)
    <3>1. \/ DOMAIN mail' = DOMAIN mail
          \/ /\ RoomFor(GoalOf[u])
             /\ DOMAIN mail' = DOMAIN mail \union {Len(mail) + 1} /\ Len(mail) + 1 \notin DOMAIN mail
             /\ mail'[Len(mail) + 1] = Event(u, "continue", NoTask)
      BY <1>0, <2>6, FinishContinueStep
    <3>2. Event(u, "continue", NoTask).task = u
      BY DEF Event
    <3> QED
      BY <1>0, <2>1, <2>2, <2>3, <3>1, <3>2, RoomPosted
  <2>7. CASE FinishTask(a, u)
    <3>1. \E gone \in SUBSET Tasks : Over(gone)
      BY <1>0, <2>7, FinishTaskStep
    <3> QED
      BY <1>2, <2>1, <3>1
  <2> QED
    BY <1>8, <2>4, <2>5, <2>6, <2>7 DEF Finish
<1>9. ASSUME NEW a \in Agents, NEW u \in Tasks, FinishFails(a, u) PROVE EventRoom'
  BY <1>1, <1>9 DEF FinishFails, ruled, Live
<1>10. ASSUME NEW u \in Tasks, Start(u) PROVE EventRoom'
  <2>1. taskState' = [taskState EXCEPT ![u] = "queued"] /\ Post(u, "ready")
    BY <1>0, <1>10, StartStep
  <2>2. \A t \in Tasks : Live(t)' => Live(t) \/ GoalOf[t] = GoalOf[u]
    BY <1>0, <2>1 DEF Live
  <2> QED
    BY <1>3, <2>1, <2>2 DEF Post, Kinds
<1>11. ASSUME NEW u \in Tasks, AddInput(u) PROVE EventRoom'
  <2>1. taskState' = taskState /\ Post(u, "input")
    BY <1>0, <1>11, AddInputStep
  <2>2. \A t \in Tasks : Live(t)' => Live(t)
    BY <2>1 DEF Live
  <2> QED
    BY <1>3, <2>1, <2>2 DEF Post, Kinds
<1>12. CASE ClaimNone
  <2>1. PICK gone \in SUBSET Tasks :
          Over(gone) /\ \A j \in DOMAIN mail : Sifted(Len(mail) + 1, j, mail'[j], gone)
    BY <1>0, <1>12, ClaimNoneStep
  <2> QED
    BY <1>2, <2>1, EndedMail
<1>13. ASSUME NEW i \in DOMAIN mail, Claim(i) PROVE EventRoom'
  <2>1. PICK u \in Tasks : u = mail[i].task
    BY MailFacts
  <2>2. PICK gone \in SUBSET Tasks : ClaimEnds(i, u, gone)
    BY <1>0, <1>13, <2>1, ClaimStep
  <2>3. Over(gone) /\ KeepsMail(Leased(mail) \union {i})
    <3>1. mail[i].state = "pending"
      BY <1>13, <2>1, ClaimFacts
    <3>2. KeepsMail(Leased(mail) \union {i})
      BY <2>1, <2>2, <3>1, ClaimMail
    <3> QED
      BY <2>2, <3>2 DEF ClaimEnds
  <2> QED
    BY <1>2, <2>3
<1>14. ASSUME NEW i \in DOMAIN mail, BackoffEnds(i) PROVE EventRoom'
  <2>1. KeepsMail(Leased(mail)) /\ DOMAIN mail' = DOMAIN mail /\ taskState' = taskState
    BY <1>0, <1>14, BackoffMail, BackoffStep
  <2>2. \A j \in DOMAIN mail : mail'[j].task = mail[j].task
    BY <2>1 DEF KeepsMail, Same
  <2>3. \A t \in Tasks : Live(t)' => Live(t)
    BY <2>1 DEF Live
  <2> QED
    BY <1>0, <2>1, <2>2, <2>3, RoomStays
<1>15. ASSUME NEW w, NEW S, StopsFrom(w, S) PROVE EventRoom'
  <2>1. PICK gone \in SUBSET Tasks : Over(gone) /\ \A j \in DOMAIN mail : Old(mail[j], mail'[j], gone)
    BY <1>15, StopsFromStep
  <2> QED
    BY <1>2, <2>1, EndedMail
<1>16. CASE Recovers
  <2>1. PICK gone \in SUBSET Tasks :
          Over(gone) /\ Leased(mail') = {} /\ \A j \in DOMAIN mail : Old(Returned(j), mail'[j], gone)
    BY <1>0, <1>16, RecoverStep DEF Recovers
  <2> QED
    BY <1>2, <2>1, RecoverMail
<1> QED
  BY <1>4, <1>5, <1>6, <1>7, <1>8, <1>9, <1>10, <1>11, <1>12, <1>13, <1>14, <1>15, <1>16, LoudKinds DEF Stops

\* Every live task, the root of a goal too, can still post its end within the
\* goal's event limit.
THEOREM EndsHaveRoom == Spec => []EventRoom
<1>1. Init => EventRoom
  <2>1. ASSUME Init, NEW g \in Goals PROVE Letters(g) = {} /\ Alive(g) = {}
    BY <2>1, StatesApart DEF Init, Letters, Alive, Live
  <2>2. Cardinality({}) = 0 /\ MaxEvents \in Nat
    BY FS_EmptySet, WorkflowAssumption
  <2> QED
    BY <2>1, <2>2 DEF EventRoom, Letters, Alive
<1>2. TypeInv /\ LeaseInv /\ EventRoom /\ [Next]_vars => EventRoom'
  BY EventRoomNext
<1> QED
  BY <1>1, <1>2, LeaseInvAlways, PTL DEF Spec

=============================================================================
