------------------------------ MODULE Workflow ------------------------------
(***************************************************************************)
(* Durable work of one system: bounded goals, their trees of delegated     *)
(* tasks, the mailboxes that wake a task, the activations (one worker      *)
(* process and one goroutine per agent) that carry a task one model turn   *)
(* further, control commands, deadlines, and crash, shutdown and recovery. *)
(*                                                                         *)
(* Every store method is one SQLite transaction on one connection, and     *)
(* claim, finishDelivery, start, stop and control hold engine.mu; so each  *)
(* action is one transaction together with the change of the in-memory     *)
(* table of activations made under the same lock; but a stop cancels the   *)
(* activations after its commit, and broker and tool calls, which do not   *)
(* take engine.mu, may come in between.                                    *)
(*                                                                         *)
(* Conversations, prompts and payloads are left out, but not how often an  *)
(* input or a result was appended to its task's conversation.  Quotas and  *)
(* token budgets are module Broker's: here admission may refuse or dispatch*)
(* a call whenever its control conditions allow.  A reply can always be    *)
(* refused for the causation depth or the per-minute rate of its source.   *)
(* Operators named X_<fault> are faulty variants of X: each shows that a   *)
(* property below can fail.  Nothing else uses them.                       *)
(***************************************************************************)
EXTENDS Weights, Sequences, SequencesExt

CONSTANTS
  Goals, Tasks, Agents, NoTask, NoGoal,
  Operator,         \* the root agent; the others belong to the goal of their tasks
  GoalOf, AgentOf,  \* of a task
  ParentOf,         \* the task that delegates it, or NoTask
  MaxTurns,         \* model turns of an agent in a goal
  MaxEvents,        \* MaxGoalEvents
  MailboxCapacity,  \* outstanding deliveries of one recipient
  MaxActive,        \* the system's max_active_agents
  Decisions,        \* what a model answer can ask for
  Commands,         \* bound: the control commands the administrator issues
  MaxInputs,        \* bound on user inputs
  MaxFaults         \* bound on worker failures, failed commits and shutdowns

MaxDeliveries == 3  \* delivery attempts of one event
MaxAttempts == 3    \* dispatches of one model call

Waiting == {"awaiting_worker", "queued"}
LiveStates == {"queued", "running", "waiting"}
EndStates == {"completed", "failed", "canceled", "rejected"}
Kinds == {"ready", "continue", "input", "result", "progress"}
AllCommands == {"stop", "pause system", "pause goal", "stop goal", "pause agent", "stop agent"}
Stages == {"idle", "start", "call", "tool", "run", "done", "error"}

ASSUME WorkflowAssumption ==
  /\ IsFiniteSet(Tasks) /\ IsFiniteSet(Agents)
  /\ NoTask \notin Tasks /\ NoGoal \notin Goals
  /\ Operator \in Agents
  /\ GoalOf \in [Tasks -> Goals] /\ AgentOf \in [Tasks -> Agents]
  /\ ParentOf \in [Tasks -> Tasks \union {NoTask}]
  /\ \A t \in Tasks : /\ ParentOf[t] = NoTask <=> AgentOf[t] = Operator
                      /\ ParentOf[t] # NoTask => GoalOf[ParentOf[t]] = GoalOf[t]
  /\ MaxTurns \in Nat \ {0} /\ MaxEvents \in Nat /\ MailboxCapacity \in Nat
  /\ MaxActive \in Nat /\ MaxInputs \in Nat /\ MaxFaults \in Nat
  /\ Decisions \subseteq {"answer", "work", "delegate", "wait", "progress"}
  /\ Commands \subseteq AllCommands

VARIABLES
  systemState,  \* systems.state
  current,      \* the goal of the system's latest model call
  goalState, goalControl,  \* goals.state, goals.control
  expired,      \* the goal's deadline has passed
  agentState,   \* agents.state
  taskState,    \* tasks.state
  stopped,      \* tasks.control = 'stopped'
  awaits,       \* tasks.waiting_tool, as the child whose result it waits for
  turn,         \* tasks.turns: with the task, the identity of its current call
  callState, sent, decision,  \* the current call's state, attempts and actions
  receipt,      \* tool_calls.state for the current call
  mail,         \* events and mailboxes, in order of mailboxes.sequence
  activation,   \* engine.active, and how far the agent's worker has come
  revoked,      \* tasks whose activations a committed stop is about to cancel, engine.mu held
  closing,      \* engine.ctx is done: the daemon is shutting down
  broken,       \* modelBroker.broken
  faults, inputs           \* what the bounds count

taskVars == <<stopped, awaits, turn, sent, decision, receipt>>
goalVars == <<current, goalControl, expired>>
ruled == <<systemState, goalState, agentState, taskState, callState, mail>>
daemonVars == <<activation, revoked, closing, broken, faults, inputs>>
vars == <<ruled, goalVars, taskVars, daemonVars>>

Idle == [stage |-> "idle", task |-> NoTask, turn |-> 0, mail |-> 0, canceled |-> FALSE]

Init ==
  /\ systemState = "inactive" /\ current = NoGoal
  /\ goalState = [g \in Goals |-> "none"]
  /\ goalControl = [g \in Goals |-> "active"]
  /\ expired = [g \in Goals |-> FALSE]
  /\ agentState = [a \in Agents |-> "active"]
  /\ taskState = [t \in Tasks |-> "none"]
  /\ stopped = [t \in Tasks |-> FALSE]
  /\ awaits = [t \in Tasks |-> NoTask]
  /\ turn = [t \in Tasks |-> 0]
  /\ callState = [t \in Tasks |-> "none"]
  /\ sent = [t \in Tasks |-> 0]
  /\ decision = [t \in Tasks |-> "none"]
  /\ receipt = [t \in Tasks |-> "none"]
  /\ mail = << >>
  /\ activation = [a \in Agents |-> Idle]
  /\ revoked = {} /\ closing = FALSE /\ broken = FALSE
  /\ faults = 0 /\ inputs = 0

-----------------------------------------------------------------------------
(* Queries *)

Live(t) == taskState[t] \in LiveStates
Root(t) == ParentOf[t] = NoTask
Team(g) == {AgentOf[t] : t \in {u \in Tasks : GoalOf[u] = g}} \ {Operator}

\* The task, its parent, and so on up to the root.
Lineage[t \in Tasks] == {t} \union (IF Root(t) THEN {} ELSE Lineage[ParentOf[t]])

\* The condition under which an ending task ends as canceled.
Halted(t) ==
  \/ systemState \in {"stopping", "stopped"}
  \/ goalControl[GoalOf[t]] = "stopped"
  \/ stopped[t]

Outstanding(m) == {j \in DOMAIN m : m[j].state \in {"pending", "leased"}}
Leased(m) == {j \in DOMAIN m : m[j].state = "leased"}
Pending(m, t) == {j \in DOMAIN m : m[j].state = "pending" /\ m[j].task = t}

\* The lease excludes a second activation of the same recipient.
Free(a) == activation[a].stage = "idle" /\ \A j \in Leased(mail) : AgentOf[mail[j].task] # a

Active == {a \in Agents : activation[a].stage # "idle"}

\* engine.mu is not held by a stop between its commit and its cancellations.
Unlocked == revoked = {}

\* agent_usage.turns: the turns of all the agent's tasks in the goal.
TurnsOf(t) == Weight({u \in Tasks : AgentOf[u] = AgentOf[t] /\ GoalOf[u] = GoalOf[t]}, turn)

CanPrepare_OffByOne(t) == TurnsOf(t) <= MaxTurns /\ agentState[AgentOf[t]] # "stopped"
                          /\ ~stopped[t] /\ ~expired[GoalOf[t]]

\* prepareNextCall accepts another turn (it may still deny it for budgets,
\* grants, or queue capacity).
CanPrepare(t) ==
  /\ agentState[AgentOf[t]] # "stopped" /\ ~stopped[t]
  /\ TurnsOf(t) < MaxTurns
  /\ ~expired[GoalOf[t]]

-----------------------------------------------------------------------------
(* One transaction: the rows it has read and written so far *)

World == [system |-> systemState, goals |-> goalState, agents |-> agentState, tasks |-> taskState,
          calls |-> callState, mail |-> mail, stopped |-> stopped]

Becomes(w) ==
  /\ systemState' = w.system /\ goalState' = w.goals /\ agentState' = w.agents
  /\ taskState' = w.tasks /\ callState' = w.calls /\ mail' = w.mail

Living(w) == {t \in Tasks : w.tasks[t] \in LiveStates}

HasRoom_Unreserved(w, t) ==
  /\ Cardinality({j \in DOMAIN w.mail : GoalOf[w.mail[j].task] = GoalOf[t]}) < MaxEvents
  /\ Cardinality({j \in Outstanding(w.mail) : AgentOf[w.mail[j].task] = AgentOf[t]})
       + Cardinality({c \in Living(w) : ParentOf[c] = t}) < MailboxCapacity

\* emitEvent to task t: one event of the goal is reserved for every live task
\* of it, one delivery to t's agent for every live child of t.
HasRoom(w, t) ==
  /\ Cardinality({j \in DOMAIN w.mail : GoalOf[w.mail[j].task] = GoalOf[t]})
       + Cardinality({u \in Living(w) : GoalOf[u] = GoalOf[t]}) < MaxEvents
  /\ Cardinality({j \in Outstanding(w.mail) : AgentOf[w.mail[j].task] = AgentOf[t]})
       + Cardinality({c \in Living(w) : ParentOf[c] = t}) < MailboxCapacity

\* Only a result may be posted once the goal's lifetime has passed.
CanEmit(w, t) == HasRoom(w, t) /\ ~expired[GoalOf[t]]

Event(t, kind, from) == [task |-> t, kind |-> kind, from |-> from, state |-> "pending",
                         attempts |-> 0, applied |-> FALSE, copies |-> 0, due |-> TRUE]

Emit(w, t, kind, from) == [w EXCEPT !.mail = Append(@, Event(t, kind, from))]

\* A stopping system is stopped once no delivery is leased.
Drained(m) == IF Leased(m) = {} THEN "stopped" ELSE "stopping"
Swept_Never(w) == w
Swept_Early(w) == IF w.system = "stopping" THEN [w EXCEPT !.system = "stopped"] ELSE w
Swept(w) == IF w.system = "stopping" THEN [w EXCEPT !.system = Drained(w.mail)] ELSE w

\* The tasks in the domain of E end in the state E gives: their waiting calls
\* end with them, their pending deliveries die, and a root ends its goal.
Closed(w, E) ==
  LET gone == DOMAIN E
      over == {t \in gone : Root(t)}
      goals == {GoalOf[t] : t \in over}
  IN [w EXCEPT
       !.tasks = [t \in Tasks |-> IF t \in gone THEN E[t] ELSE @[t]],
       !.calls = [t \in Tasks |-> IF t \in gone /\ @[t] \in Waiting THEN E[t] ELSE @[t]],
       !.mail = [j \in DOMAIN @ |-> IF @[j].task \in gone /\ @[j].state = "pending"
                                    THEN [@[j] EXCEPT !.state = "dead"] ELSE @[j]],
       !.goals = [g \in Goals |-> IF g \in goals THEN E[CHOOSE t \in over : GoalOf[t] = g] ELSE @[g]],
       !.agents = [a \in Agents |-> IF \E g \in goals : a \in Team(g) THEN "stopped" ELSE @[a]],
       !.system = IF over = {} THEN @
                  ELSE IF @ \in {"stopping", "stopped"} THEN Drained(w.mail) ELSE "inactive"]

Reporters_Terminal(w, gone) ==
  {c \in gone : ~Root(c) /\ w.tasks[c] = "completed" /\ ParentOf[c] \in Living(w) /\ ~w.stopped[ParentOf[c]]}

\* The ended tasks whose parent is to be told.
Reporters(w, gone) ==
  {c \in gone : ~Root(c) /\ ParentOf[c] \in Living(w) /\ ~w.stopped[ParentOf[c]]}

\* A refused result rejects the waiting parent, whose own result may be
\* refused in turn: the parents R that end with the tasks of B.
Refusals(w, B) ==
  {R \in SUBSET (Living(w) \ DOMAIN B) :
     \A p \in R : ~w.stopped[p] /\ \E c \in DOMAIN B \union R : ParentOf[c] = p}

Rejecting(B, R) == [t \in DOMAIN B \union R |-> IF t \in DOMAIN B THEN B[t] ELSE "rejected"]

Results(w, gone) ==
  LET told == SetToSeq(Reporters(w, gone))
  IN [w EXCEPT !.mail = @ \o [k \in DOMAIN told |-> Event(ParentOf[told[k]], "result", told[k])]]

\* terminateTask for the tasks of B: every world it can lead to.
Endings(w, B) ==
  {Results(Closed(w, Rejecting(B, R)), DOMAIN B \union R) :
     R \in {S \in Refusals(w, B) :
              LET v == Closed(w, Rejecting(B, S))
              IN \A c \in Reporters(v, DOMAIN B \union S) : HasRoom(v, ParentOf[c])}}

Ending(t, state) == [u \in {t} |-> state]

\* consumeInputs: the unread inputs of t, but for delivery i, go into its conversation.
Heard(m, t, i) ==
  [j \in DOMAIN m |->
     IF j \in Pending(m, t) \ {i} /\ m[j].kind = "input" /\ ~m[j].applied
     THEN [m[j] EXCEPT !.state = "acked", !.applied = TRUE, !.copies = @ + 1] ELSE m[j]]

\* prepareNextCall: the task's current call is a new one.
Prepares(t) ==
  /\ turn' = [turn EXCEPT ![t] = @ + 1]
  /\ sent' = [sent EXCEPT ![t] = 0]
  /\ decision' = [decision EXCEPT ![t] = "none"]
  /\ receipt' = [receipt EXCEPT ![t] = "none"]
  /\ awaits' = [awaits EXCEPT ![t] = NoTask]
KeepsCall == UNCHANGED <<turn, sent, decision, receipt, awaits>>

-----------------------------------------------------------------------------
(* Starting a goal *)

\* StartSystem with initializeRootTask.
Start(t) ==
  LET g == GoalOf[t] IN
  /\ Unlocked /\ ~closing /\ ~broken
  /\ Root(t) /\ goalState[g] = "none"
  /\ systemState \in {"inactive", "stopped"}
  /\ LET w == [World EXCEPT !.system = "running", !.goals[g] = "queued", !.agents[Operator] = "active",
                            !.tasks[t] = "queued", !.calls[t] = "awaiting_worker"]
     IN CanEmit(w, t) /\ Becomes(Emit(w, t, "ready", NoTask))
  /\ current' = g /\ Prepares(t)
  /\ UNCHANGED <<goalControl, expired, stopped, daemonVars>>

-----------------------------------------------------------------------------
(* Scheduling: claim, with the expiry part of pumpWakeups that precedes it *)

Doomed(j) ==
  LET t == mail[j].task IN
  \/ ~Live(t) \/ Halted(t) \/ agentState[AgentOf[t]] = "stopped"
  \/ expired[GoalOf[t]] \/ mail[j].attempts >= MaxDeliveries

Runnable(j) ==
  LET t == mail[j].task IN
  /\ systemState = "running" /\ agentState[AgentOf[t]] = "active" /\ goalControl[GoalOf[t]] = "active"
  /\ taskState[t] = "waiting" /\ awaits[t] # NoTask => mail[j].kind \in {"result", "progress"}
  /\ Cardinality(Active) < MaxActive

\* Due deliveries to recipients that hold no lease.
Candidates == {j \in DOMAIN mail : mail[j].state = "pending" /\ mail[j].due /\ Free(AgentOf[mail[j].task])}

\* A result that is not the reply its task waits for.  (A sleeping task would
\* also wake for it; no instance has such a result.)
Stray(j) ==
  /\ mail[j].kind = "result" /\ ~mail[j].applied
  /\ \/ awaits[mail[j].task] = NoTask
     \/ Live(mail[j].from)

Notices == {j \in Candidates : ~Doomed(j) /\ Runnable(j) /\ mail[j].kind = "progress"}
Strays == {j \in Candidates : ~Doomed(j) /\ Runnable(j) /\ Stray(j)}
Deliverable == {j \in Candidates : ~Doomed(j) /\ Runnable(j)} \ (Notices \union Strays)

Lapsed_Running == {t \in Tasks : taskState[t] = "waiting" /\ expired[GoalOf[t]] /\ systemState = "running"
                         /\ \A j \in Leased(mail) : mail[j].task # t}

\* Tasks whose goal lifetime passed while they waited.
Lapsed == {t \in Tasks : taskState[t] = "waiting" /\ expired[GoalOf[t]]
                         /\ \A j \in Leased(mail) : mail[j].task # t}

\* What claim does with the candidates before delivery i: it ends the tasks of
\* the doomed ones and of those it is denied to deliver.
Casualties(i) ==
  LET before == {j \in Candidates : j < i}
      fatal == {j \in before : Doomed(j) /\ Live(mail[j].task)} \union (before \cap Deliverable)
      first(t) == Min({j \in fatal : mail[j].task = t})
      dies(t) == IF t \in Lapsed THEN "failed"
                 ELSE IF first(t) \in Deliverable THEN "rejected"
                 ELSE IF Halted(t) \/ agentState[AgentOf[t]] = "stopped" THEN "canceled" ELSE "failed"
  IN [t \in Lapsed \union {mail[j].task : j \in fatal} |-> dies(t)]

Sorted(i) ==
  [World EXCEPT !.mail = [j \in DOMAIN @ |->
     IF j \notin Candidates \/ j >= i THEN @[j]
     ELSE IF Doomed(j) \/ j \in Strays THEN [@[j] EXCEPT !.state = "dead"]
     ELSE IF j \in Notices THEN [@[j] EXCEPT !.state = "acked", !.applied = TRUE] ELSE @[j]]]

\* The task resumes: its child's result or the inputs it waited for have come.
Resumes(i) ==
  \/ mail[i].kind = "result" /\ ~mail[i].applied
  \/ taskState[mail[i].task] = "waiting" /\ awaits[mail[i].task] = NoTask

Leases(w, i) ==
  LET t == mail[i].task
      result == mail[i].kind = "result" /\ ~mail[i].applied
      fresh == callState[t] = "awaiting_worker" /\ sent[t] = 0
      heard == IF Resumes(i) \/ fresh THEN Heard(w.mail, t, IF result THEN i ELSE 0) ELSE w.mail
  IN [w EXCEPT
       !.tasks[t] = "running",
       !.calls[t] = IF Resumes(i) THEN "awaiting_worker" ELSE @,
       !.mail = [heard EXCEPT ![i].state = "leased", ![i].attempts = @ + 1, ![i].applied = TRUE,
                              ![i].copies = IF result THEN @ + 1 ELSE @]]

\* Nothing is delivered; there is something to sort out.
ClaimNone ==
  LET last == Len(mail) + 1 IN
  /\ Unlocked /\ ~closing /\ ~broken
  /\ \E w \in Endings(Sorted(last), Casualties(last)) : Becomes(Swept(w))
  /\ UNCHANGED <<goalVars, taskVars, daemonVars>>

\* Delivery i is leased and its activation starts.
Claim(i) ==
  LET t == mail[i].task IN
  /\ Unlocked /\ ~closing /\ ~broken
  /\ i \in Deliverable
  /\ \E w \in Endings(Sorted(i), Casualties(i)) :
       w.tasks[t] \in LiveStates /\ Becomes(Swept(Leases(w, i)))
  /\ IF Resumes(i) THEN CanPrepare(t) /\ Prepares(t) ELSE KeepsCall
  /\ activation' = [activation EXCEPT ![AgentOf[t]] =
       [stage |-> "start", task |-> t, turn |-> turn'[t], mail |-> i, canceled |-> FALSE]]
  /\ UNCHANGED <<goalVars, stopped, closing, revoked, broken, faults, inputs>>

\* not_before of a retried delivery has passed.
BackoffEnds(j) ==
  /\ mail[j].state = "pending" /\ ~mail[j].due
  /\ mail' = [mail EXCEPT ![j].due = TRUE]
  /\ UNCHANGED <<systemState, goalState, agentState, taskState, callState, goalVars, taskVars, daemonVars>>

\* The goal's deadline passes.
Expire(g) ==
  /\ goalState[g] # "none" /\ ~expired[g]
  /\ expired' = [expired EXCEPT ![g] = TRUE]
  /\ UNCHANGED <<ruled, current, goalControl, taskVars, daemonVars>>

-----------------------------------------------------------------------------
(* One activation: worker and goroutine *)

\* The activation's context is done: canceled, or past the goal's deadline.
Canceled(a) == activation[a].canceled \/ expired[GoalOf[activation[a].task]]

\* Agent a's worker is in the given stage with the current call of task t.
At(a, stage, t) ==
  /\ activation[a].stage = stage /\ activation[a].task = t
  /\ activation[a].turn = turn[t]

Goes(a, stage) == activation' = [activation EXCEPT ![a].stage = stage]
Calls(t, state) == callState' = [callState EXCEPT ![t] = state]
Goal(t, state) == goalState' = [goalState EXCEPT ![GoalOf[t]] = state]

\* Nothing but the named parts of an activation's state changes.
OnlyCall == UNCHANGED <<systemState, agentState, taskState, mail, goalVars, stopped, awaits, turn, receipt,
                        closing, revoked, inputs>>

\* The worker asks for the model: broker.call begins with QueueModelCall.
AskModel(a, t) ==
  /\ At(a, "start", t) /\ ~Canceled(a)
  /\ IF callState[t] = "awaiting_worker" THEN Calls(t, "queued") /\ Goal(t, "waiting")
     ELSE UNCHANGED <<callState, goalState>>
  /\ Goes(a, "call")
  /\ OnlyCall /\ UNCHANGED <<sent, decision, broken, faults>>

\* Admission refuses a queued call for these reasons; for others it may.
Barred(t) ==
  \/ systemState \notin {"running", "paused"} \/ goalControl[GoalOf[t]] = "stopped"
  \/ stopped[t] \/ agentState[AgentOf[t]] = "stopped" \/ ~Live(t) \/ expired[GoalOf[t]]

Admitting(a) ==
  /\ activation[a].stage = "call" /\ ~Canceled(a) /\ ~broken
  /\ callState[activation[a].task] = "queued"

\* AdmitModelCall of any session rejects what may not be dispatched ...
RejectQueued(t) ==
  /\ \E a \in Agents : Admitting(a)
  /\ callState[t] = "queued" /\ Calls(t, "rejected")
  /\ OnlyCall /\ UNCHANGED <<goalState, sent, decision, activation, broken, faults>>

\* ... and dispatches its own call.
Dispatch(a, t) ==
  /\ At(a, "call", t) /\ Admitting(a) /\ ~Barred(t)
  /\ Calls(t, "running") /\ Goal(t, "running")
  /\ sent' = [sent EXCEPT ![t] = @ + 1]
  /\ OnlyCall /\ UNCHANGED <<decision, activation, broken, faults>>

\* SettleModelCall with the provider's answer, also after a cancellation.
Answer(a, t) ==
  /\ At(a, "call", t) /\ callState[t] = "running"
  /\ \/ \E d \in Decisions : /\ Calls(t, "completed") /\ decision' = [decision EXCEPT ![t] = d]
                             /\ UNCHANGED goalState
     \/ \E state \in {"failed", "unknown"} : Calls(t, state) /\ UNCHANGED <<decision, goalState>>
     \/ /\ sent[t] < MaxAttempts /\ ~expired[GoalOf[t]] /\ systemState = "running"
        /\ Calls(t, "queued") /\ Goal(t, "waiting") /\ UNCHANGED decision
  /\ OnlyCall /\ UNCHANGED <<sent, activation, broken, faults>>

Fault == faults < MaxFaults /\ faults' = faults + 1

\* The settlement cannot be committed: the broker takes no more calls.
SettleFails(a, t) ==
  /\ At(a, "call", t) /\ callState[t] = "running"
  /\ broken' = TRUE /\ Goes(a, "error") /\ Fault
  /\ OnlyCall /\ UNCHANGED <<callState, goalState, sent, decision>>

\* The broker loop returns; the worker gets an answer, a tool call or an error.
LeaveBroker(a, t) ==
  /\ At(a, "call", t) /\ callState[t] \notin {"queued", "running"}
  /\ Goes(a, IF callState[t] # "completed" \/ broken THEN "error"
             ELSE IF decision[t] = "answer" THEN "done" ELSE "tool")
  /\ OnlyCall /\ UNCHANGED <<callState, goalState, sent, decision, broken, faults>>

\* cancelQueued, or the loop finds the broker unavailable.
GiveUp(a, t) ==
  /\ At(a, "call", t) /\ callState[t] = "queued"
  /\ \/ ~broken /\ Canceled(a) /\ Calls(t, "canceled")
     \/ broken /\ UNCHANGED callState
  /\ Goes(a, "error")
  /\ OnlyCall /\ UNCHANGED <<goalState, sent, decision, broken, faults>>

\* The worker dies, breaks the protocol or is killed with its context.
WorkerFails(a) ==
  /\ activation[a].stage \in {"start", "tool", "done"}
  /\ IF Canceled(a) THEN UNCHANGED faults ELSE Fault
  /\ Goes(a, "error")
  /\ OnlyCall /\ UNCHANGED <<callState, goalState, sent, decision, broken>>

-----------------------------------------------------------------------------
(* Tools *)

MayUseTool_AnyControl(a, t) ==
  /\ At(a, "tool", t) /\ ~activation[a].canceled /\ callState[t] = "completed" /\ Live(t)
  /\ ~expired[GoalOf[t]] /\ mail[activation[a].mail].state = "leased"

\* The checks of PrepareTool that depend on durable state.
MayUseTool(a, t) ==
  /\ At(a, "tool", t) /\ ~Canceled(a)
  /\ callState[t] = "completed"
  /\ Live(t) /\ ~Halted(t)
  /\ mail[activation[a].mail].state = "leased"

OnlyTool == UNCHANGED <<goalVars, stopped, decision, closing, revoked, broken, faults, inputs>>
Receives(t, state) == receipt' = [receipt EXCEPT ![t] = state]

\* A completed receipt is answered again, not executed again.
ReplayTool(a, t) ==
  /\ MayUseTool(a, t) /\ receipt[t] = "completed"
  /\ Goes(a, "done")
  /\ OnlyTool /\ UNCHANGED <<ruled, awaits, turn, sent, receipt>>

\* Invalid arguments, revoked grants, an unfinished receipt, a stopped scope.
ToolRefused(a, t) ==
  /\ At(a, "tool", t)
  /\ Goes(a, "error")
  /\ OnlyTool /\ UNCHANGED <<ruled, awaits, turn, sent, receipt>>

\* A tool that runs in a subprocess: the receipt is committed before it starts.
StartTool(a, t) ==
  /\ MayUseTool(a, t) /\ decision[t] = "work" /\ receipt[t] = "none"
  /\ Receives(t, "running") /\ Goes(a, "run")
  /\ OnlyTool /\ UNCHANGED <<ruled, awaits, turn, sent>>

\* CompleteTool: a known result, or an outcome that is unknown for good.
FinishTool(a, t) ==
  /\ At(a, "run", t)
  /\ \/ Receives(t, "completed") /\ Goes(a, "done")
     \/ Receives(t, "unknown") /\ Goes(a, "error")
  /\ OnlyTool /\ UNCHANGED <<ruled, awaits, turn, sent>>

\* runtime.task.wait: sleep until an input or the deadline.
Wait(a, t) ==
  /\ MayUseTool(a, t) /\ decision[t] = "wait" /\ receipt[t] = "none"
  /\ taskState' = [taskState EXCEPT ![t] = "waiting"]
  /\ awaits' = [awaits EXCEPT ![t] = NoTask]
  /\ Receives(t, "completed") /\ Goes(a, "done")
  /\ OnlyTool /\ UNCHANGED <<systemState, goalState, agentState, callState, mail, turn, sent>>

\* runtime.task.progress: tell the parent, dead or alive.
Progress(a, t) ==
  /\ MayUseTool(a, t) /\ decision[t] = "progress" /\ receipt[t] = "none"
  /\ ~Root(t) /\ CanEmit(World, ParentOf[t])
  /\ mail' = Append(mail, Event(ParentOf[t], "progress", t))
  /\ Receives(t, "completed") /\ Goes(a, "done")
  /\ OnlyTool /\ UNCHANGED <<systemState, goalState, agentState, taskState, callState, awaits, turn, sent>>

\* runtime.task.delegate: one transaction creates the child with its first
\* call, wakes it, and puts the parent to sleep on its result.
Delegate(a, t, c) ==
  LET w == [World EXCEPT !.tasks[c] = "queued", !.calls[c] = "awaiting_worker"] IN
  /\ MayUseTool(a, t) /\ decision[t] = "delegate" /\ receipt[t] = "none"
  /\ ParentOf[c] = t /\ taskState[c] = "none" /\ AgentOf[c] # a
  /\ agentState[AgentOf[c]] = "active"
  /\ \A u \in Tasks : AgentOf[u] = AgentOf[c] => ~Live(u)
  /\ CanPrepare(c) /\ CanEmit(w, c)
  /\ Becomes([Emit(w, c, "ready", NoTask) EXCEPT !.tasks[t] = "waiting"])
  /\ awaits' = [awaits EXCEPT ![t] = c]
  /\ turn' = [turn EXCEPT ![c] = 1]
  /\ Receives(t, "completed") /\ Goes(a, "done")
  /\ OnlyTool /\ UNCHANGED sent

\* The outcome of the subprocess cannot be committed.
ToolLost(a, t) ==
  /\ At(a, "run", t) /\ Goes(a, "error") /\ Fault
  /\ UNCHANGED <<ruled, goalVars, taskVars, closing, revoked, broken, inputs>>

-----------------------------------------------------------------------------
(* finishDelivery: the activation ends; its cases, in the code's order *)

Finishing(a, t) ==
  /\ Unlocked
  /\ activation[a].stage \in {"done", "error"} /\ activation[a].task = t
  /\ activation' = [activation EXCEPT ![a] = Idle]

Delivered(a, state) == [World EXCEPT !.mail[activation[a].mail].state = state]

Stale(a, t) == activation[a].turn # turn[t] \/ ~Live(t)

FinishStale_KeepsLease(a, t) ==
  /\ Finishing(a, t) /\ Stale(a, t)
  /\ UNCHANGED <<ruled, goalVars, taskVars, closing, revoked, broken, faults, inputs>>

\* The task ended under the activation: its lease dies.
FinishStale(a, t) ==
  /\ Finishing(a, t) /\ Stale(a, t)
  /\ Becomes(Swept(Delivered(a, "dead")))
  /\ UNCHANGED <<goalVars, taskVars, closing, revoked, broken, faults, inputs>>

\* A shutdown keeps work that was not dispatched, or whose answer is known.
Preserved(a, t) ==
  /\ closing /\ ~Stale(a, t) /\ ~Halted(t)
  /\ \/ callState[t] \in {"awaiting_worker", "completed"}
     \/ callState[t] = "queued" /\ sent[t] = 0
  /\ receipt[t] \notin {"running", "unknown"}
FinishPreserved(a, t) ==
  /\ Finishing(a, t) /\ Preserved(a, t)
  /\ Becomes([Delivered(a, "pending") EXCEPT !.tasks[t] = IF @ = "waiting" THEN @ ELSE "queued"])
  /\ UNCHANGED <<goalVars, taskVars, closing, revoked, broken, faults, inputs>>

Halting(a, t) == Canceled(a) \/ Halted(t)

\* The worker failed before its call was dispatched: bounded redelivery.
Retried(a, t) ==
  /\ ~Stale(a, t) /\ ~Preserved(a, t)
  /\ activation[a].stage = "error" /\ ~Halting(a, t)
  /\ callState[t] \in Waiting /\ sent[t] = 0
  /\ mail[activation[a].mail].attempts < MaxDeliveries
FinishRetry(a, t) ==
  /\ Finishing(a, t) /\ Retried(a, t)
  /\ Becomes([Delivered(a, "pending") EXCEPT !.tasks[t] = "queued", !.calls[t] = "awaiting_worker",
                                             !.mail[activation[a].mail].due = FALSE])
  /\ UNCHANGED <<goalVars, taskVars, closing, revoked, broken, faults, inputs>>

Concluding(a, t) == ~Stale(a, t) /\ ~Preserved(a, t) /\ ~Retried(a, t)
Succeeds(a, t) == activation[a].stage = "done" /\ callState[t] = "completed" /\ ~Halting(a, t)

\* The tool put the task to sleep: the delivery is acknowledged.
FinishWaiting(a, t) ==
  /\ Finishing(a, t) /\ Concluding(a, t) /\ Succeeds(a, t)
  /\ decision[t] # "answer" /\ taskState[t] = "waiting"
  /\ Becomes(Delivered(a, "acked"))
  /\ UNCHANGED <<goalVars, taskVars, closing, revoked, broken, faults, inputs>>

Unread_Ignored(t) == {}

\* Inputs that came while the activation ran.
Unread(t) == {j \in Pending(mail, t) : mail[j].kind = "input"}

NeedsContinuation_AnyMail(t) == Pending(mail, t) = {}

\* queueContinuation: a pending delivery other than a notice will wake the task.
NeedsContinuation(t) == \A j \in Pending(mail, t) : mail[j].kind = "progress"

Continuable(t) ==
  IF decision[t] = "answer" THEN Unread(t) # {} ELSE taskState[t] # "waiting"

\* Another model turn, after a tool or because of unread inputs.
FinishContinue(a, t) ==
  LET w == [Delivered(a, "acked") EXCEPT !.tasks[t] = "queued", !.calls[t] = "awaiting_worker"] IN
  /\ Finishing(a, t) /\ Concluding(a, t) /\ Succeeds(a, t)
  /\ Continuable(t) /\ CanPrepare(t)
  /\ IF NeedsContinuation(t) THEN CanEmit(w, t) /\ Becomes(Emit(w, t, "continue", NoTask))
     ELSE Becomes(w)
  /\ Prepares(t)
  /\ UNCHANGED <<goalVars, stopped, closing, revoked, broken, faults, inputs>>

\* How a concluded task ends.  The next turn can always be denied.
Verdict(a, t) ==
  IF Succeeds(a, t) THEN IF Continuable(t) THEN "rejected" ELSE "completed"
  ELSE IF Halting(a, t) THEN "canceled"
  ELSE IF callState[t] = "rejected" THEN "rejected" ELSE "failed"

Halts_AnyTask(w, a, t) == IF Halting(a, t) THEN [w EXCEPT !.system = Drained(w.mail)] ELSE w

\* A canceled root also stops its system.
Halts(w, a, t) == IF Root(t) /\ Halting(a, t) THEN [w EXCEPT !.system = Drained(w.mail)] ELSE w

FinishTask(a, t) ==
  LET w == Delivered(a, IF activation[a].stage = "done" THEN "acked" ELSE "dead") IN
  /\ Finishing(a, t) /\ Concluding(a, t)
  /\ ~(Succeeds(a, t) /\ decision[t] # "answer" /\ taskState[t] = "waiting")
  /\ \E v \in Endings(w, Ending(t, Verdict(a, t))) : Becomes(Swept(Halts(v, a, t)))
  /\ UNCHANGED <<goalVars, taskVars, closing, revoked, broken, faults, inputs>>

\* finishDelivery cannot be committed: the lease stays, the scheduler stops.
FinishFails(a, t) ==
  /\ Finishing(a, t) /\ broken' = TRUE /\ Fault
  /\ UNCHANGED <<ruled, goalVars, taskVars, revoked, closing, inputs>>

Finish(a, t) ==
  \/ FinishStale(a, t) \/ FinishPreserved(a, t) \/ FinishRetry(a, t)
  \/ FinishWaiting(a, t) \/ FinishContinue(a, t) \/ FinishTask(a, t)

-----------------------------------------------------------------------------
(* User commands *)

\* AddInput to the agent that runs task t.
AddInput(t) ==
  /\ inputs < MaxInputs /\ inputs' = inputs + 1
  /\ systemState \in {"running", "paused"}
  /\ Live(t) /\ ~stopped[t] /\ agentState[AgentOf[t]] # "stopped" /\ goalControl[GoalOf[t]] # "stopped"
  /\ CanEmit(World, t)
  /\ Becomes(Emit(World, t, "input", NoTask))
  /\ UNCHANGED <<goalVars, taskVars, activation, closing, revoked, broken, faults>>

Scope(kind, id) ==
  CASE kind = "goal" -> {t \in Tasks : GoalOf[t] = id}
    [] kind = "agent" -> {t \in Tasks : \E u \in Lineage[t] : AgentOf[u] = id /\ taskState[u] # "none"}

\* stopTasks, from world w on: the live tasks S are marked first; those
\* without a lease end, the others end with their activation.
StopTasks(w, S) ==
  LET marked == [w EXCEPT !.stopped = [t \in Tasks |-> @[t] \/ t \in S],
                          !.system = IF \E t \in S : Root(t) THEN "stopping" ELSE @]
      held == {mail[j].task : j \in Leased(mail)}
  IN Endings(marked, [t \in S \ held |-> "canceled"])

\* The activations of S are canceled next, before engine.mu is released.
Cancels(S) ==
  /\ revoked' = {activation[a].task : a \in {b \in Active : ~activation[b].canceled}} \cap S
  /\ UNCHANGED activation

OnlyControl == UNCHANGED <<current, expired, awaits, turn, sent, decision, receipt, closing, broken, faults, inputs>>

\* Control with action stop; cancelControlledCalls cancels the calls it returns.
Stop(kind, id, w) ==
  LET S == {t \in Scope(kind, id) : Live(t)} IN
  /\ \E v \in StopTasks(w, S) : Becomes(v) /\ stopped' = v.stopped
  /\ Cancels({t \in S : \A a \in Agents : activation[a].task = t => activation[a].turn = turn[t]})
  /\ OnlyControl

\* The router sends a stop of the whole system to StopSystem instead.
ControlSystem ==
  /\ Unlocked
  /\ systemState \in {"running", "paused"}
  /\ "pause system" \in Commands
  /\ \E state \in {"running", "paused"} \ {systemState} : Becomes([World EXCEPT !.system = state])
  /\ OnlyControl /\ UNCHANGED <<goalControl, stopped, activation, revoked>>

ControlGoal(g) ==
  /\ Unlocked
  /\ goalState[g] \notin EndStates \union {"none"} /\ goalControl[g] # "stopped"
  /\ \/ \E state \in {"active", "paused"} \ {goalControl[g]} :
          "pause goal" \in Commands /\ goalControl' = [goalControl EXCEPT ![g] = state] /\ UNCHANGED <<ruled, stopped, activation, revoked>> /\ OnlyControl
     \/ "stop goal" \in Commands /\ goalControl' = [goalControl EXCEPT ![g] = "stopped"] /\ Stop("goal", g, World)

ControlAgent(b) ==
  /\ Unlocked
  /\ agentState[b] # "stopped"
  /\ \E t \in Tasks : AgentOf[t] = b /\ goalState[GoalOf[t]] # "none"
  /\ UNCHANGED goalControl
  /\ \/ \E state \in {"active", "paused"} \ {agentState[b]} :
          "pause agent" \in Commands /\ Becomes([World EXCEPT !.agents[b] = state]) /\ UNCHANGED <<stopped, activation, revoked>> /\ OnlyControl
     \/ "stop agent" \in Commands /\ Stop("agent", b, [World EXCEPT !.agents[b] = "stopped"])

\* StopSystem; engine.stop cancels the activations of the current goal.
StopSystem ==
  LET S == {t \in Tasks : Live(t)}
      state == IF systemState \in {"running", "stopping", "paused"} THEN "stopping" ELSE "stopped"
  IN /\ Unlocked /\ "stop" \in Commands
     /\ goalControl' = [g \in Goals |->
          IF goalState[g] \in {"queued", "running", "waiting"} THEN "stopped" ELSE goalControl[g]]
     /\ \E v \in StopTasks([World EXCEPT !.system = state], S) : Becomes(v) /\ stopped' = v.stopped
     /\ Cancels({t \in Tasks : GoalOf[t] = current})
     /\ OnlyControl

\* The stop cancels the contexts and releases engine.mu.
Cancel ==
  /\ ~Unlocked /\ revoked' = {}
  /\ activation' = [a \in Agents |->
       IF activation[a].task \in revoked THEN [activation[a] EXCEPT !.canceled = TRUE] ELSE activation[a]]
  /\ UNCHANGED <<ruled, goalVars, taskVars, closing, broken, faults, inputs>>

-----------------------------------------------------------------------------
(* Shutdown, crash and recovery *)

\* The daemon's context is done: nothing is claimed, activations are canceled.
Shutdown ==
  /\ Unlocked /\ ~closing /\ Fault
  /\ closing' = TRUE
  /\ activation' = [a \in Agents |-> [activation[a] EXCEPT !.canceled = activation[a].stage # "idle"]]
  /\ UNCHANGED <<ruled, goalVars, taskVars, revoked, broken, inputs>>

Unresolved_Retry == [t \in Tasks |-> IF receipt[t] = "running" THEN "none" ELSE receipt[t]]

\* A tool that was running may have done its work: its outcome is unknown.
Unresolved == [t \in Tasks |-> IF receipt[t] = "running" THEN "unknown" ELSE receipt[t]]

Returned_Unread(j) ==
  IF mail[j].state # "leased" THEN mail[j]
  ELSE [mail[j] EXCEPT !.state = "pending", !.applied = FALSE]

\* Leases of the dead daemon return to their mailboxes, except that a task
\* which already fell asleep needs no second delivery.
Returned(j) ==
  LET t == mail[j].task
      back == IF mail[j].state = "leased" THEN [mail[j] EXCEPT !.state = "pending"] ELSE mail[j]
  IN IF back.state = "pending" /\ back.applied /\ taskState[t] = "waiting" /\ receipt[t] = "completed"
     THEN [back EXCEPT !.state = "acked"] ELSE back

\* RecoverExecutions.
Recover ==
  LET w == [World EXCEPT
              !.calls = [t \in Tasks |-> IF @[t] = "running" THEN "unknown" ELSE @[t]],
              !.tasks = [t \in Tasks |-> IF @[t] = "running" THEN "queued" ELSE @[t]],
              !.mail = [j \in DOMAIN @ |-> Returned(j)]]
      lost == {t \in Living(w) : w.calls[t] \in {"unknown", "failed", "canceled", "rejected"}
                                 \/ Unresolved[t] = "unknown"}
      settled(v) == [v EXCEPT !.system =
        IF \/ \E t \in lost : Root(t)
           \/ @ \in {"running", "stopping"} /\ Living(v) = {}
        THEN "stopped" ELSE @]
  IN /\ \E v \in Endings(w, [t \in lost |-> "failed"]) : Becomes(settled(v))
     /\ receipt' = Unresolved
     /\ activation' = [a \in Agents |-> Idle]
     /\ revoked' = {} /\ closing' = FALSE /\ broken' = FALSE
     /\ UNCHANGED <<goalVars, stopped, awaits, turn, sent, decision, inputs>>

Crash == Fault /\ Recover
Reopen == closing /\ Active = {} /\ Recover /\ UNCHANGED faults

-----------------------------------------------------------------------------

Schedule == ClaimNone \/ \E i \in DOMAIN mail : Claim(i)

Ask(a, t) == AskModel(a, t) \/ LeaveBroker(a, t) \/ GiveUp(a, t)
Admit(a, t) == Dispatch(a, t) \/ RejectQueued(t)
Work(a, t) ==
  \/ ReplayTool(a, t) \/ ToolRefused(a, t) \/ StartTool(a, t) \/ FinishTool(a, t)
  \/ Wait(a, t) \/ Progress(a, t) \/ \E c \in Tasks : Delegate(a, t, c)

Next ==
  \/ \E t \in Tasks : Start(t) \/ AddInput(t)
  \/ Schedule
  \/ \E j \in DOMAIN mail : BackoffEnds(j)
  \/ \E g \in Goals : Expire(g) \/ ControlGoal(g)
  \/ \E a \in Agents, t \in Tasks :
       \/ Ask(a, t) \/ Admit(a, t) \/ Answer(a, t) \/ SettleFails(a, t)
       \/ Work(a, t) \/ ToolLost(a, t) \/ Finish(a, t) \/ FinishFails(a, t)
  \/ \E a \in Agents : WorkerFails(a) \/ ControlAgent(a)
  \/ ControlSystem \/ StopSystem \/ Cancel
  \/ Shutdown \/ Crash \/ Reopen

Spec == Init /\ [][Next]_vars

\* The goroutine or the worker of a's activation takes its next step.
Proceeds(a) ==
  \/ WorkerFails(a) /\ Canceled(a)
  \/ \E t \in {activation[a].task} \cap Tasks :
       Ask(a, t) \/ Admit(a, t) \/ Answer(a, t) \/ Work(a, t) \/ Finish(a, t)

\* The scheduler ticks every 100 ms, timers fire, the provider's requests and
\* the tools have timeouts, a canceled worker is killed, and a running
\* goroutine proceeds.  Nothing is assumed of the user or of restarts.
Fairness ==
  /\ WF_vars(Schedule) /\ WF_vars(Cancel)
  /\ \A g \in Goals : WF_vars(Expire(g))
  /\ WF_vars(\E j \in DOMAIN mail : BackoffEnds(j))
  /\ \A a \in Agents : WF_vars(Proceeds(a))

FairSpec == Spec /\ Fairness

-----------------------------------------------------------------------------
(* Properties *)

\* Every variable has its type.
TypeOK ==
  /\ systemState \in {"inactive", "running", "paused", "stopping", "stopped"}
  /\ current \in Goals \union {NoGoal}
  /\ goalState \in [Goals -> {"none"} \union LiveStates \union EndStates]
  /\ goalControl \in [Goals -> {"active", "paused", "stopped"}]
  /\ expired \in [Goals -> BOOLEAN]
  /\ agentState \in [Agents -> {"active", "paused", "stopped"}]
  /\ taskState \in [Tasks -> {"none"} \union LiveStates \union EndStates]
  /\ stopped \in [Tasks -> BOOLEAN]
  /\ awaits \in [Tasks -> Tasks \union {NoTask}]
  /\ turn \in [Tasks -> 0..MaxTurns]
  /\ callState \in [Tasks -> {"none", "running", "unknown"} \union Waiting \union EndStates]
  /\ sent \in [Tasks -> 0..MaxAttempts]
  /\ decision \in [Tasks -> {"none"} \union Decisions]
  /\ receipt \in [Tasks -> {"none", "running", "completed", "unknown"}]
  /\ mail \in Seq([task : Tasks, kind : Kinds, from : Tasks \union {NoTask},
                   state : {"pending", "leased", "acked", "dead"}, attempts : 0..MaxDeliveries,
                   applied : BOOLEAN, copies : Nat, due : BOOLEAN])
  /\ activation \in [Agents -> [stage : Stages, task : Tasks \union {NoTask}, turn : Nat,
                                mail : Nat, canceled : BOOLEAN]]
  /\ revoked \subseteq Tasks /\ closing \in BOOLEAN /\ broken \in BOOLEAN
  /\ faults \in 0..MaxFaults /\ inputs \in 0..MaxInputs

\* A lease and an activation go together: no recipient has two leases, no two
\* workers carry one task, a worker works on its task's current call, and a
\* lease without a worker remains only after a failed commit.
LeaseOwned ==
  /\ \A j, k \in Leased(mail) : AgentOf[mail[j].task] = AgentOf[mail[k].task] => j = k
  /\ \A a \in Active :
       LET s == activation[a] IN
       /\ s.mail \in Leased(mail) /\ mail[s.mail].task = s.task /\ AgentOf[s.task] = a
       /\ Live(s.task) => s.turn = turn[s.task]
  /\ \A j \in Leased(mail) : broken \/ activation[AgentOf[mail[j].task]].mail = j

\* A result was thrown away unread, although its task lived: ResultWakes fails.
TurnedAway(t) ==
  \E j \in DOMAIN mail : /\ mail[j].task = t /\ mail[j].kind = "result"
                         /\ mail[j].state = "dead" /\ ~mail[j].applied

\* No other wakeup is lost: a task that is queued has a delivery to come, one that
\* runs has the lease, and one that waits for a child has the child alive or
\* its result in the mailbox.
Wakeable(t) ==
  CASE taskState[t] = "queued" -> \E j \in Outstanding(mail) : mail[j].task = t /\ mail[j].kind # "progress"
    [] taskState[t] = "running" -> \E j \in Leased(mail) : mail[j].task = t
    [] taskState[t] = "waiting" /\ awaits[t] # NoTask ->
         \/ Live(awaits[t])
         \/ \E j \in Pending(mail, t) : mail[j].kind = "result" /\ mail[j].from = awaits[t]
    [] OTHER -> TRUE
NoForgottenTask == \A t \in Tasks : Live(t) /\ ~stopped[t] /\ ~TurnedAway(t) => Wakeable(t)

\* An input or a result enters its task's conversation exactly once, whatever
\* redeliveries and restarts there are.
ReadOnce ==
  \A j \in DOMAIN mail : mail[j].kind \in {"input", "result"} =>
    mail[j].copies = (IF mail[j].applied THEN 1 ELSE 0)

\* An accepted input is read before its task completes: it is never dropped
\* but with a task that fails, is rejected or is canceled.
InputNotLost ==
  [][\A j \in DOMAIN mail : LET t == mail[j].task IN
       mail[j].kind = "input" /\ mail[j].state = "pending" /\ ~mail[j].applied /\ Live(t) =>
         mail'[j].applied \/ mail'[j].state = "pending" \/ taskState'[t] \in {"failed", "rejected", "canceled"}]_vars

\* Stopping ends only in stopped.  A system that is running, paused or stopping becomes
\* stopped only when no worker holds a lease (terminateTask, claim, finishDelivery,
\* RecoverExecutions).  StopSystem stops an inactive one at once, under workers that
\* outlived its goal too, where spec.md asks for stopping until cleanup finishes: then
\* each such worker has been told to stop or has a task that is over.
StopWaits ==
  [][/\ systemState = "stopping" => systemState' \in {"stopping", "stopped"}
     /\ systemState' = "stopped" /\ systemState # "stopped" =>
          \A j \in Leased(mail') :
            /\ systemState = "inactive"
            /\ stopped'[mail'[j].task] \/ taskState'[mail'[j].task] \notin LiveStates]_vars

\* After a stop the task's work is over: no model dispatch, no tool, no
\* further turn, and it does not complete.
StopIsFinal ==
  [][\A t \in Tasks : stopped[t] /\ Live(t) =>
       /\ stopped'[t] /\ turn'[t] = turn[t] /\ sent'[t] = sent[t]
       /\ ~(receipt[t] = "none" /\ receipt'[t] # "none")
       /\ taskState'[t] # "completed"]_vars

\* One execution per receipt: a tool that was started for a call is never
\* started again for it, after a crash either.
ToolOnce ==
  [][\A t \in Tasks : turn'[t] = turn[t] /\ receipt[t] # "none" =>
       receipt'[t] # "none" /\ (receipt'[t] = "running" => receipt[t] = "running")]_vars

\* A goal's live root keeps its system from being started again.  (Once a stop
\* was interrupted by a crash and its root lives on, the next goal's root may
\* find its system inactive.)
RootHoldsSystem ==
  (\A t \in Tasks : Root(t) => ~stopped[t]) =>
    \A t \in Tasks : Root(t) /\ Live(t) => systemState \in {"running", "paused", "stopping"}

\* Every live task can still post its end within the goal's event limit.
EventRoom ==
  \A g \in Goals :
    Cardinality({j \in DOMAIN mail : GoalOf[mail[j].task] = g})
      + Cardinality({t \in Tasks : Live(t) /\ GoalOf[t] = g}) <= MaxEvents

\* A stop completes, unless the broker failed or the daemon went down.
StopCompletes == systemState = "stopping" ~> systemState = "stopped" \/ broken \/ closing

\* Every task ends by its deadline, under the same conditions.
TasksEnd == \A t \in Tasks : Live(t) ~> ~Live(t) \/ broken \/ closing

-----------------------------------------------------------------------------
(* What the documentation says and the code does not do *)

\* README.md: stop cancels the addressed task subtree.  A stopped task that
\* still lives has a delivery that will end it.
StopEnds ==
  \A t \in Tasks : Live(t) /\ stopped[t] =>
    \E j \in Outstanding(mail) : mail[j].task = t /\ mail[j].kind # "progress"

\* README.md: the result of a delegated task wakes its parent; if it cannot be
\* delivered, the parent ends.
ResultWakes ==
  [][\A j \in DOMAIN mail :
       mail[j].kind = "result" /\ mail[j].state = "pending" /\ ~mail[j].applied /\ Live(mail[j].task) =>
         mail'[j].applied \/ mail'[j].state = "pending" \/ taskState'[mail[j].task] \in EndStates]_vars

\* README.md: on restart, eligible queued work resumes.
ShutdownPreserves ==
  [][closing => \A t \in Tasks : Live(t) /\ ~Halted(t) /\ ~expired[GoalOf[t]]
                                 /\ callState[t] \in Waiting /\ sent[t] = 0 => callState'[t] # "canceled"]_vars

\* README.md: there is one active goal per system.
OneActiveGoal == Cardinality({g \in Goals : goalState[g] \in LiveStates}) <= 1
=============================================================================
