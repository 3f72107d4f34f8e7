# A verification project for microoperator

microoperator is one daemon (Go, SQLite) that runs systems of model-driven
agents: an administrator starts a *goal*, its root agent's *task* calls a model,
uses tools, delegates to other agents and answers. Everything durable is in one
database on one connection; worker processes carry out one *activation* each.
The modules here model the parts in which a mistake would be hard to see: the
broker that spends shared quotas and budgets, the workflow that carries tasks
through mailboxes, stops, deadlines and restarts, the triggers and continuous
goals that wake it again, and the commands by which administrators and agents
change systems, memory and tools.

## 1. Inventory

| Component | State it keeps | Operations | Hard behaviour | What makes it correct |
|---|---|---|---|---|
| Model broker (`state/broker.go`, `daemon/broker.go`) | `model_calls`, `model_attempts`, `quota_groups`, budget columns of `systems`, `goals`, `agent_usage` | queue, admit, settle, cancel | every activation's goroutine polls and may admit or sweep; clock set back; ambiguous outcomes | budgets and rates hold under any interleaving; counters equal their attempts; only an explicit throttle is resent; systems are served in turn |
| Workflow (`state/team.go`, `team_ops.go`, `team_store.go`) | `tasks`, `events`, `mailboxes`, `goals.state`, `systems.state` | claim, finish, delegate, continue, terminate, recover | child against parent, stop against finish, crash between any two transactions, bounded mailboxes | no task is forgotten, inputs are read once and not lost, leases are exclusive, stops end |
| Engine and scheduler (`daemon/execution.go`, `team.go`) | `engine.active`, contexts, `modelBroker.broken` | schedule, execute, start, stop, close | in-memory table and database change together only under `engine.mu` | a lease and an activation go together |
| Tool receipts (`state/tools.go`, `daemon/team_ops.go`) | `tool_calls` | prepare, complete, replay | crash between a tool's start and its completion | at most one execution per decision |
| Controls (`state/controls.go`, `commands.go`, `execution_store.go`) | `control` and `state` of systems, goals, agents, tasks | pause, resume, stop at three scopes; start, stop | commit first, cancel contexts later | a stop is final; a system with work becomes stopped only when its workers hold no lease |
| Commands (`state/store.go`, `commands.go`) | `command_receipts`, revisions | one receipt per principal and key | replay, conflicting reuse, lost answers | an effect happens once; stale revisions are refused |
| Wakeups (`state/wakeups.go`), continuous goals (`continuous.go`) | `schedules`, `subscriptions`, `schedule_occurrences`, goals without a deadline | create, cancel, pump, notify, wake, carry input over | coalescing, finite allowances, pauses, input during completion, stops | an occurrence fires once; allowances are never exceeded; one live task per agent; accepted input is read |
| Memory (`state/knowledge*.go`) | `memory_heads`, `memory_revisions` | put, approve, delete, search, expire | concurrent writers, late commands | compare-and-set; only reviewed content is shared |
| Learning and evaluation (`state/learning*.go`, `evaluation*.go`) | `tool_drafts`, `learning_evaluations`, `learning_approvals`, `learning_uses` | propose, queue, claim, complete, approve, dispatch | drafts and origins that change while a build runs; approvals that are used up or expire | finite uses; nothing disabled becomes usable |
| Registry, agent management (`state/registry.go`, `agent_management.go`) | tool pins, grants, `tool_revocations`, agent revisions | grant, assign, revoke, retire | revocation against running work | pins only narrow |
| Provider client, sandbox, worker, protocol, HTTP API, views, UI, configuration, schema | none of their own that others read, or pure I/O | | | modelled, where at all, by what they answer |

The daemon's HTTP handlers call the store (administrator commands); the
scheduler goroutine claims deliveries under `engine.mu` and starts one goroutine
per activation; that goroutine talks to its worker over pipes, polls the broker
(`broker.mu` covers one transaction and what follows it), invokes tools, and
finishes the delivery under `engine.mu`. Every store method is one transaction.
`PROJECT.json` lists every component with its status and every hazard at its line.

## 2. Modules

| Module | Contents |
|---|---|
| `Weights` | sums of token weights over finite sets, minimum and maximum |
| `DataTheorems` | lemmas for all proofs: how a sum changes when a weight or a set does, tables as sequences, induction over the rounds of a loop |
| `Broker` | the model broker with the budget, quota and rate state |
| `BrokerProofs` | the inductive invariants of `Broker` and eleven theorems |
| `MCBroker` | finite instances of `Broker` |
| `Workflow` | goals, tasks, mailboxes, activations, tools, controls, deadlines, crash, shutdown and recovery |
| `WorkflowEffects` | lemmas: what each operator of `Workflow` does to the rows of a transaction |
| `WorkflowProofs` | types, leases, stops, receipts, roots and event room of `Workflow`: seven theorems |
| `WorkflowMail` | what is read, what is lost and who is woken: three theorems |
| `MCWorkflow` | finite instances of `Workflow` |
| `Wakeups` | schedules, subscriptions, user input and the continuous goal, over activations reduced to claim, one tool and finish |
| `WakeupsProofs` | the inductive invariant of `Wakeups` and six theorems: all its properties but those of liveness |
| `MCWakeups` | the scenarios of `Wakeups` for TLC |
| `Memory` | memory heads and revisions, without the commands that change them |
| `Learning` | drafts, evaluations, approvals, uses and pins, likewise |
| `Commands` | clients that retry, `Store.command`, and the mutations; composes `Memory` and `Learning` with the systems' revisions, working agents and restarts |
| `Once` | the abstract promise of the control API about keys, which `Commands` implements |
| `RecordProofs` | what the operations of `Memory` and `Learning` do to their records |
| `CommandsProofs` | the inductive invariant and seven theorems about `Commands` |
| `MCCommands` | the scenarios of `Commands` for TLC |

`Broker` and `Workflow` are two views of one system and share the life of a
model call: in `Workflow` admission refuses or dispatches a call freely within
the control conditions (every reason that is a quota or a budget is left open),
while in `Broker` the tasks that own calls are reduced to whether they still
live. So what `Workflow` shows holds whatever the quotas decide, and what
`Broker` shows holds whatever the workflow does.

### Broker

One action per transaction: `Start`, `Prepare` (a new call row), `Claim` (its
reservation is computed), `Queue`, `Dispatch`/`Deny`/`Sweep` (the three outcomes
of one scan of `admit`), `SettleKnown`, `SettleThrottled`, `SettleUnknown`,
`SettleFails` (the settlement is not committed and the broker refuses further
work), `CancelQueued`, `Leave` (a polling goroutine finds its answer), `Pause`,
`Resume`, `Stop`, `Finish`, `Restart`. The scan visits the first `ScanLimit`
rows in the order of last admission and sequence, rejects the rows that can
never run, refills the bucket of every group it looks at, and stops at the first
row it dispatches or has to wait for. Credit is an integer number of units of
which `CreditUnit` make a request, so that fractions of a request are kept.
`Tick` advances the wall clock and `SetBack` sets it back.

### Workflow

`World` is what one transaction has read and written; operators such as
`Closed`, `Emit`, `Swept` and `Heard` transform it and `Becomes` commits it.
`Endings` is `terminateTask`: the task's waiting call and pending deliveries end
with it, a root ends its goal and (unless it is stopping) makes its system
inactive, a child posts its result, and a result that is refused rejects the
parent, which may go on upwards. `Claim` performs the whole of `claim`: the
expiry of sleeping tasks, the candidates before the one that is leased (doomed
ones end their tasks, progress notices are acknowledged), the lease, the inputs
it reads, the next call of a task that resumes, and the sweep of stopping
systems. `FinishStale`, `FinishPreserved`, `FinishRetry`, `FinishWaiting`,
`FinishContinue` and `FinishTask` are the returns of `finishDelivery` in its order. An
activation goes through the stages start, call, tool, run, and done or error,
which are the points where the worker, the goroutine or the daemon can fail.
A stop commits first and cancels contexts in the separate action `Cancel`;
in between, only steps that do not take `engine.mu` can happen.

Not in this module: continuous goals, schedules and subscriptions (`Wakeups`),
evaluation deliveries, agent creation and retirement, and the contents of events and
conversations. What the code refuses for reasons that are left out (budgets,
grants, causation depth, the rate of a source) may be refused at any time: a
reply (`Refusals`), a delivery (`Casualties`), another turn or its wakeup
(`Verdict`), a tool (`ToolRefused`). `HasRoom` states the event and mailbox limits.

### Wakeups

One goal, bounded or continuous, from the commit of its start. As in `Workflow`,
a record `w` threads the rows through the operators of one transaction:
`Climb` is one call of `terminateTask` and `Terminate` the chain of calls that a
refused result makes it, up the parents; `Carry` is
`continuePendingInput`, `Heir` and `Woken` are `wakeContinuousTask`, `Fire` and
`Pumped` are `pumpWakeups`, `Notify` is one round of `notifySubscriptions`, and
`Consider` is one candidate of the loop in `claim`, which `Considered` goes through
after the pump. The loops of the code (over due schedules, subscriptions, candidates,
stopped tasks and parents) are functions of the round, not recursive operators, so
that they can be reasoned about. Events that a transaction posts may be refused for
reasons left out (rate, depth, capacity): `no` is the set of those refused, and
`Commits` keeps only worlds in which exactly those were met. A refused wake
leaves its savepoint and fails its trigger; a refused result rejects the parent.
Administrators add input, create and cancel triggers, change the shared memory,
pause and stop at any time; a task creates and cancels its own triggers, waits
or delegates. `Crash` with `Recovered` is `RecoverExecutions`. What an
activation can suffer besides is in `Workflow`.

### Commands, Memory, Learning

A client reads a record, makes up a request from it under some key (`Ask`), sends
it again while it hears nothing (`Retry`) and may stop waiting (`GiveUp`).
Requests on their way are a set: they arrive late, in any order, more than once,
or never. `Replay`, `Execute` and `Refuse` are the three ways through
`Store.command`; `Answer` loses the reply at will. Each mutation has the guards
and effects of its function in `state/`. Beside the commands, calls reserve tokens
(`Admit`) and settle them, in whatever state the system is by then, with the usage
that the provider reported, which may exceed the reservation (`Settle`); goals end
(`Finish`), agents search and write memory (`AgentTool`), propose, evaluate and use
tools (`AgentLearns`, `NewTask`, `Evaluates`), the scheduler expires memory and
collects evaluations, and the daemon restarts with another configuration file, which
blocks systems until they are revised.

`effects` and `heard` are history variables (the audit log, and what clients have
been told); they are also the variables of `Once`, so that the refinement
mapping is the identity on them and hides everything else. `stamp` and `saw`
record which command wrote a configuration and what a request was written from, and
`over` adds up what was reported above the reservations since the last revision.

## 3. Runs

| Run | Instance | Shows |
|---|---|---|
| `budget` | two calls of a team under nested budgets with one group of their own and one shared, retries, stops, restarts, clock set back | `LedgerBalanced`, `BudgetRespected`, `AttemptsConsistent`, `TokenRateRespected`, `RequestRateRespected`, `ConcurrencyRespected`, `QueueBounded`, `OutcomeFinal`, `OnlyThrottledRetried`, `TypeOK` |
| `live` | two systems, one group of concurrency one, a scan limit of one row, fairness | `NoLeapfrog`, `QueuedResolves`, `DispatchSettles` |
| `team` | root and child, limits tight enough to refuse events, stops of system and agents, one fault | `LeaseOwned`, `NoForgottenTask`, `RootHoldsSystem`, `EventRoom`, `StopWaits`, `StopIsFinal` |
| `solo` | one agent that answers, works and sleeps; two inputs; pause, resume and stop at every scope; one fault | `TypeOK`, `ReadOnce`, `InputNotLost`, `ToolOnce` |
| `wf_live` | root and child with a stop and one fault, fairness | `StopCompletes`, `TasksEnd` |
| `wakeups` | nine scenarios of two agents and one trigger: bounded and continuous goals, delegation, pauses, stops, refused events, a fault, fairness | `OneTaskPerAgent`, `AllowanceKept`, `Coalesced`, `FailedNotRetried`, `StopSilences`, `CarriedNotLost`, `DueFires`, `WakesHeard` |
| `commands` | seven scenarios of two clients, two keys, two systems, two memory identities, two tool versions, two tasks, one restart | `OncePerKey` (the refinement of `Once`), `NoBlindOverwrite`, `BudgetCovers`, `SharedReviewed`, `SharedStands`, `UsesKept`, `DisabledStaysInert` |
| `pause`, `goals`, `stop_crash`, `shutdown`, `overtaken` | violations | see Findings |

Why the bounds are enough. In `Broker` the properties relate pairs of calls that
meet in a group or an account: two calls, up to three attempts each, two nested
accounts and two groups with one shared give every way they can meet; time up to
three covers an empty, a partly filled and a full window. In `Workflow` a root
and a child give every race of parent and child (each of which is between one
task and its parent), two turns give one continuation or resumption, and one
fault at every step gives every crash, failed commit and lost worker once; the
mailbox capacity of two and the event limit of five in `team` make refusals
happen in the middle of a delegation. `MaxFaults` and `MaxInputs` bound the
environment, not the program. In `Wakeups` two agents give the operator and its
child, a period of two and a lifetime of three in four ticks let an occurrence be
on time, missed and past the deadline, and allowances of one and two end with or
without a further firing; one trigger is enough because triggers meet only in the
task they wake. In `Commands` a hazard is a race of one late request with one other
write, or of one key with two requests: two clients and two keys cover both, and
attempts of two give a duplicate. Tokens are counted in reservations: a call reserves
one and reports none, one or two, hence less than, as much as or more than it
reserved (`Usages`). `Scenarios` divides the operations, so that
those that touch the same records meet and the others do not multiply the
states; the proofs need no such division. Deadlock is not checked: when the goal is over
and the bounds are used up there is nothing left to do.

Three properties say less than one would first write, because the code does less.
`RequestRateRespected` bounds the dispatches of a group in all by its burst and what
was refilled on the group's own clock, and bounds the dispatches *between* two of
them only among those recorded at that clock. When the wall clock was set back, the
clocks of two groups differ; a call of both pays the earlier group at its own time
and is recorded at the later group's, so that in the recorded times alone the earlier
group can appear to dispatch faster than its bucket (three calls and one call of two
groups show it). `TokenRateRespected` needs no such exception.
`RootHoldsSystem` speaks of goals no root of which was stopped: with a second goal, a
root that outlived its stop by a crash (`stop_crash`) ends at its deadline and turns
the system of the next goal inactive. `NoForgottenTask` leaves out the tasks whose
result was turned away (`overtaken`).

Fairness. In `Broker` the clock advances, each polling goroutine takes its
turn on the mutex, and dispatched requests are answered (they carry a timeout).
In `Workflow` the scheduler ticks every 100 ms, deadlines pass, a stop's
handler finishes, and each activation's goroutine proceeds; a worker that is
canceled is killed. In `Wakeups` the scheduler claims again and again as long as a
claim would change something, activations end, and time passes; the first two
are written out as `[]<>` (nothing to do) or `[]<>` (done), which is weak fairness
with its enabling condition spelled out. Nothing is assumed of users, of faults or of restarts, and
the conclusions except a failed broker or a daemon that is shutting down, which
do stop everything until someone restarts it.

## 4. Proofs

`BrokerProofs` proves, for any sets of systems, calls, groups and accounts, any
charging relation and any limits that satisfy `BrokerAssumption`:

* `TypesCorrect`, `LedgerCorrect`, `BudgetCorrect`, `ConcurrencyCorrect`,
  `AttemptsCorrect`, `QueueCorrect`, `TokenRateCorrect`, `RequestRateCorrect`
  (`Spec => []...`), and
* `OutcomesStay`, `RetriesSafe`, `RoundRobin` (`Spec => [][...]_vars`).

None of these is inductive alone. The ledger says that the reserved counter of
an account is the sum of what its running and unknown attempts hold; to show
that a settlement never drives it negative one needs that the attempt it
settles is one of them, hence that call states and attempt rows agree
(`AttemptsConsistent`), and which stage each call is in (`CallStages`,
`Reservations`). The inductive invariant is

    IInv == TypeOK /\ AttemptsConsistent /\ Reservations /\ CallStages
              /\ LedgerBalanced /\ BudgetRespected /\ ConcurrencyRespected

with one lemma per action, one step per conjunct the action disturbs, and the
facts about sums in `DataTheorems`. Budgets are respected because admission
compares the limit with used plus reserved tokens of every ancestor in the
transaction that reserves, up to what a provider reports above a reservation.

The two rates rest on `RateSteps`: every step either lets a group stand (its
dispatches and their times stay, and its bucket is left alone or refilled at its own
clock) or sends one request. For the tokens, a dispatch that falls into a window is
recorded no earlier than the group's clock at admission, so whatever else is in that
window was counted then, at its reservation or more (`WindowHasRoom`). For the
requests the invariant is `BucketLaw`: what was dispatched since the beginning, and
since *each* dispatch at the group's own clock, plus the credit that is left is within
the burst plus what was refilled since; the bound between two dispatches follows when
the second one happens. `RoundRobin` needs that the rows before an earlier system's
call are among those before the dispatched one, so that the scan had reached it.

`WorkflowEffects`, `WorkflowProofs` and `WorkflowMail` prove, for any goals, tasks,
agents, trees of delegation and limits that satisfy the assumptions of `Workflow`, all
ten safety properties of the runs `team` and `solo`. `WorkflowEffects` says what the
operators on a world do: ending a set of tasks with the rejections that climb to the
parents, posting, sweeping, reading inputs, the scan of `claim`. The invariants come
in layers, each kept by every step given those below:

    TypeInv == TypeOK /\ Born /\ CallsOpen
    LeaseInv == LeaseOwned /\ ActBorn
    RunReceipt, RootLaw, the event room, and
    ReadInv == Working /\ Marked /\ InOrder /\ ReadOnce
                 /\ \A t \in Tasks : Held(t) /\ Again(t)
    WakeInv == \A t \in Tasks : Comes(t) /\ Replies(t) /\ Delegated(t)

* `WorkflowTypes`, `LeasesAreOwned`: an unborn task has no history, and an activation,
  the lease of its delivery and the turn it works on go together.
* `StoppingWaits`: a running, paused or stopping system becomes stopped only without
  leases, by whichever step, since only the sweep and recovery do it. A stop of an
  inactive system need not wait (see section 5), but it reaches every live task,
  so that each worker left is told to stop or has a task that is over.
* `StopsAreFinal`, `ToolsRunOnce`: from types and leases, and that a
  tool that runs has its receipt.
* `RootsHoldSystem`: while no root was stopped, a live root is that of the one goal
  the system works on. `EndsHaveRoom`: every live task has an event reserved.
* `NothingReadTwice`, `InputsAreRead`: what is leased is marked as applied, what is
  applied was copied once, and before a delivery that is to come again its task has
  left no earlier input unread.
* `NoTaskForgotten`: a queued task has a delivery to come, a task that waits for a
  child has it alive or its result pending. `ReadInv` is what makes it inductive: the
  finish of an activation takes a delivery away, and one must know that what it leaves
  is still unread. A step keeps both by its kind (it moves no lease, claims one,
  finishes one, or recovers all), and `About` says what the kinds have in common.

`CommandsProofs` proves all seven properties of the run `commands`, for any
systems, clients, keys, definitions, memory identities, versions and tasks, and
any scenarios: `Implements` (the refinement of `Once`), `NoBlind`, `BudgetKept`,
`Reviewed`, `Stands`, `UsesAddUp`, `DisabledInert`. The invariant is

    IInv == SystemsOK /\ MemoryOK /\ IInvLearning /\ RequestsOK /\ ReceiptsOK

`RequestsOK` is its heart: a request on its way still carries what its author
read, and *if the revision it names is still the current one, what it read is
still what is there*. That needs revisions that never come back: heads and
configurations only move forward, deleted identities are never used again
(`MemoryOK`), and the stamp of a configuration is the index of the command that
wrote it. `ReceiptsOK` says that the receipts are exactly the effects, one per
key, and that everything heard is one of them; each step is then an `Apply`, an
`Acknowledge` or a stutter of `Once`. `RecordProofs` describes what each operation
of `Memory` writes and preserves (`PutEffect`, `ApproveEffect`, `DeleteEffect`,
...) and shows that every step of `Learning` keeps

    IInvLearning == LearningOK /\ UsesKept /\ DisabledStaysInert

where `UsesKept` rests on the cardinality of the tasks that hold a use growing by
one exactly when the allowance shrinks by one. `CommandsProofs` shows that every
step of the composition is one of those or leaves the component alone.

`WakeupsProofs` proves the six safety properties of the run `wakeups`, for any
agents, triggers, periods, lifetimes and scenarios: `OneTaskPerAgentHolds`,
`AllowanceKeptHolds`, `CoalescedHolds`, `FailedNotRetriedHolds`, `StopSilencesHolds`,
`CarriedNotLostHolds`. The invariant (`Invariant`) speaks of the world a transaction
reads and writes, so that it can be carried from one operator to the next:

    IInv == ... /\ Sound(Continuous, World) /\ Silenced
    Sound(c, w) == w \in Worlds /\ Lineal /\ OneLive /\ Housed /\ OneLease
                     /\ Spent /\ InTime /\ Standing /\ Obeyed

`OneLive`, `Spent`, `InTime`, `Standing` and `Silenced` are the properties (or what they
become one step earlier); the rest is why they are kept.

* `Lineal`: a parent is older than its child. A refused result makes `terminateTask`
  climb to the parent; since it only climbs to older tasks, it never ends the successor
  that a completion has just made, and ends after as many rounds as there are tasks.
* `Housed` and `OneLease`: what is pending or leased belongs to a task that did not
  complete, and a task has one lease. So when a task completes and its inputs move on,
  nothing is left for `terminateTask` to bury but what it may bury.
* `InTime`: what a schedule has posted was posted before its next occurrence.
* `Obeyed`: in a continuous goal the system stops when and only when every live task was
  told to, and a stopped goal leaves no system running or paused. So after a stop no task
  completes or is woken. It follows that `wakeContinuousTask`, when `continuePendingInput`
  calls it for work that has just completed, never refuses (`MayComplete`): the early
  return there cannot strand an input.

One lemma for each operator says that it keeps `Sound` and how the world after follows
the one before. `Grows`: tasks that ended stay so, and once the goal was stopped nothing
new appears. `Keeps`: inputs stay with their task and die only with one that ended badly.
Where work completes, `Keeps` is false, since its inputs get another owner; `Passes` says
that they go to a live successor, and `Spares`, which is all that `CarriedNotLost` needs,
follows from either. The loops are then one lemma about a round and one induction over
rounds (`Rounds` of `DataTheorems`). A step of the system is a transaction whose world
`Lands` (`StepKinds`), or the passing of time. `IInv` held in TLC on
the instance of `wakeups` before it was proved.

Every invariant and every action property of the passing runs is thus proved, and so
is the refinement of `Once`. Only model-checked is what concerns liveness (`QueuedResolves`, `DispatchSettles`,
`StopCompletes`, `TasksEnd`, `DueFires`, `WakesHeard`): fairness and `ENABLED` are beyond
the prover. The violations are counterexamples, which only TLC can show.

## 5. Findings

* `pause` (`PauseKeepsClaimedWork`): a throttled attempt of a paused system is
  failed instead of being queued again (`state/broker.go:287`), although pausing
  lets claimed work finish.
* `goals` (`OneActiveGoal`): queueing a model call sets the goal to `waiting`
  unconditionally (`state/broker.go:38`). A child that outlives its goal (the
  root failed after it had delegated) reopens it, while the system, being
  inactive, accepts the next goal.
* `stop_crash` (`StopEnds`): recovery acknowledges the delivery of a waiting task
  that was stopped while its worker held the lease (`state/team.go:570`). Its
  child was canceled by the same stop without a result, so nothing ends the
  stopped root before its deadline, and its system already reads `stopped`.
* `overtaken` (`ResultWakes`): any delivery of kind `task.result` wakes a waiting
  task, also one that was applied before (`state/team.go:144`). A result that a lost
  worker had read is redelivered with a delay; an input overtakes it, and the parent
  answers that with a second delegation. The old result then passes for the reply to
  it, the next call is prepared, and the second child's result is thrown away as
  outside the continuation (`state/team.go:181`). If that result was the pending
  delivery because of which no continuation was posted (`state/team.go:343`), nothing
  wakes the parent any more.
* `shutdown` (`ShutdownPreserves`): a graceful shutdown cancels calls that wait
  for a quota (`daemon/broker.go:96`) which a crash would have kept.

One disagreement has no run of its own, because a property of the code names it.
`StopSystem` sets an inactive system to `stopped` at once
(`state/execution_store.go:339`), and a system becomes inactive as soon as a root
ends: when the root's worker fails after it has delegated, the child may still be
leased, and a stop marks it but does not wait for its worker. `spec.md:959-961` says
"Show `stopping` until cleanup finishes, not `stopped` merely because the command was
accepted". `StopWaits` claims the wait of running, paused and stopping systems only, and
of the others what the code does ensure; the instance of `team` reaches that case, and
without the exception the property fails there.

Observed while modelling and not counted as findings, since no document says
otherwise:

* Delegation does not look at the parent's own mailbox, so the reply can be
  refused and the parent rejected when its mailbox is full of inputs.
* A worker that is lost after its delegation was committed fails the parent,
  although the child goes on.
* `claim` rebuilds the reservation of a prepared call without comparing it with
  `tokens_per_minute` again; one that grew past it waits for its queue deadline.
* In a continuous goal a completed child that input wakes gets a new task with the
  same parent. Its result is taken for the reply to whatever the parent waits for
  then (`state/team.go:180` looks only at the parent of the result's task), and
  the result of the awaited child is later dropped as stray.
* A schedule stays attached to the task that created it until it fires, and the
  agent's next task cannot cancel it; the administrator can.
* An agent's own write of memory notifies none of its own subscriptions.
* `StartSystem` counts running and stopping systems, not paused ones, toward the
  daemon's capacity, and resuming does not count.
* Stopping the agent of a protected evaluation does not reach a generated build
  that runs: its completion looks only at the originating task.
* A replayed command on a system whose local tools no longer load answers an
  error and not the receipt (`state/store.go:418`); the effect is still not repeated.

## 6. Not modelled, and the plan

Agent management, protected checks, feedback and the assignment of tools to
agents are single guarded inserts or compare-and-sets that nothing else races
with. The sandbox, worker, artifacts, configuration, schema, views and UI are
input and output, or validation; what the rest sees of them is in the models as
an outcome. What is worth doing next:

1. Several systems in one scheduler: the order of the sweep in `claim` with a
   stopping system behind a busy one.
2. Agent management in `Workflow` (an agent retired while its tasks run), and the
   evaluation's deliveries in the mailboxes.
3. An abstract specification of a goal (started, working, ended once) that
   `Workflow` implements.
