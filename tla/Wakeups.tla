------------------------------ MODULE Wakeups ------------------------------
(***************************************************************************)
(* What wakes the agents of one goal when nobody delegates: schedules,     *)
(* subscriptions and user inputs, and the continuous goal, in which work   *)
(* that ended is followed by a fresh task of the same agent                *)
(* (state/wakeups.go, state/continuous.go, and the trigger commands and    *)
(* tools of state/commands.go and state/knowledge.go).                     *)
(*                                                                         *)
(* The activations are those of module Workflow, reduced to what wakeups   *)
(* meet: a claim leases a delivery, the task uses at most one tool, and    *)
(* the delivery finishes.  The worker's retries, the model call, shutdown  *)
(* and a failing commit are there and not here; so are the other goals.    *)
(* Tool pins stay authorized.  A transaction is one step: its rows are     *)
(* threaded through a record w.  Each event a transaction posts may be     *)
(* refused for its rate, its depth or a full mailbox: no is the set of     *)
(* those refused, by trigger or by the task whose result it is.            *)
(***************************************************************************)
EXTENDS Integers, FiniteSets, Sequences, SequencesExt

CONSTANTS
  Agents, Operator,
  Triggers, NoTrigger,
  Period,       \* of a cron expression, in ticks
  Lifetime,     \* of a bounded goal, or of each task of a continuous one
  MaxTurns,     \* model turns of a task
  Scenarios,    \* bound: what happens besides the claims and the agents' answers,
                \* the kind of goal, and how often users, agents and faults interfere
  MaxNow        \* bound

ASSUME WakeupsAssumption ==
  /\ Operator \in Agents /\ IsFiniteSet(Triggers) /\ NoTrigger \notin Triggers
  /\ {Period, Lifetime, MaxTurns} \subseteq Nat \ {0} /\ MaxNow \in Nat
  /\ \A s \in Scenarios : /\ s.continuous \in BOOLEAN
                         /\ s.triggers \subseteq {"at", "cron", "memory", "task"}
                         /\ s.budgets \subseteq Nat \ {0}

VARIABLES
  scenario,
  now,
  system,    \* systems.state
  control,   \* goals.control
  agents,    \* agents.state
  task,      \* tasks, in order of creation
  mail,      \* events with their mailboxes, in order of sequence
  trigger,   \* schedules and subscriptions
  commands, delegations, faults, refusals  \* what the bounds count

counts == <<scenario, commands, delegations, faults>>
ruled == <<system, control, agents, task, mail, trigger>>
vars == <<ruled, now, counts, refusals>>

LiveStates == {"queued", "running", "waiting"}
Schedules == {"at", "cron"}
Carried == {"input", "fired", "notice"}  \* what continuePendingInput moves

Continuous == scenario.continuous
Deadline == IF Continuous THEN 0 ELSE Lifetime   \* goals.deadline
Passed(deadline) == deadline > 0 /\ deadline <= now

Task(a, parent, turn, deadline) ==
  [agent |-> a, parent |-> parent, state |-> "queued", stopped |-> FALSE,
   turn |-> turn, deadline |-> deadline, awaits |-> 0, used |-> "none"]

Event(t, kind, from, x, due) ==
  [task |-> t, kind |-> kind, from |-> from, trigger |-> x, due |-> due, at |-> now,
   state |-> "pending", applied |-> FALSE]

Unused == [state |-> "none", kind |-> "at", task |-> 0, due |-> 0, left |-> 0, budget |-> 0]

\* StartSystem with initializeRootTask has just committed.
Init ==
  /\ scenario \in Scenarios
  /\ now = 0
  /\ system = "running" /\ control = "active"
  /\ agents = [a \in Agents |-> "active"]
  /\ task = <<Task(Operator, 0, 1, Lifetime)>>
  /\ mail = <<Event(1, "ready", 0, NoTrigger, 0)>>
  /\ trigger = [x \in Triggers |-> Unused]
  /\ commands = 0 /\ delegations = 0 /\ faults = 0 /\ refusals = 0

----------------------------------------------------------------------------
(* One transaction.                                                        *)

World == [system |-> system, control |-> control, agents |-> agents, task |-> task,
          mail |-> mail, trigger |-> trigger, refused |-> {}]

Becomes(w) ==
  /\ system' = w.system /\ control' = w.control /\ agents' = w.agents
  /\ task' = w.task /\ mail' = w.mail /\ trigger' = w.trigger
  /\ refusals' = refusals + Cardinality(w.refused)

\* What may be refused; a step then takes the worlds whose refusals all happened.
Refusable == IF refusals < scenario.refusals
             THEN {{}} \cup {{s} : s \in Triggers \cup DOMAIN task} ELSE {{}}

\* The world some operator reaches with the refusals no.
Commits(no, w) == w.refused = no /\ Becomes(w)

\* A rewritten table, as a sequence: TLC may lose updates of the function itself.
Table(f) == << >> \o f

Live(w, t) == w.task[t].state \in LiveStates
LiveOf(w, a) == {t \in DOMAIN w.task : w.task[t].agent = a /\ Live(w, t)}
Leased(w) == {j \in DOMAIN w.mail : w.mail[j].state = "leased"}
Held(w, t) == \E j \in Leased(w) : w.mail[j].task = t
IsUnread(e, t) == e.task = t /\ e.state = "pending" /\ e.kind \in Carried
Unread(w, t) == {j \in DOMAIN w.mail : IsUnread(w.mail[j], t)}
Active(w, x) == w.trigger[x].state = "active"
Drained(w) == IF Leased(w) = {} THEN "stopped" ELSE "stopping"
Swept(w) == IF w.system = "stopping" THEN [w EXCEPT !.system = Drained(w)] ELSE w

Halted(w, t) ==
  \/ w.system \in {"stopping", "stopped"} \/ w.control = "stopped"
  \/ w.agents[w.task[t].agent] = "stopped" \/ w.task[t].stopped

Post(w, e) == [w EXCEPT !.mail = Append(@, e)]
Closes(w, X, state) == [w EXCEPT !.trigger = [x \in Triggers |->
                          IF x \in X /\ Active(w, x) THEN [@[x] EXCEPT !.state = state] ELSE @[x]]]

----------------------------------------------------------------------------
(* wakeContinuousTask: a live task is its own successor; work that ended   *)
(* is followed by the agent's live task, or by a new one.                  *)

CanWake(w, t) ==
  \/ Live(w, t)
  \/ Continuous /\ ~Halted(w, t) /\ w.system \in {"running", "paused"}

Heir(w, t) ==
  IF Live(w, t) THEN t
  ELSE IF LiveOf(w, w.task[t].agent) # {} THEN CHOOSE u \in LiveOf(w, w.task[t].agent) : TRUE
  ELSE Len(w.task) + 1

\* Mutant: the agent may have a live task already.
Woken_Twice(w, t) ==
  IF Live(w, t) THEN w
  ELSE [w EXCEPT !.task = Append(@, Task(w.task[t].agent, w.task[t].parent, 0, 0))]

Woken(w, t) ==
  IF Heir(w, t) \in DOMAIN w.task THEN w
  ELSE [w EXCEPT !.task = Append(@, Task(w.task[t].agent, w.task[t].parent, 0, 0))]

\* continuePendingInput: what arrived for a completed task goes to its successor.
Carry(w, t) ==
  IF Unread(w, t) = {} \/ ~CanWake(w, t) THEN w
  ELSE [Woken(w, t) EXCEPT !.mail = Table([j \in DOMAIN w.mail |->
         IF IsUnread(w.mail[j], t) THEN [w.mail[j] EXCEPT !.task = Heir(w, t)] ELSE w.mail[j]])]

----------------------------------------------------------------------------
(* terminateTask.                                                          *)

Buried(w, t) == [w EXCEPT !.mail = Table([j \in DOMAIN w.mail |->
  IF w.mail[j].task = t /\ w.mail[j].state = "pending"
  THEN [w.mail[j] EXCEPT !.state = "dead"] ELSE w.mail[j]])]

\* Mutants: the mailbox is emptied before the input moves on; triggers outlive failures.
Ended_BuriesFirst(w, t, state) ==
  LET over == [w EXCEPT !.task[t].state = state] IN
  IF Continuous /\ state = "completed" THEN Carry(Buried(over, t), t)
  ELSE Buried(Closes(over, {x \in Triggers : w.trigger[x].task = t}, "canceled"), t)

Ended_KeepsTriggers(w, t, state) ==
  LET over == [w EXCEPT !.task[t].state = state] IN
  IF Continuous THEN Buried(IF state = "completed" THEN Carry(over, t) ELSE over, t)
  ELSE Buried(Closes(over, {x \in Triggers : w.trigger[x].task = t}, "canceled"), t)

Ended(w, t, state) ==
  LET over == [w EXCEPT !.task[t].state = state] IN
  IF Continuous /\ state = "completed" THEN Buried(Carry(over, t), t)
  ELSE Buried(Closes(over, {x \in Triggers : w.trigger[x].task = t}, "canceled"), t)

\* The end of a root, but for the ends a continuous goal survives.
RootEnded(w) ==
  [w EXCEPT !.system = IF @ \in {"stopping", "stopped"} THEN Drained(w) ELSE "inactive",
            !.agents = [a \in Agents |-> IF a # Operator THEN "stopped" ELSE @[a]]]

\* One task of the chain c ends; when its result is refused, its parent is next.
Climb(c, no) ==
  LET t == c.next
      p == c.w.task[t].parent
      v == Ended(c.w, t, c.state)
      Stays(u) == [w |-> u, next |-> 0, state |-> c.state]
  IN IF t = 0 THEN c
     ELSE IF ~Live(c.w, t) THEN Stays(c.w)
     ELSE IF p = 0 THEN Stays(IF Continuous /\ c.state # "canceled" THEN v ELSE RootEnded(v))
     ELSE IF ~Live(v, p) \/ v.task[p].stopped THEN Stays(v)
     ELSE IF t \in no
       THEN [w |-> [v EXCEPT !.refused = @ \cup {t}], next |-> p, state |-> "rejected"]
     ELSE Stays(Post(v, Event(p, "result", t, NoTrigger, 0)))

\* Parents are older than their children, so the chain is no longer than the table.
Terminate(w, t, state, no) ==
  LET chain[i \in 0 .. Len(w.task)] ==
        IF i = 0 THEN [w |-> w, next |-> t, state |-> state] ELSE Climb(chain[i - 1], no)
  IN chain[Len(w.task)].w

TerminateAll(w, T, state, no) ==
  LET after[t \in 0 .. Len(w.task)] ==
        IF t = 0 THEN w
        ELSE IF t \in T THEN Terminate(after[t - 1], t, state, no) ELSE after[t - 1]
  IN after[Len(w.task)]

----------------------------------------------------------------------------
(* Triggers.                                                               *)

\* wakeEligible: the trigger must go, or the task may be woken now.
Ineligible(w, t) ==
  \/ ~Live(w, t) /\ ~(Continuous /\ w.task[t].state = "completed")
  \/ Halted(w, t) \/ Passed(Deadline)

Ready(w, t) ==
  /\ ~Ineligible(w, t)
  /\ w.system = "running" /\ w.agents[w.task[t].agent] = "active" /\ w.control = "active"

\* emitTaskWakeup on behalf of a trigger; refused, it leaves the world as it was.
CanNotify(w, x, no) == x \notin no /\ CanWake(w, w.trigger[x].task)

Notified(w, x, kind) ==
  LET s == w.trigger[x] IN
  [Post(Woken(w, s.task), Event(Heir(w, s.task), kind, 0, x, s.due))
     EXCEPT !.trigger[x].task = Heir(w, s.task)]

Failed(w, x, no) == [w EXCEPT !.trigger[x].state = "failed", !.refused = @ \cup (no \cap {x})]

\* NextCron: the first instant of the expression after the given one.
NextCron(after) == (after \div Period + 1) * Period

\* Mutant: every missed occurrence is made up for.
Advanced_Replays(s) ==
  LET next == s.due + Period
      more == s.kind = "cron" /\ s.left > 1 /\ (Deadline = 0 \/ next < Deadline)
  IN [s EXCEPT !.left = @ - 1, !.due = IF s.kind = "cron" /\ s.left > 1 THEN next ELSE @,
               !.state = IF more THEN "active" ELSE "completed"]

\* The schedule after it fired: missed occurrences coalesce into that one.
Advanced(s) ==
  LET next == NextCron(now)
      more == s.kind = "cron" /\ s.left > 1 /\ (Deadline = 0 \/ next < Deadline)
  IN [s EXCEPT !.left = @ - 1, !.due = IF s.kind = "cron" /\ s.left > 1 THEN next ELSE @,
               !.state = IF more THEN "active" ELSE "completed"]

\* Mutant: what may not be woken any more is skipped, not settled.
Fire_Skips(w, x, no) ==
  LET t == w.trigger[x].task
      v == Notified(w, x, "fired")
  IN IF Passed(Deadline) THEN Closes(w, {x}, "expired")
     ELSE IF ~Ready(w, t) THEN w
     ELSE IF ~CanNotify(w, x, no) THEN Failed(w, x, no)
     ELSE [v EXCEPT !.trigger[x] = Advanced(@)]

Fire(w, x, no) ==
  LET t == w.trigger[x].task
      v == Notified(w, x, "fired")
  IN IF Passed(Deadline) THEN Closes(w, {x}, "expired")
     ELSE IF Ineligible(w, t) THEN Closes(w, {x}, "canceled")
     ELSE IF ~Ready(w, t) THEN w
     ELSE IF ~CanNotify(w, x, no) THEN Failed(w, x, no)
     ELSE [v EXCEPT !.trigger[x] = Advanced(@)]

DueNow(w) == {x \in Triggers : Active(w, x) /\ w.trigger[x].kind \in Schedules /\ w.trigger[x].due <= now}

\* Tasks that waited, or in a continuous goal queued, past their deadline.
Lapsed(w) ==
  {t \in DOMAIN w.task : ~Held(w, t) /\
     IF Continuous THEN w.task[t].state \in {"waiting", "queued"} /\ Passed(w.task[t].deadline)
     ELSE w.task[t].state = "waiting" /\ Passed(Deadline)}

FireAll(w, no) ==
  LET due == SetToSeq(DueNow(w))
      after[i \in 0 .. Len(due)] == IF i = 0 THEN w ELSE Fire(after[i - 1], due[i], no)
  IN after[Len(due)]

\* pumpWakeups, but for the memory it erases (module Memory).
Pumped(w, no) ==
  LET unsubscribed == Closes(w, {x \in Triggers : w.trigger[x].kind \notin Schedules /\ Passed(Deadline)}, "expired")
  IN FireAll(TerminateAll(unsubscribed, Lapsed(w), "failed", no), no)

\* Mutant: a last allowance is not the last.
Used_OffByOne(s) == [s EXCEPT !.left = @ - 1, !.state = IF s.left = 0 THEN "completed" ELSE "active"]

Used(s) == [s EXCEPT !.left = @ - 1, !.state = IF s.left = 1 THEN "completed" ELSE "active"]

\* notifySubscriptions for one subscription; source 0 is the administrator.
Notify(w, x, source, no) ==
  LET t == w.trigger[x].task IN
  IF source # 0 /\ w.task[t].agent = w.task[source].agent THEN w
  ELSE IF Ineligible(w, t) THEN Closes(w, {x}, "canceled")
  ELSE IF ~CanNotify(w, x, no) THEN Failed(w, x, no)
  ELSE [Notified(w, x, "notice") EXCEPT !.trigger[x] = Used(@)]

\* kind is "memory" for a change of the shared memory, "task" for a completed task.
Subscribed(w, kind) == {x \in Triggers : Active(w, x) /\ w.trigger[x].kind = kind}

NotifyAll(w, kind, source, no) ==
  LET told == SetToSeq(Subscribed(w, kind))
      after[i \in 0 .. Len(told)] == IF i = 0 THEN w ELSE Notify(after[i - 1], told[i], source, no)
  IN after[Len(told)]

----------------------------------------------------------------------------
(* claim.                                                                  *)

\* prepareNextCall: a woken task gets its deadline with its first call.
CanPrepare(w, t) ==
  /\ w.agents[w.task[t].agent] # "stopped" /\ ~w.task[t].stopped
  /\ w.task[t].turn < MaxTurns
  /\ ~Passed(IF Continuous THEN w.task[t].deadline ELSE Deadline)

Prepared(w, t) ==
  [w EXCEPT !.task[t] = [w.task[t] EXCEPT !.turn = @ + 1, !.state = "queued", !.awaits = 0,
                           !.deadline = IF Continuous /\ @ = 0 THEN now + Lifetime ELSE @]]

\* consumeInputs.  The delivery it leaves out is a result, or leased next.
Consumed(w, t) ==
  [w EXCEPT !.mail = Table([j \in DOMAIN w.mail |->
     IF IsUnread(w.mail[j], t) /\ ~w.mail[j].applied
     THEN [w.mail[j] EXCEPT !.state = "acked", !.applied = TRUE] ELSE w.mail[j]])]

Doomed(w, j) == ~Live(w, w.mail[j].task) \/ Halted(w, w.mail[j].task) \/ Passed(Deadline)

Asleep(w, t) == w.task[t].state = "waiting" /\ w.task[t].awaits = 0
Delegating(w, t) == w.task[t].state = "waiting" /\ w.task[t].awaits # 0

Runnable(w, j) ==
  /\ Ready(w, w.mail[j].task)
  /\ Delegating(w, w.mail[j].task) => w.mail[j].kind = "result"

\* A result nobody waits for.
Stray(w, j) ==
  LET t == w.mail[j].task IN
  /\ w.mail[j].kind = "result" /\ ~w.mail[j].applied
  /\ ~Delegating(w, t) \/ w.task[w.mail[j].from].parent # t \/ Live(w, w.mail[j].from)

\* The delivery needs a new call, or is read by the one that is prepared.
NeedsCall(w, j) ==
  LET t == w.mail[j].task IN
  w.task[t].turn = 0 \/ Asleep(w, t) \/ (w.mail[j].kind = "result" /\ ~w.mail[j].applied)

Leases(w, j) ==
  LET t == w.mail[j].task
      v == Consumed(IF NeedsCall(w, j) THEN Prepared(w, t) ELSE w, t)
  IN [v EXCEPT !.task[t] = [@ EXCEPT !.state = "running", !.used = "none"],
               !.mail[j] = [@ EXCEPT !.state = "leased", !.applied = TRUE]]

Mark(w, j, state) == [w EXCEPT !.mail[j].state = state]

\* Mutant: what cannot run yet blocks the queue.
Consider_Blocks(c, j, no) ==
  LET w == c.w
      t == w.mail[j].task
  IN IF c.found \/ w.mail[j].state # "pending"
        \/ \E i \in Leased(w) : w.task[w.mail[i].task].agent = w.task[t].agent THEN c
     ELSE IF Doomed(w, j) THEN
       [c EXCEPT !.w = Terminate(Mark(w, j, "dead"), t, IF Halted(w, t) THEN "canceled" ELSE "failed", no)]
     ELSE IF ~Runnable(w, j) THEN [c EXCEPT !.found = TRUE]
     ELSE IF Stray(w, j) THEN [c EXCEPT !.w = Mark(w, j, "dead")]
     ELSE IF NeedsCall(w, j) /\ ~CanPrepare(w, t) THEN [c EXCEPT !.w = Terminate(w, t, "rejected", no)]
     ELSE [found |-> TRUE, w |-> Leases(w, j)]

\* claim considers a delivery; c.found says that it has found one before.
Consider(c, j, no) ==
  LET w == c.w
      t == w.mail[j].task
  IN IF c.found \/ w.mail[j].state # "pending"
        \/ \E i \in Leased(w) : w.task[w.mail[i].task].agent = w.task[t].agent THEN c
     ELSE IF Doomed(w, j) THEN
       [c EXCEPT !.w = Terminate(Mark(w, j, "dead"), t, IF Halted(w, t) THEN "canceled" ELSE "failed", no)]
     ELSE IF ~Runnable(w, j) THEN c
     ELSE IF Stray(w, j) THEN [c EXCEPT !.w = Mark(w, j, "dead")]
     ELSE IF NeedsCall(w, j) /\ ~CanPrepare(w, t) THEN [c EXCEPT !.w = Terminate(w, t, "rejected", no)]
     ELSE [found |-> TRUE, w |-> Leases(w, j)]

Considered(w, no) ==
  LET after[j \in 0 .. Len(w.mail)] ==
        IF j = 0 THEN [found |-> FALSE, w |-> w] ELSE Consider(after[j - 1], j, no)
  IN after[Len(w.mail)].w

Claimed(no) == Swept(Considered(Pumped(World, no), no))

Claim ==
  /\ \E no \in Refusable : Commits(no, Claimed(no))
  /\ UNCHANGED <<now, counts>>

----------------------------------------------------------------------------
(* What an activation does: at most one tool, then the delivery finishes.  *)

\* PrepareTool refuses a task that was stopped, whoever did it.  A tool that is
\* refused ends the activation with an error: see Finish.
CanUse(t) ==
  /\ task[t].state = "running" /\ task[t].used = "none"
  /\ Held(World, t) /\ ~task[t].stopped
  /\ system \notin {"stopping", "stopped"} /\ control # "stopped"

Fresh == {x \in Triggers : trigger[x].state = "none"}

\* createSchedule: an occurrence in the future, within the goal's lifetime.
Scheduled(w, t, kind, due, budget) ==
  LET x == CHOOSE y \in Fresh : TRUE IN
  [w EXCEPT !.trigger[x] = [state |-> "active", kind |-> kind, task |-> t, due |-> due,
                            left |-> budget, budget |-> budget]]

MaySchedule(kind, due, budget) ==
  /\ Fresh # {} /\ due > now /\ (Deadline > 0 => due < Deadline)
  /\ IF kind = "cron" THEN due = NextCron(now) ELSE budget = 1

MaySubscribe(due) == Fresh # {} /\ ~Passed(Deadline) /\ due = 0

\* The triggers a command or a tool may set up for task t.
SetsUp(w, t) ==
  {Scheduled(w, t, x.kind, x.due, x.budget) : x \in
     {y \in [kind : scenario.triggers, due : 0 .. MaxNow + Period, budget : scenario.budgets] :
        IF y.kind \in Schedules THEN MaySchedule(y.kind, y.due, y.budget) ELSE MaySubscribe(y.due)}}

Uses(t, tool) == [World EXCEPT !.task[t].used = tool]

\* The task waits for nothing in particular.
Sleeps(w, t) == [w EXCEPT !.task[t] = [@ EXCEPT !.state = "waiting", !.awaits = 0]]

\* runtime.schedule.create, runtime.events.subscribe
CreateOwn(t) ==
  /\ CanUse(t) /\ "own" \in scenario.ops
  /\ \E w \in SetsUp(Uses(t, "tool"), t) : Becomes(w)
  /\ UNCHANGED <<now, counts>>

\* runtime.schedule.cancel, runtime.events.unsubscribe: of the task itself.
CancelOwn(t) ==
  /\ CanUse(t) /\ "cancel" \in scenario.ops
  /\ \E x \in Triggers :
       /\ trigger[x].task = t
       /\ Becomes([Uses(t, "tool") EXCEPT !.trigger[x].state = "canceled"])
  /\ UNCHANGED <<now, counts>>

\* runtime.task.wait
Wait(t) ==
  /\ CanUse(t) /\ "wait" \in scenario.ops
  /\ Becomes(Sleeps(Uses(t, "wait"), t))
  /\ UNCHANGED <<now, counts>>

MayDelegate(t, a) ==
  /\ a # task[t].agent /\ a # Operator /\ agents[a] = "active"
  /\ LiveOf(World, a) = {}

\* The parent waits for its child, which shares its deadline and is ready.
Delegated(t, a) ==
  LET c == Len(task) + 1
      row == [task[t] EXCEPT !.used = "delegate", !.state = "waiting", !.awaits = c]
      w == [World EXCEPT !.task = Append([task EXCEPT ![t] = row], Task(a, t, 1, task[t].deadline))]
  IN Post(w, Event(c, "ready", 0, NoTrigger, 0))

\* runtime.task.delegate
Delegate(t, a) ==
  /\ CanUse(t) /\ delegations < scenario.delegations
  /\ MayDelegate(t, a) /\ ~Passed(IF Continuous THEN task[t].deadline ELSE Deadline)
  /\ Becomes(Delegated(t, a))
  /\ delegations' = delegations + 1
  /\ UNCHANGED <<now, scenario, commands, faults>>

\* finishDelivery: queueContinuation, or rejection when no further turn is left.
Continues(w, t, no) ==
  IF ~CanPrepare(w, t) THEN Terminate(w, t, "rejected", no)
  ELSE IF \E j \in DOMAIN w.mail : w.mail[j].task = t /\ w.mail[j].state = "pending"
    THEN Prepared(w, t)
  ELSE Post(Prepared(w, t), Event(t, "continue", 0, NoTrigger, 0))

Completes(w, t, no) == NotifyAll(Terminate(w, t, "completed", no), "task", t, no)

Succeeds(w, t, no) ==
  LET tool == task[t].used IN
  IF tool = "delegate" \/ (tool = "wait" /\ ~Continuous) THEN w
  ELSE IF tool = "tool" THEN Continues(w, t, no)
  ELSE IF Continuous THEN Completes(w, t, no)
  ELSE IF Unread(w, t) # {} THEN Continues(w, t, no)
  ELSE IF \E x \in Triggers : Active(w, x) /\ w.trigger[x].task = t
    THEN Sleeps(w, t)
  ELSE Completes(w, t, no)

\* A stop that reached the task; a stopped agent's tasks are all marked.
Halting(t) == system \in {"stopping", "stopped"} \/ control = "stopped" \/ task[t].stopped

\* A canceled root also stops its system.
Halts(w, t) ==
  IF task[t].parent = 0 THEN [w EXCEPT !.system = Drained(w)] ELSE w

\* The activation of t ends, with delivery j, well (ok) or with an error.
Finished(t, ok, j, no) ==
  LET w == Mark(World, j, IF ok THEN "acked" ELSE "dead") IN
  IF ~Live(World, t) THEN Mark(World, j, "dead")
  ELSE IF Halting(t) THEN Halts(Terminate(w, t, "canceled", no), t)
  ELSE IF ok THEN Succeeds(w, t, no)
  ELSE Terminate(w, t, "failed", no)

Finish(t, ok) ==
  /\ Held(World, t)
  /\ ok \/ (faults < scenario.faults /\ ~Halting(t))
  /\ faults' = faults + IF ok THEN 0 ELSE 1
  /\ LET j == CHOOSE i \in Leased(World) : mail[i].task = t
     IN \E no \in Refusable : Commits(no, Swept(Finished(t, ok, j, no)))
  /\ UNCHANGED <<now, scenario, commands, delegations>>

----------------------------------------------------------------------------
(* The administrator's commands.                                           *)

Command(op) == op \in scenario.ops /\ commands < scenario.commands /\ commands' = commands + 1
OnlyCommand == UNCHANGED <<now, scenario, delegations, faults>>

\* inputTask: the live task of the agent, or the last one of a continuous goal.
Addressed(a) ==
  LET open == {t \in DOMAIN task : task[t].agent = a /\ ~task[t].stopped}
      live == {t \in open : Live(World, t) /\ control # "stopped"}
  IN IF system \notin {"running", "paused"} \/ agents[a] = "stopped" THEN {}
     ELSE IF live # {} THEN live
     ELSE IF Continuous THEN {t \in open : \A u \in open : u <= t} ELSE {}

\* AddInput and AddAttachment.  A refused event refuses the command.
AddInput(a) ==
  /\ Command("input")
  /\ \E t \in Addressed(a) :
       /\ CanWake(World, t) /\ ~Passed(Deadline)
       /\ Becomes(Post(Woken(World, t), Event(Heir(World, t), "input", 0, NoTrigger, 0)))
  /\ OnlyCommand

\* CreateSchedule, CreateSubscription
CreateTrigger(a) ==
  /\ Command("trigger")
  /\ \E t \in Addressed(a) :
       /\ Live(World, t) \/ task[t].state = "completed"
       /\ \E w \in SetsUp(World, t) : Becomes(w)
  /\ OnlyCommand

CancelTrigger(x) ==
  /\ Command("cancel")
  /\ trigger[x].state # "none"
  /\ Becomes([World EXCEPT !.trigger[x].state = "canceled"])
  /\ OnlyCommand

\* PutMemory or the approval of a shared entry.
ChangeMemory ==
  /\ Command("memory")
  /\ \E no \in Refusable : Commits(no, NotifyAll(World, "memory", 0, no))
  /\ OnlyCommand

Pause ==
  /\ Command("pause")
  /\ \/ system = "running" /\ Becomes([World EXCEPT !.system = "paused"])
     \/ \E a \in Agents : agents[a] = "active" /\ Becomes([World EXCEPT !.agents[a] = "paused"])
     \/ control = "active" /\ Becomes([World EXCEPT !.control = "paused"])
  /\ OnlyCommand

\* Resuming is not bounded.
Resume ==
  /\ \/ system = "paused" /\ Becomes([World EXCEPT !.system = "running"])
     \/ \E a \in Agents : agents[a] = "paused" /\ Becomes([World EXCEPT !.agents[a] = "active"])
     \/ control = "paused" /\ Becomes([World EXCEPT !.control = "active"])
  /\ UNCHANGED <<now, counts>>

\* Mutant: the wakeups of the stopped goal remain.
GoalStopped_KeepsTriggers(w) ==
  IF ~Continuous THEN w
  ELSE [w EXCEPT !.control = "stopped", !.agents = [a \in Agents |-> "stopped"], !.system = Drained(w)]

\* The end of stopTasks, for a continuous goal: nothing is left to wake it.
GoalStopped(w) ==
  IF ~Continuous THEN w
  ELSE [Closes(w, Triggers, "canceled") EXCEPT !.control = "stopped",
          !.agents = [a \in Agents |-> "stopped"], !.system = Drained(w)]

\* stopTasks: the live tasks of S are marked, those without a lease end.
Marked(w, S) ==
  [w EXCEPT !.system = IF \E t \in S : w.task[t].parent = 0 THEN "stopping" ELSE @,
            !.task = Table([t \in DOMAIN w.task |->
                       IF t \in S THEN [w.task[t] EXCEPT !.stopped = TRUE] ELSE w.task[t]])]

StopTasks(w, S, no) == TerminateAll(Marked(w, S), {t \in S : ~Held(w, t)}, "canceled", no)

\* StopSystem; a stop of the goal ends the same way.
StopGoal ==
  /\ Command("stop")
  /\ control # "stopped" /\ system \in {"running", "paused"}
  /\ \E no \in Refusable :
       Commits(no, GoalStopped(StopTasks([World EXCEPT !.system = "stopping", !.control = "stopped"],
                                         {t \in DOMAIN task : Live(World, t)}, no)))
  /\ OnlyCommand

\* The agent's tasks with those they delegated, and so on down.
Selected(a) ==
  {t \in DOMAIN task : \A S \in SUBSET DOMAIN task :
     (\A u \in DOMAIN task : task[u].agent = a \/ task[u].parent \in S => u \in S) => t \in S}

\* Control, scope "agent": with the tasks its tasks have delegated.  To stop
\* the operator of a continuous goal is to stop the goal.
StopAgent(a) ==
  LET S == {t \in Selected(a) : Live(World, t)}
      w == [World EXCEPT !.agents[a] = "stopped"]
  IN /\ Command("stop agent")
     /\ agents[a] # "stopped" /\ control # "stopped" /\ system \in {"running", "paused"}
     /\ \E no \in Refusable :
          Commits(no, IF Continuous /\ a = Operator
                      THEN GoalStopped(StopTasks(w, {t \in DOMAIN task : Live(World, t)}, no))
                      ELSE StopTasks(w, S, no))
     /\ OnlyCommand

----------------------------------------------------------------------------
(* Time, crashes, and the whole.                                           *)

Tick ==
  /\ now < scenario.until /\ now' = now + 1
  /\ UNCHANGED <<ruled, counts, refusals>>

\* RecoverExecutions: leases return, but for those of tasks that already wait;
\* the tasks with a lost call or tool fail, whichever those are.
Requeued ==
  LET back(e) == IF e.state # "leased" THEN e
                 ELSE [e EXCEPT !.state = IF task[e.task].state = "waiting" THEN "acked" ELSE "pending"]
      requeued(row) == IF row.state = "running" THEN [row EXCEPT !.state = "queued"] ELSE row
  IN [World EXCEPT !.mail = Table([j \in DOMAIN mail |-> back(mail[j])]),
                   !.task = Table([t \in DOMAIN task |-> requeued(task[t])])]

Recovered(lost, no) ==
  LET v == TerminateAll(Requeued, lost, "failed", no)
      over == \/ 1 \in lost /\ ~Continuous
              \/ /\ v.system \in {"running", "stopping"}
                 /\ ~Continuous \/ control = "stopped"
                 /\ \A t \in DOMAIN task : ~Live(v, t)
  IN IF over THEN [v EXCEPT !.system = "stopped"] ELSE v

Crash ==
  /\ faults < scenario.faults /\ faults' = faults + 1
  /\ \E no \in Refusable, lost \in SUBSET {t \in DOMAIN task : task[t].state = "running"} :
       Commits(no, Recovered(lost, no))
  /\ UNCHANGED <<now, scenario, commands, delegations>>

Work(t) == CreateOwn(t) \/ CancelOwn(t) \/ Wait(t) \/ \E a \in Agents : Delegate(t, a)

Next ==
  \/ Claim
  \/ \E t \in DOMAIN task : Work(t) \/ \E ok \in BOOLEAN : Finish(t, ok)
  \/ \E a \in Agents : AddInput(a) \/ CreateTrigger(a) \/ StopAgent(a)
  \/ \E x \in Triggers : CancelTrigger(x)
  \/ ChangeMemory \/ Pause \/ Resume \/ StopGoal
  \/ Tick \/ Crash

Spec == Init /\ [][Next]_vars

\* The scheduler ticks, time passes, and an activation ends, since its model
\* call and its tools have timeouts.  Nothing is assumed of users or faults.
\* The first two conjuncts are WF_vars(Claim) and WF_vars(Finishes), with the
\* condition under which the action can change something spelled out.
Finishes == \E t \in DOMAIN task : Finish(t, TRUE)

Fairness ==
  /\ []<>(Claimed({}) = World) \/ []<><<Claim>>_vars
  /\ []<>(Leased(World) = {}) \/ []<><<Finishes>>_vars
  /\ WF_vars(Tick)

FairSpec == Spec /\ Fairness

----------------------------------------------------------------------------
(* Properties.                                                             *)

\* No agent of a goal works on two tasks at once, whatever wakes, delegates or
\* carries input at the same time: the guards of wakeContinuousTask and delegate
\* are in different transactions and no index of the schema backs them.
OneTaskPerAgent == \A a \in Agents : Cardinality(LiveOf(World, a)) <= 1

\* The events a trigger has posted and the allowance it has left make up its
\* budget, across ticks, pauses, tasks and crashes; it ends when nothing is left.
Fired(x) == {j \in DOMAIN mail : mail[j].trigger = x}
AllowanceKept ==
  \A x \in Triggers : /\ Cardinality(Fired(x)) + trigger[x].left = trigger[x].budget
                      /\ trigger[x].state = "active" => trigger[x].left > 0

\* Missed runs coalesce (README.md): whatever a pause or the daemon's absence
\* missed, the next event of a schedule is for an occurrence after the last one.
Coalesced ==
  \A x \in Triggers : trigger[x].kind = "cron" =>
    \A i, j \in Fired(x) : i < j => mail[i].at < mail[j].due

\* Successful tasks retain standing triggers, other work does not (README.md): an
\* active trigger never wakes work after a failure, a rejection or a cancellation.
FailedNotRetried ==
  \A x \in Triggers : Active(World, x) =>
    Live(World, trigger[x].task) \/ (Continuous /\ task[trigger[x].task].state = "completed")

\* Stopping cancels pending wakeups and the team (README.md): from the stop on no
\* task is made and no trigger fires, and none of a continuous goal remains.
StopSilences ==
  [][control = "stopped" =>
       /\ Len(task') = Len(task)
       /\ \A j \in DOMAIN mail' \ DOMAIN mail : mail'[j].trigger = NoTrigger
       /\ Continuous => \A x \in Triggers : trigger'[x].state # "active"]_vars

\* Input arriving during completion is transferred to the next task (README.md):
\* a pending input or wakeup dies only with a task that does not complete.
CarriedNotLost ==
  [][\A j \in DOMAIN mail : mail[j].kind \in Carried /\ mail[j].state = "pending" =>
       mail'[j].state # "dead" \/ task'[mail[j].task].state \in {"failed", "rejected", "canceled"}]_vars

\* A due schedule that nobody pauses fires, or is settled.
Paused == system # "running" \/ control # "active" \/ \E a \in Agents : agents[a] = "paused"
DueFires ==
  \A x \in Triggers :
    (Active(World, x) /\ trigger[x].kind \in Schedules /\ trigger[x].due <= now)
      ~> (~Active(World, x) \/ trigger[x].due > now \/ Paused)

\* What wakes an agent is read, or dies with its task, unless somebody pauses.
UnreadBy(a) == UNION {Unread(World, t) : t \in {u \in DOMAIN task : task[u].agent = a}}
WakesHeard == \A a \in Agents : UnreadBy(a) # {} ~> UnreadBy(a) = {} \/ Paused

=============================================================================
