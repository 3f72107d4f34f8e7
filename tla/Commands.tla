----------------------------- MODULE Commands -----------------------------
(***************************************************************************)
(* The control API's mutations: a client reads a record, writes a command  *)
(* from what it read, and sends it under an Idempotency-Key, again and     *)
(* again while no answer arrives.  Store.command runs each in one          *)
(* transaction with its audit row and its replay receipt                   *)
(* (state/store.go, state/commands.go).  The systems' configurations, the  *)
(* memory of module Memory and the local tools of module Learning are what *)
(* the commands change; agents and the scheduler work meanwhile, and the   *)
(* daemon restarts with another configuration file.                        *)
(*                                                                         *)
(* One SQLite connection (store.go: SetMaxOpenConns(1)) makes a            *)
(* transaction one step.  What start and stop do to goals, tasks and calls *)
(* is in module Workflow; here only systems.state is kept.                 *)
(***************************************************************************)
EXTENDS Memory, Learning, Sequences

CONSTANTS
  Systems, Clients, Keys,
  Existing, ExistingBudget, \* systems an earlier process left in the state directory
  Definitions,  \* the administrative definitions a daemon may be started with
  Budgets,      \* limits.token_budget of a configuration, in reservations of a call
  Usages,       \* bound: what the provider may report of a call, in the same unit
  MaxOperators,
  Scenarios,    \* bound: the operations used in one behaviour, the clients that wait
                \* at once, how often they ask, send each request, and the daemon
                \* restarts; and the uses of the skill approved before, 0 if none
  MaxSystemRevision,  \* bound
  New, NoKey

ASSUME CommandsAssumption ==
  /\ IsFiniteSet(Systems) /\ Systems # {} /\ New \notin Systems \cup Ids
  /\ Existing \subseteq Systems /\ ExistingBudget \in Budgets
  /\ Systems \cap Ids = {} /\ NoKey \notin Keys
  /\ Budgets \subseteq Nat \ {0} /\ Usages \subseteq Nat
  /\ MaxOperators \in Nat \ {0} /\ MaxSystemRevision \in Nat \ {0}
  /\ \A x \in Scenarios : x.requests \in Nat /\ x.attempts \in Nat /\ x.restarts \in Nat
                         /\ x.clients \in Nat /\ x.learned \in Nat

VARIABLES
  system,    \* systems joined with their current system_revisions row
  receipts,  \* command_receipts of the local administrator, by key
  cfg,       \* the definitions the running daemon was started with
  waiting,   \* per client, the request it waits for an answer to
  inflight,  \* requests that have not reached the daemon
  effects,   \* the audit log: what each accepted command did
  heard,     \* acknowledgements that reached a client
  scenario, requests, restarts  \* what the bounds select and count

commandVars == <<receipts, waiting, inflight, effects, heard, scenario, requests>>
vars == <<memoryVars, learningVars, system, cfg, commandVars, restarts>>

----------------------------------------------------------------------------
(* Requests.                                                               *)

Body(op, on, expected, arg) == [op |-> op, on |-> on, expected |-> expected, arg |-> arg]

\* A system not yet created; stamp is the index in effects of the command
\* that wrote the current revision, over the usage that was reported above what
\* was reserved for it since then.
Uncreated == [state |-> "none", revision |-> 0, digest |-> CHOOSE d \in Definitions : TRUE,
              budget |-> 0, used |-> 0, reserved |-> 0, over |-> 0, stamp |-> 0]

Created == {s \in Systems : system[s].state # "none"}

\* What the budget has to cover, and whether it leaves room for more.
Spent(s) == system[s].used + system[s].reserved
Remaining(s) == Spent(s) < system[s].budget

\* Identities are random: the model hands them out in a fixed order.  The memory
\* of module Memory and the tools of module Learning are those of one system.
FreshSystem == CHOOSE s \in Systems \ Created : TRUE
FreshId == CHOOSE i \in Ids : heads[i] = NoHead
Home == CHOOSE s \in Systems : Existing # {} => s \in Existing

\* The kinds of a draft, by number; a regrant names one local pin, or none (0).
Kinds == <<"skill", "executable">>
Pins(n) == {n} \ {0}

\* What a client may ask, given what it can read now.
OnSystem(s) ==
  {Body("revise", s, system[s].revision, b) : b \in Budgets}
  \cup {Body("regrant", s, system[s].revision, v) : v \in Versions \cup {0}}
  \cup {Body("start", s, system[s].revision, 0)}
  \cup {Body(op, s, 0, 0) : op \in {"stop", "pause", "resume"}}

OnMemory(i) ==
  {Body("memory.put", i, heads[i].revision, heads[i].owner)}
  \cup {Body(op, i, heads[i].revision, 0) : op \in {"memory.approve", "memory.delete"}}

OnTool(v) ==
  {Body(op, v, 0, 0) : op \in {"learning.evaluate", "tool.disable", "tool.revoke"}}
  \cup {Body("learning.approve", v, 0, n) : n \in Allowances}

OnNew ==
  {Body("create", New, 0, b) : b \in Budgets}
  \cup {Body("memory.put", New, 0, o) : o \in {x \in Owners : Home \in Created}}
  \cup {Body("tool.propose", Cardinality(Drafted) + 1, Cardinality(Drafted), k) : k \in DOMAIN Kinds}

Possible ==
  OnNew \cup (UNION {OnSystem(s) : s \in Created}) \cup (UNION {OnTool(v) : v \in Drafted})
    \cup (UNION {OnMemory(i) : i \in {j \in Ids : Exists(j)}})

Askable == {body \in Possible : body.op \in scenario.ops}

\* What it has read of the thing it asks about.
Saw(body) == IF body.on \in Systems THEN system[body.on].stamp
             ELSE IF body.on \in Ids THEN Content(body.on) ELSE 0

Idle == [key |-> NoKey, attempt |-> 0]

Init ==
  /\ MemoryInit
  /\ cfg \in Definitions
  /\ \E state \in {"inactive", "running"} :
       system = [s \in Systems |-> IF s \in Existing
                 THEN [Uncreated EXCEPT !.state = state, !.revision = 1, !.budget = ExistingBudget]
                 ELSE Uncreated]
  /\ receipts = [k \in Keys |-> <<>>]
  /\ waiting = [c \in Clients |-> Idle]
  /\ inflight = {}
  /\ effects = <<>> /\ heard = {}
  /\ scenario \in Scenarios /\ LearningInit(scenario.learned)
  /\ requests = 0 /\ restarts = 0

\* A client makes up a request.  It may use a key it, or another, used before.
Ask(c, k, body) ==
  /\ waiting[c] = Idle
  /\ requests < scenario.requests
  /\ Cardinality({d \in Clients : waiting[d] # Idle}) < scenario.clients
  /\ requests' = requests + 1
  /\ LET r == [client |-> c, key |-> k, body |-> body, saw |-> Saw(body), attempt |-> 1]
     IN waiting' = [waiting EXCEPT ![c] = r] /\ inflight' = inflight \cup {r}
  /\ UNCHANGED <<memoryVars, learningVars, system, cfg, receipts, effects, heard, scenario, restarts>>

\* It hears nothing in time and sends the same again; the first may be on its way.
Retry(c) ==
  /\ waiting[c] # Idle
  /\ waiting[c].attempt < scenario.attempts
  /\ LET r == [waiting[c] EXCEPT !.attempt = @ + 1]
     IN waiting' = [waiting EXCEPT ![c] = r] /\ inflight' = inflight \cup {r}
  /\ UNCHANGED <<memoryVars, learningVars, system, cfg, receipts, effects, heard, scenario, requests, restarts>>

\* It gives up, or its connection breaks: nobody reads the answer any more.
GiveUp(c) ==
  /\ waiting[c] # Idle
  /\ waiting' = [waiting EXCEPT ![c] = Idle]
  /\ UNCHANGED <<memoryVars, learningVars, system, cfg, receipts, inflight, effects, heard, scenario, requests, restarts>>

----------------------------------------------------------------------------
(* The mutations.  Each is the body of one transaction.                    *)

Busy == {"running", "stopping", "paused"}

\* Configuration.Inspect: the saved revision no longer matches the file.
Blocked(s) == system[s].digest # cfg

\* CreateSystem, under a fresh identity.
CreateSystem(r) ==
  /\ Created # Systems
  /\ system' = [system EXCEPT ![FreshSystem] =
       [state |-> "inactive", revision |-> 1, digest |-> cfg, budget |-> r.body.arg,
        used |-> 0, reserved |-> 0, over |-> 0, stamp |-> Len(effects) + 1]]

\* Mutants: a revision written from a stale read; one that forgets what is reserved.
ReviseSystem_Stale(r, s) ==
  /\ system[s].state \notin Busy
  /\ r.body.arg >= Spent(s)
  /\ system[s].revision < MaxSystemRevision
  /\ system' = [system EXCEPT ![s].revision = @ + 1, ![s].digest = cfg,
       ![s].budget = r.body.arg, ![s].over = 0, ![s].stamp = Len(effects) + 1]

ReviseSystem_Lowers(r, s) ==
  /\ r.body.expected = system[s].revision
  /\ system[s].state \notin Busy
  /\ r.body.arg >= system[s].used
  /\ system[s].revision < MaxSystemRevision
  /\ system' = [system EXCEPT ![s].revision = @ + 1, ![s].digest = cfg,
       ![s].budget = r.body.arg, ![s].over = 0, ![s].stamp = Len(effects) + 1]

\* ReviseSystem binds the new configuration to the current definitions.
ReviseSystem(r, s) ==
  /\ r.body.expected = system[s].revision
  /\ system[s].state \notin Busy
  /\ r.body.arg >= Spent(s)
  /\ system[s].revision < MaxSystemRevision
  /\ system' = [system EXCEPT ![s].revision = @ + 1, ![s].digest = cfg,
       ![s].budget = r.body.arg, ![s].over = 0, ![s].stamp = Len(effects) + 1]

\* ReviseSystem, naming other local pins and leaving the budget alone.
Regrant(r, s) ==
  /\ s = Home
  /\ ReviseSystem([r EXCEPT !.body.arg = system[s].budget], s)
  /\ Grant(Pins(r.body.arg), now)

\* The tasks and the local pins of module Learning.
TasksOf(s) == IF s = Home THEN Tasks ELSE {}
PinsOf(s) == IF s = Home THEN grants ELSE {}

\* StartSystem refuses what is blocked, spent, or beyond the daemon's capacity.
\* The pins it authorizes are the operator's own, any part of the system's: none here.
StartSystem(r, s) ==
  /\ r.body.expected = system[s].revision
  /\ system[s].state \notin Busy
  /\ ~Blocked(s)
  /\ Cardinality({t \in Systems : system[t].state \in {"running", "stopping"}}) < MaxOperators
  /\ Remaining(s)
  /\ system' = [system EXCEPT ![s].state = "running"]

\* StopSystem, of a system in any state.
StopSystem(s) ==
  system' = [system EXCEPT ![s].state = IF @ \in Busy THEN "stopping" ELSE "stopped"]

\* Control, scope "system": only resume looks at the definitions.
PauseOrResume(r, s) ==
  /\ system[s].state \in {"running", "paused"}
  /\ r.body.op = "resume" => ~Blocked(s)
  /\ system' = [system EXCEPT ![s].state = IF r.body.op = "pause" THEN "paused" ELSE "running"]

SystemCommand(r) ==
  /\ \/ /\ \/ r.body.op = "create" /\ CreateSystem(r)
           \/ \E s \in Created \cap {r.body.on} :
                \/ r.body.op = "revise" /\ ReviseSystem(r, s) /\ Authorized(PinsOf(s), now)
                \/ r.body.op = "start" /\ StartSystem(r, s)
                \/ r.body.op \in {"pause", "resume"} /\ PauseOrResume(r, s)
        /\ UNCHANGED learningVars
     \/ \E s \in Created \cap {r.body.on} :
          \/ r.body.op = "regrant" /\ Regrant(r, s)
          \/ r.body.op = "stop" /\ StopSystem(s) /\ EndTasks(TasksOf(s))
  /\ UNCHANGED <<heads, rows, writes, author, reviewed>>

\* PutMemory and ChangeMemoryState.
MemoryCommand(r) ==
  /\ \E i \in Ids :
       \/ /\ r.body.op = "memory.put"
          /\ r.body.on = New => \E j \in Ids : heads[j] = NoHead
          /\ i = IF r.body.on = New THEN FreshId ELSE r.body.on
          /\ \E n \in Retentions : Put(i, r.body.arg, r.body.expected, Administrator, TRUE, n)
          /\ UNCHANGED reviewed
       \/ /\ r.body.op = "memory.approve" /\ i = r.body.on
          /\ Approve(i, r.body.expected)
          /\ reviewed' = reviewed \cup {r.saw}
       \/ /\ r.body.op = "memory.delete" /\ i = r.body.on
          /\ Delete(i, r.body.expected)
          /\ UNCHANGED reviewed
  /\ UNCHANGED <<system, learningVars>>

\* What the learning component sees of its system.
Binding == <<system[Home].revision, system[Home].digest>>
Goes == system[Home].state \in {"running", "paused"} /\ ~Blocked(Home)

\* queueLearning; the first calls of a skill's evaluation are prepared at once.
Queues(v, t, notify) ==
  /\ system[Home].state = "running" /\ Remaining(Home)
  /\ drafts[v].kind = "skill" => ~Blocked(Home)
  /\ Evaluate(v, t, notify, Binding, now)

\* ProposeTool, EvaluateLearning, ApproveLearning, ChangeDraftState, RevokeTool.
ToolCommand(r) ==
  /\ \E v \in Versions \cap {r.body.on} :
       \/ r.body.op = "tool.propose" /\ Propose(v, r.body.expected, Kinds[r.body.arg])
       \/ r.body.op = "learning.evaluate" /\ \E t \in Tasks : Queues(v, t, FALSE)
       \/ /\ r.body.op = "learning.approve" /\ ~Blocked(Home)
          /\ \E n \in Lifetimes : ApproveLearning(v, r.body.arg, n, Binding, now)
       \/ r.body.op = "tool.disable" /\ ChangeDraftState(v)
       \/ r.body.op = "tool.revoke" /\ Revoke(v)
  /\ UNCHANGED <<heads, rows, writes, author, reviewed, system>>

\* What the accepted command is answered: the record it changed, and its revision.
Result(r) ==
  LET on == IF r.body.on # New THEN r.body.on
            ELSE IF r.body.op = "create" THEN FreshSystem ELSE FreshId
  IN [id |-> on, revision |-> IF on \in Systems THEN system'[on].revision
                               ELSE IF on \in Ids THEN heads'[on].revision ELSE 0]

----------------------------------------------------------------------------
(* Store.command: the receipt, or the mutation with its receipt, or an     *)
(* error that leaves no trace.                                             *)

Outcome(r, answer) == [key |-> r.key, body |-> r.body, answer |-> answer]

\* The request is dealt with.  The answer reaches the client if it still waits
\* for this attempt and the connection holds; otherwise it is lost.
Answer(r, outcome) ==
  /\ inflight' = inflight \ {r}
  /\ \/ /\ waiting[r.client] = r
        /\ waiting' = [waiting EXCEPT ![r.client] = Idle]
        /\ heard' = heard \cup outcome
     \/ UNCHANGED <<waiting, heard>>
  /\ UNCHANGED <<now, read, cfg, scenario, requests, restarts>>

\* Mutant: the request hash is not compared.
Replay_AnyBody(r) ==
  /\ receipts[r.key] # <<>>
  /\ Answer(r, {Outcome(r, receipts[r.key][1].answer)})
  /\ UNCHANGED <<heads, rows, writes, author, reviewed, learningVars, system, receipts, effects>>

Replay(r) ==
  /\ receipts[r.key] # <<>>
  /\ Answer(r, IF receipts[r.key][1].body = r.body
               THEN {Outcome(r, receipts[r.key][1].answer)} ELSE {})
  /\ UNCHANGED <<heads, rows, writes, author, reviewed, learningVars, system, receipts, effects>>

Execute(r) ==
  /\ receipts[r.key] = <<>>
  /\ SystemCommand(r) \/ MemoryCommand(r) \/ ToolCommand(r)
  /\ receipts' = [receipts EXCEPT ![r.key] = <<[body |-> r.body, answer |-> Result(r)]>>]
  /\ effects' = Append(effects, Outcome(r, Result(r)))
  /\ Answer(r, {Outcome(r, Result(r))})

\* Refused by the mutation or by storage, or never received: rolled back.
Refuse(r) ==
  /\ Answer(r, {})
  /\ UNCHANGED <<heads, rows, writes, author, reviewed, learningVars, system, receipts, effects>>

----------------------------------------------------------------------------
(* The work that goes on between commands, and restarts.                   *)

\* admit reserves the tokens of a call; a pause lets claimed work go on.
Admit(s) ==
  /\ "spend" \in scenario.ops
  /\ system[s].state \in {"running", "paused"} /\ ~Blocked(s) /\ Remaining(s)
  /\ system' = [system EXCEPT ![s].reserved = @ + 1]
  /\ UNCHANGED <<memoryVars, learningVars, cfg, commandVars, restarts>>

\* settle replaces the reservation by the usage that the provider reported, n, in
\* whatever state the system is by then.  A call of unknown outcome keeps its own.
Settle(s, n) ==
  /\ "spend" \in scenario.ops
  /\ system[s].reserved > 0
  /\ system' = [system EXCEPT ![s].reserved = @ - 1, ![s].used = @ + n,
                               ![s].over = @ + IF n > 1 THEN n - 1 ELSE 0]
  /\ UNCHANGED <<memoryVars, learningVars, cfg, commandVars, restarts>>

\* terminateTask of the root (module Workflow).
Finish(s) ==
  /\ system[s].state \in Busy
  /\ system' = [system EXCEPT ![s].state = IF @ = "stopping" THEN "stopped" ELSE "inactive"]
  /\ EndTasks(TasksOf(s))
  /\ UNCHANGED <<memoryVars, cfg, commandVars, restarts>>

\* An agent's memory tool runs in a task of a system that has not been stopped.
AgentTool(a) ==
  /\ "memory.put" \in scenario.ops
  /\ system[Home].state \in {"running", "paused"}
  /\ \E o \in {a, Shared} :
       \/ Search(a, o)
       \/ \E i \in Ids, n \in Retentions :
            /\ heads[i] = NoHead => i = FreshId
            /\ AgentPut(a, i, o, n)
  /\ UNCHANGED <<learningVars, system, cfg, commandVars, restarts>>

\* An agent's task proposes a revision, asks for its evaluation, makes another.
AgentLearns ==
  /\ "learn" \in scenario.ops /\ LiveTasks # {}
  /\ \/ \E v \in Versions, k \in DOMAIN Kinds : Propose(v, Cardinality(Drafted), Kinds[k])
     \/ \E v \in Versions, t \in LiveTasks : Queues(v, t, TRUE)
     \/ \E t \in Tasks : Goes /\ Dispatch(t, now)
     \/ \E t \in LiveTasks : EndTasks({t})
  /\ UNCHANGED <<memoryVars, system, cfg, commandVars, restarts>>

\* The next task of the goal, with pins its agent was granted.
NewTask(t) ==
  /\ "learn" \in scenario.ops
  /\ system[Home].state = "running" /\ Goes
  /\ \E pins \in SUBSET grants : BeginTask(t, pins, now)
  /\ UNCHANGED <<memoryVars, system, cfg, commandVars, restarts>>

\* The evaluations' own tasks.
Evaluates(v) ==
  /\ \/ system[Home].state = "running" /\ ClaimBuild(v, Binding, Goes, now)
     \/ SkillPasses(v, Binding, Goes, now)
     \/ WorkEnds(v)
     \/ \E ok \in BOOLEAN, refused \in SUBSET LiveTasks : CompleteBuild(v, ok, refused, Binding, Goes, now)
  /\ UNCHANGED <<memoryVars, system, cfg, commandVars, restarts>>

Scheduler ==
  /\ \/ (Pump \/ Tick) /\ UNCHANGED learningVars
     \/ \E refused \in SUBSET LiveTasks : PumpLearning(refused, Binding, Goes, now) /\ UNCHANGED memoryVars
  /\ UNCHANGED <<system, cfg, commandVars, restarts>>

\* The daemon stops, at any point, and starts with the configuration file as it
\* then is.  What had not committed is gone; what had is kept.
Restart ==
  /\ restarts < scenario.restarts
  /\ restarts' = restarts + 1
  /\ cfg' \in Definitions
  /\ inflight' = {}
  /\ Interrupted
  /\ UNCHANGED <<memoryVars, system, receipts, waiting, effects, heard, scenario, requests>>

Next ==
  \/ \E c \in Clients :
       \/ \E k \in Keys : \E body \in Askable : Ask(c, k, body)
       \/ Retry(c)
       \/ GiveUp(c)
  \/ \E r \in inflight : Replay(r) \/ Execute(r) \/ Refuse(r)
  \/ \E s \in Created : Admit(s) \/ Finish(s) \/ \E n \in Usages : Settle(s, n)
  \/ \E a \in Agents : AgentTool(a)
  \/ AgentLearns
  \/ \E t \in Tasks : NewTask(t)
  \/ \E v \in Versions : Evaluates(v)
  \/ Scheduler
  \/ Restart

Spec == Init /\ [][Next]_vars

----------------------------------------------------------------------------
(* Properties.                                                             *)

Promise == INSTANCE Once WITH effects <- effects, heard <- heard

\* Retries, lost answers, reused keys, refusals and restarts included, a key of
\* Store.command takes effect at most once, and whoever is told it was accepted
\* is told the outcome of that one effect for the request it made itself.
OncePerKey == Promise!Spec

\* Nobody overwrites what it has not read.  ReviseSystem and putMemory replace a
\* configuration or a content only when the writer's command, however late it
\* arrives, was written from exactly what it replaces.
NoBlindOverwrite ==
  [][/\ \A s \in Created : system'[s].stamp # system[s].stamp =>
          \E r \in inflight \ inflight' : r.body.on = s /\ r.saw = system[s].stamp
     /\ \A i \in Ids : heads[i].state \in States /\ heads'[i].revision # heads[i].revision =>
          \/ \E r \in inflight \ inflight' : r.body.on = i /\ r.saw = Content(i)
          \/ \E a \in Agents : read[a][i].content = Content(i) /\ author'[writes'] = a]_vars

\* A revision never sets the budget below what is used or still reserved
\* (ReviseSystem), and afterwards only a provider's report takes the two past it: by
\* what was reported above a reservation since that revision, whichever calls of an
\* earlier goal or revision are settled late, and whatever stops, restarts and late
\* revisions come in between.
BudgetCovers == \A s \in Created : Spent(s) <= system[s].budget + system[s].over

\* A shared entry agents can find changes or disappears only by an accepted
\* command of the administrator or by the end of its retention: no proposal of an
\* agent hides or replaces it (comment in putMemory).
SharedStands ==
  [][\A i \in Found(Shared) :
       \/ i \in Found(Shared)' /\ Content(i)' = Content(i)
       \/ effects' # effects
       \/ heads[i].expires <= now']_vars
=============================================================================
