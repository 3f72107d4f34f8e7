------------------------------- MODULE Broker -------------------------------
(***************************************************************************)
(* The model broker: admission of model calls to shared quota groups and   *)
(* token budgets, dispatch to the provider, settlement, throttled retries, *)
(* cancellation, and recovery after a restart.                             *)
(*                                                                         *)
(* Every method of the store is one SQLite transaction on one connection,  *)
(* so every action below is atomic; what interleaves is the sequence of    *)
(* transactions of the goroutines that run the broker loop (one per        *)
(* activation), the control commands, the clock and a daemon restart.      *)
(*                                                                         *)
(* Accounts are the token budgets a call is charged to: its system, its    *)
(* goal, its agent and every agent of the creation and delegation          *)
(* ancestry.  The code repeats the same arithmetic in the three tables     *)
(* systems, goals and agent_usage; here it is one function per column.     *)
(* Requests, responses and prices are abstracted to their token counts.    *)
(* Operators named X_<fault> are faulty variants of X: each shows that a   *)
(* property below can fail.  Nothing else uses them.                       *)
(*                                                                         *)
(* Time is in ticks; request credit is in CreditUnit-ths of a request, so  *)
(* that the refill of one tick is the integer Refill[g].                   *)
(***************************************************************************)
EXTENDS Weights

CONSTANTS
  Systems, Calls, Groups, Accounts,
  SystemOf,         \* the system a call belongs to
  GroupsOf,         \* the quota groups of the call's model
  Charged,          \* the accounts a call is charged to
  Ancestors,        \* the accounts that are agent budgets
  Limit,            \* token budget of an account
  MaxConcurrent, TokensPerMinute, BurstRequests, QueueCapacity, MaxWait,
  Refill, CreditUnit,
  Window,           \* the rolling token window ("one minute")
  TaskLife,         \* ticks from preparing a call to its deadline
  ScanLimit,        \* rows one admission looks at (MaxOperators)
  Sizes,            \* the reservations a request can have
  Actuals,          \* the usages a provider can report
  Delays,           \* cooldowns a throttled answer can ask for
  MaxTime,          \* bound on the clock
  MaxSkew           \* how far the wall clock may be set back

MaxAttempts == 3

ASSUME BrokerAssumption ==
  /\ IsFiniteSet(Calls) /\ IsFiniteSet(Groups)
  /\ SystemOf \in [Calls -> Systems]
  /\ GroupsOf \in [Calls -> SUBSET Groups]
  /\ \A c \in Calls : GroupsOf[c] # {}
  /\ Charged \in [Calls -> SUBSET Accounts]
  /\ Ancestors \subseteq Accounts
  /\ Limit \in [Accounts -> Nat]
  /\ MaxConcurrent \in [Groups -> Nat] /\ TokensPerMinute \in [Groups -> Nat]
  /\ BurstRequests \in [Groups -> Nat] /\ QueueCapacity \in [Groups -> Nat]
  /\ MaxWait \in [Groups -> Nat] /\ Refill \in [Groups -> Nat]
  /\ CreditUnit \in Nat \ {0}
  /\ Window \in Nat /\ TaskLife \in Nat /\ ScanLimit \in Nat
  /\ Sizes \subseteq Nat /\ Actuals \subseteq Nat /\ Delays \subseteq Nat
  /\ MaxTime \in Nat /\ MaxSkew \in Nat

VARIABLES
  now,            \* the daemon's wall clock
  systemState,    \* systems.state
  authorised,     \* the call's task, agent, goal, pins and revision still allow it
  callState,      \* model_calls.state
  sequence,       \* model_calls.sequence
  reservation,    \* model_calls.reservation
  deadline,       \* model_calls.deadline
  waitDeadline,   \* model_calls.wait_deadline
  callUsed,       \* model_calls.input_tokens + output_tokens
  session,        \* the activation goroutine that owns the call
  attempts,       \* model_calls.attempts
  attemptState,   \* model_attempts.state
  attemptAt,      \* model_attempts.dispatched_at
  attemptTokens,  \* model_attempts.reservation
  lastAdmission,  \* systems.last_admission
  used, reserved, \* used_tokens and reserved_tokens of an account
  credit, updated, cooldown,  \* quota_state
  broken          \* modelBroker.broken

callVars == <<authorised, callState, sequence, reservation, deadline, waitDeadline, callUsed>>
attemptVars == <<attempts, attemptState, attemptAt, attemptTokens, lastAdmission>>
moneyVars == <<used, reserved>>
quotaVars == <<credit, updated, cooldown>>
vars == <<now, systemState, callVars, session, attemptVars, moneyVars, quotaVars, broken>>

\* Attempt n of call c: the primary key of model_attempts in dispatch order.
Attempts == Calls \X (1..MaxAttempts)

Waiting == {"awaiting_worker", "queued"}
Final == {"completed", "failed", "canceled", "rejected", "unknown"}

Init ==
  /\ now = 0
  /\ systemState = [s \in Systems |-> "inactive"]
  /\ authorised = [c \in Calls |-> TRUE]
  /\ callState = [c \in Calls |-> "none"]
  /\ sequence = [c \in Calls |-> 0]
  /\ reservation = [c \in Calls |-> 0]
  /\ deadline = [c \in Calls |-> 0]
  /\ waitDeadline = [c \in Calls |-> 0]
  /\ callUsed = [c \in Calls |-> 0]
  /\ session = [c \in Calls |-> "none"]
  /\ attempts = [c \in Calls |-> 0]
  /\ attemptState = [x \in Attempts |-> "none"]
  /\ attemptAt = [x \in Attempts |-> 0]
  /\ attemptTokens = [x \in Attempts |-> 0]
  /\ lastAdmission = [s \in Systems |-> 0]
  /\ used = [a \in Accounts |-> 0]
  /\ reserved = [a \in Accounts |-> 0]
  /\ credit = [g \in Groups |-> BurstRequests[g] * CreditUnit]
  /\ updated = [g \in Groups |-> 0]
  /\ cooldown = [g \in Groups |-> 0]
  /\ broken = FALSE

-----------------------------------------------------------------------------
(* Queries *)

\* count(*) of the group's calls in awaiting_worker or queued.
QueueLength(g) == Cardinality({c \in Calls : g \in GroupsOf[c] /\ callState[c] \in Waiting})

Remaining(a) == Limit[a] - used[a] - reserved[a]

\* The queue wait of a call: the shortest of its groups.
Waits(c) == {w \in {MaxWait[g] : g \in GroupsOf[c]} : \A g \in GroupsOf[c] : w <= MaxWait[g]}

Dispatched(g) == {x \in Attempts : g \in GroupsOf[x[1]] /\ attemptState[x] # "none"}
InFlight(g) == {x \in Dispatched(g) : attemptState[x] = "running"}

\* The group's clock never runs backwards, whatever the wall clock does.
Effective(g) == Greatest(now, updated[g])
Refilled_Rounded(g) ==
  LET sum == credit[g] + (Effective(g) - updated[g]) * Refill[g]
  IN Least(BurstRequests[g] * CreditUnit, ((sum + CreditUnit - 1) \div CreditUnit) * CreditUnit)
Refilled(g) == Least(BurstRequests[g] * CreditUnit, credit[g] + (Effective(g) - updated[g]) * Refill[g])
WindowTokens_Short(g) ==
  Weight({x \in Dispatched(g) : attemptAt[x] > Effective(g) - Window + 1}, attemptTokens)
WindowTokens(g) ==
  Weight({x \in Dispatched(g) : attemptAt[x] > Effective(g) - Window}, attemptTokens)

GroupAllows_OneMore(g, c) ==
  /\ Refilled(g) >= CreditUnit /\ cooldown[g] <= now
  /\ WindowTokens(g) + reservation[c] <= TokensPerMinute[g]
  /\ Cardinality(InFlight(g)) <= MaxConcurrent[g]

\* Rate, cooldown, token window and concurrency of one group allow call c.
GroupAllows(g, c) ==
  /\ Refilled(g) >= CreditUnit
  /\ cooldown[g] <= now
  /\ WindowTokens(g) + reservation[c] <= TokensPerMinute[g]
  /\ Cardinality(InFlight(g)) < MaxConcurrent[g]

Fit_IgnoresReserved(c) ==
  /\ systemState[SystemOf[c]] \in {"running", "paused"} /\ authorised[c]
  /\ now < waitDeadline[c] /\ now < deadline[c]
  /\ \A a \in Charged[c] : reservation[c] <= Limit[a] - used[a]

\* The checks that reject a queued call instead of leaving it in the queue.
Fit(c) ==
  /\ systemState[SystemOf[c]] \in {"running", "paused"}
  /\ authorised[c]
  /\ now < waitDeadline[c] /\ now < deadline[c]
  /\ \A a \in Charged[c] : reservation[c] <= Remaining(a)

Queued == {c \in Calls : callState[c] = "queued"}
Admissible == {c \in Queued : Fit(c) /\ \A g \in GroupsOf[c] : GroupAllows(g, c)}

\* ORDER BY systems.last_admission, model_calls.sequence.
Before(d, c) ==
  \/ lastAdmission[SystemOf[d]] < lastAdmission[SystemOf[c]]
  \/ lastAdmission[SystemOf[d]] = lastAdmission[SystemOf[c]] /\ sequence[d] < sequence[c]

\* The first ScanLimit rows of the queue.
Candidates == {c \in Queued : Cardinality({d \in Queued : Before(d, c)}) < ScanLimit}

\* The rows a scan visits when it stops at the first row of the set stops.
Visited(stops) == {d \in Candidates : \A s \in stops \cap Candidates : ~Before(s, d)}

IsNext_AsksFirst(c) == c \in Admissible

\* The one call after which a scan can do nothing but stop.
IsNext(c) == c \in Admissible \cap Candidates /\ \A d \in Admissible \cap Candidates : ~Before(d, c)

-----------------------------------------------------------------------------
(* Preparing calls, and the life of the task that owns them *)

\* A new row in model_calls: continuation, delegated task or first call of a goal.
\* (StartSystem leaves wait_deadline uncapped by the deadline; admission checks both.)
Insert(c, r) ==
  /\ callState[c] = "none"
  /\ now + TaskLife <= MaxTime                      \* bound of the model
  /\ \A a \in Charged[c] \ Ancestors : r <= Remaining(a)
  /\ \A g \in GroupsOf[c] : QueueLength(g) < QueueCapacity[g] /\ r <= TokensPerMinute[g]
  /\ callState' = [callState EXCEPT ![c] = "awaiting_worker"]
  /\ sequence' = [sequence EXCEPT ![c] = 1 + Cardinality({d \in Calls : callState[d] # "none"})]
  /\ reservation' = [reservation EXCEPT ![c] = r]
  /\ deadline' = [deadline EXCEPT ![c] = now + TaskLife]
  /\ \E w \in Waits(c) : waitDeadline' = [waitDeadline EXCEPT ![c] = Least(now + TaskLife, now + w)]
  /\ UNCHANGED <<now, authorised, callUsed, session, attemptVars, moneyVars, quotaVars, broken>>

\* An authenticated start: the first call of a new goal and the running system.
Start(c, r) ==
  /\ ~broken
  /\ systemState[SystemOf[c]] \in {"inactive", "stopped"}
  /\ authorised[c]
  /\ Insert(c, r)
  /\ systemState' = [systemState EXCEPT ![SystemOf[c]] = "running"]

\* prepareNextCall for a live task: its next turn, or a delegated task's first.
Prepare(c, r) ==
  /\ systemState[SystemOf[c]] \in {"running", "paused"}
  /\ authorised[c]
  /\ Insert(c, r)
  /\ UNCHANGED systemState

\* The scheduler leases the delivery of the call's task.  A call that was never
\* dispatched gets a request, hence a reservation, rebuilt from the current
\* conversation; neither budgets nor quotas are looked at again.  (A completed
\* call resumed after a restart passes through the broker without effect.)
Claim(c, r) ==
  /\ ~broken
  /\ session[c] = "none" /\ callState[c] \in Waiting
  /\ systemState[SystemOf[c]] = "running" /\ authorised[c]
  /\ IF callState[c] = "awaiting_worker" /\ attempts[c] = 0
       THEN reservation' = [reservation EXCEPT ![c] = r]
       ELSE r = reservation[c] /\ UNCHANGED reservation
  /\ session' = [session EXCEPT ![c] = "claimed"]
  /\ UNCHANGED <<now, systemState, authorised, callState, sequence, deadline, waitDeadline,
                 callUsed, attemptVars, moneyVars, quotaVars, broken>>

\* The worker asks for its model call: modelBroker.call starts with admission.queue.
Queue(c) ==
  /\ session[c] = "claimed"
  /\ session' = [session EXCEPT ![c] = "polling"]
  /\ callState' = [callState EXCEPT ![c] = IF @ = "awaiting_worker" THEN "queued" ELSE @]
  /\ UNCHANGED <<now, systemState, authorised, sequence, reservation, deadline, waitDeadline,
                 callUsed, attemptVars, moneyVars, quotaVars, broken>>

\* The activation ends with an error, before it asked for its call or because of
\* a storage failure: finishDelivery returns a call that was never dispatched to
\* awaiting_worker (again), or ends it with its task.
Release(c, again) ==
  /\ session[c] \in {"claimed", "ending"}
  /\ again => attempts[c] = 0 /\ callState[c] \in Waiting
  /\ session' = [session EXCEPT ![c] = "none"]
  /\ callState' = [callState EXCEPT ![c] =
       IF @ \notin Waiting THEN @ ELSE IF again THEN "awaiting_worker" ELSE "failed"]
  /\ UNCHANGED <<now, systemState, authorised, sequence, reservation, deadline, waitDeadline,
                 callUsed, attemptVars, moneyVars, quotaVars, broken>>

-----------------------------------------------------------------------------
(* Admission: one call of admit by the activation that owns call c *)

\* Bookkeeping of the visited rows: the rejected ones become final, the groups of
\* the others are refilled.  c is charged if dispatched, final if denied.
Scan(c, visited, dispatched, denied) ==
  LET rejects == {d \in visited : ~Fit(d)} \cup denied
      touched == UNION {GroupsOf[d] : d \in visited \ {e \in visited : ~Fit(e)}}
      spent(g) == IF dispatched /\ g \in GroupsOf[c] THEN CreditUnit ELSE 0
  IN  /\ callState' = [d \in Calls |->
           IF d \in rejects THEN "rejected" ELSE IF dispatched /\ d = c THEN "running" ELSE callState[d]]
      /\ credit' = [g \in Groups |-> IF g \in touched THEN Refilled(g) - spent(g) ELSE credit[g]]
      /\ updated' = [g \in Groups |-> IF g \in touched THEN Effective(g) ELSE updated[g]]

\* The latest group clock: dispatched_at is never earlier than a window it must count in.
DispatchTimes(c) == {t \in {Effective(g) : g \in GroupsOf[c]} : \A g \in GroupsOf[c] : Effective(g) <= t}

\* The call is next and every check passes: quotas, budgets and the attempt commit together.
Dispatch(c) ==
  /\ IsNext(c)
  /\ LET x == <<c, attempts[c] + 1>> IN
       /\ Scan(c, Visited({c}), TRUE, {})
       /\ attempts' = [attempts EXCEPT ![c] = @ + 1]
       /\ attemptState' = [attemptState EXCEPT ![x] = "running"]
       /\ \E t \in DispatchTimes(c) : attemptAt' = [attemptAt EXCEPT ![x] = t]
       /\ attemptTokens' = [attemptTokens EXCEPT ![x] = reservation[c]]
  /\ lastAdmission' = [lastAdmission EXCEPT ![SystemOf[c]] =
       1 + Cardinality({y \in Attempts : attemptState[y] # "none"})]
  /\ reserved' = [a \in Accounts |-> IF a \in Charged[c] THEN reserved[a] + reservation[c] ELSE reserved[a]]
  /\ session' = [session EXCEPT ![c] = "sending"]
  /\ UNCHANGED <<used, cooldown, broken>>

\* The call is next but its learned tools have no use left: it alone is
\* rejected and the scan goes on to the next admissible row.
Deny(c) ==
  /\ IsNext(c)
  /\ Scan(c, Visited(Admissible \ {c}), FALSE, {c})
  /\ UNCHANGED <<attemptVars, moneyVars, cooldown, session, broken>>

\* Another call is next, or none is: the scan only sweeps what it visits.
Sweep(c) ==
  /\ ~IsNext(c)
  /\ Scan(c, Visited(Admissible), FALSE, {})
  /\ UNCHANGED <<attemptVars, moneyVars, cooldown, session, broken>>

Admit(c) ==
  /\ session[c] = "polling" /\ callState[c] = "queued" /\ ~broken
  /\ Dispatch(c) \/ Deny(c) \/ Sweep(c)
  /\ UNCHANGED <<now, systemState, authorised, sequence, reservation, deadline, waitDeadline, callUsed>>

\* A storage error in admit, or in the commit of cancelQueued: nothing changes in
\* the store, dispatch is disabled.
StorageFails(c) ==
  /\ session[c] = "polling" /\ callState[c] \in Waiting
  /\ broken' = TRUE
  /\ session' = [session EXCEPT ![c] = "ending"]
  /\ UNCHANGED <<now, systemState, callVars, attemptVars, moneyVars, quotaVars>>

Leave_OnlyFinal(c) ==
  /\ session[c] = "polling" /\ callState[c] \in Final
  /\ session' = [session EXCEPT ![c] = "none"]
  /\ UNCHANGED <<now, systemState, callVars, attemptVars, moneyVars, quotaVars, broken>>

\* The loop ends: the call is final, or the broker is disabled.
Leave(c) ==
  /\ session[c] = "polling"
  /\ callState[c] \in Final \/ broken
  /\ session' = [session EXCEPT ![c] = IF broken THEN "ending" ELSE "none"]
  /\ UNCHANGED <<now, systemState, callVars, attemptVars, moneyVars, quotaVars, broken>>

CancelQueued_Anyway(c) ==
  /\ session[c] = "polling"
  /\ session' = [session EXCEPT ![c] = "none"]
  /\ callState' = [callState EXCEPT ![c] = "canceled"]
  /\ UNCHANGED <<now, systemState, authorised, sequence, reservation, deadline, waitDeadline,
                 callUsed, attemptVars, moneyVars, quotaVars, broken>>

\* The activation's context ends (stop, deadline, shutdown): cancelQueued.
CancelQueued(c) ==
  /\ session[c] = "polling"
  /\ session' = [session EXCEPT ![c] = "none"]
  /\ callState' = [callState EXCEPT ![c] = IF @ \in Waiting THEN "canceled" ELSE @]
  /\ UNCHANGED <<now, systemState, authorised, sequence, reservation, deadline, waitDeadline,
                 callUsed, attemptVars, moneyVars, quotaVars, broken>>

-----------------------------------------------------------------------------
(* Settlement *)

Known_ReleasesUsage(c, actual) ==
  LET x == <<c, attempts[c]>> IN
  /\ attemptState' = [attemptState EXCEPT ![x] = "known"]
  /\ attemptTokens' = [attemptTokens EXCEPT ![x] = Greatest(@, actual)]
  /\ callUsed' = [callUsed EXCEPT ![c] = @ + actual]
  /\ reserved' = [a \in Accounts |-> IF a \in Charged[c] THEN reserved[a] - actual ELSE reserved[a]]
  /\ used' = [a \in Accounts |-> IF a \in Charged[c] THEN used[a] + actual ELSE used[a]]

\* The attempt's row and the call's totals once the provider's usage is known.
\* The rate window keeps the larger of estimate and usage.
Known(c, actual) ==
  LET x == <<c, attempts[c]>> IN
  /\ attemptState' = [attemptState EXCEPT ![x] = "known"]
  /\ attemptTokens' = [attemptTokens EXCEPT ![x] = Greatest(@, actual)]
  /\ callUsed' = [callUsed EXCEPT ![c] = @ + actual]
  /\ reserved' = [a \in Accounts |-> IF a \in Charged[c] THEN reserved[a] - reservation[c] ELSE reserved[a]]
  /\ used' = [a \in Accounts |-> IF a \in Charged[c] THEN used[a] + actual ELSE used[a]]

\* A validated answer, or a definite failure: the reservation is reconciled.
SettleKnown(c, actual, outcome) ==
  /\ Known(c, actual)
  /\ callState' = [callState EXCEPT ![c] = outcome]
  /\ UNCHANGED <<waitDeadline, cooldown>>

CanRetry_Overfills(c) ==
  attempts[c] < MaxAttempts /\ now < deadline[c] /\ systemState[SystemOf[c]] = "running"

\* HTTP 429: no usage, a shared cooldown, and another turn in the queue if
\* attempts, deadline, system state and every group's capacity permit.
CanRetry(c) ==
  /\ attempts[c] < MaxAttempts /\ now < deadline[c]
  /\ systemState[SystemOf[c]] = "running"
  /\ \A g \in GroupsOf[c] : QueueLength(g) < QueueCapacity[g]

SettleThrottled(c, delay) ==
  /\ Known(c, 0)
  /\ cooldown' = [g \in Groups |-> IF g \in GroupsOf[c] THEN Greatest(cooldown[g], now + delay) ELSE cooldown[g]]
  /\ IF CanRetry(c)
       THEN /\ callState' = [callState EXCEPT ![c] = "queued"]
            /\ \E w \in Waits(c) : waitDeadline' = [waitDeadline EXCEPT ![c] = Least(deadline[c], now + w)]
       ELSE /\ callState' = [callState EXCEPT ![c] = "failed"]
            /\ UNCHANGED waitDeadline

SettleUnknown_Refunds(c) ==
  /\ attemptState' = [attemptState EXCEPT ![<<c, attempts[c]>>] = "unknown"]
  /\ callState' = [callState EXCEPT ![c] = "unknown"]
  /\ reserved' = [a \in Accounts |-> IF a \in Charged[c] THEN reserved[a] - reservation[c] ELSE reserved[a]]
  /\ UNCHANGED <<attemptTokens, callUsed, used, waitDeadline, cooldown>>

SettleUnknown_Retries(c) ==
  /\ attemptState' = [attemptState EXCEPT ![<<c, attempts[c]>>] = "unknown"]
  /\ callState' = [callState EXCEPT ![c] = IF attempts[c] < MaxAttempts THEN "queued" ELSE "unknown"]
  /\ UNCHANGED <<attemptTokens, callUsed, moneyVars, waitDeadline, cooldown>>

\* An ambiguous outcome: nothing is released.
SettleUnknown(c) ==
  /\ attemptState' = [attemptState EXCEPT ![<<c, attempts[c]>>] = "unknown"]
  /\ callState' = [callState EXCEPT ![c] = "unknown"]
  /\ UNCHANGED <<attemptTokens, callUsed, moneyVars, waitDeadline, cooldown>>

Settle(c) ==
  /\ session[c] = "sending" /\ callState[c] = "running"
  /\ \/ \E actual \in Actuals, outcome \in {"completed", "failed"} : SettleKnown(c, actual, outcome)
     \/ \E delay \in Delays : SettleThrottled(c, delay)
     \/ SettleUnknown(c)
  /\ session' = [session EXCEPT ![c] = "polling"]
  /\ UNCHANGED <<now, systemState, authorised, sequence, reservation, deadline, attempts,
                 attemptAt, lastAdmission, credit, updated, broken>>

SettleFails_Forgets(c) ==
  /\ session[c] = "sending"
  /\ session' = [session EXCEPT ![c] = "ending"]
  /\ UNCHANGED <<now, systemState, callVars, attemptVars, moneyVars, quotaVars, broken>>

\* The settlement does not commit: the reservation stays, dispatch is disabled.
SettleFails(c) ==
  /\ session[c] = "sending"
  /\ session' = [session EXCEPT ![c] = "ending"]
  /\ broken' = TRUE
  /\ UNCHANGED <<now, systemState, callVars, attemptVars, moneyVars, quotaVars>>

-----------------------------------------------------------------------------
(* Controls, task ends, restart, clock *)

CallsOf(s) == {c \in Calls : SystemOf[c] = s /\ callState[c] # "none"}

Pause(s) ==
  /\ systemState[s] = "running"
  /\ systemState' = [systemState EXCEPT ![s] = "paused"]
  /\ UNCHANGED <<now, callVars, session, attemptVars, moneyVars, quotaVars, broken>>

Resume(s) ==
  /\ systemState[s] = "paused"
  /\ systemState' = [systemState EXCEPT ![s] = "running"]
  /\ UNCHANGED <<now, callVars, session, attemptVars, moneyVars, quotaVars, broken>>

\* Stop: what is not leased ends at once, what is leased drains.
Stop(s) ==
  /\ systemState[s] \in {"running", "paused"}
  /\ systemState' = [systemState EXCEPT ![s] =
       IF \E c \in CallsOf(s) : session[c] # "none" THEN "stopping" ELSE "stopped"]
  /\ authorised' = [c \in Calls |-> IF c \in CallsOf(s) THEN FALSE ELSE authorised[c]]
  /\ callState' = [c \in Calls |->
       IF c \in CallsOf(s) /\ session[c] = "none" /\ callState[c] \in Waiting THEN "canceled" ELSE callState[c]]
  /\ UNCHANGED <<now, sequence, reservation, deadline, waitDeadline, callUsed, session,
                 attemptVars, moneyVars, quotaVars, broken>>

Stopped(s) ==
  /\ systemState[s] = "stopping"
  /\ \A c \in CallsOf(s) : session[c] = "none"
  /\ systemState' = [systemState EXCEPT ![s] = "stopped"]
  /\ UNCHANGED <<now, callVars, session, attemptVars, moneyVars, quotaVars, broken>>

\* The root task ends: the system is inactive again.  Calls of descendants may
\* still be queued or in flight; their agents and tasks are stopped.
Finish(s) ==
  /\ systemState[s] \in {"running", "paused"}
  /\ \E c \in CallsOf(s) : callState[c] \in Final
  /\ systemState' = [systemState EXCEPT ![s] = "inactive"]
  /\ authorised' = [c \in Calls |-> IF c \in CallsOf(s) THEN FALSE ELSE authorised[c]]
  /\ UNCHANGED <<now, callState, sequence, reservation, deadline, waitDeadline, callUsed, session,
                 attemptVars, moneyVars, quotaVars, broken>>

\* terminateTask: the task of a call ends whatever its activation is doing.
EndTask(c) ==
  /\ callState[c] # "none" /\ (authorised[c] \/ callState[c] \in Waiting)
  /\ authorised' = [authorised EXCEPT ![c] = FALSE]
  /\ callState' = [callState EXCEPT ![c] = IF @ \in Waiting THEN "canceled" ELSE @]
  /\ UNCHANGED <<now, systemState, sequence, reservation, deadline, waitDeadline, callUsed, session,
                 attemptVars, moneyVars, quotaVars, broken>>

\* The daemon dies at any moment and starts again: RecoverExecutions.  Requests
\* in flight get an unknown outcome.  Root tasks whose call cannot be resumed end,
\* and their system stops (lost).
Recover(lost) ==
  /\ session' = [c \in Calls |-> "none"]
  /\ broken' = FALSE
  /\ systemState' = [s \in Systems |-> IF s \in lost THEN "stopped" ELSE systemState[s]]
  /\ authorised' = [c \in Calls |-> authorised[c] /\ ~(SystemOf[c] \in lost /\ callState[c] # "none")]
  /\ UNCHANGED <<now, sequence, reservation, deadline, waitDeadline, callUsed,
                 attempts, attemptAt, attemptTokens, lastAdmission, moneyVars, quotaVars>>

Restart_Requeues(lost) ==
  /\ Recover(lost)
  /\ callState' = [c \in Calls |-> IF callState[c] = "running" THEN "queued" ELSE callState[c]]
  /\ UNCHANGED attemptState

Restart(lost) ==
  /\ \A s \in lost : /\ systemState[s] \in {"running", "paused", "stopping"}
                     /\ \E c \in CallsOf(s) : callState[c] \in (Final \ {"completed"}) \cup {"running"}
  /\ Recover(lost)
  /\ attemptState' = [x \in Attempts |-> IF attemptState[x] = "running" THEN "unknown" ELSE attemptState[x]]
  /\ callState' = [c \in Calls |-> IF callState[c] = "running" THEN "unknown" ELSE callState[c]]

Tick ==
  /\ now < MaxTime
  /\ now' = now + 1
  /\ UNCHANGED <<systemState, callVars, session, attemptVars, moneyVars, quotaVars, broken>>

\* The wall clock is set back.
SetBack ==
  /\ \E skew \in 1..MaxSkew : skew <= now /\ now' = now - skew
  /\ UNCHANGED <<systemState, callVars, session, attemptVars, moneyVars, quotaVars, broken>>

Broker(c) ==
  Queue(c) \/ Admit(c) \/ StorageFails(c) \/ Settle(c) \/ SettleFails(c) \/ Leave(c) \/ CancelQueued(c)

Next ==
  \/ \E c \in Calls, r \in Sizes : Start(c, r) \/ Prepare(c, r) \/ Claim(c, r)
  \/ \E c \in Calls : Broker(c) \/ Release(c, TRUE) \/ Release(c, FALSE) \/ EndTask(c)
  \/ \E s \in Systems : Pause(s) \/ Resume(s) \/ Stop(s) \/ Stopped(s) \/ Finish(s)
  \/ \E lost \in SUBSET Systems : Restart(lost)
  \/ Tick \/ SetBack

Spec == Init /\ [][Next]_vars

-----------------------------------------------------------------------------
(* Properties *)

CallsTyped ==
  /\ authorised \in [Calls -> BOOLEAN]
  /\ callState \in [Calls -> {"none", "running"} \cup Waiting \cup Final]
  /\ sequence \in [Calls -> Nat] /\ reservation \in [Calls -> Nat]
  /\ deadline \in [Calls -> Nat] /\ waitDeadline \in [Calls -> Nat]
  /\ callUsed \in [Calls -> Nat]

AttemptsTyped ==
  /\ attempts \in [Calls -> 0..MaxAttempts]
  /\ attemptState \in [Attempts -> {"none", "running", "known", "unknown"}]
  /\ attemptAt \in [Attempts -> Nat] /\ attemptTokens \in [Attempts -> Nat]
  /\ lastAdmission \in [Systems -> Nat]

MoneyTyped == used \in [Accounts -> Nat] /\ reserved \in [Accounts -> Nat]

QuotasTyped ==
  /\ credit \in [Groups -> Nat] /\ updated \in [Groups -> Nat] /\ cooldown \in [Groups -> Nat]

\* Type invariant: the columns keep the domains the schema's CHECK constraints
\* demand; in particular a settlement never drives a reserved counter negative.
TypeOK ==
  /\ now \in Nat /\ broken \in BOOLEAN
  /\ systemState \in [Systems -> {"inactive", "running", "paused", "stopping", "stopped"}]
  /\ session \in [Calls -> {"none", "claimed", "polling", "sending", "ending"}]
  /\ CallsTyped /\ AttemptsTyped /\ MoneyTyped /\ QuotasTyped

\* The attempts whose tokens an account holds back: in flight, or of unknown outcome.
Held(a) == {x \in Attempts : a \in Charged[x[1]] /\ attemptState[x] \in {"running", "unknown"}}

\* Every account's reserved counter is exactly the sum of the reservations of the
\* attempts that are in flight or of unknown outcome, and its used counter the sum
\* of the usage recorded on its calls: no admission, settlement, retry, stop,
\* settlement failure or restart leaks, double-charges or refunds a token.
LedgerBalanced ==
  \A a \in Accounts :
    /\ reserved[a] = Weight(Held(a), attemptTokens)
    /\ used[a] = Weight({c \in Calls : a \in Charged[c]}, callUsed)

\* The tokens by which reported usage exceeded its reservation.
Overruns(a) ==
  {x \in Attempts : a \in Charged[x[1]] /\ attemptState[x] = "known" /\ attemptTokens[x] > reservation[x[1]]}
Overrun(a) == Weight(Overruns(a), [x \in Attempts |-> attemptTokens[x] - reservation[x[1]]])

\* However many calls of a team are in flight at once, and across retries and
\* restarts, no system, goal or agent budget is exceeded by more than what
\* providers reported above the reservation of a call already dispatched.
BudgetRespected == \A a \in Accounts : used[a] + reserved[a] <= Limit[a] + Overrun(a)

\* A group never has more than max_concurrent provider requests in flight.
ConcurrencyRespected == \A g \in Groups : Cardinality(InFlight(g)) <= MaxConcurrent[g]

\* A call has a live attempt exactly while it is running, a call of unknown
\* outcome has an unknown attempt, and only the last attempt can be either:
\* a call whose outcome is ambiguous is never sent again.
AttemptsConsistent ==
  \A c \in Calls, n \in 1..MaxAttempts :
    /\ attemptState[<<c, n>>] = "none" <=> n > attempts[c]
    /\ attemptState[<<c, n>>] = "running" <=> (callState[c] = "running" /\ n = attempts[c])
    /\ attemptState[<<c, n>>] = "unknown" <=> (callState[c] = "unknown" /\ n = attempts[c])

\* The calls a throttled answer puts back cannot overfill a shared queue: at most
\* queue_capacity calls of a group wait, counting prepared and retried ones.
QueueBounded == \A g \in Groups : QueueLength(g) <= QueueCapacity[g]

\* In any window of one minute the tokens reserved by the dispatches of a group
\* stay within tokens_per_minute, also when the clock is set back between the
\* dispatches.
InWindow(g, t) == {x \in Dispatched(g) : attemptAt[x] <= t /\ attemptAt[x] > t - Window}
TokenRateRespected ==
  \A g \in Groups : \A t \in {attemptAt[x] : x \in Dispatched(g)} :
    Weight(InWindow(g, t), [x \in Attempts |-> reservation[x[1]]]) <= TokensPerMinute[g]

\* The dispatches recorded at the time of the group's own clock: a call of several
\* groups gets the latest of their clocks, which differ once the wall clock was
\* set back.
OwnTime(g) == {x \in Dispatched(g) : MaxSkew = 0 \/ GroupsOf[x[1]] = {g}}

\* Token bucket: a group's dispatches never exceed the burst plus what was refilled
\* on the group's own clock, which a wall clock that is set back does not turn
\* back: not in all, nor between two dispatches recorded at that clock.
RequestRateRespected ==
  \A g \in Groups :
    /\ CreditUnit * Cardinality(Dispatched(g)) + credit[g] <= BurstRequests[g] * CreditUnit + updated[g] * Refill[g]
    /\ \A x, y \in OwnTime(g) :
         attemptAt[x] <= attemptAt[y] =>
           CreditUnit * Cardinality({z \in OwnTime(g) : attemptAt[z] \in attemptAt[x]..attemptAt[y]})
             <= BurstRequests[g] * CreditUnit + (attemptAt[y] - attemptAt[x]) * Refill[g]

Dispatches(c) == attempts'[c] = attempts[c] + 1

\* Round robin: when a call is dispatched, no call of a system that was admitted
\* longer ago was ready to go, whichever activation happened to ask first.
NoLeapfrog ==
  [][\A c, d \in Calls : Dispatches(c) /\ d \in Admissible =>
       lastAdmission[SystemOf[c]] <= lastAdmission[SystemOf[d]]]_vars

\* A call that reached its outcome keeps it, whatever other activations sweep,
\* stops, task ends or restarts do to it.
OutcomeFinal == [][\A c \in Calls : callState[c] \in Final => callState'[c] = callState[c]]_vars

\* A second dispatch of a call only follows an explicit throttle: the previous
\* attempt is settled, without usage, and its reservation is back.
OnlyThrottledRetried ==
  [][\A c \in Calls : Dispatches(c) /\ attempts[c] > 0 =>
       attemptState[<<c, attempts[c]>>] = "known" /\ callUsed[c] = 0]_vars

\* Work of a paused system that was already claimed is not lost: a throttled
\* attempt goes back to the queue if attempts, deadline and capacity permit.
PauseKeepsClaimedWork ==
  [][\A c \in Calls :
       /\ callState[c] = "running" /\ systemState[SystemOf[c]] = "paused"
       /\ cooldown' # cooldown /\ session[c] = "sending" /\ session'[c] = "polling"
       /\ attempts[c] < MaxAttempts /\ now < deadline[c]
       /\ \A g \in GroupsOf[c] : QueueLength(g) < QueueCapacity[g]
       => callState'[c] = "queued"]_vars

-----------------------------------------------------------------------------
(* Liveness *)

\* The goroutines of the broker and the clock keep running; providers answer
\* within their timeout.  Nothing is assumed of users, workers or crashes.
Fairness ==
  /\ WF_vars(Tick)
  /\ \A c \in Calls : WF_vars(Queue(c)) /\ WF_vars(Admit(c)) /\ WF_vars(Settle(c)) /\ WF_vars(Leave(c))

FairSpec == Spec /\ Fairness

\* Everyone who polls gets an answer: a queued call is dispatched, rejected or
\* withdrawn, although earlier calls nobody polls for hold the scan back until
\* their queue deadline.
QueuedResolves ==
  \A c \in Calls : (session[c] = "polling" /\ callState[c] = "queued") ~>
                   (session[c] # "polling" \/ callState[c] # "queued")

\* Every dispatched request ends in a recorded outcome, or dispatch is disabled.
DispatchSettles == \A c \in Calls : callState[c] = "running" ~> (callState[c] # "running" \/ broken)
=============================================================================
