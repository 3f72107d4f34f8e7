----------------------------- MODULE MCWakeups -----------------------------
(* An instance of Wakeups small enough for TLC. *)
EXTENDS Wakeups

CONSTANTS op, b, x1

MCAgents == {op, b}
MCTriggers == {x1}

\* The goal, the operations and kinds of trigger used, and the bounds: commands,
\* delegations, faults, refusals and the clock.
S(continuous, ops, triggers, n, d, f, r, until) ==
  [continuous |-> continuous, ops |-> ops, triggers |-> triggers, budgets |-> {1, 2},
   commands |-> n, delegations |-> d, faults |-> f, refusals |-> r, until |-> until]

MCScenarios ==
  {S(TRUE, {"trigger", "pause"}, {"cron"}, 2, 0, 0, 0, 4),
   S(TRUE, {"input", "wait"}, {}, 2, 2, 0, 0, 0),
   S(TRUE, {"own", "trigger", "memory"}, {"task", "memory"}, 2, 1, 0, 0, 0),
   S(FALSE, {"own", "input", "wait"}, {"at"}, 1, 1, 0, 0, 3),
   S(TRUE, {"own", "cancel", "stop", "stop agent"}, {"at"}, 1, 1, 0, 0, 2),
   S(TRUE, {"own", "input"}, {"task"}, 1, 1, 1, 1, 0),
   S(FALSE, {"own", "pause", "stop", "stop agent"}, {"cron", "task"}, 1, 1, 0, 0, 3),
   S(TRUE, {"input"}, {}, 2, 1, 1, 1, 1),
   S(TRUE, {"trigger"}, {"cron"}, 1, 1, 1, 1, 2)}
=============================================================================
