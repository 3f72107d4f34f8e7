----------------------------- MODULE MCCommands -----------------------------
(* An instance of Commands small enough for TLC. *)
EXTENDS Commands, TLC

CONSTANTS s1, s2, m1, m2, c1, c2, k1, k2, a1, d1, d2, t1, t2

MCSystems == {s1, s2}
MCOneSystem == {s1}
MCIds == {m1, m2}
MCClients == {c1, c2}
MCKeys == {k1, k2}
MCAgents == {a1}
MCDefinitions == {d1, d2}
MCBudgets == {1, 2}
MCUsages == {0, 1, 2}
MCRetentions == {1}
MCVersions == 1 .. 2
MCTasks == {t1, t2}
MCAllowances == {1, 2}

Scenario(ops, n, asks, sends, crashes, uses1) ==
  [ops |-> ops, clients |-> n, requests |-> asks, attempts |-> sends, restarts |-> crashes, learned |-> uses1]

MCScenarios ==
  {Scenario({"create", "revise", "start"}, 2, 2, 2, 1, 0),
   Scenario({"revise", "start", "stop", "pause", "resume", "spend"}, 2, 2, 1, 1, 0),
   Scenario({"memory.put", "memory.approve", "memory.delete"}, 2, 2, 1, 0, 0),
   Scenario({"learn"}, 1, 0, 1, 1, 0),
   Scenario({"learn", "tool.propose", "learning.evaluate"}, 1, 1, 1, 0, 1),
   Scenario({"learn", "learning.approve", "tool.disable"}, 1, 1, 1, 1, 1),
   Scenario({"learn", "regrant", "stop", "tool.revoke"}, 1, 1, 1, 1, 2)}
MCSymmetry == Permutations(MCClients) \cup Permutations(MCKeys)
=============================================================================
