SPECIFICATION Spec
CONSTANTS
  root = root  child = child  next = next  op = op  helper = helper  g1 = g1  g2 = g2
  NoTask = NoTask  NoGoal = NoGoal
  Goals = {g1}
  Tasks = {root, child}
  Agents = {op, helper}
  Operator = op
  GoalOf <- PairGoalOf
  AgentOf <- PairAgentOf
  ParentOf <- PairParentOf
  MaxTurns = 2
  MaxEvents = 5
  MailboxCapacity = 2
  MaxActive = 2
  Decisions = {"answer", "delegate", "progress"}
  Commands = {"stop agent", "stop"}
  MaxInputs = 0
  MaxFaults = 1
INVARIANTS LeaseOwned NoForgottenTask RootHoldsSystem EventRoom
PROPERTIES StopWaits StopIsFinal
CHECK_DEADLOCK FALSE
