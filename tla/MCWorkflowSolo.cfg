SPECIFICATION Spec
CONSTANTS
  root = root  child = child  next = next  op = op  helper = helper  g1 = g1  g2 = g2
  NoTask = NoTask  NoGoal = NoGoal
  Goals = {g1}
  Tasks = {root}
  Agents = {op}
  Operator = op
  GoalOf <- PairGoalOf
  AgentOf <- PairAgentOf
  ParentOf <- PairParentOf
  MaxTurns = 2
  MaxEvents = 6
  MailboxCapacity = 3
  MaxActive = 2
  Decisions = {"answer", "work", "wait"}
  Commands = {"stop", "pause system", "pause agent", "pause goal", "stop goal", "stop agent"}
  MaxInputs = 2
  MaxFaults = 1
INVARIANTS TypeOK ReadOnce
PROPERTIES InputNotLost ToolOnce
CHECK_DEADLOCK FALSE
