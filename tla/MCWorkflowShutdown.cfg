SPECIFICATION Spec
CONSTANTS
  root = root  child = child  next = next  op = op  helper = helper  g1 = g1  g2 = g2
  NoTask = NoTask  NoGoal = NoGoal
  Goals = {g1}
  Tasks = {root}
  Agents = {op}
  Operator = op
  GoalOf <- PairGoalOf
  AgentOf <- PairAgentOf
  ParentOf <- PairParentOf
  MaxTurns = 2
  MaxEvents = 6
  MailboxCapacity = 3
  MaxActive = 2
  Decisions = {"answer"}
  Commands = {}
  MaxInputs = 0
  MaxFaults = 1
PROPERTY ShutdownPreserves
CHECK_DEADLOCK FALSE
