SPECIFICATION Spec
CONSTANTS
  root = root  child = child  next = next  op = op  helper = helper  g1 = g1  g2 = g2
  NoTask = NoTask  NoGoal = NoGoal
  Goals = {g1}
  Tasks = {root, child, next}
  Agents = {op, helper}
  Operator = op
  GoalOf <- TwinGoalOf
  AgentOf <- TwinAgentOf
  ParentOf <- TwinParentOf
  MaxTurns = 3
  MaxEvents = 8
  MailboxCapacity = 4
  MaxActive = 1
  Decisions = {"answer", "delegate"}
  Commands = {}
  MaxInputs = 1
  MaxFaults = 1
PROPERTY ResultWakes
CHECK_DEADLOCK FALSE
