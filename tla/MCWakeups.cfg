CONSTANTS
  op = op  b = b  x1 = x1
  Agents <- MCAgents
  Operator = op
  Triggers <- MCTriggers
  Scenarios <- MCScenarios
  NoTrigger = NoTrigger
  Period = 2
  Lifetime = 3
  MaxTurns = 3
  MaxNow = 4
SPECIFICATION FairSpec
INVARIANTS OneTaskPerAgent AllowanceKept Coalesced FailedNotRetried
PROPERTIES StopSilences CarriedNotLost DueFires WakesHeard
CHECK_DEADLOCK FALSE
