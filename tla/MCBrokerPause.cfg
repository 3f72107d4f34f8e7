SPECIFICATION Spec
CONSTANTS
  s1 = s1  s2 = s2  c1 = c1  c2 = c2  c3 = c3  g1 = g1  g2 = g2  op1 = op1  sub1 = sub1  op2 = op2
  Systems = {s1}
  Calls = {c1, c2}
  Groups = {g1}
  Accounts = {s1, op1, sub1}
  SystemOf <- TeamSystemOf
  GroupsOf <- OneGroup
  Charged <- TeamCharged
  Ancestors = {op1, sub1}
  Limit <- TeamLimit
  MaxConcurrent <- Two
  TokensPerMinute <- Four
  BurstRequests <- Four
  QueueCapacity <- Two
  MaxWait <- One
  Refill <- One
  CreditUnit = 1
  Window = 0
  TaskLife = 1
  ScanLimit = 64
  Sizes = {1, 2}
  Actuals = {0, 3}
  Delays = {0}
  MaxTime = 2
  MaxSkew = 0

PROPERTY PauseKeepsClaimedWork
CHECK_DEADLOCK FALSE
