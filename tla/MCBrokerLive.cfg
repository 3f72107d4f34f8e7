SPECIFICATION FairSpec
CONSTANTS
  s1 = s1  s2 = s2  c1 = c1  c2 = c2  c3 = c3  g1 = g1  g2 = g2  op1 = op1  sub1 = sub1  op2 = op2
  Systems = {s1, s2}
  Calls = {c1, c3}
  Groups = {g1}
  Accounts = {s1, s2}
  SystemOf <- TeamSystemOf
  GroupsOf <- OneGroup
  Charged <- SystemOnly
  Ancestors = {}
  Limit <- Rich
  MaxConcurrent <- One
  TokensPerMinute <- Four
  BurstRequests <- Two
  QueueCapacity <- Two
  MaxWait <- One
  Refill <- One
  CreditUnit = 1
  Window = 1
  TaskLife = 1
  ScanLimit = 1
  Sizes = {1}
  Actuals = {1}
  Delays = {0}
  MaxTime = 1
  MaxSkew = 0
PROPERTIES NoLeapfrog QueuedResolves DispatchSettles
CHECK_DEADLOCK FALSE
