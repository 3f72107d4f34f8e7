SPECIFICATION Spec
CONSTANTS
  s1 = s1  s2 = s2  c1 = c1  c2 = c2  c3 = c3  g1 = g1  g2 = g2  op1 = op1  sub1 = sub1  op2 = op2
  Systems = {s1}
  Calls = {c1, c2}
  Groups = {g1, g2}
  Accounts = {s1, op1, sub1}
  SystemOf <- TeamSystemOf
  GroupsOf <- SharedGroups
  Charged <- TeamCharged
  Ancestors = {op1, sub1}
  Limit <- TeamLimit
  MaxConcurrent <- One
  TokensPerMinute <- Uneven
  BurstRequests <- Two
  QueueCapacity <- One
  MaxWait <- Two
  Refill <- One
  CreditUnit = 2
  Window = 2
  TaskLife = 2
  ScanLimit = 64
  Sizes = {1, 2}
  Actuals = {0, 3}
  Delays = {1}
  MaxTime = 2
  MaxSkew = 1
INVARIANTS TypeOK LedgerBalanced BudgetRespected AttemptsConsistent TokenRateRespected RequestRateRespected ConcurrencyRespected QueueBounded
PROPERTIES OutcomeFinal OnlyThrottledRetried
CHECK_DEADLOCK FALSE
