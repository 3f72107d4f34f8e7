CONSTANTS
  s1 = s1  s2 = s2  m1 = m1  m2 = m2  c1 = c1  c2 = c2
  k1 = k1  k2 = k2  a1 = a1  d1 = d1  d2 = d2  t1 = t1  t2 = t2
  Systems <- MCSystems
  Existing <- MCOneSystem
  Ids <- MCIds
  Clients <- MCClients
  Keys <- MCKeys
  Agents <- MCAgents
  Definitions <- MCDefinitions
  Budgets <- MCBudgets
  Usages <- MCUsages
  Versions <- MCVersions
  Tasks <- MCTasks
  Allowances <- MCAllowances
  Lifetimes <- MCRetentions
  NoTask = NoTask
  Retentions <- MCRetentions
  Scenarios <- MCScenarios
  ExistingBudget = 2
  Shared = Shared
  Administrator = Administrator
  New = New
  NoKey = NoKey
  MaxRevision = 2
  MaxNow = 1
  MaxWrites = 2
  MaxOperators = 1
  MaxSystemRevision = 3
SYMMETRY MCSymmetry
SPECIFICATION Spec
INVARIANTS BudgetCovers SharedReviewed UsesKept DisabledStaysInert
PROPERTIES OncePerKey NoBlindOverwrite SharedStands
CHECK_DEADLOCK FALSE
