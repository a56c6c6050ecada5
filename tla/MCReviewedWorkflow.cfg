SPECIFICATION FairSpec
CONSTANTS
  Planned = 3
  Deps <- MCFan
  TaskLimits <- MCWideThenTight
  MaxWorkflowTasks = 3
  MaxParallel = 2
  MaxRevisions = 1
  MaxCalls = 8
  RevisionAllowed = TRUE
  Faults = TRUE
  MaxTaskId = 6
  MaxRuns = 2
CHECK_DEADLOCK FALSE
INVARIANTS EvidenceChain BudgetNeverOvershot LineagesKept
PROPERTIES FirstStartsOnApproved EveryRunEnds
