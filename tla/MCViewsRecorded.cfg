SPECIFICATION WorkSpec
CONSTANTS
  Commands = {1, 2, 3, 4, 5}
  NoCommand = 0
  Plans <- MCPlans
  MaxTaskId = 3
  Limits = {1, 3}
  DefaultLimit = 3
  MaxRevisions = 1
  Faults = FALSE
  Crashes = FALSE
  MaxArchivings = 1
CHECK_DEADLOCK FALSE
INVARIANT EveryOutcomeIsRecorded
