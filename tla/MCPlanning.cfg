SPECIFICATION Spec
CONSTANTS
  Employees <- MCEmployees
  Roles <- MCRoles
  Fold <- MCFold
  Preferred = "Writer"
  MaxGeneratedTasks = 3
  Rosters <- MCRosters
  Answers <- MCAnswers
  Written <- MCWritten
  Nobody = "nobody"
INVARIANTS
  GeneratedStands
  PlanIsLayered
  TasksCanBeWorkedOff
  OnlyAmbiguityUnassigns
  CallIsTold
CHECK_DEADLOCK FALSE
