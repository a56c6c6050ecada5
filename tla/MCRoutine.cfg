SPECIFICATION FairSpec
CONSTANTS
    Daemons = {d1, d2}
    Operators = {o1, c1}
    Clients = {c1}
    Others = {x}
    Taken = {1}
    RepairIds = {r1}
    Schedules <- MCSchedules
    Targets <- MCTargets
    Payloads <- MCPayloads
    CreateIds <- MCCreateIds
    Moments <- MCMoments
    NoRequest = NoRequest
    MaxTime = 1
    MaxVersion = 3
    Fallible = {d1, o1}
    Unwritable = {1}
    MaxFaults = 1
INVARIANTS
    RunsAsScheduled
    FirstChainGoesOn
PROPERTIES
    DueIsClaimed
CHECK_DEADLOCK FALSE
