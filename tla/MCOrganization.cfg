SPECIFICATION OrganizationSpec
CONSTANTS
    Names <- MCNames
    Roles = {"Writer", "Reviewer"}
    GivenName <- MCGivenName
    NormalName <- MCNormalName
    WellFormed <- MCWellFormed
    NoRole = NoRole
    Commands = {c1, c2}
    Requests <- MCRequests
    Starters <- MCStarters
    Organizations <- MCOrganizations
    ManagerName = 7
    Seconds = {1}
    NoFile = NoFile
    NoCommand = NoCommand
SYMMETRY Symmetry
INVARIANTS
    LeavesComplete
    LagIsOnRecord
    CanBeRepaired
PROPERTIES
    NoNewIssue
CHECK_DEADLOCK FALSE
