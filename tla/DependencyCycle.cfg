SPECIFICATION Spec
CONSTANTS
    Ids <- MCIds
    NewNode = 999
    Workers <- MCWorkers
    Users <- MCUsers
    RoleOf <- MCRoleOf
    Teams <- MCTeams
    TeamOf <- MCTeamOf
    Requests <- MCRequests
    Seed <- MCSeed
    ReadsFail = FALSE
    NoUser = NoUser
    NoTeam = NoTeam
    NoId = 0
    admin = admin
    owner = owner
    reviewer = reviewer
    platform = platform
    payments = payments
    w1 = w1
    w2 = w2
INVARIANT DependenciesAcyclic
