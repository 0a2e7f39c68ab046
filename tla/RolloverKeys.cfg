SPECIFICATION FairSpec
CONSTANTS
    Ids <- KeysIds
    Requests <- KeysRequests
    Workers <- MCWorkers
    Users <- MCUsers
    RoleOf <- MCRoleOf
    Inputs <- MCInputs
    Results <- MCResults
    ResultOf <- MCResultOf
    Keys <- MCKeys
    SeedId = 1
    SeedUser = operator
    SeedInput = seedInput
    SeedKey = seedKey
    NoUser = NoUser
    NoInput = NoInput
    NoResult = NoResult
    NoKey = NoKey
    NoId = 0
    admin = admin
    operator = operator
    owner = owner
    reviewer = reviewer
    w1 = w1
    w2 = w2
    seedInput = seedInput
    inputA = inputA
    inputB = inputB
    seedResult = seedResult
    resultA = resultA
    resultB = resultB
    seedKey = seedKey
    keyA = keyA
    keyB = keyB
INVARIANTS EvidenceSound AnsweredResultKept OneKeyOneScenario
PROPERTIES ImplementsLifecycle
