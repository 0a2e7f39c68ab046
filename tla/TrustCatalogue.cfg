SPECIFICATION FairSpec
CONSTANTS
    AnchorIds = {1, 2, 3}
    ChainIds = {1, 2, 3, 4}
    ServiceIds = {1}
    Keys <- MCKeys
    Certs <- MCCerts
    Codes <- MCCodes
    Workers <- MCWorkers
    Accounts = 2
    Demo <- MCDemo
    Databases <- MCDatabases
    Requests <- MCRequests
    PageSize = 3
    Soon = 1
    MaxTime = 1
    MaxRequests = 3
    MaxCrashes = 1
    NoId = 0
    NoCode = none
    NoCert = none
    w1 = w1
    w2 = w2
    none = none
    legacy = legacy
    next = next
    own = own
    spare = spare
    d1 = d1
    d2 = d2
    kRoot = kRoot
    kInter = kInter
    kLeaf = kLeaf
    kStray = kStray
CHECK_DEADLOCK FALSE
INVARIANTS TypeOK StoredStateLags WindowsMeanValidity FrozenInputsArePast FrozenGapsExplained DemoIsWhole
PROPERTIES RevocationIsFinal ChainTrail BackendsServe
