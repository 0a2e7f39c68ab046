SPECIFICATION FairSpec
CONSTANTS
    Services <- MCServices
    Chains <- MCChains
    Anchors <- MCAnchors
    Leaves <- MCLeaves
    Minute = 1
    Snapshots <- MCSnapshots
    api = api
    other = other
    old = old
    new = new
INVARIANTS TypeOK FindingsRight BrokenPathsExact NoCycleMet Complete OverlapKeepsBothSides
PROPERTY Terminates
CHECK_DEADLOCK FALSE
