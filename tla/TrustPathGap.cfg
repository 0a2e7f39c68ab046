SPECIFICATION Spec
CONSTANTS
    Services <- MCServices
    Chains <- MCChains
    Anchors <- MCAnchors
    Leaves <- MCLeaves
    Minute = 1
    Snapshots <- GapSnapshots
    api = api
    other = other
    old = old
    new = new
INVARIANT ReachableThroughout
CHECK_DEADLOCK FALSE
