SPECIFICATION FairSpec
CONSTANT Ids <- MCIds
INVARIANTS TypeOK VerdictRight SearchSound
PROPERTY Terminates
CHECK_DEADLOCK FALSE
