SPECIFICATION FairSpec
CONSTANTS
    BucketKeys <- MCBucketKeys
    Limit = 1
    Minute = 2
    NoTime = none
    Tabs = {t1}
    Slots = {s1, s2}
    Ids = {1, 2}
    Users <- MCUsers
    Remembered = {admin}
    RoleOf <- MCRoleOf
    Seeded <- MCSeeded
    Key <- MCKey
    Lifetime = 1
    MaxTime = 2
    MaxPresses = 3
    MaxEvents = 2
    NoUser = none
    NoId = 0
    NoTab = none
    NoRow = none
    NoToken = none
    admin = admin
    reviewer = reviewer
    s1 = s1
    s2 = s2
    t1 = t1
    login = login
    simulation = simulation
    none = none
CHECK_DEADLOCK FALSE
INVARIANTS TypeOK PassesBounded
PROPERTIES AcceptedAsShown ComesToRest
