\* Operations that publish after their commit, two instances, no faults,
\* pages of two rows for up to three urls.
CONSTANTS
    Roles = {r1}
    Menus = {1, 2}
    Elements = {1, 2, 3}
    Urls = {0, 1, 2, 3}
    Blank = 0
    Public = {}
    PageSize = 2
    Nodes = {n1, n2}
    Admins = {a1, a2}
    Operations <- MCAdds
    SeedElems <- MCSeed
    MaxOps = 2
    MaxFaults = 0
SPECIFICATION FairSpec
INVARIANTS
    StaleIsAnnounced
PROPERTIES
    CatchesUp
CHECK_DEADLOCK FALSE
