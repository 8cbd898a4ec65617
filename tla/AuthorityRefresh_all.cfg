\* Every operation and every fault, one instance.
CONSTANTS
    Roles = {r1, r2}
    Menus = {1, 2}
    Elements = {1, 2}
    Urls = {0, 1, 2}
    Blank = 0
    Public = {1}
    PageSize = 1
    Nodes = {n1}
    Admins = {a1, a2}
    Operations <- MCEvery
    SeedElems <- MCSeed
    MaxOps = 2
    MaxFaults = 1
SPECIFICATION Spec
INVARIANTS
    TypeOK
    RebuildExact
    DefaultDeny
    OnlyGrantedAllowed
CHECK_DEADLOCK FALSE
