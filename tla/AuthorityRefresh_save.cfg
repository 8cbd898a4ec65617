\* One saveRoleMenuFunction, one instance, no faults.
CONSTANTS
    Roles = {r1}
    Menus = {1, 2}
    Elements = {1, 2}
    Urls = {0, 1, 2}
    Blank = 0
    Public = {}
    PageSize = 1
    Nodes = {n1}
    Admins = {a1, a2}
    Operations <- MCSaves
    SeedElems <- MCSeed
    MaxOps = 1
    MaxFaults = 0
SPECIFICATION Spec
INVARIANTS
    QuietMeansInForce
CHECK_DEADLOCK FALSE
