\* Pages of three menus that two administrators add, move, write and delete.
CONSTANTS
    Ids = {m1, m2, m3}
    Root = top
    Admins = {a1, a2}
    Paths <- MCPaths
    MaxOps = 5
    Unsorted = {m1, m2, m3}
SYMMETRY MCSymmetry
SPECIFICATION ForestSpec
INVARIANTS
    ForestTypeOK
    ShownOnce
    RootsAreRoots
    PageFailsOnlyOnStale
CHECK_DEADLOCK FALSE
