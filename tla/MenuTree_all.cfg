\* Two administrators add, move and delete menus.
CONSTANTS
    Ids = {1, 2, 3, 4}
    Root = 0
    Admins = {a1, a2}
    Paths <- MCPaths
    MaxOps = 5
SPECIFICATION Spec
INVARIANTS
    TypeOK
    FindsItself
    StaleOnlyBelowMoved
    NoOrphans
CHECK_DEADLOCK FALSE
