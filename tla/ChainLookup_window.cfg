\* A request looks at the map while it is empty.
CONSTANTS
    Roles = {r1}
    Menus = {}
    Elements = {}
    Urls = {0, 1, 2}
    Blank = 0
    Public = {}
    PageSize = 1
    Requests = {t1}
SPECIFICATION Spec
INVARIANTS
    NeverUnfiltered
