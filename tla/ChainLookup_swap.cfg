\* One request thread against repeated rebuilds, one role and two urls.
CONSTANTS
    Roles = {r1}
    Menus = {}
    Elements = {}
    Urls = {0, 1, 2}
    Blank = 0
    Public = {}
    PageSize = 1
    Requests = {t1}
SPECIFICATION Spec
INVARIANTS
    TypeOK
    DecidedByAVersion
