--------------------------- MODULE AuthorityStore ---------------------------
(***************************************************************************)
(* The permission tables of the back office and what is computed from      *)
(* them: the grouped query that lists, for every interface url, the roles  *)
(* that may call it, and the Shiro filter chains a rebuild makes of it.    *)
(* Live rows have is_deleted = 0; of the others only those of the          *)
(* role-menu table are kept, because a physical DELETE finds them too.     *)
(***************************************************************************)
EXTENDS Naturals, FiniteSets

CONSTANTS Roles,     \* ids of sys_role
          Menus,     \* ids of sys_menu_function
          Elements,  \* ids of sys_menu_element
          Urls,      \* interface urls, numbered in the order the query lists them
          Blank,     \* the url of an element whose "method" column is blank
          Public,    \* urls of sys_menu_common, filtered by "anon"; no code writes them
          PageSize   \* rows fetched by one query of a rebuild (50 in the code)

ASSUME StoreAssumption ==
    /\ Urls \subseteq Nat
    /\ IsFiniteSet(Urls)
    /\ Blank \in Urls
    /\ Public \subseteq Urls \ {Blank}
    /\ PageSize \in Nat \ {0}

-----------------------------------------------------------------------------
(* The tables.  elems[e] is where the live element e hangs: a set with the *)
(* one place of a live element, empty for a deleted or unused id.  grants  *)
(* and dead are the pairs with a live and with a deleted role-menu row.    *)

Place == [menu : Menus, url : Urls]

Tables == [roles  : SUBSET Roles,
           menus  : SUBSET Menus,
           elems  : [Elements -> SUBSET Place],
           grants : SUBSET (Roles \X Menus),
           dead   : SUBSET (Roles \X Menus)]

(* Menus that hang an element with url u, and whose row is live.           *)
MenusOf(db, u) ==
    {m \in db.menus : \E e \in Elements : [menu |-> m, url |-> u] \in db.elems[e]}

(* The rows of the grouped query: urls with at least one live role-menu    *)
(* row.  The role itself is only LEFT JOINed, so a row whose role is gone  *)
(* still makes its urls appear, with an empty role list.                   *)
GrantedUrls(db) ==
    {u \in Urls : \E r \in Roles : \E m \in MenusOf(db, u) : <<r, m>> \in db.grants}

RolesOf(db, u) ==
    {r \in db.roles : \E m \in MenusOf(db, u) : <<r, m>> \in db.grants}

-----------------------------------------------------------------------------
(* Paging of the grouped query.                                            *)

Rank(S, u) == Cardinality({v \in S : v <= u})

(* Mutant: pages numbered from 0, as many paging libraries do.             *)
PageOfFromZero(S, i) ==
    {u \in S : i * PageSize < Rank(S, u) /\ Rank(S, u) <= (i + 1) * PageSize}

PageOf(S, i) ==
    {u \in S : (i - 1) * PageSize < Rank(S, u) /\ Rank(S, u) <= i * PageSize}

(* Mutant: the last page, which is not full, is forgotten.                 *)
PageCountFullOnly(count) == IF count <= PageSize THEN 1 ELSE count \div PageSize

(* The number of pages a rebuild reads for a count of rows.                *)
PageCount(count) ==
    IF count <= PageSize THEN 1
    ELSE IF count % PageSize = 0 THEN count \div PageSize
    ELSE count \div PageSize + 1

-----------------------------------------------------------------------------
(* Filter chains: the urls with an "anon" chain, the urls with a "roles"   *)
(* chain, and the filter of the catch-all chain "/**".                     *)

Chains == [public : SUBSET Urls, role : SUBSET Urls,
           default : {"none", "basic", "authc"}]

NoChains     == [public |-> {}, role |-> {}, default |-> "none"]
PublicChains == [NoChains EXCEPT !.public = Public]

(* The chains that stand for the tables as they are.                       *)
ChainsOf(db) ==
    [public  |-> Public,
     role    |-> GrantedUrls(db) \ {Blank},
     default |-> IF GrantedUrls(db) = {} THEN "authc" ELSE "basic"]

(* How the resolver and the filters decide a request of a logged-in user   *)
(* with roles rs for url u: c is the map of chains, cfg[u] the role list   *)
(* the roles filter holds for u.  An empty role list lets everybody in.    *)
Decide(c, cfg, u, rs) ==
    IF c = NoChains THEN "unfiltered"
    ELSE IF u \in c.role
         THEN IF cfg[u] = {} \/ cfg[u] \cap rs # {} THEN "allowed" ELSE "denied"
    ELSE IF u \in c.public \/ c.default = "authc" THEN "allowed"
    ELSE IF c.default = "basic" THEN "denied"
    ELSE "error"
=============================================================================
