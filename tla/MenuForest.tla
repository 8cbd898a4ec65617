----------------------------- MODULE MenuForest -----------------------------
(***************************************************************************)
(* A page of menus, read and built while administrators change the menu    *)
(* table (MenuTree).  An administration page queries its top-level menus   *)
(* and then, one query each, the tree of every one of them; the page of a  *)
(* user is one query.  MenuFunctionTreeUtils puts the rows into a hash map *)
(* and hangs each menu under its parent, one pass over the list, which     *)
(* takes it out of the map.                                                *)
(***************************************************************************)
EXTENDS MenuTree, FiniteSets

CONSTANT Unsorted   \* menus entered without a sort

ASSUME ForestAssumption == IsFiniteSet(Ids) /\ Unsorted \subseteq Ids

VARIABLES stage,    \* how far the page is
          query,    \* the query that reads it
          roots,    \* top-level menus whose trees are still to be queried
          list,     \* menuList: the ids of the rows that were returned
          father,   \* father[m]: the pid in the row of m the map holds
          next,     \* position of the loop in the list
          hashMap,  \* ids that are keys of the hash map
          childers, \* childers[m]: menus hung under m (getMenuFunctionChilders)
          half,     \* roots that are shown as half-checked
          shaky     \* history: the table was out of order when the page began,
                    \* or has changed since

tree       == <<hashMap, childers>>
page       == <<stage, query, roots, list, father, next, tree, half>>
forestVars == <<vars, page, shaky>>

-----------------------------------------------------------------------------
Listed == {list[i] : i \in 1..Len(list)}

ForestTypeOK ==
    /\ TypeOK
    /\ stage \in {"off", "read", "build", "shown", "failed", "unsorted"}
    /\ query \in {"none", "treeById", "userAll"}
    /\ roots \in Seq(Ids)
    /\ list \in Seq(Ids)
    /\ father \in [Ids -> Parents]
    /\ next \in 1..(Len(list) + 1)
    /\ hashMap \subseteq Listed
    /\ childers \in [Ids -> SUBSET Ids]
    /\ half \subseteq Ids
    /\ shaky \in BOOLEAN

Fatherless == [m \in Ids |-> Root]
Childless  == [m \in Ids |-> {}]

ForestInit ==
    /\ Init
    /\ stage = "off" /\ query = "none"
    /\ roots = <<>> /\ list = <<>> /\ next = 1
    /\ father = Fatherless
    /\ hashMap = {} /\ childers = Childless
    /\ half = {}
    /\ shaky = FALSE

-----------------------------------------------------------------------------
(* Reading.                                                                *)

(* Lists without repetition of the menus of a set.  The queries order by   *)
(* dept and sort, which clients enter as they like: any order is possible. *)
Orders(S) == {s \in [1..Cardinality(S) -> S] : \A i, j \in DOMAIN s : i # j => s[i] # s[j]}

(* Every live menu has a live parent, whose path its own continues.        *)
InOrder ==
    \A m \in Ids : Live(m) =>
        /\ menu[m].pid = Root \/ Live(menu[m].pid)
        /\ menu[m].path = IF menu[m].pid = Root THEN <<m>>
                          ELSE Append(menu[menu[m].pid].path, m)

(* Mutant: the query for the roots does not ask for pid = -1.              *)
AllLevels == {m \in Ids : Live(m)}

Tops == {m \in Ids : Live(m) /\ menu[m].pid = Root}

(* selectMenuFunctionOrderSort returns the top-level menus of a type that  *)
(* are on the page; when there are none the page is an error at once.      *)
BeginPage(s) ==
    /\ stage = "off"
    /\ stage' = "read" /\ query' = "treeById"
    /\ roots' = s
    /\ shaky' = ~ InOrder
    /\ UNCHANGED <<vars, list, father, next, tree, half>>

(* The rows of S come in the order s; of two rows of a menu the map keeps  *)
(* the later one.                                                          *)
Fetched(S, s) ==
    /\ list' = list \o s
    /\ father' = [m \in Ids |-> IF m \in S THEN menu[m].pid ELSE father[m]]

(* selectMenuFunctionTreeById: what has the root on its path by now.       *)
ReadTree ==
    /\ stage = "read" /\ roots # <<>>
    /\ LET S == Under(Head(roots)) IN \E s \in Orders(S) : Fetched(S, s)
    /\ roots' = Tail(roots)
    /\ UNCHANGED <<vars, stage, query, next, tree, half, shaky>>

(* getMenuFunctionUserAll: the live menus the user's roles have, with or   *)
(* without their parents.                                                  *)
BeginUserPage(S) ==
    /\ stage = "off"
    /\ stage' = "read" /\ query' = "userAll"
    /\ \E s \in Orders(S) : Fetched(S, s)
    /\ shaky' = ~ InOrder
    /\ UNCHANGED <<vars, roots, next, tree, half>>

-----------------------------------------------------------------------------
(* Building.                                                               *)

(* The first loop of getMenuFunctionTree; for an empty list there is no    *)
(* tree and the caller dereferences null.                                  *)
FillMap ==
    /\ stage = "read" /\ roots = <<>>
    /\ stage' = IF list = <<>> THEN "failed" ELSE "build"
    /\ hashMap' = Listed /\ next' = 1
    /\ UNCHANGED <<vars, query, roots, list, father, childers, half, shaky>>

(* Mutants: the menu stays in the map; the list of children is replaced;   *)
(* the father's own pid is added with it; the father leaves the map.       *)
HangKeeping(m) ==
    /\ childers' = [childers EXCEPT ![father[m]] = @ \cup {m}]
    /\ UNCHANGED hashMap

HangReplacing(m) ==
    /\ childers' = [childers EXCEPT ![father[m]] = {m}]
    /\ hashMap' = hashMap \ {m}

HangWithPid(m) ==
    /\ childers' = [childers EXCEPT ![father[m]] = @ \cup {m, father[father[m]]}]
    /\ hashMap' = hashMap \ {m}

(* A menu whose father is in the map leaves the map and hangs under it.    *)
HangUnder(m) ==
    /\ childers' = [childers EXCEPT ![father[m]] = @ \cup {m}]
    /\ hashMap' = hashMap \ {m}

(* The second loop's body.  A menu without father in the map remains a     *)
(* root; one that has left the map already, and is visited again, is a     *)
(* NullPointerException.                                                   *)
Visit ==
    /\ stage = "build" /\ next <= Len(list)
    /\ LET m == list[next]
       IN  IF m \notin hashMap
           THEN stage' = "failed" /\ UNCHANGED tree
           ELSE /\ UNCHANGED stage
                /\ IF father[m] \in hashMap THEN HangUnder(m) ELSE UNCHANGED tree
    /\ next' = next + 1
    /\ UNCHANGED <<vars, query, roots, list, father, half, shaky>>

(* The roots are sorted, and the children of each.  One without a sort is  *)
(* a NullPointerException in compareTo, unless it is the only one.         *)
Unsortable ==
    \E S \in {hashMap} \cup {childers[r] : r \in hashMap} :
        \E m \in S \cap Unsorted : S # {m}

SortThrows ==
    /\ stage = "build" /\ next = Len(list) + 1
    /\ Unsortable
    /\ stage' = "unsorted"
    /\ UNCHANGED <<vars, query, roots, list, father, next, tree, half, shaky>>

(* Without a root there is no tree either.  (A menu of Unsorted may have   *)
(* been given a sort by now.)                                              *)
Finish ==
    /\ stage = "build" /\ next = Len(list) + 1
    /\ stage' = IF hashMap = {} THEN "failed" ELSE "shown"
    /\ UNCHANGED <<vars, query, roots, list, father, next, tree, half, shaky>>

(* The marks getMenuFunctionByPageWithRole makes at the roots: granted says*)
(* whether the role has any menu.  childrenCheckedFull stays true when it  *)
(* has, childrenCheckedNone when it has not, and halfChecked asks that     *)
(* neither is.                                                             *)
Half(m, granted) ==
    LET full == childers[m] # {} => granted
        none == childers[m] # {} => ~ granted
    IN  childers[m] # {} /\ ~ full /\ ~ none

MarkRoots(granted) ==
    /\ stage = "shown" /\ query = "treeById"
    /\ half' = {m \in hashMap : Half(m, granted)}
    /\ UNCHANGED <<vars, stage, query, roots, list, father, next, tree, shaky>>

EndPage ==
    /\ stage \in {"shown", "failed", "unsorted"}
    /\ stage' = "off" /\ query' = "none"
    /\ roots' = <<>> /\ list' = <<>> /\ next' = 1
    /\ father' = Fatherless
    /\ hashMap' = {} /\ childers' = Childless
    /\ half' = {}
    /\ shaky' = FALSE
    /\ UNCHANGED vars

(* An administrator's step.                                                *)
TableStep ==
    /\ Next
    /\ shaky' = (shaky \/ (stage # "off" /\ menu' # menu))
    /\ UNCHANGED page

ForestNext ==
    \/ \E S \in (SUBSET Tops) \ {{}} : \E s \in Orders(S) : BeginPage(s)
    \/ ReadTree
    \/ \E S \in (SUBSET {m \in Ids : Live(m)}) \ {{}} : BeginUserPage(S)
    \/ FillMap \/ Visit \/ SortThrows \/ Finish
    \/ \E granted \in BOOLEAN : MarkRoots(granted)
    \/ EndPage
    \/ TableStep

ForestSpec == ForestInit /\ [][ForestNext]_forestVars

-----------------------------------------------------------------------------
(* Properties.                                                             *)

(* m is r or somewhere below it: it is in every set that holds r and, with *)
(* a menu, what hangs under that.                                          *)
ShownUnder(r, m) ==
    \A S \in SUBSET Ids : r \in S /\ (\A f \in S : childers[f] \subseteq S) => m \in S

(* Whatever the page read and in whatever order, what it shows it shows    *)
(* once: a listed menu is a root or hangs in one place, under its father   *)
(* as read last, and can be reached from a root - unless it is below a menu*)
(* that is its own father, which nothing shows (MenuFunctionTreeUtils).    *)
ShownOnce ==
    stage = "shown" => \A m \in Listed :
        /\ {f \in Ids : m \in childers[f]} = IF m \in hashMap THEN {} ELSE {father[m]}
        /\ \/ \E r \in hashMap : ShownUnder(r, m)
           \/ \E f \in Listed : father[f] = f /\ ShownUnder(f, m)

(* The father comes before m in the list.                                  *)
FatherFirst(m) ==
    \E i \in 1..Len(list) : list[i] = father[m] /\ \A j \in 1..i : list[j] # m

(* "Walks the menu tree from the lowest level upwards"                     *)
(* (MenuFunctionTreeUtils): where every father comes after its children,   *)
(* the roots are the menus whose father is not listed.  In a list that goes*)
(* another way, as that of a user does (getMenuFunctionUserAll), a menu    *)
(* also comes to the top when its father was visited first and hung: it    *)
(* has left the map and takes no children any more.                        *)
RootsAreRoots ==
    stage = "shown" => \A m \in Listed :
        m \in hashMap <=> \/ father[m] \notin Listed
                          \/ father[m] \notin hashMap /\ FatherFirst(m)

(* A page fails only if some live menu had lost its parent or the path its *)
(* parent's path makes when the page began, or the table was changed       *)
(* between its queries: otherwise no menu is listed under two roots, whose *)
(* second visit would throw, and some menu remains a root                  *)
(* (getMenuFunctionByPage, getMenuFunctionTree).  A page that cannot sort  *)
(* its menus, as one of them has no sort, is a case of its own.            *)
PageFailsOnlyOnStale == stage = "failed" => shaky
=============================================================================
