--------------------------- MODULE MenuForestProofs -------------------------
(***************************************************************************)
(* The pages of menus, for every set of menus, any number of               *)
(* administrators who change the table meanwhile, every order of rows and  *)
(* every choice of roots: what a page shows it shows once, which menus are *)
(* roots, and when a page can fail.                                        *)
(***************************************************************************)
EXTENDS MenuForest, MenuTreeProofs, FiniteSetTheorems, WellFoundedInduction

-----------------------------------------------------------------------------
(* Reading leaves the table alone.                                         *)

(* A step of a page stutters on the table.                                 *)
LEMMA TableOf == [ForestNext]_forestVars => [Next]_vars
BY DEF ForestNext, forestVars, BeginPage, ReadTree, BeginUserPage, FillMap, Visit, SortThrows,
       Finish, MarkRoots, EndPage, TableStep

(* Whatever pages are read, the table is the one of MenuTree, and all that *)
(* is proved of it there holds (MenuFunctionServiceImpl).                  *)
THEOREM PagesOnlyRead == ForestSpec => Spec
<1>1. ForestInit => Init
  BY DEF ForestInit
<1> QED
  BY <1>1, TableOf, PTL DEF ForestSpec, Spec

-----------------------------------------------------------------------------
(* Types.                                                                  *)

(* What a query returns is a list of the menus it selects, each once, and  *)
(* empty only if it selects none.                                          *)
LEMMA OrdersAreLists ==
  ASSUME NEW S \in SUBSET Ids, NEW s \in Orders(S)
  PROVE  /\ s \in Seq(Ids) /\ Len(s) \in Nat
         /\ \A i \in 1..Len(s) : s[i] \in S
         /\ \A i, j \in 1..Len(s) : i # j => s[i] # s[j]
         /\ S # {} => s # <<>> /\ Len(s) > 0
<1>1. IsFiniteSet(S) /\ Cardinality(S) \in Nat
  BY FS_Subset, FS_CardinalityType, ForestAssumption DEF ForestAssumption
<1>2. s \in [1..Cardinality(S) -> S] /\ \A i, j \in DOMAIN s : i # j => s[i] # s[j]
  BY DEF Orders
<1>3. s \in Seq(Ids) /\ Len(s) = Cardinality(S) /\ DOMAIN s = 1..Len(s)
  <2>1. s \in [1..Cardinality(S) -> Ids]
    BY <1>2
  <2> QED
    BY <1>1, <2>1
<1>4. S # {} => Cardinality(S) # 0
  BY <1>1, FS_EmptySet
<1> QED
  BY <1>1, <1>2, <1>3, <1>4

(* The rows of a query join the list and the fathers.                      *)
LEMMA FetchedTypes ==
  ASSUME ForestTypeOK, NEW S \in SUBSET Ids, NEW s \in Orders(S), Fetched(S, s)
  PROVE  /\ list' \in Seq(Ids) /\ Len(list') = Len(list) + Len(s)
         /\ father' \in [Ids -> Parents]
         /\ \A m \in Ids : father'[m] = IF m \in S THEN menu[m].pid ELSE father[m]
         /\ \A i \in 1..Len(list') :
               \/ i \in 1..Len(list) /\ list'[i] = list[i]
               \/ i - Len(list) \in 1..Len(s) /\ list'[i] = s[i - Len(list)]
         /\ Listed \subseteq Listed'
<1>1. list \in Seq(Ids) /\ father \in [Ids -> Parents] /\ menu \in [Ids -> Rows]
  BY DEF ForestTypeOK, TypeOK
<1>2. s \in Seq(Ids)
  BY OrdersAreLists
<1>3. list' = list \o s /\ father' = [m \in Ids |-> IF m \in S THEN menu[m].pid ELSE father[m]]
  BY DEF Fetched
<1>4. \A m \in Ids : menu[m].pid \in Parents
  BY <1>1 DEF Rows
<1>5. \A i \in 1..Len(list) : list'[i] = list[i] /\ i \in 1..Len(list')
  BY <1>1, <1>2, <1>3
<1> QED
  BY <1>1, <1>2, <1>3, <1>4, <1>5 DEF Listed

LEMMA ForestTypeInit == ForestInit => ForestTypeOK
<1> SUFFICES ASSUME ForestInit PROVE ForestTypeOK
  OBVIOUS
<1>1. TypeOK
  BY TreeAssumption
  DEF TreeAssumption, ForestInit, Init, TypeOK, Rows, Works, NoRow, NoWork, Parents
<1>2. roots \in Seq(Ids) /\ list \in Seq(Ids) /\ next \in 1..(Len(list) + 1)
  BY DEF ForestInit
<1>3. father \in [Ids -> Parents] /\ childers \in [Ids -> SUBSET Ids]
  BY DEF ForestInit, Fatherless, Childless, Parents
<1> QED
  BY <1>1, <1>2, <1>3 DEF ForestInit, ForestTypeOK

LEMMA ForestTypeStep == ForestTypeOK /\ [ForestNext]_forestVars => ForestTypeOK'
<1> SUFFICES ASSUME ForestTypeOK, [ForestNext]_forestVars PROVE ForestTypeOK'
  OBVIOUS
<1> DEFINE ReadOK  == /\ stage \in {"off", "read", "build", "shown", "failed", "unsorted"}
                      /\ query \in {"none", "treeById", "userAll"}
                      /\ roots \in Seq(Ids) /\ list \in Seq(Ids)
                      /\ father \in [Ids -> Parents]
           BuildOK == /\ next \in 1..(Len(list) + 1)
                      /\ hashMap \subseteq Listed
                      /\ childers \in [Ids -> SUBSET Ids]
                      /\ half \subseteq Ids
           PageOK  == ReadOK /\ BuildOK /\ shaky \in BOOLEAN
<1>0. PageOK /\ Len(list) \in Nat /\ Listed \subseteq Ids
  BY DEF ForestTypeOK, Listed
<1>1. TypeOK'
  BY TableOf, TypeStep DEF ForestTypeOK
<1>2. SUFFICES PageOK'
  BY <1>1 DEF ForestTypeOK
<1>3. CASE UNCHANGED forestVars
  BY <1>0, <1>3 DEF forestVars, page, tree, Listed
<1>4. ASSUME NEW S \in SUBSET Tops, NEW s \in Orders(S), BeginPage(s) PROVE PageOK'
  <2>1. s \in Seq(Ids)
    BY OrdersAreLists DEF Tops
  <2>2. ReadOK'
    BY <1>0, <1>4, <2>1 DEF BeginPage
  <2>3. BuildOK'
    BY <1>0, <1>4 DEF BeginPage, tree, Listed
  <2>4. shaky' \in BOOLEAN
    BY <1>4 DEF BeginPage, InOrder
  <2> QED
    BY <2>2, <2>3, <2>4
<1>5. ASSUME NEW S \in SUBSET Ids, NEW s \in Orders(S), Fetched(S, s),
             UNCHANGED <<next, tree, half>>
      PROVE  BuildOK' /\ list' \in Seq(Ids) /\ father' \in [Ids -> Parents]
  <2>1. /\ list' \in Seq(Ids) /\ father' \in [Ids -> Parents] /\ Listed \subseteq Listed'
        /\ Len(list') = Len(list) + Len(s) /\ Len(s) \in Nat
    BY <1>5, FetchedTypes, OrdersAreLists
  <2>2. next' \in 1..(Len(list') + 1)
    BY <1>0, <1>5, <2>1
  <2>3. hashMap' \subseteq Listed' /\ childers' \in [Ids -> SUBSET Ids] /\ half' \subseteq Ids
    BY <1>0, <1>5, <2>1 DEF tree
  <2> QED
    BY <2>1, <2>2, <2>3
<1>6. CASE ReadTree
  <2>1. PICK S \in SUBSET Ids : \E s \in Orders(S) : Fetched(S, s)
    BY <1>6 DEF ReadTree, Under
  <2>2. roots' \in Seq(Ids)
    BY <1>0, <1>6 DEF ReadTree
  <2>3. BuildOK' /\ list' \in Seq(Ids) /\ father' \in [Ids -> Parents]
    BY <1>5, <1>6, <2>1 DEF ReadTree
  <2> QED
    BY <1>0, <1>6, <2>2, <2>3 DEF ReadTree
<1>7. ASSUME NEW S \in SUBSET Ids, BeginUserPage(S) PROVE PageOK'
  <2>1. BuildOK' /\ list' \in Seq(Ids) /\ father' \in [Ids -> Parents]
    BY <1>5, <1>7 DEF BeginUserPage
  <2>2. shaky' \in BOOLEAN
    BY <1>7 DEF BeginUserPage, InOrder
  <2> QED
    BY <1>0, <1>7, <2>1, <2>2 DEF BeginUserPage
<1>8. CASE FillMap
  <2>1. Listed' = Listed
    BY <1>8 DEF FillMap, Listed
  <2> QED
    BY <1>0, <1>8, <2>1 DEF FillMap
<1>9. CASE Visit
  <2> DEFINE m == list[next]
  <2>1. m \in Ids /\ Listed' = Listed /\ next' \in 1..(Len(list') + 1)
    BY <1>0, <1>9 DEF Visit, Listed
  <2>2. childers' \in [Ids -> SUBSET Ids] /\ hashMap' \subseteq Listed
    <3>1. CASE m \notin hashMap \/ father[m] \notin hashMap
      BY <1>0, <1>9, <3>1 DEF Visit, tree
    <3>2. CASE m \in hashMap /\ father[m] \in hashMap
      BY <1>0, <1>9, <2>1, <3>2 DEF Visit, HangUnder
    <3> QED
      BY <3>1, <3>2
  <2>3. stage' \in {"off", "read", "build", "shown", "failed", "unsorted"}
    BY <1>0, <1>9 DEF Visit
  <2> QED
    BY <1>0, <1>9, <2>1, <2>2, <2>3 DEF Visit
<1>10. CASE SortThrows \/ Finish
  BY <1>0, <1>10 DEF SortThrows, Finish, tree, Listed
<1>11. ASSUME NEW granted \in BOOLEAN, MarkRoots(granted) PROVE PageOK'
  BY <1>0, <1>11 DEF MarkRoots, tree, Listed
<1>12. CASE EndPage
  <2>1. /\ roots' = <<>> /\ list' = <<>> /\ next' = 1 /\ hashMap' = {} /\ half' = {}
        /\ stage' = "off" /\ query' = "none" /\ shaky' = FALSE
    BY <1>12 DEF EndPage
  <2>3. roots' \in Seq(Ids) /\ list' \in Seq(Ids) /\ next' \in 1..(Len(list') + 1)
    BY <2>1
  <2>2. father' \in [Ids -> Parents] /\ childers' \in [Ids -> SUBSET Ids]
    BY <1>12 DEF EndPage, Fatherless, Childless, Parents
  <2> QED
    BY <2>1, <2>2, <2>3
<1>13. CASE TableStep
  <2>1. UNCHANGED page /\ shaky' \in BOOLEAN
    BY <1>0, <1>13 DEF TableStep
  <2> QED
    BY <1>0, <2>1 DEF page, tree, Listed
<1> QED
  BY <1>3, <1>4, <1>6, <1>7, <1>8, <1>9, <1>10, <1>11, <1>12, <1>13 DEF ForestNext

(* Tables, operations and pages keep their types.                          *)
THEOREM ForestTypeCorrect == ForestSpec => []ForestTypeOK
BY ForestTypeInit, ForestTypeStep, PTL DEF ForestSpec

-----------------------------------------------------------------------------
(* Menus are shown once.                                                   *)

(* A loop over the list is under way or over.                              *)
Building == stage \in {"build", "shown"}

Vanished(m) == \E f \in Listed : father[f] = f /\ ShownUnder(f, m)

(* A menu hangs under its father once it has left the map, and nowhere     *)
(* before; it is always below a menu that is still in the map, or below one*)
(* that is its own father.                                                 *)
HangsOrStays ==
  /\ ~ Building /\ stage \notin {"failed", "unsorted"} => childers = Childless
  /\ Building =>
       /\ \A f \in Ids : \A m \in childers[f] : f = father[m] /\ m \in Listed \ hashMap
       /\ \A m \in Listed \ hashMap : father[m] \in Ids /\ m \in childers[father[m]]
       /\ \A m \in Listed : (\E r \in hashMap : ShownUnder(r, m)) \/ Vanished(m)

(* What is not touched by a step stays true.                               *)
LEMMA HangKept ==
  ASSUME HangsOrStays, UNCHANGED <<stage, list, father, tree>>
  PROVE  HangsOrStays'
<1>1. /\ stage' = stage /\ father' = father /\ Listed' = Listed
      /\ hashMap' = hashMap /\ childers' = childers
  BY DEF Listed, tree
<1>2. \A r, m : ShownUnder(r, m)' <=> ShownUnder(r, m)
  BY <1>1 DEF ShownUnder
<1>3. \A m : Vanished(m)' <=> Vanished(m)
  BY <1>1, <1>2 DEF Vanished
<1>4. Building' <=> Building
  BY <1>1 DEF Building
<1> HIDE DEF Vanished, ShownUnder
<1> QED
  BY <1>1, <1>2, <1>3, <1>4 DEF HangsOrStays, Childless

(* Hanging a menu leaves everything below some root, or below a menu that  *)
(* is its own father.                                                      *)
LEMMA HangOnce ==
  ASSUME ForestTypeOK, HangsOrStays, stage = "build", Visit,
         NEW m, m = list[next], m \in hashMap, father[m] \in hashMap
  PROVE  HangsOrStays'
<1>1. /\ childers' = [childers EXCEPT ![father[m]] = @ \cup {m}] /\ hashMap' = hashMap \ {m}
      /\ list' = list /\ father' = father /\ Listed' = Listed /\ stage' = stage
  BY DEF Visit, HangUnder, Listed
<1>2. /\ childers \in [Ids -> SUBSET Ids] /\ hashMap \subseteq Listed /\ Listed \subseteq Ids
      /\ m \in Listed /\ father[m] \in Ids
  BY DEF ForestTypeOK, Listed
<1>3. /\ \A f \in Ids : childers'[f] = IF f = father[m] THEN childers[f] \cup {m} ELSE childers[f]
      /\ \A f \in Ids : childers[f] \subseteq childers'[f]
  BY <1>1, <1>2
<1>4. ASSUME NEW r, NEW c, ShownUnder(r, c) PROVE ShownUnder(r, c)'
  BY <1>3, <1>4 DEF ShownUnder
<1>5. ASSUME NEW c, ShownUnder(m, c) PROVE ShownUnder(father[m], c)'
  <2> SUFFICES ASSUME NEW S \in SUBSET Ids, father[m] \in S,
                      \A f \in S : childers'[f] \subseteq S
               PROVE  c \in S
    BY <1>1 DEF ShownUnder
  <2>1. m \in childers'[father[m]]
    BY <1>2, <1>3
  <2>2. m \in S /\ \A f \in S : childers[f] \subseteq S
    BY <1>3, <2>1
  <2> QED
    BY <1>5, <2>2 DEF ShownUnder
<1>6. ASSUME NEW c \in Listed
      PROVE  (\E r \in hashMap' : ShownUnder(r, c)') \/ Vanished(c)'
  <2>1. CASE Vanished(c)
    BY <1>1, <1>4, <2>1 DEF Vanished
  <2>2. ASSUME NEW r \in hashMap, ShownUnder(r, c), r # m
        PROVE  \E x \in hashMap' : ShownUnder(x, c)'
    BY <1>1, <1>4, <2>2
  <2>3. ASSUME ShownUnder(m, c), father[m] # m
        PROVE  \E x \in hashMap' : ShownUnder(x, c)'
    BY <1>1, <1>5, <2>3
  <2>4. ASSUME ShownUnder(m, c), father[m] = m PROVE Vanished(c)'
    BY <1>1, <1>2, <1>4, <2>4 DEF Vanished
  <2> QED
    BY <2>1, <2>2, <2>3, <2>4 DEF HangsOrStays, Building
<1>7. \A f \in Ids : \A c \in childers'[f] : f = father[c] /\ c \in Listed \ hashMap'
  BY <1>1, <1>2, <1>3 DEF HangsOrStays, Building
<1>8. \A c \in Listed \ hashMap' : father[c] \in Ids /\ c \in childers'[father[c]]
  <2>1. m \in childers'[father[m]]
    BY <1>2, <1>3
  <2>2. \A c \in Listed \ hashMap : father[c] \in Ids /\ c \in childers[father[c]]
    BY DEF HangsOrStays, Building
  <2> QED
    BY <1>1, <1>2, <1>3, <2>1, <2>2
<1> HIDE DEF Vanished, ShownUnder
<1>9. Building'
  BY <1>1 DEF Building
<1> QED
  BY <1>1, <1>6, <1>7, <1>8, <1>9 DEF HangsOrStays

LEMMA HangStepForest ==
  ASSUME ForestTypeOK, HangsOrStays, [ForestNext]_forestVars
  PROVE  HangsOrStays'
<1>1. CASE UNCHANGED <<stage, list, father, tree>>
  BY <1>1, HangKept
<1>2. ASSUME childers = Childless, childers' = childers, stage' \in {"off", "read", "failed"}
      PROVE  HangsOrStays'
  BY <1>2 DEF HangsOrStays, Building, Childless
<1>3. ASSUME NEW s, BeginPage(s) PROVE HangsOrStays'
  BY <1>2, <1>3 DEF BeginPage, tree, HangsOrStays, Building
<1>4. CASE ReadTree
  BY <1>2, <1>4 DEF ReadTree, tree, HangsOrStays, Building
<1>5. ASSUME NEW S, BeginUserPage(S) PROVE HangsOrStays'
  BY <1>2, <1>5 DEF BeginUserPage, tree, HangsOrStays, Building
<1>6. CASE FillMap
  <2>1. childers = Childless /\ childers' = childers
    BY <1>6 DEF FillMap, HangsOrStays, Building
  <2>2. CASE list = <<>>
    BY <1>2, <1>6, <2>1, <2>2 DEF FillMap
  <2>3. CASE list # <<>>
    <3>1. hashMap' = Listed /\ Listed' = Listed /\ stage' = "build" /\ Listed \subseteq Ids
      BY <1>6, <2>3 DEF FillMap, Listed, ForestTypeOK
    <3>2. \A f \in Ids : childers'[f] = {}
      BY <2>1 DEF Childless
    <3>3. \A m \in Listed : ShownUnder(m, m)'
      BY DEF ShownUnder
    <3> QED
      BY <3>1, <3>2, <3>3 DEF HangsOrStays, Building
  <2> QED
    BY <2>2, <2>3
<1>7. CASE Visit
  <2> DEFINE m == list[next]
  <2>1. CASE m \notin hashMap
    BY <1>7, <2>1 DEF Visit, HangsOrStays, Building
  <2>2. CASE m \in hashMap /\ father[m] \notin hashMap
    BY <1>1, <1>7, <2>2 DEF Visit
  <2>3. CASE m \in hashMap /\ father[m] \in hashMap
    <3>1. stage = "build"
      BY <1>7 DEF Visit
    <3> QED
      BY <1>7, <2>3, <3>1, HangOnce
  <2> QED
    BY <2>1, <2>2, <2>3
<1>8. CASE SortThrows \/ Finish
  <2>1. /\ UNCHANGED <<list, father, tree>> /\ stage = "build"
        /\ stage' \in {"shown", "failed", "unsorted"}
    BY <1>8 DEF SortThrows, Finish
  <2>2. Building /\ Listed' = Listed /\ hashMap' = hashMap /\ childers' = childers
    BY <2>1 DEF Building, Listed, tree
  <2>3. \A r, m : ShownUnder(r, m)' <=> ShownUnder(r, m)
    BY <2>2 DEF ShownUnder
  <2>4. \A m : Vanished(m)' <=> Vanished(m)
    BY <2>1, <2>2, <2>3 DEF Vanished
  <2>5. stage' \in {"failed", "unsorted"} \/ Building'
    BY <2>1 DEF Building
  <2> HIDE DEF Vanished, ShownUnder
  <2> QED
    BY <2>1, <2>2, <2>3, <2>4, <2>5 DEF HangsOrStays, Building
<1>9. ASSUME NEW granted, MarkRoots(granted) PROVE HangsOrStays'
  BY <1>1, <1>9 DEF MarkRoots
<1>10. CASE EndPage
  BY <1>10 DEF EndPage, HangsOrStays, Building, Childless
<1>11. CASE TableStep
  BY <1>1, <1>11 DEF TableStep, page
<1>12. CASE UNCHANGED forestVars
  BY <1>1, <1>12 DEF forestVars, page
<1> QED
  BY <1>3, <1>4, <1>5, <1>6, <1>7, <1>8, <1>9, <1>10, <1>11, <1>12 DEF ForestNext

(* Whatever was read and in whatever order, a listed menu is shown as a    *)
(* root or in one place under its father, and can be reached from a root   *)
(* unless it is below a menu that is its own father (MenuFunctionTreeUtils)*)
THEOREM MenusShownOnce == ForestSpec => []ShownOnce
<1>1. ForestInit => HangsOrStays
  BY DEF ForestInit, HangsOrStays, Building
<1>2. ForestTypeOK /\ HangsOrStays => ShownOnce
  <2> SUFFICES ASSUME ForestTypeOK, HangsOrStays, stage = "shown", NEW m \in Listed
               PROVE  /\ {f \in Ids : m \in childers[f]}
                           = IF m \in hashMap THEN {} ELSE {father[m]}
                      /\ (\E r \in hashMap : ShownUnder(r, m)) \/ Vanished(m)
    BY DEF ShownOnce, Vanished
  <2>1. /\ \A f \in Ids : \A c \in childers[f] : f = father[c] /\ c \in Listed \ hashMap
        /\ \A c \in Listed \ hashMap : father[c] \in Ids /\ c \in childers[father[c]]
        /\ (\E r \in hashMap : ShownUnder(r, m)) \/ Vanished(m)
    BY DEF HangsOrStays, Building
  <2> QED
    BY <2>1
<1> QED
  BY <1>1, <1>2, ForestTypeCorrect, HangStepForest, PTL DEF ForestSpec

-----------------------------------------------------------------------------
(* The roots.                                                              *)

(* The loop has come to m before.                                          *)
Passed(m) == \E i \in 1..(next - 1) : list[i] = m

IsRoot(m) == father[m] \notin Listed \/ (father[m] \notin hashMap /\ FatherFirst(m))

(* A menu the loop has not come to is in the map, and one it has come to is*)
(* there exactly if it is to be a root.                                    *)
RootsSoFar ==
  Building =>
    /\ \A m \in Listed : ~ Passed(m) => m \in hashMap
    /\ \A m \in Listed : Passed(m) => (m \in hashMap <=> IsRoot(m))

LEMMA RootsKept ==
  ASSUME RootsSoFar, UNCHANGED <<list, father, next, tree>>, Building' => Building
  PROVE  RootsSoFar'
<1>1. /\ list' = list /\ father' = father /\ next' = next /\ Listed' = Listed
      /\ hashMap' = hashMap
  BY DEF Listed, tree
<1>2. \A m : (Passed(m)' <=> Passed(m)) /\ (IsRoot(m)' <=> IsRoot(m))
  BY <1>1 DEF Passed, IsRoot, FatherFirst
<1> HIDE DEF Passed, IsRoot, Building
<1> QED
  BY <1>1, <1>2 DEF RootsSoFar

(* The menu the loop is at has its father in the map unless it is to be a  *)
(* root; and no menu the loop has passed was waiting for it to leave.      *)
LEMMA RootsVisited ==
  ASSUME ForestTypeOK, RootsSoFar, stage = "build", Visit,
         NEW m, m = list[next], m \in hashMap
  PROVE  RootsSoFar'
<1>1. /\ list' = list /\ father' = father /\ Listed' = Listed /\ next' = next + 1
      /\ hashMap' = IF father[m] \in hashMap THEN hashMap \ {m} ELSE hashMap
  BY DEF Visit, HangUnder, tree, Listed
<1>2. /\ hashMap \subseteq Listed /\ m \in Listed /\ next \in 1..Len(list) /\ Len(list) \in Nat
  BY DEF ForestTypeOK, Visit, Listed
<1>3. \A c \in Listed : Passed(c)' <=> c = m \/ Passed(c)
  <2>1. \A i : i \in 1..(next' - 1) <=> i \in 1..(next - 1) \/ i = next
    BY <1>1, <1>2
  <2> QED
    BY <1>1, <2>1 DEF Passed
<1>4. \A c : FatherFirst(c)' <=> FatherFirst(c)
  BY <1>1 DEF FatherFirst
<1>5. /\ \A c \in Listed : ~ Passed(c) => c \in hashMap
      /\ \A c \in Listed : Passed(c) => (c \in hashMap <=> IsRoot(c))
  BY DEF RootsSoFar, Building
<1>6. CASE Passed(m)
  <2>1. father[m] \notin hashMap
    BY <1>2, <1>5, <1>6 DEF IsRoot
  <2>2. hashMap' = hashMap /\ \A c : IsRoot(c)' <=> IsRoot(c)
    BY <1>1, <1>4, <2>1 DEF IsRoot
  <2> QED
    BY <1>1, <1>2, <1>3, <1>5, <1>6, <2>2 DEF RootsSoFar
<1>7. CASE ~ Passed(m)
  <2>1. ASSUME NEW c \in Listed, ~ Passed(c)' PROVE c \in hashMap'
    BY <1>1, <1>3, <1>5, <2>1
  <2>2. m \in hashMap' <=> IsRoot(m)'
    <3>1. CASE father[m] \in hashMap
      <4>1. m \notin hashMap' /\ father[m] \in Listed
        BY <1>1, <1>2, <3>1
      <4>2. father[m] # m => father[m] \in hashMap'
        BY <1>1, <3>1
      <4>3. father[m] = m => ~ FatherFirst(m)
        BY DEF FatherFirst
      <4> QED
        BY <1>1, <1>4, <4>1, <4>2, <4>3 DEF IsRoot
    <3>2. CASE father[m] \notin hashMap
      <4>1. hashMap' = hashMap /\ m \in hashMap'
        BY <1>1, <3>2
      <4>2. ASSUME father[m] \in Listed PROVE FatherFirst(m)
        <5>1. Passed(father[m])
          BY <1>5, <3>2, <4>2
        <5>2. PICK i \in 1..(next - 1) : list[i] = father[m]
          BY <5>1 DEF Passed
        <5>3. i \in 1..Len(list) /\ \A j \in 1..i : j \in 1..(next - 1)
          BY <1>2
        <5>4. \A j \in 1..i : list[j] # m
          BY <1>7, <5>3 DEF Passed
        <5> QED
          BY <5>2, <5>3, <5>4 DEF FatherFirst
      <4> QED
        BY <1>1, <1>4, <3>2, <4>1, <4>2 DEF IsRoot
    <3> QED
      BY <3>1, <3>2
  <2>3. ASSUME NEW c \in Listed, Passed(c), c # m
        PROVE  c \in hashMap' <=> IsRoot(c)'
    <3>1. (c \in hashMap <=> IsRoot(c)) /\ (c \in hashMap' <=> c \in hashMap)
      BY <1>1, <1>5, <2>3
    <3>2. CASE father[c] # m
      <4>1. father[c] \in hashMap' <=> father[c] \in hashMap
        BY <1>1, <3>2
      <4> QED
        BY <1>1, <1>4, <3>1, <4>1 DEF IsRoot
    <3>3. CASE father[c] = m
      <4>1. ~ FatherFirst(c)
        <5> SUFFICES ASSUME NEW i \in 1..Len(list), list[i] = m, \A j \in 1..i : list[j] # c
                     PROVE  FALSE
          BY <3>3 DEF FatherFirst
        <5>1. PICK k \in 1..(next - 1) : list[k] = c
          BY <2>3 DEF Passed
        <5>2. i \notin 1..(next - 1)
          BY <1>7 DEF Passed
        <5>3. k \in 1..i
          BY <1>2, <5>1, <5>2
        <5> QED
          BY <5>1, <5>3
      <4>2. ~ IsRoot(c) /\ ~ IsRoot(c)'
        BY <1>1, <1>2, <1>4, <3>3, <4>1 DEF IsRoot
      <4> QED
        BY <3>1, <4>2
    <3> QED
      BY <3>2, <3>3
  <2> HIDE DEF Passed, IsRoot
  <2> QED
    BY <1>1, <1>3, <2>1, <2>2, <2>3 DEF RootsSoFar
<1> QED
  BY <1>6, <1>7

LEMMA RootsStep ==
  ASSUME ForestTypeOK, RootsSoFar, [ForestNext]_forestVars
  PROVE  RootsSoFar'
<1>1. CASE UNCHANGED <<list, father, next, tree>> /\ (Building' => Building)
  BY <1>1, RootsKept
<1>2. CASE ~ Building'
  BY <1>2 DEF RootsSoFar
<1>3. ASSUME NEW s, BeginPage(s) \/ ReadTree \/ BeginUserPage(s) \/ EndPage PROVE ~ Building'
  BY <1>3 DEF BeginPage, ReadTree, BeginUserPage, EndPage, Building
<1>4. CASE FillMap
  <2>1. next' = 1 /\ hashMap' = Listed'
    BY <1>4 DEF FillMap, Listed
  <2>2. \A m : ~ Passed(m)'
    BY <2>1 DEF Passed
  <2> QED
    BY <2>1, <2>2 DEF RootsSoFar
<1>5. CASE Visit
  <2> DEFINE m == list[next]
  <2>1. stage = "build"
    BY <1>5 DEF Visit
  <2>2. CASE m \notin hashMap
    BY <1>2, <1>5, <2>2 DEF Visit, Building
  <2>3. CASE m \in hashMap
    BY <1>5, <2>1, <2>3, RootsVisited
  <2> QED
    BY <2>2, <2>3
<1>6. CASE SortThrows \/ Finish
  BY <1>1, <1>6 DEF SortThrows, Finish, Building
<1>7. ASSUME NEW granted, MarkRoots(granted) PROVE RootsSoFar'
  BY <1>1, <1>7 DEF MarkRoots, Building
<1>8. CASE TableStep
  BY <1>1, <1>8 DEF TableStep, page, Building
<1>9. CASE UNCHANGED forestVars
  BY <1>1, <1>9 DEF forestVars, page, Building
<1> QED
  BY <1>2, <1>3, <1>4, <1>5, <1>6, <1>7, <1>8, <1>9 DEF ForestNext

(* A page is shown when the loop is over.                                  *)
LoopDone == stage = "shown" => next = Len(list) + 1

(* The roots of a page are the menus whose father is not listed, and those *)
(* whose father comes before them in the list and has been hung itself     *)
(* (MenuFunctionTreeUtils, getMenuFunctionUserAll).                        *)
THEOREM RootsAreAsListed == ForestSpec => []RootsAreRoots
<1>1. ForestInit => RootsSoFar
  BY DEF ForestInit, RootsSoFar, Building
<1>2. ForestTypeOK /\ RootsSoFar /\ LoopDone => RootsAreRoots
  <2> SUFFICES ASSUME ForestTypeOK, RootsSoFar, LoopDone, stage = "shown", NEW m \in Listed
               PROVE  m \in hashMap <=> IsRoot(m)
    BY DEF RootsAreRoots, IsRoot
  <2>1. Passed(m)
    BY DEF LoopDone, Passed, Listed
  <2> QED
    BY <2>1 DEF RootsSoFar, Building
<1>3. ForestInit => LoopDone
  BY DEF ForestInit, LoopDone
<1>4. LoopDone /\ [ForestNext]_forestVars => LoopDone'
  BY DEF LoopDone, ForestNext, forestVars, page, BeginPage, ReadTree, BeginUserPage, FillMap,
         Visit, SortThrows, Finish, MarkRoots, EndPage, TableStep
<1> QED
  BY <1>1, <1>2, <1>3, <1>4, ForestTypeCorrect, RootsStep, PTL DEF ForestSpec

-----------------------------------------------------------------------------
(* A page fails only on a table out of order.                              *)

(* A set of numbers has a least one.                                       *)
LEMMA LeastNumber ==
  ASSUME NEW T, T \subseteq Nat, T # {}
  PROVE  \E n \in T : \A k \in T : n <= k
<1>1. PICK n \in T : \A k \in T : ~ (<<k, n>> \in OpToRel(<, Nat))
  BY NatLessThanWellFounded, WFMin
<1>2. \A k \in T : ~ (k < n)
  BY <1>1 DEF OpToRel
<1> QED
  BY <1>2

(* A path that goes on is longer.                                          *)
LEMMA PathsGrow ==
  ASSUME NEW p \in Seq(Ids), NEW m \in Ids
  PROVE  /\ <<m>> # <<>> /\ Append(p, m) # <<>>
         /\ Len(Append(p, m)) = Len(p) + 1 /\ Len(p) \in Nat
         /\ Append(p, m) # p
<1>1. Len(Append(p, m)) = Len(p) + 1 /\ Len(p) \in Nat
  OBVIOUS
<1>2. Append(p, m) # p
  BY <1>1
<1>3. ASSUME NEW q, Len(q) # 0 PROVE q # <<>>
  <2>1. Len(<<>>) = 0
    OBVIOUS
  <2> QED
    BY <1>3, <2>1
<1>4. <<m>> # <<>>
  <2>1. Len(<<m>>) = 1
    OBVIOUS
  <2> QED
    BY <1>3, <2>1
<1>5. Append(p, m) # <<>>
  BY <1>1, <1>3
<1> QED
  BY <1>1, <1>2, <1>4, <1>5

(* In a table in order no menu is its own father.                          *)
LEMMA NoOwnFather ==
  ASSUME TypeOK, InOrder, NEW m \in Ids, Live(m)
  PROVE  menu[m].pid # m /\ menu[m].path # <<>>
<1>0. \A x \in Ids : menu[x].path \in Seq(Ids) /\ menu[x].pid \in Ids \cup {Root}
  BY DEF TypeOK, Rows, Parents
<1>1. Root \notin Ids
  BY TreeAssumption DEF TreeAssumption
<1>2. CASE menu[m].pid = Root
  <2>1. menu[m].path = <<m>>
    BY <1>2 DEF InOrder
  <2> QED
    BY <1>0, <1>1, <1>2, <2>1, PathsGrow
<1>3. CASE menu[m].pid # Root
  <2>1. menu[m].path = Append(menu[menu[m].pid].path, m)
    BY <1>3 DEF InOrder
  <2>2. menu[m].pid \in Ids
    BY <1>0, <1>3
  <2>3. PICK path \in Seq(Ids) : path = menu[menu[m].pid].path
    BY <1>0, <2>2
  <2> QED
    BY <2>1, <2>3, PathsGrow
<1> QED
  BY <1>2, <1>3

(* In a table in order, what has a top-level menu on its path is below it: *)
(* its path starts there.  So it is in the tree of no other one.           *)
LEMMA PathsStartAtTheTop ==
  ASSUME TypeOK, InOrder, NEW r \in Tops
  PROVE  \A m \in Under(r) : menu[m].path[1] = r
<1> DEFINE Wrong == {m \in Under(r) : menu[m].path[1] # r}
           Lengths == {Len(menu[m].path) : m \in Wrong}
<1>0. /\ menu \in [Ids -> Rows] /\ r \in Ids /\ menu[r].pid = Root
      /\ \A m \in Ids : menu[m].path \in Seq(Ids) /\ menu[m].pid \in Parents
  BY DEF TypeOK, Tops, Rows
<1> SUFFICES ASSUME Wrong # {} PROVE FALSE
  OBVIOUS
<1>7. Wrong \subseteq Ids
  BY DEF Under
<1> HIDE DEF Wrong
<1>8. ASSUME NEW m \in Wrong PROVE Len(menu[m].path) \in Nat
  <2>1. PICK path \in Seq(Ids) : path = menu[m].path
    BY <1>0, <1>7
  <2> QED
    BY <2>1
<1>1. Lengths \subseteq Nat /\ Lengths # {}
  BY <1>8
<1>2. PICK n \in Lengths : \A k \in Lengths : n <= k
  BY <1>1, LeastNumber
<1>3. PICK m \in Wrong : n = Len(menu[m].path)
  BY <1>2
<1>4. m \in Ids /\ Live(m) /\ r \in OnPath(m) /\ menu[m].path[1] # r
  BY <1>3 DEF Under, Wrong
<1>5. CASE menu[m].pid = Root
  <2>1. menu[m].path = <<m>>
    BY <1>4, <1>5 DEF InOrder
  <2> QED
    BY <1>4, <2>1 DEF OnPath
<1>6. CASE menu[m].pid # Root
  <2>1. PICK p \in Ids : p = menu[m].pid
    BY <1>0, <1>4, <1>6 DEF Parents
  <2>2. Live(p) /\ menu[m].path = Append(menu[p].path, m)
    BY <1>4, <1>6, <2>1 DEF InOrder
  <2>3. menu[p].path # <<>>
    BY <2>2, NoOwnFather
  <2>4. PICK path \in Seq(Ids) : path = menu[p].path
    BY <1>0
  <2>5. /\ Len(menu[m].path) = Len(path) + 1 /\ Len(path) \in Nat /\ Len(path) > 0
        /\ \A i \in 1..Len(path) : menu[m].path[i] = path[i]
        /\ menu[m].path[Len(path) + 1] = m
    BY <2>2, <2>3, <2>4
  <2>6. path[1] # r
    BY <1>4, <2>5
  <2>7. r # m
    BY <1>0, <1>6
  <2>8. r \in OnPath(p)
    <3>1. PICK i \in 1..Len(menu[m].path) : menu[m].path[i] = r
      BY <1>4 DEF OnPath
    <3>2. i \in 1..Len(path)
      BY <2>5, <2>7, <3>1
    <3> QED
      BY <2>4, <2>5, <3>1, <3>2 DEF OnPath
  <2>9. p \in Wrong
    BY <2>1, <2>2, <2>4, <2>6, <2>8 DEF Under, Wrong
  <2>10. Len(path) \in Lengths
    BY <2>4, <2>9
  <2> QED
    BY <1>2, <1>3, <2>5, <2>10
<1> QED
  BY <1>5, <1>6

(* The rows of the top-level menu that is queried next are no rows of the  *)
(* trees that were queried before.                                         *)
LEMMA TreesAreDisjoint ==
  ASSUME ForestTypeOK, InOrder, roots # <<>>,
         \A i \in 1..Len(roots) : roots[i] \in Tops,
         \A i \in 1..Len(list), j \in 1..Len(roots) : menu[list[i]].path[1] # roots[j]
  PROVE  /\ Under(Head(roots)) # {}
         /\ \A m \in Under(Head(roots)) : /\ menu[m].path[1] = Head(roots)
                                          /\ m \notin Listed
<1>1. roots \in Seq(Ids) /\ Len(roots) \in Nat /\ 1 \in 1..Len(roots) /\ Head(roots) = roots[1]
  BY DEF ForestTypeOK
<1>2. Head(roots) \in Tops
  BY <1>1
<1>3. ASSUME NEW r \in Tops PROVE r \in Under(r)
  <2>1. r \in Ids /\ Live(r) /\ menu[r].path = <<r>>
    BY DEF Tops, InOrder
  <2>2. 1 \in 1..Len(<<r>>) /\ <<r>>[1] = r
    OBVIOUS
  <2> QED
    BY <2>1, <2>2 DEF Under, OnPath
<1>4. \A m \in Under(Head(roots)) : menu[m].path[1] = roots[1]
  BY <1>1, <1>2, PathsStartAtTheTop DEF ForestTypeOK
<1> QED
  BY <1>1, <1>2, <1>3, <1>4 DEF Listed

(* As long as the table is in order and nobody changes it, the page lists  *)
(* every menu once and under one root; so no menu that the loop comes to   *)
(* has left the map, and the map never gets empty.                         *)
Orderly ==
  stage # "off" /\ ~ shaky =>
    /\ stage # "failed"
    /\ InOrder
    /\ \A i \in 1..Len(list) : Live(list[i]) /\ father[list[i]] = menu[list[i]].pid
    /\ \A i, j \in 1..Len(list) : i # j => list[i] # list[j]
    /\ \A i \in 1..Len(roots) : roots[i] \in Tops
    /\ \A i, j \in 1..Len(roots) : i # j => roots[i] # roots[j]
    /\ \A i \in 1..Len(list), j \in 1..Len(roots) : menu[list[i]].path[1] # roots[j]
    /\ roots = <<>> => list # <<>>
    /\ stage = "build" => /\ \A i \in next..Len(list) : list[i] \in hashMap
                          /\ hashMap # {}

LEMMA OrderlyKept ==
  ASSUME Orderly, UNCHANGED <<menu, stage, roots, list, father, next, hashMap>>,
         shaky => shaky'
  PROVE  Orderly'
BY DEF Orderly, InOrder, Tops, Live

LEMMA OrderlyRead ==
  ASSUME ForestTypeOK, Orderly, ReadTree
  PROVE  Orderly'
<1> SUFFICES ASSUME ~ shaky' PROVE Orderly'
  BY DEF Orderly
<1> DEFINE S == Under(Head(roots))
<1>0. /\ ~ shaky /\ stage = "read" /\ stage' = "read" /\ menu' = menu
      /\ roots # <<>> /\ roots' = Tail(roots)
  BY DEF ReadTree, vars
<1>1. /\ InOrder
      /\ \A i \in 1..Len(list) : Live(list[i]) /\ father[list[i]] = menu[list[i]].pid
      /\ \A i, j \in 1..Len(list) : i # j => list[i] # list[j]
      /\ \A i \in 1..Len(roots) : roots[i] \in Tops
      /\ \A i, j \in 1..Len(roots) : i # j => roots[i] # roots[j]
      /\ \A i \in 1..Len(list), j \in 1..Len(roots) : menu[list[i]].path[1] # roots[j]
  BY <1>0 DEF Orderly
<1>2. /\ S # {} /\ S \in SUBSET Ids
      /\ \A m \in S : menu[m].path[1] = Head(roots) /\ m \notin Listed /\ Live(m)
  BY <1>0, <1>1, TreesAreDisjoint DEF Under
<1> PICK s \in Orders(S) : Fetched(S, s)
  BY DEF ReadTree
<1> HIDE DEF S
<1>3. /\ s \in Seq(Ids) /\ Len(s) \in Nat /\ Len(s) > 0
      /\ \A i \in 1..Len(s) : s[i] \in S
      /\ \A i, j \in 1..Len(s) : i # j => s[i] # s[j]
  BY <1>2, OrdersAreLists
<1>4. /\ list' \in Seq(Ids) /\ Len(list') = Len(list) + Len(s)
      /\ \A m \in Ids : father'[m] = IF m \in S THEN menu[m].pid ELSE father[m]
      /\ \A i \in 1..Len(list') :
            \/ i \in 1..Len(list) /\ list'[i] = list[i]
            \/ i - Len(list) \in 1..Len(s) /\ list'[i] = s[i - Len(list)]
  BY <1>2, FetchedTypes
<1>5. /\ list \in Seq(Ids) /\ Len(list) \in Nat /\ Listed \subseteq Ids
      /\ roots \in Seq(Ids) /\ Len(roots) \in Nat /\ Len(roots) > 0 /\ Head(roots) = roots[1]
      /\ \A i \in 1..Len(list) : list[i] \in Listed
  BY <1>0 DEF ForestTypeOK, Listed
<1>6. Len(roots') = Len(roots) - 1 /\ \A j \in 1..Len(roots') : /\ roots'[j] = roots[j + 1]
                                                            /\ j + 1 \in 1..Len(roots)
                                                            /\ j + 1 # 1
  BY <1>0, <1>5
<1>7. ASSUME NEW i \in 1..Len(list')
      PROVE  /\ menu'[list'[i]].status = "live" /\ father'[list'[i]] = menu'[list'[i]].pid
             /\ \A j \in 1..Len(roots') : menu'[list'[i]].path[1] # roots'[j]
  <2>1. CASE i \in 1..Len(list) /\ list'[i] = list[i]
    <3>1. list[i] \in Ids /\ list[i] \notin S
      BY <1>2, <1>5, <2>1
    <3>2. menu'[list'[i]].status = "live"
      BY <1>0, <1>1, <2>1 DEF Live
    <3>3. father'[list'[i]] = menu'[list'[i]].pid
      BY <1>0, <1>1, <1>4, <2>1, <3>1
    <3>4. \A j \in 1..Len(roots') : menu'[list'[i]].path[1] # roots'[j]
      BY <1>0, <1>1, <1>6, <2>1
    <3> QED
      BY <3>2, <3>3, <3>4
  <2>2. CASE i - Len(list) \in 1..Len(s) /\ list'[i] = s[i - Len(list)]
    <3>1. list'[i] \in S /\ list'[i] \in Ids
      BY <1>2, <1>3, <2>2
    <3>2. ASSUME NEW j \in 1..Len(roots') PROVE roots[1] # roots'[j]
      <4>1. roots'[j] = roots[j + 1] /\ j + 1 \in 1..Len(roots) /\ j + 1 # 1
        BY <1>6
      <4>2. 1 \in 1..Len(roots)
        BY <1>5
      <4>3. roots[1] # roots[j + 1]
        BY <1>1, <4>1, <4>2
      <4> QED
        BY <4>1, <4>3
    <3>3. menu'[list'[i]].status = "live"
      BY <1>0, <1>2, <3>1 DEF Live
    <3>4. father'[list'[i]] = menu'[list'[i]].pid
      BY <1>0, <1>4, <3>1
    <3>5. \A j \in 1..Len(roots') : menu'[list'[i]].path[1] # roots'[j]
      BY <1>0, <1>2, <1>5, <3>1, <3>2
    <3> QED
      BY <3>3, <3>4, <3>5
  <2> QED
    BY <1>4, <2>1, <2>2
<1>8. ASSUME NEW i \in 1..Len(list'), NEW j \in 1..Len(list'), i # j PROVE list'[i] # list'[j]
  <2>1. \A k \in 1..Len(list') : k \in 1..Len(list) => list'[k] \in Listed /\ list'[k] = list[k]
    BY <1>3, <1>4, <1>5
  <2>2. \A k \in 1..Len(list') : k \notin 1..Len(list) =>
           /\ k - Len(list) \in 1..Len(s) /\ list'[k] = s[k - Len(list)] /\ list'[k] \in S
    BY <1>3, <1>4
  <2>3. CASE i \in 1..Len(list) /\ j \in 1..Len(list)
    BY <1>1, <1>8, <2>1, <2>3
  <2>4. CASE i \notin 1..Len(list) /\ j \notin 1..Len(list)
    <3>1. i - Len(list) # j - Len(list)
      BY <1>5, <1>8
    <3> QED
      BY <1>3, <2>2, <2>4, <3>1
  <2>5. CASE (i \in 1..Len(list)) # (j \in 1..Len(list))
    BY <1>2, <2>1, <2>2, <2>5
  <2> QED
    BY <2>3, <2>4, <2>5
<1>9. /\ \A i \in 1..Len(roots') : roots'[i] \in Tops'
      /\ \A i, j \in 1..Len(roots') : i # j => roots'[i] # roots'[j]
  <2>1. Tops' = Tops
    BY <1>0 DEF Tops, Live
  <2> QED
    BY <1>1, <1>6, <2>1
<1>10. InOrder' /\ list' # <<>>
  <2>1. InOrder'
    BY <1>0, <1>1 DEF InOrder, Live
  <2>2. Len(list') > 0
    BY <1>3, <1>4, <1>5
  <2>3. Len(<<>>) = 0
    OBVIOUS
  <2> QED
    BY <2>1, <2>2, <2>3
<1> QED
  BY <1>0, <1>7, <1>8, <1>9, <1>10 DEF Orderly, Live

(* While no page is read nothing is listed.                                *)
Blank == stage = "off" => list = <<>> /\ roots = <<>>

LEMMA BlankStep == Blank /\ [ForestNext]_forestVars => Blank'
BY DEF Blank, ForestNext, forestVars, page, BeginPage, ReadTree, BeginUserPage, FillMap, Visit,
       SortThrows, Finish, MarkRoots, EndPage, TableStep

(* A page begins with some top-level menus, each once (BeginPage), or with *)
(* some live menus, each once (BeginUserPage).                             *)
LEMMA OrderlyBegun ==
  ASSUME ForestTypeOK, Blank,
         \/ \E S \in (SUBSET Tops) \ {{}} : \E s \in Orders(S) : BeginPage(s)
         \/ \E S \in (SUBSET {m \in Ids : Live(m)}) \ {{}} : BeginUserPage(S)
  PROVE  Orderly'
<1> SUFFICES ASSUME ~ shaky' PROVE Orderly'
  BY DEF Orderly
<1>0. /\ list = <<>> /\ roots = <<>> /\ Len(<<>>) = 0 /\ menu' = menu /\ stage' = "read"
      /\ InOrder
  BY DEF Blank, BeginPage, BeginUserPage, vars
<1>1. InOrder' /\ Tops' = Tops
  BY <1>0 DEF InOrder, Tops, Live
<1>2. CASE \E S \in (SUBSET Tops) \ {{}} : \E s \in Orders(S) : BeginPage(s)
  <2>1. PICK S \in (SUBSET Tops) \ {{}} : \E s \in Orders(S) : BeginPage(s)
    BY <1>2
  <2>2. PICK s \in Orders(S) : BeginPage(s)
    BY <2>1
  <2>3. S \in SUBSET Ids /\ S # {}
    BY DEF Tops
  <2>4. /\ s # <<>> /\ Len(s) \in Nat /\ \A i \in 1..Len(s) : s[i] \in Tops
        /\ \A i, j \in 1..Len(s) : i # j => s[i] # s[j]
    BY <2>3, OrdersAreLists
  <2>5. roots' = s /\ list' = <<>>
    BY <1>0, <2>2 DEF BeginPage
  <2>6. 1..Len(list') = {}
    BY <1>0, <2>5
  <2>7. \A i \in 1..Len(roots') : roots'[i] \in Tops'
    BY <1>1, <2>4, <2>5
  <2>8. /\ \A i, j \in 1..Len(roots') : i # j => roots'[i] # roots'[j]
        /\ roots' # <<>>
    BY <2>4, <2>5
  <2> QED
    BY <1>0, <1>1, <2>6, <2>7, <2>8 DEF Orderly
<1>3. CASE \E S \in (SUBSET {m \in Ids : Live(m)}) \ {{}} : BeginUserPage(S)
  <2>1. PICK S \in SUBSET Ids : /\ BeginUserPage(S) /\ S # {}
                                /\ \A m \in S : Live(m)
    BY <1>3
  <2>2. PICK s \in Orders(S) : Fetched(S, s)
    BY <2>1 DEF BeginUserPage
  <2>3. /\ s \in Seq(Ids) /\ s # <<>> /\ Len(s) \in Nat /\ \A i \in 1..Len(s) : s[i] \in S
        /\ \A i, j \in 1..Len(s) : i # j => s[i] # s[j]
    BY <2>1, OrdersAreLists
  <2>4. list' = s /\ roots' = <<>>
    <3>1. list' = <<>> \o s /\ roots' = <<>>
      BY <1>0, <2>1, <2>2 DEF BeginUserPage, Fetched
    <3> QED
      BY <2>3, <3>1
  <2>5. \A m \in S : father'[m] = menu[m].pid
    BY <2>2, FetchedTypes
  <2>6. \A i \in 1..Len(list') : Live(list[i])' /\ father'[list'[i]] = menu'[list'[i]].pid
    <3>1. \A i \in 1..Len(s) : menu'[s[i]].status = "live" /\ father'[s[i]] = menu'[s[i]].pid
      BY <1>0, <2>1, <2>3, <2>5 DEF Live
    <3> QED
      BY <2>4, <3>1 DEF Live
  <2> QED
    BY <1>0, <1>1, <2>3, <2>4, <2>6 DEF Orderly
<1> QED
  BY <1>2, <1>3

(* The first loop puts every row into the map.                             *)
LEMMA OrderlyFilled ==
  ASSUME ForestTypeOK, Orderly, FillMap
  PROVE  Orderly'
<1> SUFFICES ASSUME ~ shaky' PROVE Orderly'
  BY DEF Orderly
<1>1. /\ stage = "read" /\ roots = <<>> /\ ~ shaky
      /\ UNCHANGED <<menu, list, roots, father>>
  BY DEF FillMap, vars
<1>2. list # <<>>
  BY <1>1 DEF Orderly
<1>3. stage' = "build" /\ next' = 1 /\ hashMap' = Listed
  BY <1>2 DEF FillMap
<1>4. \A i \in 1..Len(list) : list[i] \in Listed
  BY DEF Listed
<1>5. 1 \in 1..Len(list)
  BY <1>2 DEF ForestTypeOK
<1>6. Listed # {}
  BY <1>4, <1>5
<1>7. InOrder' = InOrder /\ Tops' = Tops
  BY <1>1 DEF InOrder, Tops, Live
<1> QED
  BY <1>1, <1>2, <1>3, <1>4, <1>6, <1>7 DEF Orderly, Live

(* No menu is visited that has left the map, and its father stays in it.   *)
LEMMA OrderlyVisited ==
  ASSUME ForestTypeOK, Orderly, Visit
  PROVE  Orderly'
<1> SUFFICES ASSUME ~ shaky' PROVE Orderly'
  BY DEF Orderly
<1> DEFINE m == list[next]
<1>0. stage = "build" /\ ~ shaky /\ next <= Len(list) /\ next' = next + 1
      /\ UNCHANGED <<menu, list, roots, father>>
  BY DEF Visit, vars
<1>1. list \in Seq(Ids) /\ Len(list) \in Nat /\ next \in 1..Len(list) /\ next \in next..Len(list)
  BY <1>0 DEF ForestTypeOK
<1>2. /\ \A i \in next..Len(list) : list[i] \in hashMap
      /\ \A i, j \in 1..Len(list) : i # j => list[i] # list[j]
      /\ hashMap # {} /\ TypeOK /\ InOrder /\ Live(m) /\ father[m] = menu[m].pid
  <2>1. /\ InOrder
        /\ \A i \in 1..Len(list) : Live(list[i]) /\ father[list[i]] = menu[list[i]].pid
        /\ \A i, j \in 1..Len(list) : i # j => list[i] # list[j]
        /\ \A i \in next..Len(list) : list[i] \in hashMap
        /\ hashMap # {}
    BY <1>0 DEF Orderly
  <2> QED
    BY <1>1, <2>1 DEF ForestTypeOK
<1>3. m \in Ids /\ m \in hashMap
  BY <1>1, <1>2
<1>4. father[m] # m
  BY <1>2, <1>3, NoOwnFather
<1>5. stage' = "build"
  BY <1>0, <1>3 DEF Visit
<1>6. hashMap' # {} /\ \A i \in next'..Len(list) : list[i] \in hashMap'
  <2>1. CASE father[m] \in hashMap
    <3>1. hashMap' = hashMap \ {m}
      BY <1>3, <2>1 DEF Visit, HangUnder
    <3>2. \A i \in next'..Len(list) : /\ i \in next..Len(list) /\ i \in 1..Len(list)
                                      /\ i # next
      BY <1>0, <1>1
    <3>3. \A i \in next'..Len(list) : list[i] \in hashMap /\ list[i] # m
      BY <1>1, <1>2, <3>2
    <3> QED
      BY <1>4, <2>1, <3>1, <3>3
  <2>2. CASE father[m] \notin hashMap
    <3>1. hashMap' = hashMap
      BY <1>3, <2>2 DEF Visit, tree
    <3>2. \A i \in next'..Len(list) : i \in next..Len(list)
      BY <1>0, <1>1
    <3> QED
      BY <1>2, <3>1, <3>2
  <2> QED
    BY <2>1, <2>2
<1>7. InOrder' = InOrder /\ Tops' = Tops
  BY <1>0 DEF InOrder, Tops, Live
<1> QED
  BY <1>0, <1>2, <1>5, <1>6, <1>7 DEF Orderly, Live

(* After the loop some menu is still in the map.                           *)
LEMMA OrderlyFinished ==
  ASSUME Orderly, SortThrows \/ Finish
  PROVE  Orderly'
<1> SUFFICES ASSUME ~ shaky' PROVE Orderly'
  BY DEF Orderly
<1>1. /\ stage = "build" /\ ~ shaky
      /\ UNCHANGED <<menu, list, roots, father>>
  BY DEF SortThrows, Finish, vars
<1>2. stage' \in {"shown", "unsorted"}
  BY <1>1 DEF SortThrows, Finish, Orderly
<1>3. InOrder' = InOrder /\ Tops' = Tops
  BY <1>1 DEF InOrder, Tops, Live
<1> QED
  BY <1>1, <1>2, <1>3 DEF Orderly, Live

LEMMA OrderlyStep == ForestTypeOK /\ Blank /\ Orderly /\ [ForestNext]_forestVars => Orderly'
<1> SUFFICES ASSUME ForestTypeOK, Blank, Orderly, [ForestNext]_forestVars PROVE Orderly'
  OBVIOUS
<1>1. CASE UNCHANGED forestVars
  BY <1>1, OrderlyKept DEF forestVars, vars, page, tree
<1>2. ASSUME NEW granted \in BOOLEAN, MarkRoots(granted) PROVE Orderly'
  BY <1>2, OrderlyKept DEF MarkRoots, vars, tree
<1>3. CASE EndPage
  BY <1>3 DEF EndPage, Orderly
<1>4. CASE TableStep
  <2>1. CASE menu' = menu
    BY <1>4, <2>1, OrderlyKept DEF TableStep, page, tree
  <2>2. CASE menu' # menu
    BY <1>4, <2>2 DEF TableStep, page, Orderly
  <2> QED
    BY <2>1, <2>2
<1> QED
  BY <1>1, <1>2, <1>3, <1>4, OrderlyBegun, OrderlyRead, OrderlyFilled, OrderlyVisited,
     OrderlyFinished DEF ForestNext

(* A page fails only if a live menu had lost its parent or the path that   *)
(* its parent's path makes, or the table was changed between its queries:  *)
(* otherwise no menu is listed under two roots, no visited menu has left   *)
(* the hash map, and some menu remains in it (getMenuFunctionByPage,       *)
(* getMenuFunctionTree).                                                   *)
THEOREM PagesFailOnlyOnStale == ForestSpec => []PageFailsOnlyOnStale
<1>1. ForestInit => Blank /\ Orderly
  BY DEF ForestInit, Blank, Orderly
<1>2. Orderly => PageFailsOnlyOnStale
  BY DEF Orderly, PageFailsOnlyOnStale
<1> QED
  BY <1>1, <1>2, BlankStep, OrderlyStep, ForestTypeCorrect, PTL DEF ForestSpec
=============================================================================
