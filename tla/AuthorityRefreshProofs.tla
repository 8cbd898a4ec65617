----------------------- MODULE AuthorityRefreshProofs -----------------------
(***************************************************************************)
(* What a rebuild leaves in force, for every number of instances, roles,   *)
(* menus and urls and for every page size, whatever faults happen.         *)
(***************************************************************************)
EXTENDS AuthorityRefresh, FiniteSetTheorems, TLAPS

-----------------------------------------------------------------------------
(* The grouped query lists finitely many urls.                             *)
LEMMA GrantedFinite ==
  ASSUME NEW d
  PROVE  /\ IsFiniteSet(GrantedUrls(d))
         /\ Cardinality(GrantedUrls(d)) \in Nat
         /\ Cardinality(GrantedUrls(d)) = 0 <=> GrantedUrls(d) = {}
<1>1. GrantedUrls(d) \in SUBSET Urls
  BY DEF GrantedUrls
<1>2. IsFiniteSet(GrantedUrls(d))
  BY <1>1, FS_Subset, StoreAssumption DEF StoreAssumption
<1> QED
  BY <1>2, FS_CardinalityType, FS_EmptySet

(* Division with remainder, and how many rows so many pages hold.          *)
LEMMA PagesHoldAll ==
  ASSUME NEW count \in Nat
  PROVE  /\ PageCount(count) \in Nat
         /\ PageCount(count) >= 1
         /\ count <= PageCount(count) * PageSize
<1> DEFINE q == count \div PageSize
           r == count % PageSize
<1>1. PageSize \in Nat /\ PageSize > 0
  BY StoreAssumption DEF StoreAssumption
<1>2. q \in Nat /\ r \in 0..(PageSize - 1) /\ count = PageSize * q + r
  BY <1>1
<1>3. (q + 1) * PageSize = PageSize * q + PageSize /\ q * PageSize = PageSize * q
  BY <1>1, <1>2
<1>4. CASE count <= PageSize
  BY <1>4, <1>1 DEF PageCount
<1>5. CASE ~ count <= PageSize
  <2>1. q >= 1
    <3>1. q = 0 => PageSize * q = 0
      BY <1>1
    <3> QED
      BY <3>1, <1>1, <1>2, <1>5
  <2>2. CASE r = 0
    BY <2>1, <2>2, <1>1, <1>2, <1>3, <1>5 DEF PageCount
  <2>3. CASE r # 0
    <3>1. PageCount(count) = q + 1
      BY <2>3, <1>5 DEF PageCount
    <3>2. PageSize * q \in Nat
      BY <1>1, <1>2
    <3> HIDE DEF q, r
    <3> QED
      BY <3>1, <3>2, <1>1, <1>2, <1>3
  <2> QED
    BY <2>2, <2>3
<1> QED
  BY <1>4, <1>5

(* A row's rank is one of the first so many.                               *)
LEMMA RankBounded ==
  ASSUME NEW S, IsFiniteSet(S), NEW u
  PROVE  Rank(S, u) \in Nat /\ Rank(S, u) <= Cardinality(S)
<1>1. {v \in S : v <= u} \in SUBSET S
  OBVIOUS
<1> QED
  BY <1>1, FS_Subset, FS_CardinalityType DEF Rank

-----------------------------------------------------------------------------
(* Type correctness.                                                       *)

LEMMA TypeInit == Init => TypeOK
<1> SUFFICES ASSUME Init PROVE TypeOK
  OBVIOUS
<1> USE StoreAssumption, RefreshAssumption
<1>1. db \in Tables
  BY DEF Init, StoreAssumption, RefreshAssumption, Tables
<1>2. PublicChains \in Chains /\ NoChains \in Chains
  BY DEF StoreAssumption, PublicChains, NoChains, Chains
<1> QED
  BY <1>1, <1>2 DEF Init, TypeOK, StoreAssumption, RefreshAssumption, NoWork, AdminPcs,
                    BuilderPcs, Booting

(* The tables stay tables, whatever is retired from them.                  *)
LEMMA TablesStay ==
  ASSUME db \in Tables
  PROVE  /\ \A rows : Retire(rows) \in Tables
         /\ \A d \in Tables : \A R \in SUBSET Roles :
                [d EXCEPT !.roles = @ \ R] \in Tables
         /\ \A d \in Tables : \A ms \in SUBSET Menus :
                [d EXCEPT !.menus = @ \ ms,
                          !.elems = [e \in Elements |-> {p \in @[e] : p.menu \notin ms}]]
                    \in Tables
         /\ \A e \in Elements : \A ps \in SUBSET Place :
                [db EXCEPT !.elems[e] = ps] \in Tables
         /\ \A gone : \A more \in SUBSET (Roles \X Menus) :
                /\ [db EXCEPT !.grants = @ \cup more] \in Tables
                /\ [db EXCEPT !.grants = (@ \ gone) \cup more, !.dead = @ \ gone] \in Tables
<1> USE DEF Tables
<1>1. \A rows : Retire(rows) \in Tables
  BY DEF Retire
<1>2. \A d \in Tables : \A R \in SUBSET Roles : [d EXCEPT !.roles = @ \ R] \in Tables
  OBVIOUS
<1>3. \A d \in Tables : \A ms \in SUBSET Menus :
          [d EXCEPT !.menus = @ \ ms,
                    !.elems = [e \in Elements |-> {p \in @[e] : p.menu \notin ms}]]
              \in Tables
  OBVIOUS
<1>4. \A e \in Elements : \A ps \in SUBSET Place : [db EXCEPT !.elems[e] = ps] \in Tables
  OBVIOUS
<1>5. \A gone : \A more \in SUBSET (Roles \X Menus) :
          /\ [db EXCEPT !.grants = @ \cup more] \in Tables
          /\ [db EXCEPT !.grants = (@ \ gone) \cup more, !.dead = @ \ gone] \in Tables
  OBVIOUS
<1> QED
  BY <1>1, <1>2, <1>3, <1>4, <1>5

LEMMA AdminTypeStep ==
  ASSUME TypeOK, NEW a \in Admins,
         AdminStarts(a) \/ AdminContinues(a) \/ OperationFails(a)
  PROVE  TypeOK'
<1> USE RefreshAssumption DEF RefreshAssumption
<1> DEFINE Work == [pc : AdminPcs, role : SUBSET Roles, del : SUBSET Menus, add : SUBSET Menus]
<1>0. /\ db \in Tables /\ admin \in [Admins -> Work] /\ NoWork \in Work
      /\ \A x \in Work, pc \in AdminPcs : [x EXCEPT !.pc = pc] \in Work
  BY DEF TypeOK, NoWork, AdminPcs
<1>1. SUFFICES /\ db' \in Tables
               /\ admin' \in [Admins -> Work]
               /\ subscribed' = subscribed
               /\ queue' \in [Nodes -> Nat]
               /\ <<builder, staged, live, cfg>>' = <<builder, staged, live, cfg>>
               /\ behind' \subseteq Nodes
               /\ ops' \in 0..MaxOps
               /\ faults' \in 0..MaxFaults
  BY <1>1 DEF TypeOK
<1>2. \A d \in Tables : Commit(d) => db' \in Tables /\ behind' \subseteq Nodes
  BY DEF Commit, TypeOK
<1>3. \A op : Begin(op, a) => ops' \in 0..MaxOps
  BY DEF Begin, TypeOK
<1>4. /\ [admin EXCEPT ![a].pc = "savePublish"] \in [Admins -> Work]
      /\ Go(a, "idle") => admin' \in [Admins -> Work]
      /\ Go(a, "publish") => admin' \in [Admins -> Work]
      /\ Go(a, "saveCommit") => admin' \in [Admins -> Work]
  <2>1. \A pc : [admin EXCEPT ![a].pc = pc] = [admin EXCEPT ![a] = [admin[a] EXCEPT !.pc = pc]]
    OBVIOUS
  <2>2. \A pc \in AdminPcs : [admin[a] EXCEPT !.pc = pc] \in Work
    BY <1>0
  <2> HIDE DEF Work
  <2>3. \A w \in Work : [admin EXCEPT ![a] = w] \in [Admins -> Work]
    BY <1>0
  <2>4. {"idle", "publish", "savePublish", "saveCommit"} \subseteq AdminPcs
    BY DEF AdminPcs
  <2>5. \A pc \in AdminPcs : [admin EXCEPT ![a].pc = pc] \in [Admins -> Work]
    BY <2>1, <2>2, <2>3
  <2> QED
    BY <2>4, <2>5 DEF Go
<1>5. Deliver => queue' \in [Nodes -> Nat]
  BY DEF Deliver, TypeOK
<1> USE DEF nodeVars
<1>7. CASE \E r \in Roles, m \in Menus : AddRoleMenufunction(a, r, m)
  <2> PICK r \in Roles, m \in Menus : AddRoleMenufunction(a, r, m)
    BY <1>7
  <2>1. [db EXCEPT !.grants = @ \cup {<<r, m>>}] \in Tables
    <3>1. {<<r, m>>} \in SUBSET (Roles \X Menus)
      OBVIOUS
    <3> QED
      BY <3>1, <1>0, TablesStay
  <2> QED
    BY <2>1, <1>2, <1>3, <1>4 DEF AddRoleMenufunction, TypeOK
<1>8. CASE \E r \in Roles, m \in Menus : LogicalDeletedRoleMenufunctionById(a, r, m)
  BY <1>8, <1>0, <1>2, <1>3, <1>4 DEF LogicalDeletedRoleMenufunctionById, TypeOK
<1>9. CASE \E r \in Roles, selection \in SUBSET Menus : SaveRead(a, r, selection)
  <2> PICK r \in Roles, selection \in SUBSET Menus : SaveRead(a, r, selection)
    BY <1>9
  <2> DEFINE old == {m \in Menus : <<r, m>> \in db.grants}
             w == [pc |-> "saveWrite", role |-> {r},
                   del |-> old \ selection, add |-> selection \ old]
  <2>1. w \in Work
    BY DEF AdminPcs
  <2>2. admin' = [admin EXCEPT ![a] = IF selection = {} \/ selection = old THEN NoWork ELSE w]
    BY DEF SaveRead
  <2>3. admin' \in [Admins -> Work]
    <3> HIDE DEF w, Work
    <3> QED
      BY <2>1, <2>2, <1>0
  <2> QED
    BY <2>3, <1>3 DEF SaveRead, TypeOK
<1>10. CASE \E r \in Roles : LogicallyDeleteRoleById(a, r)
  <2> PICK r \in Roles : LogicallyDeleteRoleById(a, r)
    BY <1>10
  <2>1. [Retire({r} \X Menus) EXCEPT !.roles = @ \ {r}] \in Tables
    BY <1>0, TablesStay
  <2> QED
    BY <2>1, <1>2, <1>3 DEF LogicallyDeleteRoleById, TypeOK
<1>11. CASE \E ms \in SUBSET Menus : DeleteMenuFunctionById(a, ms)
  <2> PICK ms \in SUBSET Menus : DeleteMenuFunctionById(a, ms)
    BY <1>11
  <2> DEFINE d == Retire(Roles \X ms)
             d2 == [d EXCEPT !.menus = @ \ ms,
                             !.elems = [e \in Elements |-> {p \in @[e] : p.menu \notin ms}]]
  <2>1. d2 \in Tables
    <3>1. d \in Tables
      BY <1>0, TablesStay
    <3> HIDE DEF d
    <3> QED
      BY <3>1, <1>0, TablesStay
  <2> QED
    BY <2>1, <1>2, <1>3 DEF DeleteMenuFunctionById, TypeOK
<1>12. CASE \E e \in Elements, p \in Place : \/ AddMenuElement(a, e, p)
                                              \/ UpdateMenuElementById(a, e, p)
  <2> PICK e \in Elements, p \in Place : \/ AddMenuElement(a, e, p)
                                         \/ UpdateMenuElementById(a, e, p)
    BY <1>12
  <2>1. [db EXCEPT !.elems[e] = {p}] \in Tables
    BY <1>0, TablesStay
  <2> QED
    BY <2>1, <1>2, <1>3 DEF AddMenuElement, UpdateMenuElementById, TypeOK
<1>13. CASE \E e \in Elements : DeleteMenuElementById(a, e)
  <2> PICK e \in Elements : DeleteMenuElementById(a, e)
    BY <1>13
  <2>1. [db EXCEPT !.elems[e] = {}] \in Tables
    BY <1>0, TablesStay
  <2> QED
    BY <2>1, <1>2, <1>3 DEF DeleteMenuElementById, TypeOK
<1>14. CASE RefreshAuthority(a)
  BY <1>14, <1>3, <1>4 DEF RefreshAuthority, TypeOK
<1>15. CASE SaveWrite(a)
  <2>1. \/ admin' = [admin EXCEPT ![a] = NoWork]
        \/ admin' = [admin EXCEPT ![a].pc = "savePublish"]
    BY <1>15 DEF SaveWrite
  <2>2. admin' \in [Admins -> Work]
    <3>1. [admin EXCEPT ![a] = NoWork] \in [Admins -> Work]
      BY <1>0
    <3> QED
      BY <3>1, <2>1, <1>4
  <2> QED
    BY <2>2, <1>15 DEF SaveWrite, TypeOK
<1>16. CASE SavePublish(a) \/ Publish(a)
  BY <1>16, <1>4, <1>5 DEF SavePublish, Publish, TypeOK
<1>17. CASE SaveCommit(a)
  <2> DEFINE w == admin[a]
             d == [db EXCEPT !.grants = (@ \ (w.role \X w.del)) \cup (w.role \X w.add),
                             !.dead   = @ \ (w.role \X w.del)]
  <2>1. w.role \X w.add \in SUBSET (Roles \X Menus)
    BY <1>0
  <2>2. d \in Tables
    BY <2>1, <1>0, TablesStay
  <2>3. Commit(d)
    BY <1>17 DEF SaveCommit
  <2>4. admin' \in [Admins -> Work]
    BY <1>17, <1>0 DEF SaveCommit
  <2> HIDE DEF d
  <2> QED
    BY <2>2, <2>3, <2>4, <1>2, <1>17 DEF SaveCommit, TypeOK
<1>18. CASE OperationFails(a)
  BY <1>18, <1>0 DEF OperationFails, Fault, TypeOK
<1> QED
  BY <1>7, <1>8, <1>9, <1>10, <1>11, <1>12, <1>13, <1>14, <1>15, <1>16, <1>17, <1>18
  DEF AdminStarts, AdminContinues

LEMMA NodeTypeStep ==
  ASSUME TypeOK, NEW n \in Nodes, Rebuild(n) \/ NodeFault(n)
  PROVE  TypeOK'
<1> USE RefreshAssumption DEF RefreshAssumption
<1> DEFINE Progress == [pc : BuilderPcs, boot : BOOLEAN, loop : Nat, page : Nat]
<1>0. /\ builder \in [Nodes -> Progress] /\ staged \in [Nodes -> Chains]
      /\ live \in [Nodes -> Chains] /\ cfg \in [Nodes -> [Urls -> SUBSET Roles]]
      /\ queue \in [Nodes -> Nat] /\ subscribed \subseteq Nodes /\ behind \subseteq Nodes
      /\ db \in Tables
  BY DEF TypeOK
<1>1. /\ Booting \in Progress /\ Resting \in Progress /\ Down \in Progress
      /\ \A b \in Progress, pc \in BuilderPcs : [b EXCEPT !.pc = pc] \in Progress
      /\ {"count", "page", "clear", "put"} \subseteq BuilderPcs
  BY DEF Booting, Resting, Down, BuilderPcs
<1>2. PublicChains \in Chains /\ NoChains \in Chains
  BY StoreAssumption DEF StoreAssumption, PublicChains, NoChains, Chains
<1>3. \A b \in Progress : Step(n, b) => builder' \in [Nodes -> Progress]
  BY <1>0 DEF Step
<1>4. CASE StartRebuild(n)
  <2>1. [Resting EXCEPT !.pc = "count"] \in Progress
    BY <1>1
  <2>2. queue' \in [Nodes -> Nat]
    BY <1>4, <1>0 DEF StartRebuild
  <2> QED
    BY <1>4, <1>0, <1>2, <1>3, <2>1, <2>2 DEF StartRebuild, TypeOK
<1>5. CASE CountRows(n)
  <2> DEFINE count == Cardinality(GrantedUrls(db))
  <2>1. PageCount(count) \in Nat
    BY GrantedFinite, PagesHoldAll
  <2>2. [builder[n] EXCEPT !.pc = "page", !.page = 1, !.loop = PageCount(count)] \in Progress
    BY <2>1, <1>0, <1>1
  <2>3. [builder[n] EXCEPT !.pc = "clear"] \in Progress
    BY <1>0, <1>1
  <2>4. builder' \in [Nodes -> Progress]
    <3> HIDE DEF Progress
    <3> QED
      BY <1>5, <1>3, <2>2, <2>3 DEF CountRows
  <2>5. staged' \in [Nodes -> Chains]
    <3>1. [staged[n] EXCEPT !.default = "authc"] \in Chains
      BY <1>0 DEF Chains
    <3>2. [staged EXCEPT ![n].default = "authc"]
            = [staged EXCEPT ![n] = [staged[n] EXCEPT !.default = "authc"]]
      OBVIOUS
    <3> QED
      BY <3>1, <3>2, <1>5, <1>0 DEF CountRows
  <2> QED
    BY <1>5, <2>4, <2>5 DEF CountRows, TypeOK
<1>6. CASE ReadPage(n)
  <2> DEFINE rows == PageOf(GrantedUrls(db), builder[n].page) \ {Blank}
             last == builder[n].page >= builder[n].loop
  <2>1. rows \in SUBSET Urls
    BY DEF PageOf, GrantedUrls
  <2>2. \A u \in Urls : RolesOf(db, u) \in SUBSET Roles
    BY <1>0 DEF RolesOf, Tables
  <2>3. [builder[n] EXCEPT !.pc = "clear"] \in Progress
    BY <1>0, <1>1
  <2>4. [builder[n] EXCEPT !.page = @ + 1] \in Progress
    BY <1>0
  <2>5. /\ staged' = [staged EXCEPT ![n].role = @ \cup rows,
                                    ![n].default = IF last THEN "basic" ELSE @]
        /\ cfg' = [cfg EXCEPT ![n] = [u \in Urls |->
                      IF u \in rows THEN RolesOf(db, u) ELSE @[u]]]
        /\ Step(n, IF last THEN [builder[n] EXCEPT !.pc = "clear"]
                           ELSE [builder[n] EXCEPT !.page = @ + 1])
    BY <1>6 DEF ReadPage
  <2> HIDE DEF rows, last, Progress
  <2>6. builder' \in [Nodes -> Progress]
    BY <2>3, <2>4, <2>5, <1>3
  <2>7. staged' \in [Nodes -> Chains]
    <3> DEFINE c == [staged[n] EXCEPT !.role = @ \cup rows,
                                      !.default = IF last THEN "basic" ELSE @]
    <3>1. c \in Chains
      BY <2>1, <1>0 DEF Chains
    <3>2. staged' = [staged EXCEPT ![n] = c]
      BY <2>5, <1>0
    <3> HIDE DEF c
    <3> QED
      BY <3>1, <3>2, <1>0
  <2>8. cfg' \in [Nodes -> [Urls -> SUBSET Roles]]
    BY <2>2, <2>5, <1>0
  <2> USE DEF Progress
  <2> QED
    BY <1>6, <2>6, <2>7, <2>8 DEF ReadPage, TypeOK
<1>7. CASE ClearLive(n)
  <2>1. [builder[n] EXCEPT !.pc = "put"] \in Progress
    BY <1>0, <1>1
  <2> QED
    BY <1>7, <1>0, <1>2, <1>3, <2>1 DEF ClearLive, TypeOK
<1>8. CASE PutAll(n)
  BY <1>8, <1>0, <1>1, <1>3 DEF PutAll, TypeOK
<1>9. CASE RebuildFails(n)
  <2>1. /\ builder' \in [Nodes -> Progress]
        /\ queue' \in [Nodes -> Nat]
        /\ subscribed' \subseteq Nodes
    <3>1. CASE builder[n].boot
      <4>1. Step(n, Down) /\ subscribed' = subscribed \ {n} /\ queue' = [queue EXCEPT ![n] = 0]
        BY <3>1, <1>9 DEF RebuildFails
      <4> QED
        BY <4>1, <1>0, <1>1, <1>3
    <3>2. CASE ~ builder[n].boot
      BY <3>2, <1>9, <1>0, <1>1, <1>3 DEF RebuildFails
    <3> QED
      BY <3>1, <3>2
  <2>2. faults' \in 0..MaxFaults
    BY <1>9 DEF RebuildFails, Fault, TypeOK
  <2> QED
    BY <2>1, <2>2, <1>9 DEF RebuildFails, TypeOK
<1>10. CASE Disconnect(n)
  BY <1>10 DEF Disconnect, Fault, nodeVars, TypeOK
<1>11. CASE Reconnect(n)
  BY <1>11 DEF Reconnect, nodeVars, TypeOK
<1>12. CASE Crash(n)
  BY <1>12, <1>0, <1>1, <1>2, <1>3 DEF Crash, Fault, TypeOK
<1>13. CASE Boot(n)
  BY <1>13, <1>0, <1>1, <1>2, <1>3 DEF Boot, TypeOK
<1> QED
  BY <1>4, <1>5, <1>6, <1>7, <1>8, <1>9, <1>10, <1>11, <1>12, <1>13 DEF Rebuild, NodeFault

LEMMA TypeStep == TypeOK /\ [Next]_vars => TypeOK'
<1>1. TypeOK /\ UNCHANGED vars => TypeOK'
  BY DEF TypeOK, vars, nodeVars
<1> QED
  BY <1>1, AdminTypeStep, NodeTypeStep DEF Next

(* Every state has the types of the model.                                 *)
THEOREM TypeCorrect == Spec => []TypeOK
  BY TypeInit, TypeStep, PTL DEF Spec

-----------------------------------------------------------------------------
(* What a step means for an instance it is not a step of.                  *)

(* The operations of the administrators leave the instances alone, but for *)
(* the messages; a commit that changes the tables leaves every instance    *)
(* behind.                                                                 *)
LEMMA AdminEffect ==
  ASSUME NEW a \in Admins, AdminStarts(a) \/ AdminContinues(a) \/ OperationFails(a)
  PROVE  /\ <<builder, staged, live, cfg>>' = <<builder, staged, live, cfg>>
         /\ \/ behind' = Nodes
            \/ db' = db /\ behind' = behind
<1> USE DEF nodeVars, Commit
<1>1. CASE AdminStarts(a)
  BY <1>1 DEF AdminStarts, AddRoleMenufunction, LogicalDeletedRoleMenufunctionById,
              SaveRead, LogicallyDeleteRoleById, DeleteMenuFunctionById, AddMenuElement,
              UpdateMenuElementById, DeleteMenuElementById, RefreshAuthority
<1>2. CASE AdminContinues(a)
  BY <1>2 DEF AdminContinues, SaveWrite, SavePublish, SaveCommit, Publish
<1>3. CASE OperationFails(a)
  BY <1>3 DEF OperationFails
<1> QED
  BY <1>1, <1>2, <1>3

(* A step of one instance leaves the tables and the other instances alone. *)
LEMMA NodeEffect ==
  ASSUME TypeOK, NEW k \in Nodes, Rebuild(k) \/ NodeFault(k), NEW n \in Nodes, n # k
  PROVE  /\ db' = db
         /\ n \in behind' <=> n \in behind
         /\ builder'[n] = builder[n] /\ staged'[n] = staged[n]
         /\ live'[n] = live[n] /\ cfg'[n] = cfg[n]
<1> USE DEF TypeOK, nodeVars, Step
<1>1. CASE Rebuild(k)
  BY <1>1 DEF Rebuild, StartRebuild, CountRows, ReadPage, ClearLive, PutAll
<1>2. CASE NodeFault(k)
  BY <1>2 DEF NodeFault, RebuildFails, Disconnect, Reconnect, Crash, Boot
<1> QED
  BY <1>1, <1>2

-----------------------------------------------------------------------------
(* The chains an instance ends up with deny what they do not list.         *)

(* Chains that may be put in force: "authc" for the rest comes only where  *)
(* no role chain is.                                                       *)
Closed(c) == \/ c.default = "basic"
             \/ c.default = "authc" /\ c.role = {}

(* A rebuild that has just begun has staged the public chains only; one    *)
(* that has read its last page has staged closed chains.  A rebuild that   *)
(* was not asked for by a start-up leaves closed chains in force until it  *)
(* clears them.                                                            *)
StagedClosed(n) ==
  /\ builder[n].pc = "count" => staged[n] = PublicChains
  /\ builder[n].pc \in {"clear", "put"} => Closed(staged[n])
  /\ \/ builder[n].pc = "idle"
     \/ builder[n].pc \in {"count", "page", "clear"} /\ ~ builder[n].boot
     => Closed(live[n])

LEMMA StagedClosedStep ==
  ASSUME TypeOK, NEW n \in Nodes, StagedClosed(n), Rebuild(n) \/ NodeFault(n)
  PROVE  StagedClosed(n)'
<1>0. /\ n \in DOMAIN builder /\ n \in DOMAIN staged /\ n \in DOMAIN live
      /\ staged[n] \in Chains /\ live[n] \in Chains
      /\ builder[n] \in [pc : BuilderPcs, boot : BOOLEAN, loop : Nat, page : Nat]
  BY DEF TypeOK
<1> USE DEF StagedClosed, Step
<1>1. CASE StartRebuild(n)
  BY <1>0, <1>1 DEF StartRebuild, Resting
<1>2. CASE CountRows(n)
  <2>1. CASE Cardinality(GrantedUrls(db)) > 0
    BY <2>1, <1>0, <1>2 DEF CountRows
  <2>2. CASE ~ Cardinality(GrantedUrls(db)) > 0
    <3>1. staged'[n] = [PublicChains EXCEPT !.default = "authc"]
      BY <2>2, <1>0, <1>2 DEF CountRows
    <3>2. Closed(staged'[n])
      BY <3>1 DEF Closed, PublicChains, NoChains
    <3> QED
      BY <3>2, <2>2, <1>0, <1>2 DEF CountRows
  <2> QED
    BY <2>1, <2>2
<1>3. CASE ReadPage(n)
  <2>1. CASE builder[n].page >= builder[n].loop
    <3>1. staged'[n].default = "basic" /\ builder'[n] = [builder[n] EXCEPT !.pc = "clear"]
      BY <2>1, <1>0, <1>3 DEF ReadPage, Chains
    <3> QED
      BY <3>1, <1>0, <1>3 DEF ReadPage, Closed
  <2>2. CASE ~ builder[n].page >= builder[n].loop
    BY <2>2, <1>0, <1>3 DEF ReadPage
  <2> QED
    BY <2>1, <2>2
<1>4. CASE ClearLive(n)
  BY <1>0, <1>4 DEF ClearLive
<1>5. CASE PutAll(n)
  BY <1>0, <1>5 DEF PutAll, Resting
<1>6. CASE RebuildFails(n)
  BY <1>0, <1>6 DEF RebuildFails, Resting, Down
<1>7. CASE Disconnect(n) \/ Reconnect(n)
  BY <1>7 DEF Disconnect, Reconnect, nodeVars
<1>8. CASE Crash(n)
  BY <1>0, <1>8 DEF Crash, Down
<1>9. CASE Boot(n)
  BY <1>0, <1>9 DEF Boot, Booting
<1> QED
  BY <1>1, <1>2, <1>3, <1>4, <1>5, <1>6, <1>7, <1>8, <1>9 DEF Rebuild, NodeFault

(* Whatever commits fall between the queries of a rebuild, and whatever    *)
(* fails, an instance at rest never opens the rest of the urls to every    *)
(* login while it lists some for roles (initFilterChains).                 *)
THEOREM DefaultDenied == Spec => []DefaultDeny
<1> DEFINE Inv == \A n \in Nodes : StagedClosed(n)
<1>1. Init => Inv
  BY DEF Init, StagedClosed, Booting
<1>2. TypeOK /\ Inv /\ [Next]_vars => Inv'
  <2> SUFFICES ASSUME TypeOK, Inv, [Next]_vars, NEW n \in Nodes PROVE StagedClosed(n)'
    OBVIOUS
  <2>1. CASE UNCHANGED vars
    BY <2>1 DEF vars, nodeVars, StagedClosed
  <2>2. CASE \E a \in Admins : AdminStarts(a) \/ AdminContinues(a) \/ OperationFails(a)
    BY <2>2, AdminEffect DEF StagedClosed
  <2>3. CASE \E k \in Nodes : Rebuild(k) \/ NodeFault(k)
    <3> PICK k \in Nodes : Rebuild(k) \/ NodeFault(k)
      BY <2>3
    <3>1. CASE k = n
      BY <3>1, StagedClosedStep
    <3>2. CASE k # n
      BY <3>2, NodeEffect DEF StagedClosed
    <3> QED
      BY <3>1, <3>2
  <2> QED
    BY <2>1, <2>2, <2>3 DEF Next
<1>3. Inv => DefaultDeny
  BY DEF StagedClosed, Closed, DefaultDeny
<1> QED
  BY <1>1, <1>2, <1>3, TypeCorrect, PTL DEF Spec

-----------------------------------------------------------------------------
(* An instance whose rebuild saw the latest commit enforces the tables.    *)

(* The rows of the first so many ranks, as a rebuild reads them.           *)
FirstRows(S, k) == {u \in S : Rank(S, u) <= k}

(* Before the first page nothing is read; a page continues where the one   *)
(* before it ended; the last page ends the rows.                           *)
LEMMA PagesInTurn ==
  ASSUME NEW S \in SUBSET Urls
  PROVE  /\ FirstRows(S, 0 * PageSize) = {}
         /\ \A i \in Nat \ {0} :
               FirstRows(S, (i - 1) * PageSize) \cup PageOf(S, i) = FirstRows(S, i * PageSize)
         /\ \A i \in Nat : i >= PageCount(Cardinality(S)) => FirstRows(S, i * PageSize) = S
<1>1. IsFiniteSet(S) /\ Cardinality(S) \in Nat /\ S \subseteq Nat /\ PageSize \in Nat
  BY StoreAssumption, FS_Subset, FS_CardinalityType DEF StoreAssumption
<1>2. \A u \in S : Rank(S, u) \in Nat /\ Rank(S, u) <= Cardinality(S)
  BY <1>1, RankBounded
<1>3. ASSUME NEW u \in S PROVE Rank(S, u) # 0
  <2> DEFINE V == {v \in S : v <= u}
  <2>1. u \in V /\ V \in SUBSET S
    BY <1>1
  <2>2. IsFiniteSet(V)
    BY <2>1, <1>1, FS_Subset
  <2> HIDE DEF V
  <2>3. Cardinality(V) # 0
    BY <2>1, <2>2, FS_EmptySet
  <2> QED
    BY <2>3 DEF Rank, V
<1>4. FirstRows(S, 0 * PageSize) = {}
  <2>1. 0 * PageSize = 0
    BY <1>1
  <2> QED
    BY <2>1, <1>2, <1>3 DEF FirstRows
<1>5. ASSUME NEW i \in Nat \ {0}
      PROVE  FirstRows(S, (i - 1) * PageSize) \cup PageOf(S, i) = FirstRows(S, i * PageSize)
  <2> DEFINE before == (i - 1) * PageSize
             after  == i * PageSize
  <2>1. before \in Nat /\ after \in Nat /\ after = before + PageSize
    BY <1>1
  <2>2. PageOf(S, i) = {u \in S : before < Rank(S, u) /\ Rank(S, u) <= after}
    BY DEF PageOf
  <2> HIDE DEF before, after
  <2>3. FirstRows(S, before) \cup PageOf(S, i) = FirstRows(S, after)
    <3>1. \A u \in S : Rank(S, u) <= before \/ (before < Rank(S, u) /\ Rank(S, u) <= after)
                         <=> Rank(S, u) <= after
      BY <2>1, <1>1, <1>2
    <3>2. \A u : u \in PageOf(S, i) <=> u \in S /\ before < Rank(S, u) /\ Rank(S, u) <= after
      BY <2>2
    <3>3. \A u : /\ u \in FirstRows(S, before) <=> u \in S /\ Rank(S, u) <= before
                 /\ u \in FirstRows(S, after) <=> u \in S /\ Rank(S, u) <= after
      BY DEF FirstRows
    <3>4. \A u : u \in FirstRows(S, before) \cup PageOf(S, i) <=> u \in FirstRows(S, after)
      BY <3>1, <3>2, <3>3
    <3> QED
      BY <3>4
  <2> QED
    BY <2>3 DEF before, after
<1>6. ASSUME NEW i \in Nat, i >= PageCount(Cardinality(S))
      PROVE  FirstRows(S, i * PageSize) = S
  <2> DEFINE c == PageCount(Cardinality(S))
  <2>1. c \in Nat /\ Cardinality(S) <= c * PageSize
    BY <1>1, PagesHoldAll
  <2> HIDE DEF c
  <2>2. i >= c
    BY <1>6 DEF c
  <2>3. c * PageSize \in Nat /\ i * PageSize \in Nat /\ c * PageSize <= i * PageSize
    <3>1. i - c \in Nat
      BY <2>1, <2>2
    <3>2. (i - c) * PageSize \in Nat
      BY <3>1, <1>1
    <3>3. i * PageSize = c * PageSize + (i - c) * PageSize
      BY <2>1, <3>1, <1>1
    <3>4. c * PageSize \in Nat /\ i * PageSize \in Nat
      BY <2>1, <1>1
    <3> QED
      BY <3>2, <3>3, <3>4
  <2>4. \A u \in S : Rank(S, u) <= i * PageSize
    BY <2>1, <2>3, <1>1, <1>2
  <2> QED
    BY <2>4 DEF FirstRows
<1> QED
  BY <1>4, <1>5, <1>6

(* The role lists that n holds for the urls of S are those of the tables.  *)
ListsFollow(n, S) == \A u \in S : cfg[n][u] = RolesOf(db, u)

(* How far a rebuild that began after the latest commit has followed the   *)
(* tables: before its page i it has staged exactly the rows of the pages   *)
(* before i, after the last page the chains of the tables.                 *)
Follows(n) ==
  LET b == builder[n]
      s == staged[n]
      G == GrantedUrls(db)
  IN  /\ b.pc = "count" => s = PublicChains
      /\ b.pc = "page" =>
           /\ G # {} /\ b.page # 0 /\ b.loop = PageCount(Cardinality(G))
           /\ s.public = Public
           /\ s.role = FirstRows(G, (b.page - 1) * PageSize) \ {Blank}
           /\ ListsFollow(n, s.role)
      /\ b.pc \in {"clear", "put"} => s = ChainsOf(db) /\ ListsFollow(n, s.role)
      /\ b.pc = "idle" => InForce(n)

LEMMA FollowsStep ==
  ASSUME TypeOK, NEW n \in Nodes, n \notin behind => Follows(n),
         Rebuild(n) \/ NodeFault(n), n \notin behind'
  PROVE  Follows(n)'
<1> DEFINE G == GrantedUrls(db)
<1>0. /\ n \in DOMAIN builder /\ n \in DOMAIN staged /\ n \in DOMAIN live
      /\ n \in DOMAIN cfg /\ cfg[n] \in [Urls -> SUBSET Roles]
      /\ staged[n] \in Chains /\ live[n] \in Chains
      /\ builder[n] \in [pc : BuilderPcs, boot : BOOLEAN, loop : Nat, page : Nat]
      /\ G \in SUBSET Urls
  BY DEF TypeOK, GrantedUrls
<1> USE DEF Step
<1>1. CASE StartRebuild(n)
  BY <1>0, <1>1 DEF StartRebuild, Resting, Follows
<1>2. CASE CountRows(n)
  <2>1. /\ n \notin behind /\ builder[n].pc = "count" /\ staged[n] = PublicChains
        /\ db' = db /\ live' = live /\ cfg' = cfg
    BY <1>2 DEF CountRows, Follows
  <2>2. CASE Cardinality(G) > 0
    <3>1. /\ builder'[n].pc = "page" /\ builder'[n].page = 1
          /\ builder'[n].loop = PageCount(Cardinality(G))
          /\ staged' = staged
      <4>1. /\ builder' = [builder EXCEPT ![n] = [builder[n] EXCEPT
                             !.pc = "page", !.page = 1, !.loop = PageCount(Cardinality(G))]]
            /\ staged' = staged
        BY <2>2, <1>2 DEF CountRows
      <4> HIDE DEF G
      <4> QED
        BY <4>1, <1>0
    <3>2. G # {}
      BY <2>2, GrantedFinite
    <3>3. FirstRows(G, (1 - 1) * PageSize) = {}
      BY <1>0, PagesInTurn
    <3>4. staged[n].public = Public /\ staged[n].role = {}
      BY <2>1 DEF PublicChains, NoChains
    <3> QED
      BY <2>1, <3>1, <3>2, <3>3, <3>4 DEF Follows, ListsFollow
  <2>3. CASE ~ Cardinality(G) > 0
    <3>1. G = {}
      BY <2>3, GrantedFinite
    <3>2. builder'[n].pc = "clear" /\ staged'[n] = [PublicChains EXCEPT !.default = "authc"]
      BY <2>1, <2>3, <1>0, <1>2 DEF CountRows
    <3>3. [PublicChains EXCEPT !.default = "authc"] = ChainsOf(db)
      <4>1. PublicChains = [public |-> Public, role |-> {}, default |-> "none"]
        BY DEF PublicChains, NoChains
      <4>2. ChainsOf(db) = [public |-> Public, role |-> {}, default |-> "authc"]
        BY <3>1 DEF ChainsOf
      <4> QED
        BY <4>1, <4>2
    <3>4. ChainsOf(db).role = {}
      BY <3>1 DEF ChainsOf
    <3> QED
      BY <2>1, <3>2, <3>3, <3>4 DEF Follows, ListsFollow
  <2> QED
    BY <2>2, <2>3
<1>3. CASE ReadPage(n)
  <2> DEFINE page == builder[n].page
             rows == PageOf(G, page) \ {Blank}
             last == page >= builder[n].loop
  <2>1. /\ n \notin behind /\ builder[n].pc = "page" /\ page \in Nat \ {0} /\ G # {}
        /\ builder[n].loop = PageCount(Cardinality(G)) /\ staged[n].public = Public
        /\ staged[n].role = FirstRows(G, (page - 1) * PageSize) \ {Blank}
        /\ ListsFollow(n, staged[n].role)
        /\ db' = db /\ live' = live
    BY <1>0, <1>3 DEF ReadPage, Follows
  <2>2. /\ staged'[n] = [staged[n] EXCEPT !.role = @ \cup rows,
                                          !.default = IF last THEN "basic" ELSE @]
        /\ cfg'[n] = [u \in Urls |-> IF u \in rows THEN RolesOf(db, u) ELSE cfg[n][u]]
        /\ builder'[n] = IF last THEN [builder[n] EXCEPT !.pc = "clear"]
                                 ELSE [builder[n] EXCEPT !.page = @ + 1]
    BY <1>0, <1>3 DEF ReadPage
  <2> DEFINE next == FirstRows(G, page * PageSize) \ {Blank}
  <2>3. FirstRows(G, (page - 1) * PageSize) \cup PageOf(G, page) = FirstRows(G, page * PageSize)
    BY <2>1, <1>0, PagesInTurn
  <2>4. staged'[n].role = next /\ staged'[n].public = Public
    <3> HIDE DEF last, page, G
    <3> QED
      BY <2>1, <2>2, <2>3, <1>0 DEF Chains
  <2>5. next \in SUBSET Urls /\ next = staged[n].role \cup rows
    BY <2>1, <2>3, <1>0 DEF FirstRows
  <2>6. \A u \in next : cfg'[n][u] = RolesOf(db', u)
    <3> HIDE DEF rows, next, G
    <3> QED
      BY <2>1, <2>2, <2>5 DEF ListsFollow
  <2>7. CASE last
    <3>1. builder'[n].pc = "clear" /\ staged'[n].default = "basic"
      BY <2>2, <2>7, <1>0 DEF Chains
    <3>2. FirstRows(G, page * PageSize) = G
      BY <2>1, <2>7, <1>0, PagesInTurn
    <3>3. staged'[n] \in Chains
      BY NodeTypeStep DEF TypeOK
    <3>4. staged'[n] = ChainsOf(db)
      BY <2>1, <2>4, <3>1, <3>2, <3>3 DEF ChainsOf, Chains
    <3>5. \A u \in staged'[n].role : cfg'[n][u] = RolesOf(db', u)
      BY <2>4, <2>6
    <3> QED
      BY <2>1, <3>1, <3>4, <3>5 DEF Follows, ListsFollow
  <2>8. CASE ~ last
    <3>1. /\ builder'[n].pc = "page" /\ builder'[n].page = page + 1
          /\ builder'[n].loop = builder[n].loop
      BY <2>1, <2>2, <2>8, <1>0
    <3>2. (page + 1) - 1 = page /\ page + 1 # 0
      BY <2>1
    <3>3. staged'[n].role = FirstRows(G, (builder'[n].page - 1) * PageSize) \ {Blank}
      BY <2>4, <3>1, <3>2
    <3>4. \A u \in staged'[n].role : cfg'[n][u] = RolesOf(db', u)
      BY <2>4, <2>6
    <3>5. builder'[n].page # 0 /\ builder'[n].loop = PageCount(Cardinality(G))
      BY <2>1, <3>1, <3>2
    <3> HIDE DEF page
    <3> QED
      BY <2>1, <2>4, <3>1, <3>3, <3>4, <3>5 DEF Follows, ListsFollow
  <2> QED
    BY <2>7, <2>8
<1>4. CASE ClearLive(n)
  BY <1>0, <1>4 DEF ClearLive, Follows, ListsFollow
<1>5. CASE PutAll(n)
  <2>1. /\ staged[n] = ChainsOf(db) /\ ListsFollow(n, staged[n].role)
        /\ db' = db /\ cfg' = cfg
    BY <1>5 DEF PutAll, Follows
  <2>2. live'[n] = staged[n] /\ builder'[n].pc = "idle"
    BY <1>0, <1>5 DEF PutAll, Resting
  <2> QED
    BY <2>1, <2>2 DEF Follows, InForce, ListsFollow
<1>6. CASE RebuildFails(n) \/ Crash(n)
  BY <1>6 DEF RebuildFails, Crash
<1>7. CASE Disconnect(n) \/ Reconnect(n)
  BY <1>7 DEF Disconnect, Reconnect, nodeVars, Follows, InForce, ListsFollow
<1>8. CASE Boot(n)
  BY <1>0, <1>8 DEF Boot, Booting, Follows
<1> QED
  BY <1>1, <1>2, <1>3, <1>4, <1>5, <1>6, <1>7, <1>8 DEF Rebuild, NodeFault

(* The tables and the chains of n do not change, so n follows as before.   *)
LEMMA FollowsStill ==
  ASSUME NEW n \in Nodes, Follows(n), db' = db, builder'[n] = builder[n],
         staged'[n] = staged[n], live'[n] = live[n], cfg'[n] = cfg[n]
  PROVE  Follows(n)'
BY DEF Follows, InForce, ListsFollow

(* An instance that rests, and whose latest rebuild began after the latest *)
(* commit, enforces exactly the committed tables, however many pages they  *)
(* take and whatever failed before (initFilterChains).                     *)
THEOREM RebuildsAreExact == Spec => []RebuildExact
<1> DEFINE Inv == \A n \in Nodes : n \notin behind => Follows(n)
<1>1. Init => Inv
  BY DEF Init, Follows, Booting
<1>2. TypeOK /\ Inv /\ [Next]_vars => Inv'
  <2> SUFFICES ASSUME TypeOK, Inv, [Next]_vars, NEW n \in Nodes, n \notin behind'
               PROVE  Follows(n)'
    OBVIOUS
  <2>1. CASE UNCHANGED vars
    BY <2>1, FollowsStill DEF vars, nodeVars
  <2>2. CASE \E a \in Admins : AdminStarts(a) \/ AdminContinues(a) \/ OperationFails(a)
    BY <2>2, AdminEffect, FollowsStill
  <2>3. CASE \E k \in Nodes : Rebuild(k) \/ NodeFault(k)
    <3> PICK k \in Nodes : Rebuild(k) \/ NodeFault(k)
      BY <2>3
    <3>1. CASE k = n
      BY <3>1, FollowsStep
    <3>2. CASE k # n
      BY <3>2, NodeEffect, FollowsStill
    <3> QED
      BY <3>1, <3>2
  <2> QED
    BY <2>1, <2>2, <2>3 DEF Next
<1>3. Inv => RebuildExact
  BY DEF Follows, RebuildExact
<1> QED
  BY <1>1, <1>2, <1>3, TypeCorrect, PTL DEF Spec

(* An instance that enforces the tables lets a role in only where a live   *)
(* role-menu row of that role, or sys_menu_common, says so, or where all   *)
(* rows of the url name deleted roles (BasicFilters and the roles filter). *)
THEOREM GrantedOnlyAllowed == Spec => []OnlyGrantedAllowed
<1>1. RebuildExact => OnlyGrantedAllowed
  <2> SUFFICES ASSUME RebuildExact, NEW n \in Nodes, NEW u \in Urls, NEW r \in Roles,
                      builder[n].pc = "idle", n \notin behind, live[n].default = "basic",
                      Decide(live[n], cfg[n], u, {r}) = "allowed",
                      u \notin Public, r \notin RolesOf(db, u)
               PROVE  u \in GrantedUrls(db) /\ RolesOf(db, u) = {}
    BY DEF OnlyGrantedAllowed
  <2>1. live[n] = ChainsOf(db) /\ \A v \in live[n].role : cfg[n][v] = RolesOf(db, v)
    BY DEF RebuildExact, InForce
  <2>2. live[n].public = Public /\ live[n].role = GrantedUrls(db) \ {Blank}
    BY <2>1 DEF ChainsOf
  <2>3. CASE u \in live[n].role
    <3>1. cfg[n][u] = {} \/ cfg[n][u] \cap {r} # {}
      BY <2>3 DEF Decide
    <3> QED
      BY <3>1, <2>1, <2>2, <2>3
  <2>4. CASE u \notin live[n].role
    BY <2>2, <2>4 DEF Decide
  <2> QED
    BY <2>3, <2>4
<1> QED
  BY <1>1, RebuildsAreExact, PTL

-----------------------------------------------------------------------------
(* Without faults, a change that publishes after its commit is never       *)
(* forgotten.                                                              *)

PublishesAfterCommit == {"addGrant", "deleteGrant", "refresh"}

(* Nobody runs an operation of another kind, every instance is up and      *)
(* listens, and one that is behind will hear of it.                        *)
Announced ==
  /\ \A a \in Admins : admin[a].pc \in {"idle", "publish"}
  /\ subscribed = Nodes
  /\ \A n \in Nodes : builder[n].pc # "down"
  /\ StaleIsAnnounced

LEMMA AnnouncedStep ==
  ASSUME Operations \subseteq PublishesAfterCommit, MaxFaults = 0,
         TypeOK, Announced, [Next]_vars
  PROVE  Announced'
<1>0. /\ queue \in [Nodes -> Nat] /\ Admins = DOMAIN admin /\ Nodes = DOMAIN builder
      /\ behind \subseteq Nodes
      /\ \A a \in Admins : DOMAIN admin[a] = {"pc", "role", "del", "add"}
      /\ \A n \in Nodes : DOMAIN builder[n] = {"pc", "boot", "loop", "page"}
  BY DEF TypeOK
<1>1. ~ Fault
  BY DEF Fault, TypeOK
<1> USE DEF Announced, StaleIsAnnounced
<1>2. CASE UNCHANGED vars
  BY <1>2 DEF vars, nodeVars
<1>3. ASSUME NEW a \in Admins, AdminStarts(a) PROVE Announced'
  <2>1. \/ \E r \in Roles, m \in Menus : AddRoleMenufunction(a, r, m)
        \/ \E r \in Roles, m \in Menus : LogicalDeletedRoleMenufunctionById(a, r, m)
        \/ RefreshAuthority(a)
    BY <1>3 DEF AdminStarts, Begin, PublishesAfterCommit, SaveRead, LogicallyDeleteRoleById,
                DeleteMenuFunctionById, AddMenuElement, UpdateMenuElementById,
                DeleteMenuElementById
  <2>2. /\ admin' = [admin EXCEPT ![a].pc = "publish"]
        /\ <<subscribed, queue, builder>>' = <<subscribed, queue, builder>>
        /\ behind' = Nodes \/ behind' = behind
    BY <2>1 DEF AddRoleMenufunction, LogicalDeletedRoleMenufunctionById, RefreshAuthority,
                Go, Commit, nodeVars
  <2>3. admin'[a].pc = "publish" /\ \A b \in Admins \ {a} : admin'[b] = admin[b]
    BY <2>2, <1>0
  <2> QED
    BY <2>2, <2>3
<1>4. ASSUME NEW a \in Admins, AdminContinues(a) PROVE Announced'
  <2>1. Publish(a)
    BY <1>4 DEF AdminContinues, SaveWrite, SavePublish, SaveCommit
  <2>2. /\ admin' = [admin EXCEPT ![a].pc = "idle"]
        /\ \A n \in Nodes : queue'[n] > 0
        /\ <<subscribed, builder, behind>>' = <<subscribed, builder, behind>>
    BY <2>1, <1>0 DEF Publish, Go, Deliver
  <2>3. \A b \in Admins : admin'[b].pc \in {"idle", "publish"}
    BY <2>2, <1>0
  <2> QED
    BY <2>2, <2>3, <1>0
<1>5. ASSUME NEW n \in Nodes, Rebuild(n) PROVE Announced'
  <2>1. /\ <<admin, subscribed>>' = <<admin, subscribed>>
        /\ behind' \subseteq behind
        /\ \A k \in behind' : queue'[k] = queue[k]
    BY <1>5, <1>0 DEF Rebuild, StartRebuild, CountRows, ReadPage, ClearLive, PutAll
  <2>2. \A k \in Nodes : builder'[k].pc # "down"
    <3>1. CASE StartRebuild(n)
      BY <3>1, <1>0 DEF StartRebuild, Step, Resting
    <3>2. CASE CountRows(n)
      <4>1. \/ builder' = [builder EXCEPT ![n] = [builder[n] EXCEPT !.pc = "page", !.page = 1,
                              !.loop = PageCount(Cardinality(GrantedUrls(db)))]]
            \/ builder' = [builder EXCEPT ![n] = [builder[n] EXCEPT !.pc = "clear"]]
        BY <3>2 DEF CountRows, Step
      <4> QED
        BY <4>1, <1>0
    <3>3. CASE ReadPage(n)
      <4>1. \/ builder' = [builder EXCEPT ![n] = [builder[n] EXCEPT !.pc = "clear"]]
            \/ builder' = [builder EXCEPT ![n] = [builder[n] EXCEPT !.page = @ + 1]]
        BY <3>3 DEF ReadPage, Step
      <4> QED
        BY <4>1, <1>0
    <3>4. CASE ClearLive(n) \/ PutAll(n)
      BY <3>4, <1>0 DEF ClearLive, PutAll, Step, Resting
    <3> QED
      BY <3>1, <3>2, <3>3, <3>4, <1>5 DEF Rebuild
  <2> QED
    BY <2>1, <2>2
<1>6. ASSUME NEW n \in Nodes, NodeFault(n) PROVE FALSE
  BY <1>1, <1>6 DEF NodeFault, RebuildFails, Disconnect, Reconnect, Crash, Boot
<1>7. \A a \in Admins : ~ OperationFails(a)
  BY <1>1 DEF OperationFails
<1> QED
  BY <1>2, <1>3, <1>4, <1>5, <1>6, <1>7 DEF Next

(* While an instance is behind, a message for it is waiting or still to be *)
(* sent (addRoleMenufunction, refreshAuthority), without faults and for    *)
(* operations that publish after their commit.                             *)
THEOREM StaleAnnounced ==
  ASSUME Operations \subseteq PublishesAfterCommit, MaxFaults = 0
  PROVE  Spec => []StaleIsAnnounced
<1>1. Init => Announced
  BY DEF Init, Announced, StaleIsAnnounced, NoWork, Booting
<1>2. TypeOK /\ Announced /\ [Next]_vars => Announced'
  BY AnnouncedStep
<1>3. Announced => StaleIsAnnounced
  BY DEF Announced
<1> QED
  BY <1>1, <1>2, <1>3, TypeCorrect, PTL DEF Spec

=============================================================================
