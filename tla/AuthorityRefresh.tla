-------------------------- MODULE AuthorityRefresh --------------------------
(***************************************************************************)
(* How a change of the permission tables reaches the filter chains of      *)
(* every web instance.  Administrators' requests write the tables; some of *)
(* them publish a message on the Redis topic that every instance           *)
(* subscribes to; an instance that takes a message rebuilds its chains     *)
(* from the tables, page by page, and swaps the live chains for them.      *)
(***************************************************************************)
EXTENDS AuthorityStore

CONSTANTS Nodes,       \* the web instances
          Admins,      \* request threads that run authority operations
          Operations,  \* the operations that are exercised
          SeedElems,   \* SeedElems[e]: the place of element e in the seed data
          MaxOps,      \* bound: operations started in a behaviour
          MaxFaults    \* bound: crashes, lost connections and failed calls

AllOperations == {"addGrant", "deleteGrant", "saveGrants", "deleteRole",
                  "deleteMenu", "editElement", "refresh"}

ASSUME RefreshAssumption ==
    /\ Operations \subseteq AllOperations
    /\ SeedElems \in [Elements -> Place]
    /\ MaxOps \in Nat
    /\ MaxFaults \in Nat

VARIABLES db,          \* the committed rows of the permission tables
          admin,       \* progress of the operation each request thread runs
          subscribed,  \* instances whose topic subscription is connected
          queue,       \* queue[n]: messages delivered to n and not yet handled
          builder,     \* builder[n]: progress of initFilterChains on n
          staged,      \* staged[n]: chains of otherfilterChainManager
          live,        \* live[n]: chains of filterChainManager, which requests use
          cfg,         \* cfg[n][u]: role list the roles filter of n holds for u
          behind,      \* history: instances whose latest rebuild began before
                       \* the latest commit
          ops,         \* operations started so far
          faults       \* faults so far

nodeVars  == <<queue, builder, staged, live, cfg>>
vars      == <<db, admin, subscribed, nodeVars, behind, ops, faults>>

-----------------------------------------------------------------------------
(* An idle request thread, and one inside the transaction of               *)
(* saveRoleMenuFunction that is about to delete and insert menus of a role *)
NoWork == [pc |-> "idle", role |-> {}, del |-> {}, add |-> {}]

AdminPcs   == {"idle", "publish", "saveWrite", "savePublish", "saveCommit"}
BuilderPcs == {"down", "idle", "count", "page", "clear", "put"}

TypeOK ==
    /\ db \in Tables
    /\ admin \in [Admins -> [pc : AdminPcs, role : SUBSET Roles,
                             del : SUBSET Menus, add : SUBSET Menus]]
    /\ subscribed \subseteq Nodes
    /\ queue \in [Nodes -> Nat]
    /\ builder \in [Nodes -> [pc : BuilderPcs, boot : BOOLEAN, loop : Nat, page : Nat]]
    /\ staged \in [Nodes -> Chains]
    /\ live \in [Nodes -> Chains]
    /\ cfg \in [Nodes -> [Urls -> SUBSET Roles]]
    /\ behind \subseteq Nodes
    /\ ops \in 0..MaxOps
    /\ faults \in 0..MaxFaults

Booting == [pc |-> "count", boot |-> TRUE, loop |-> 0, page |-> 0]
Resting == [pc |-> "idle", boot |-> FALSE, loop |-> 0, page |-> 0]
Down    == [pc |-> "down", boot |-> FALSE, loop |-> 0, page |-> 0]

(* A deployment starts with every row live, any set of grants, and all     *)
(* instances booting.                                                      *)
Init ==
    /\ db \in [roles  : {Roles}, menus : {Menus},
               elems  : {[e \in Elements |-> {SeedElems[e]}]},
               grants : SUBSET (Roles \X Menus), dead : {{}}]
    /\ admin = [a \in Admins |-> NoWork]
    /\ subscribed = Nodes
    /\ queue = [n \in Nodes |-> 0]
    /\ builder = [n \in Nodes |-> Booting]
    /\ staged = [n \in Nodes |-> PublicChains]
    /\ live = [n \in Nodes |-> NoChains]
    /\ cfg = [n \in Nodes |-> [u \in Urls |-> {}]]
    /\ behind = {}
    /\ ops = 0
    /\ faults = 0

-----------------------------------------------------------------------------
(* Operations of the administrators.                                       *)

Begin(op, a) ==
    /\ op \in Operations
    /\ admin[a].pc = "idle"
    /\ ops < MaxOps
    /\ ops' = ops + 1

(* What every committed change means for the instances: rebuilds that have *)
(* begun may have read the tables before it.                               *)
Commit(newDb) ==
    /\ db' = newDb
    /\ behind' = IF newDb = db THEN behind ELSE Nodes

Go(a, pc) == admin' = [admin EXCEPT ![a].pc = pc]

(* Rows an open transaction has deleted or inserted stay locked; a new row *)
(* may join an inserted one but not take the place of a deleted one.       *)
Open(a)       == admin[a].pc \in {"savePublish", "saveCommit"}
Deleting(a)   == IF Open(a) THEN admin[a].role \X admin[a].del ELSE {}
LockedRows(a) == IF Open(a) THEN Deleting(a) \cup admin[a].role \X admin[a].add ELSE {}

Insertable(a, row) == \A b \in Admins \ {a} : row \notin Deleting(b)
Unlocked(a, rows)  == \A b \in Admins \ {a} : LockedRows(b) \cap rows = {}

(* The tables after an UPDATE ... SET is_deleted = 1 of role-menu rows.    *)
Retire(rows) == [db EXCEPT !.grants = @ \ rows, !.dead = @ \cup (db.grants \cap rows)]

(* addRoleMenufunction: an insert of its own, then the message.  Neither   *)
(* the role nor the menu is looked up.                                     *)
AddRoleMenufunction(a, r, m) ==
    /\ Begin("addGrant", a)
    /\ Insertable(a, <<r, m>>)
    /\ Commit([db EXCEPT !.grants = @ \cup {<<r, m>>}])
    /\ Go(a, "publish")
    /\ UNCHANGED <<subscribed, nodeVars, faults>>

(* logicalDeletedRoleMenufunctionById: updateById with isDeleted = 1 on a  *)
(* @TableLogic column.  The generated UPDATE leaves that column out, so    *)
(* the row stays live although the call reports success.                   *)
LogicalDeletedRoleMenufunctionById(a, r, m) ==
    /\ Begin("deleteGrant", a)
    /\ <<r, m>> \in db.grants
    /\ Unlocked(a, {<<r, m>>})
    /\ Commit(db)
    /\ Go(a, "publish")
    /\ UNCHANGED <<subscribed, nodeVars, faults>>

(* saveRoleMenuFunction, in one transaction: read the role's rows and      *)
(* compare them with the selection.  An empty selection is a success that  *)
(* changes nothing, and so is an equal one.                                *)
SaveRead(a, r, selection) ==
    /\ Begin("saveGrants", a)
    /\ LET old == {m \in Menus : <<r, m>> \in db.grants}
       IN  admin' = [admin EXCEPT ![a] =
               IF selection = {} \/ selection = old THEN NoWork
               ELSE [pc |-> "saveWrite", role |-> {r},
                     del |-> old \ selection, add |-> selection \ old]]
    /\ UNCHANGED <<db, behind, subscribed, nodeVars, faults>>

(* ... batchDelete and batchInsert.  The DELETE takes rows whatever their  *)
(* is_deleted; when another save has left none it throws, and the          *)
(* transaction rolls back.                                                 *)
SaveWrite(a) ==
    /\ admin[a].pc = "saveWrite"
    /\ LET rows == admin[a].role \X admin[a].del
       IN  /\ Unlocked(a, rows)
           /\ admin' = IF rows # {} /\ rows \cap (db.grants \cup db.dead) = {}
                       THEN [admin EXCEPT ![a] = NoWork]
                       ELSE [admin EXCEPT ![a].pc = "savePublish"]
    /\ UNCHANGED <<db, behind, subscribed, nodeVars, ops, faults>>

(* Mutant: a rebuilding instance ignores the message.                      *)
DeliverToIdle ==
    queue' = [n \in Nodes |-> IF n \in subscribed /\ builder[n].pc = "idle"
                              THEN queue[n] + 1 ELSE queue[n]]

(* convertAndSend reaches the instances whose subscription is connected;   *)
(* nothing keeps the message for the others.                               *)
Deliver == queue' = [n \in Nodes |-> IF n \in subscribed THEN queue[n] + 1 ELSE queue[n]]

(* ... the message, sent while the transaction is still open ...           *)
SavePublish(a) ==
    /\ admin[a].pc = "savePublish"
    /\ Deliver
    /\ Go(a, "saveCommit")
    /\ UNCHANGED <<db, behind, subscribed, builder, staged, live, cfg, ops, faults>>

(* ... and the commit, when the method has returned.                       *)
SaveCommit(a) ==
    /\ admin[a].pc = "saveCommit"
    /\ LET w == admin[a]
       IN  Commit([db EXCEPT !.grants = (@ \ (w.role \X w.del)) \cup (w.role \X w.add),
                             !.dead   = @ \ (w.role \X w.del)])
    /\ admin' = [admin EXCEPT ![a] = NoWork]
    /\ UNCHANGED <<subscribed, nodeVars, ops, faults>>

(* logicallyDeleteRoleById: the role and its role-menu rows, in one        *)
(* transaction.  No message.                                               *)
LogicallyDeleteRoleById(a, r) ==
    /\ Begin("deleteRole", a)
    /\ r \in db.roles
    /\ Unlocked(a, {r} \X Menus)
    /\ Commit([Retire({r} \X Menus) EXCEPT !.roles = @ \ {r}])
    /\ UNCHANGED <<admin, subscribed, nodeVars, faults>>

(* deleteMenuFunctionById: a menu and its descendants (which ones is the   *)
(* subject of MenuTree), their role-menu rows and their elements, in one   *)
(* transaction.  No message.                                               *)
DeleteMenuFunctionById(a, ms) ==
    /\ Begin("deleteMenu", a)
    /\ ms # {} /\ ms \subseteq db.menus
    /\ Unlocked(a, Roles \X ms)
    /\ Commit([Retire(Roles \X ms) EXCEPT
                  !.menus = @ \ ms,
                  !.elems = [e \in Elements |-> {p \in @[e] : p.menu \notin ms}]])
    /\ UNCHANGED <<admin, subscribed, nodeVars, faults>>

(* addMenuElement, updateMenuElementById and deleteMenuElementById: the    *)
(* row of one element, whose menu need not be live.  No message.           *)
AddMenuElement(a, e, p) ==
    /\ Begin("editElement", a)
    /\ db.elems[e] = {}
    /\ Commit([db EXCEPT !.elems[e] = {p}])
    /\ UNCHANGED <<admin, subscribed, nodeVars, faults>>

UpdateMenuElementById(a, e, p) ==
    /\ Begin("editElement", a)
    /\ db.elems[e] # {}
    /\ Commit([db EXCEPT !.elems[e] = {p}])
    /\ UNCHANGED <<admin, subscribed, nodeVars, faults>>

DeleteMenuElementById(a, e) ==
    /\ Begin("editElement", a)
    /\ db.elems[e] # {}
    /\ Commit([db EXCEPT !.elems[e] = {}])
    /\ UNCHANGED <<admin, subscribed, nodeVars, faults>>

(* refreshMenu, refreshAuthority, and updateMenuFunctionById with a url:   *)
(* none of the columns the query reads, then the message.                  *)
RefreshAuthority(a) ==
    /\ Begin("refresh", a)
    /\ Go(a, "publish")
    /\ UNCHANGED <<db, behind, subscribed, nodeVars, faults>>

Publish(a) ==
    /\ admin[a].pc = "publish"
    /\ Deliver
    /\ Go(a, "idle")
    /\ UNCHANGED <<db, behind, subscribed, builder, staged, live, cfg, ops, faults>>

-----------------------------------------------------------------------------
(* One instance: initFilterChains, which is synchronized, so at most one   *)
(* rebuild runs and further messages wait.                                 *)

Step(n, fields) == builder' = [builder EXCEPT ![n] = fields]

(* Mutants: the staged chains are not cleared; a rebuild starts unasked.   *)
StartRebuildOnTop(n) ==
    /\ builder[n].pc = "idle"
    /\ queue[n] > 0
    /\ queue' = [queue EXCEPT ![n] = @ - 1]
    /\ Step(n, [Resting EXCEPT !.pc = "count"])
    /\ behind' = behind \ {n}
    /\ UNCHANGED <<db, admin, subscribed, staged, live, cfg, ops, faults>>

StartRebuildUnasked(n) ==
    /\ builder[n].pc = "idle"
    /\ queue' = [queue EXCEPT ![n] = @ - 1]
    /\ Step(n, [Resting EXCEPT !.pc = "count"])
    /\ staged' = [staged EXCEPT ![n] = PublicChains]
    /\ behind' = behind \ {n}
    /\ UNCHANGED <<db, admin, subscribed, live, cfg, ops, faults>>

(* A message is taken: drop the staged chains, add the public ones.        *)
StartRebuild(n) ==
    /\ builder[n].pc = "idle"
    /\ queue[n] > 0
    /\ queue' = [queue EXCEPT ![n] = @ - 1]
    /\ Step(n, [Resting EXCEPT !.pc = "count"])
    /\ staged' = [staged EXCEPT ![n] = PublicChains]
    /\ behind' = behind \ {n}
    /\ UNCHANGED <<db, admin, subscribed, live, cfg, ops, faults>>

(* The first query counts the rows; with none, any logged-in user passes.  *)
CountRows(n) ==
    /\ builder[n].pc = "count"
    /\ LET count == Cardinality(GrantedUrls(db))
       IN  IF count > 0
           THEN /\ Step(n, [builder[n] EXCEPT !.pc = "page", !.page = 1,
                                              !.loop = PageCount(count)])
                /\ UNCHANGED staged
           ELSE /\ Step(n, [builder[n] EXCEPT !.pc = "clear"])
                /\ staged' = [staged EXCEPT ![n].default = "authc"]
    /\ UNCHANGED <<db, admin, subscribed, queue, live, cfg, behind, ops, faults>>

(* Mutant: the roles of a page's rows are added to the lists in force.     *)
ReadPageAdding(n) ==
    /\ builder[n].pc = "page"
    /\ LET rows == PageOf(GrantedUrls(db), builder[n].page) \ {Blank}
           last == builder[n].page >= builder[n].loop
       IN  /\ staged' = [staged EXCEPT ![n].role = @ \cup rows,
                                       ![n].default = IF last THEN "basic" ELSE @]
           /\ cfg' = [cfg EXCEPT ![n] = [u \in Urls |->
                         IF u \in rows THEN @[u] \cup RolesOf(db, u) ELSE @[u]]]
           /\ Step(n, IF last THEN [builder[n] EXCEPT !.pc = "clear"]
                              ELSE [builder[n] EXCEPT !.page = @ + 1])
    /\ UNCHANGED <<db, admin, subscribed, queue, live, behind, ops, faults>>

(* Each page is a query of its own.  Its rows become "roles" chains, and   *)
(* the role lists take effect at once: the filter object is shared with    *)
(* the live chains.  After the last page "/**" denies everything else.     *)
ReadPage(n) ==
    /\ builder[n].pc = "page"
    /\ LET rows == PageOf(GrantedUrls(db), builder[n].page) \ {Blank}
           last == builder[n].page >= builder[n].loop
       IN  /\ staged' = [staged EXCEPT ![n].role = @ \cup rows,
                                       ![n].default = IF last THEN "basic" ELSE @]
           /\ cfg' = [cfg EXCEPT ![n] = [u \in Urls |->
                         IF u \in rows THEN RolesOf(db, u) ELSE @[u]]]
           /\ Step(n, IF last THEN [builder[n] EXCEPT !.pc = "clear"]
                              ELSE [builder[n] EXCEPT !.page = @ + 1])
    /\ UNCHANGED <<db, admin, subscribed, queue, live, behind, ops, faults>>

(* The swap, in two statements.                                            *)
ClearLive(n) ==
    /\ builder[n].pc = "clear"
    /\ live' = [live EXCEPT ![n] = NoChains]
    /\ Step(n, [builder[n] EXCEPT !.pc = "put"])
    /\ UNCHANGED <<db, admin, subscribed, queue, staged, cfg, behind, ops, faults>>

PutAll(n) ==
    /\ builder[n].pc = "put"
    /\ live' = [live EXCEPT ![n] = staged[n]]
    /\ Step(n, Resting)
    /\ UNCHANGED <<db, admin, subscribed, queue, staged, cfg, behind, ops, faults>>

-----------------------------------------------------------------------------
(* Faults.                                                                 *)

Fault == faults < MaxFaults /\ faults' = faults + 1

(* The thread of an operation dies, or Redis refuses the message: the      *)
(* caller sees an error; a transaction that is open rolls back.            *)
OperationFails(a) ==
    /\ Fault
    /\ admin[a].pc # "idle"
    /\ admin' = [admin EXCEPT ![a] = NoWork]
    /\ UNCHANGED <<db, subscribed, nodeVars, behind, ops>>

(* A query of a rebuild fails: the listener's exception is logged and the  *)
(* message is gone; an instance that was starting up does not start.       *)
RebuildFails(n) ==
    /\ Fault
    /\ builder[n].pc \in {"count", "page"}
    /\ IF builder[n].boot
       THEN /\ Step(n, Down)
            /\ subscribed' = subscribed \ {n}
            /\ queue' = [queue EXCEPT ![n] = 0]
       ELSE /\ Step(n, Resting)
            /\ UNCHANGED <<subscribed, queue>>
    /\ behind' = behind \cup {n}
    /\ UNCHANGED <<db, admin, staged, live, cfg, ops>>

Disconnect(n) ==
    /\ Fault
    /\ n \in subscribed
    /\ subscribed' = subscribed \ {n}
    /\ UNCHANGED <<db, admin, nodeVars, behind, ops>>

(* The listener container subscribes again; it does not rebuild.           *)
Reconnect(n) ==
    /\ builder[n].pc # "down"
    /\ n \notin subscribed
    /\ subscribed' = subscribed \cup {n}
    /\ UNCHANGED <<db, admin, nodeVars, behind, ops, faults>>

Crash(n) ==
    /\ Fault
    /\ builder[n].pc # "down"
    /\ Step(n, Down)
    /\ subscribed' = subscribed \ {n}
    /\ queue' = [queue EXCEPT ![n] = 0]
    /\ live' = [live EXCEPT ![n] = NoChains]
    /\ behind' = behind \cup {n}
    /\ UNCHANGED <<db, admin, staged, cfg, ops>>

(* Start-up: the container subscribes, then the context-refreshed listener *)
(* runs initFilterChains before the web server accepts requests.           *)
Boot(n) ==
    /\ builder[n].pc = "down"
    /\ subscribed' = subscribed \cup {n}
    /\ Step(n, Booting)
    /\ staged' = [staged EXCEPT ![n] = PublicChains]
    /\ live' = [live EXCEPT ![n] = NoChains]
    /\ cfg' = [cfg EXCEPT ![n] = [u \in Urls |-> {}]]
    /\ behind' = behind \ {n}
    /\ UNCHANGED <<db, admin, queue, ops, faults>>

-----------------------------------------------------------------------------
AdminStarts(a) ==
    \/ \E r \in Roles, m \in Menus : \/ AddRoleMenufunction(a, r, m)
                                     \/ LogicalDeletedRoleMenufunctionById(a, r, m)
    \/ \E r \in Roles, selection \in SUBSET Menus : SaveRead(a, r, selection)
    \/ \E r \in Roles : LogicallyDeleteRoleById(a, r)
    \/ \E ms \in SUBSET Menus : DeleteMenuFunctionById(a, ms)
    \/ \E e \in Elements : \/ \E p \in Place : \/ AddMenuElement(a, e, p)
                                               \/ UpdateMenuElementById(a, e, p)
                           \/ DeleteMenuElementById(a, e)
    \/ RefreshAuthority(a)

AdminContinues(a) == SaveWrite(a) \/ SavePublish(a) \/ SaveCommit(a) \/ Publish(a)

Rebuild(n) ==
    StartRebuild(n) \/ CountRows(n) \/ ReadPage(n) \/ ClearLive(n) \/ PutAll(n)

NodeFault(n) == RebuildFails(n) \/ Disconnect(n) \/ Reconnect(n) \/ Crash(n) \/ Boot(n)

Next ==
    \/ \E a \in Admins : AdminStarts(a) \/ AdminContinues(a) \/ OperationFails(a)
    \/ \E n \in Nodes : Rebuild(n) \/ NodeFault(n)

Spec == Init /\ [][Next]_vars

(* Threads that have work are scheduled: request threads finish their      *)
(* operation and the listener's pool works its tasks off.                  *)
FairSpec ==
    /\ Spec
    /\ \A a \in Admins : WF_vars(AdminContinues(a))
    /\ \A n \in Nodes : WF_vars(Rebuild(n))

-----------------------------------------------------------------------------
(* Properties.                                                             *)

Rested(n) == builder[n].pc = "idle" /\ queue[n] = 0

Quiet == (\A a \in Admins : admin[a].pc = "idle") /\ (\A n \in Nodes : Rested(n))

(* The chains and the role lists of n are what the tables say.             *)
InForce(n) ==
    /\ live[n] = ChainsOf(db)
    /\ \A u \in live[n].role : cfg[n][u] = RolesOf(db, u)

(* An instance that rests, and whose latest rebuild began after the latest *)
(* commit, enforces exactly the committed tables: counting and paging with *)
(* separate queries, sharing the role lists with the live chains, failed   *)
(* rebuilds and restarts leave no other residue (initFilterChains).        *)
RebuildExact ==
    \A n \in Nodes : builder[n].pc = "idle" /\ n \notin behind => InForce(n)

(* Whatever commits fall between the queries of a rebuild, the chains an   *)
(* instance ends up with deny what they do not list: "authc" for the rest  *)
(* (everything open to any login) never comes together with a role chain.  *)
DefaultDeny ==
    \A n \in Nodes : builder[n].pc = "idle" =>
        \/ live[n].default = "basic"
        \/ live[n].default = "authc" /\ live[n].role = {}

(* Grants added by addRoleMenufunction are never forgotten: while an       *)
(* instance is behind, a message for it is waiting or still to be sent.    *)
(* Holds for operations that publish after their commit, without faults.   *)
StaleIsAnnounced ==
    \A n \in behind : queue[n] > 0 \/ \E a \in Admins : admin[a].pc = "publish"

(* ... so each instance catches up with every commit, and then enforces    *)
(* the tables, on however many pages their urls came.                      *)
CatchesUp == \A n \in Nodes : n \in behind ~> Rested(n) /\ InForce(n)

(* "Update what Shiro holds" (the comment on every convertAndSend of the   *)
(* role-menu service): once an operation and the rebuilds it asked for are *)
(* over, the instances enforce the tables.                                 *)
QuietMeansInForce == Quiet => \A n \in Nodes : InForce(n)

(* "Interfaces not added to a user's permissions cannot be accessed"       *)
(* (BasicFilters): an instance that enforces the tables lets a role in     *)
(* only where a live role-menu row of that role, or sys_menu_common, says  *)
(* so - except to an url of which all rows name deleted roles: its chain   *)
(* has an empty role list, which the roles filter takes for everybody.     *)
(* With no row at all every login is let in, which the code intends.       *)
OnlyGrantedAllowed ==
    \A n \in Nodes, u \in Urls, r \in Roles :
        /\ builder[n].pc = "idle" /\ n \notin behind
        /\ live[n].default = "basic"
        /\ Decide(live[n], cfg[n], u, {r}) = "allowed"
        => \/ u \in Public
           \/ r \in RolesOf(db, u)
           \/ u \in GrantedUrls(db) /\ RolesOf(db, u) = {}
=============================================================================
