------------------------------ MODULE MenuTree ------------------------------
(***************************************************************************)
(* The menu table as a tree: every row has a parent (pid) and carries the  *)
(* path of ids from a root to itself, by which MenuFunctionServiceImpl     *)
(* finds what belongs to a menu: FIND_IN_SET(id, path).  Administrators    *)
(* add, move and delete menus concurrently; each operation reads first and *)
(* writes later.  A client may also write the path of a menu directly.     *)
(***************************************************************************)
EXTENDS Naturals, Sequences

CONSTANTS Ids,         \* ids of sys_menu_function, handed out once each
          Root,        \* the pid of a top-level menu (-1)
          Admins,      \* request threads
          Paths,       \* paths a client may write
          MaxOps       \* bound: operations started in a behaviour

ASSUME TreeAssumption ==
    /\ Root \notin Ids
    /\ Paths \subseteq Seq(Ids)
    /\ MaxOps \in Nat

VARIABLES menu,   \* menu[m]: the committed row of m
          work,   \* the operation each request thread is in
          raced,  \* history: menus hung under a parent that was deleted while
                  \* the operation that hung them was in progress
          moved,  \* history: menus that were moved
          written, \* history: menus whose path a client wrote, not moved since
          ops     \* operations started so far

vars == <<menu, work, raced, moved, written, ops>>

-----------------------------------------------------------------------------
Parents == Ids \cup {Root}

(* What an operation has read: the menu it is about, the new parent, and   *)
(* the path it will write.                                                 *)
Rows  == [status : {"unused", "live", "deleted"}, pid : Parents, path : Seq(Ids)]
Works == [op : {"add", "move", "delete"}, id : Ids, pid : Parents, path : Seq(Ids)]

NoRow  == [status |-> "unused", pid |-> Root, path |-> <<>>]
NoWork == [op |-> "none", id |-> Root, pid |-> Root, path |-> <<>>]

TypeOK ==
    /\ menu \in [Ids -> Rows]
    /\ work \in [Admins -> Works \cup {NoWork}]
    /\ raced \in SUBSET Ids
    /\ moved \in SUBSET Ids
    /\ written \in SUBSET Ids
    /\ ops \in 0..MaxOps

Init ==
    /\ menu = [m \in Ids |-> NoRow]
    /\ work = [a \in Admins |-> NoWork]
    /\ raced = {}
    /\ moved = {}
    /\ written = {}
    /\ ops = 0

-----------------------------------------------------------------------------
Live(m)   == menu[m].status = "live"
OnPath(m) == {menu[m].path[i] : i \in 1..Len(menu[m].path)}

(* Mutant: what belongs to a menu is found by pid, one level deep.         *)
UnderByPid(id) == {m \in Ids : Live(m) /\ (m = id \/ menu[m].pid = id)}

(* FIND_IN_SET(id, path) among the live rows.                              *)
Under(id) == {m \in Ids : Live(m) /\ id \in OnPath(m)}

(* Mutants: the own id is forgotten; the root's id is written too.         *)
PathOfParent(p, m)  == IF p = Root THEN <<m>> ELSE menu[p].path
PathWithRoot(p, m)  == IF p = Root THEN <<p, m>> ELSE Append(menu[p].path, m)

PathUnder(p, m) == IF p = Root THEN <<m>> ELSE Append(menu[p].path, m)

Begin(a) ==
    /\ work[a] = NoWork
    /\ ops < MaxOps
    /\ ops' = ops + 1

Done(a) == work' = [work EXCEPT ![a] = NoWork]

(* The row an addition or a move writes, and whether its parent is gone by *)
(* then.                                                                   *)
Hang(w) == menu' = [menu EXCEPT ![w.id] = [status |-> "live", pid |-> w.pid, path |-> w.path]]

Race(w) == raced' = IF w.pid # Root /\ ~ Live(w.pid) THEN raced \cup {w.id} ELSE raced \ {w.id}

Free(m) == menu[m].status = "unused" /\ \A a \in Admins : work[a].id # m

(* addMenuFunction, one transaction: it sees the parent as the transaction *)
(* began; a parent that is gone ends it with an error.                     *)
AddRead(a, p, m) ==
    /\ Begin(a)
    /\ Free(m)
    /\ p # Root => Live(p)
    /\ work' = [work EXCEPT ![a] =
                  [op |-> "add", id |-> m, pid |-> p, path |-> PathUnder(p, m)]]
    /\ UNCHANGED <<menu, raced, moved, written>>

(* ... and inserts the row; its path is set before the commit shows it.    *)
AddCommit(a) ==
    /\ work[a].op = "add"
    /\ Hang(work[a])
    /\ Race(work[a])
    /\ Done(a)
    /\ UNCHANGED <<moved, written, ops>>

(* updateMenuFunctionById with a pid: the parent is read ...               *)
MoveRead(a, p, m) ==
    /\ Begin(a)
    /\ p # Root => Live(p)
    /\ work' = [work EXCEPT ![a] =
                  [op |-> "move", id |-> m, pid |-> p, path |-> PathUnder(p, m)]]
    /\ UNCHANGED <<menu, raced, moved, written>>

(* ... and pid and path of this one row are written.  The update of a row  *)
(* that is not live matches nothing and is reported as an error.           *)
MoveWrite(a) ==
    /\ work[a].op = "move"
    /\ IF Live(work[a].id)
       THEN /\ Hang(work[a])
            /\ Race(work[a])
            /\ moved' = moved \cup {work[a].id}
            /\ written' = written \ {work[a].id}
       ELSE UNCHANGED <<menu, raced, moved, written>>
    /\ Done(a)
    /\ UNCHANGED ops

(* updateMenuFunctionById without a pid: one statement writes the columns  *)
(* the client's entity has, a path among them (<<>>: a blank one; an empty *)
(* text is not written, MybatisConfigConfig).                              *)
WritePath(a, m, s) ==
    /\ Begin(a)
    /\ Live(m)
    /\ menu' = [menu EXCEPT ![m].path = s]
    /\ written' = written \cup {m}
    /\ UNCHANGED <<work, raced, moved>>

(* deleteMenuFunctionById, one transaction: it needs something to delete.. *)
DeleteRead(a, m) ==
    /\ Begin(a)
    /\ Under(m) # {}
    /\ work' = [work EXCEPT ![a] =
                  [op |-> "delete", id |-> m, pid |-> Root, path |-> <<>>]]
    /\ UNCHANGED <<menu, raced, moved, written>>

(* ... and the UPDATE looks again, at what is committed by then.           *)
DeleteCommit(a) ==
    /\ work[a].op = "delete"
    /\ menu' = [m \in Ids |-> IF m \in Under(work[a].id)
                              THEN [menu[m] EXCEPT !.status = "deleted"] ELSE menu[m]]
    /\ Done(a)
    /\ UNCHANGED <<raced, moved, written, ops>>

(* Any operation may fail before its write; a transaction rolls back.      *)
Abandon(a) ==
    /\ work[a] # NoWork
    /\ Done(a)
    /\ UNCHANGED <<menu, raced, moved, written, ops>>

Next ==
    \E a \in Admins :
        \/ \E m \in Ids : \/ \E p \in Parents : AddRead(a, p, m) \/ MoveRead(a, p, m)
                          \/ \E s \in Paths : WritePath(a, m, s)
                          \/ DeleteRead(a, m)
        \/ AddCommit(a) \/ MoveWrite(a) \/ DeleteCommit(a)
        \/ Abandon(a)

Spec == Init /\ [][Next]_vars

-----------------------------------------------------------------------------
(* Properties.                                                             *)

(* A menu can always be deleted: its own id ends its path, whatever moves  *)
(* happened, unless a client wrote another path.                           *)
FindsItself ==
    \A m \in Ids : Live(m) => \/ m \in written
                              \/ /\ menu[m].path # <<>>
                                 /\ menu[m].path[Len(menu[m].path)] = m

(* The path of m is the one of its parent and its own id.                  *)
Continues(m) ==
    menu[m].path = IF menu[m].pid = Root THEN <<m>>
                   ELSE Append(menu[menu[m].pid].path, m)

(* The path column leads through the parents a menu has ("the current      *)
(* menu's path", SysMenuFunction) whatever operations overlap, except where*)
(* a client wrote it and right below a menu that was moved or whose path   *)
(* was written (updateMenuFunctionById writes one row).                    *)
StaleOnlyBelowMoved ==
    \A m \in Ids \ written :
        Live(m) => Continues(m) \/ menu[m].pid \in moved \cup written

(* Deletion takes the whole subtree: a live menu has a live parent, unless *)
(* it was being hung there while the parent was being deleted, or its path *)
(* had gone stale or was written by a client (deleteMenuFunctionById goes  *)
(* by path).                                                               *)
NoOrphans ==
    \A m \in Ids :
        Live(m) /\ menu[m].pid # Root =>
            Live(menu[m].pid) \/ m \in raced \cup written \/ ~ Continues(m)
=============================================================================
