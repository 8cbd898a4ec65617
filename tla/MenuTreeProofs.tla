--------------------------- MODULE MenuTreeProofs ---------------------------
(***************************************************************************)
(* What the paths of menus are good for, for every set of menus and every  *)
(* number of administrators: a menu finds itself, its path goes stale only *)
(* right below a menu that was moved, and deletion by path leaves behind   *)
(* only what raced it or was stale; where a client wrote a path itself,    *)
(* none of this is promised.                                               *)
(***************************************************************************)
EXTENDS MenuTree, TLAPS

(* A path that ends with the menu it belongs to.                           *)
EndsWith(path, m) == path # <<>> /\ path[Len(path)] = m

(* Every row ever written ends with its own id, and so will every row that *)
(* is being written.                                                       *)
Findable ==
    /\ \A m \in Ids \ written : menu[m].status # "unused" => EndsWith(menu[m].path, m)
    /\ \A a \in Admins : work[a].op \in {"add", "move"} =>
          EndsWith(work[a].path, work[a].id)

(* The path that hangs m under p: it continues the path p has in the table,*)
(* whether or not p is still live, unless p was moved or its path written. *)
Hangs(m, p, path) ==
    IF p = Root THEN path = <<m>>
    ELSE /\ menu[p].status # "unused"
         /\ p \in moved \cup written \/ path = Append(menu[p].path, m)

(* Every row hangs under its parent unless a client wrote its path, and so *)
(* will every row that is being written; nobody else adds the same id.     *)
PathsContinue ==
    /\ \A m \in Ids \ written :
          menu[m].status # "unused" => Hangs(m, menu[m].pid, menu[m].path)
    /\ \A m \in written : menu[m].status # "unused"
    /\ \A a \in Admins : work[a].op \in {"add", "move"} =>
          Hangs(work[a].id, work[a].pid, work[a].path)
    /\ \A a \in Admins : work[a].op = "add" =>
          /\ menu[work[a].id].status = "unused"
          /\ \A b \in Admins : work[b].op = "add" /\ work[b].id = work[a].id => a = b

-----------------------------------------------------------------------------
(* What PathUnder returns is a path, and it ends with the menu.            *)
LEMMA PathUnderType ==
  ASSUME TypeOK, NEW p \in Parents, NEW m \in Ids
  PROVE  PathUnder(p, m) \in Seq(Ids) /\ EndsWith(PathUnder(p, m), m)
<1>1. CASE p = Root
  BY <1>1 DEF PathUnder, EndsWith
<1>2. CASE p # Root
  <2>1. menu[p].path \in Seq(Ids)
    BY <1>2 DEF TypeOK, Parents, Rows
  <2> QED
    BY <1>2, <2>1 DEF PathUnder, EndsWith
<1> QED
  BY <1>1, <1>2

(* What the write of an addition or a move does.                           *)
LEMMA HangStep ==
  ASSUME TypeOK, NEW w \in Works, Hang(w), Race(w)
  PROVE  /\ menu' \in [Ids -> Rows] /\ raced' \in SUBSET Ids
         /\ menu'[w.id].status = "live"
         /\ menu'[w.id].pid = w.pid /\ menu'[w.id].path = w.path
         /\ \A m \in Ids \ {w.id} : menu'[m] = menu[m]
         /\ w.pid # Root /\ ~ Live(w.pid) => w.id \in raced'
         /\ raced \ {w.id} \subseteq raced'
<1>1. menu \in [Ids -> Rows] /\ w.id \in Ids /\ raced \in SUBSET Ids
  BY DEF TypeOK, Works
<1>2. [status |-> "live", pid |-> w.pid, path |-> w.path] \in Rows
  BY DEF Works, Rows
<1>3. menu' \in [Ids -> Rows]
  BY <1>1, <1>2 DEF Hang
<1>4. menu'[w.id] = [status |-> "live", pid |-> w.pid, path |-> w.path]
  BY <1>1 DEF Hang
<1>5. \A m \in Ids \ {w.id} : menu'[m] = menu[m]
  BY <1>1 DEF Hang
<1> QED
  BY <1>1, <1>3, <1>4, <1>5 DEF Race

(* A client's path takes the place of the one the row had.                 *)
LEMMA PathWritten ==
  ASSUME menu \in [Ids -> Rows], NEW a \in Admins, NEW m \in Ids, NEW s \in Paths,
         WritePath(a, m, s)
  PROVE  /\ menu' \in [Ids -> Rows]
         /\ \A x \in Ids \ {m} : menu'[x] = menu[x]
         /\ menu'[m].status = menu[m].status /\ menu'[m].pid = menu[m].pid
         /\ menu[m].status = "live"
         /\ written' = written \cup {m} /\ UNCHANGED <<work, raced, moved>>
<1>1. s \in Seq(Ids)
  BY TreeAssumption DEF TreeAssumption
<1> QED
  BY <1>1 DEF WritePath, Rows, Live

(* Type correctness is preserved by every step.                            *)
LEMMA TypeStep ==
  ASSUME TypeOK, [Next]_vars
  PROVE  TypeOK'
<1> DEFINE W == Works \cup {NoWork}
           Typed == /\ menu \in [Ids -> Rows] /\ work \in [Admins -> W]
                    /\ raced \in SUBSET Ids /\ moved \in SUBSET Ids
                    /\ written \in SUBSET Ids /\ ops \in 0..MaxOps
<1>0. Typed
  BY DEF TypeOK
<1>1. SUFFICES Typed'
  BY DEF TypeOK
<1>2. ASSUME NEW a \in Admins, NEW w \in W, work' = [work EXCEPT ![a] = w]
      PROVE  work' \in [Admins -> W]
  BY <1>0, <1>2
<1>3. ASSUME NEW a \in Admins, Begin(a) PROVE ops' \in 0..MaxOps
  BY <1>0, <1>3, TreeAssumption DEF TreeAssumption, Begin
<1>4. NoWork \in W
  OBVIOUS
<1> HIDE DEF W
<1>5. CASE UNCHANGED vars
  BY <1>0, <1>5 DEF vars
<1>6. ASSUME NEW a \in Admins, NEW m \in Ids, NEW p \in Parents,
             AddRead(a, p, m) \/ MoveRead(a, p, m)
      PROVE  Typed'
  <2>1. /\ PathUnder(p, m) \in Seq(Ids)
        /\ UNCHANGED <<menu, raced, moved, written>>
        /\ ops' \in 0..MaxOps
    BY <1>3, <1>6, PathUnderType DEF AddRead, MoveRead
  <2>2. PICK op \in {"add", "move"} :
           work' = [work EXCEPT ![a] =
                      [op |-> op, id |-> m, pid |-> p, path |-> PathUnder(p, m)]]
    BY <1>6 DEF AddRead, MoveRead
  <2>3. [op |-> op, id |-> m, pid |-> p, path |-> PathUnder(p, m)] \in W
    BY <2>1 DEF W, Works
  <2> QED
    BY <1>0, <1>2, <2>1, <2>2, <2>3
<1>7. ASSUME NEW a \in Admins, NEW m \in Ids, DeleteRead(a, m) PROVE Typed'
  <2>1. UNCHANGED <<menu, raced, moved, written>> /\ ops' \in 0..MaxOps
    BY <1>3, <1>7 DEF DeleteRead
  <2>2. [op |-> "delete", id |-> m, pid |-> Root, path |-> <<>>] \in W
    BY DEF W, Works, Parents
  <2> QED
    BY <1>0, <1>2, <1>7, <2>1, <2>2 DEF DeleteRead
<1>8. ASSUME NEW a \in Admins, AddCommit(a) PROVE Typed'
  <2>1. work[a] \in Works
    BY <1>0, <1>8 DEF AddCommit, W, NoWork
  <2>2. menu' \in [Ids -> Rows] /\ raced' \in SUBSET Ids
    BY <1>8, <2>1, HangStep DEF AddCommit
  <2>3. work' \in [Admins -> W]
    BY <1>2, <1>4, <1>8 DEF AddCommit, Done
  <2> QED
    BY <1>0, <1>8, <2>2, <2>3 DEF AddCommit
<1>9. ASSUME NEW a \in Admins, MoveWrite(a) PROVE Typed'
  <2>1. work[a] \in Works
    BY <1>0, <1>9 DEF MoveWrite, W, NoWork
  <2>2. menu' \in [Ids -> Rows] /\ raced' \in SUBSET Ids
    BY <1>0, <1>9, <2>1, HangStep DEF MoveWrite
  <2>3. work' \in [Admins -> W]
    BY <1>2, <1>4, <1>9 DEF MoveWrite, Done
  <2>4. moved' \in SUBSET Ids /\ written' \in SUBSET Ids
    BY <1>0, <1>9, <2>1 DEF MoveWrite, Works
  <2> QED
    BY <1>0, <1>9, <2>2, <2>3, <2>4 DEF MoveWrite
<1>10. ASSUME NEW a \in Admins, DeleteCommit(a) PROVE Typed'
  <2>1. menu' \in [Ids -> Rows]
    BY <1>0, <1>10 DEF DeleteCommit, Rows
  <2>2. work' \in [Admins -> W]
    BY <1>2, <1>4, <1>10 DEF DeleteCommit, Done
  <2> QED
    BY <1>0, <1>10, <2>1, <2>2 DEF DeleteCommit
<1>11. ASSUME NEW a \in Admins, Abandon(a) PROVE Typed'
  BY <1>0, <1>2, <1>4, <1>11 DEF Abandon, Done
<1>12. ASSUME NEW a \in Admins, NEW m \in Ids, NEW s \in Paths, WritePath(a, m, s) PROVE Typed'
  <2>1. ops' \in 0..MaxOps /\ menu' \in [Ids -> Rows]
    BY <1>0, <1>3, <1>12, PathWritten DEF WritePath
  <2> QED
    BY <1>0, <1>12, <2>1 DEF WritePath
<1> QED
  BY <1>5, <1>6, <1>7, <1>8, <1>9, <1>10, <1>11, <1>12 DEF Next

(* Rows and operations keep their types (MenuFunctionServiceImpl).         *)
THEOREM TypeCorrect == Spec => []TypeOK
<1>1. ASSUME Init PROVE TypeOK
  BY <1>1, TreeAssumption
  DEF TreeAssumption, Init, TypeOK, Rows, Works, NoRow, NoWork, Parents
<1> QED
  BY <1>1, TypeStep, PTL DEF Spec

-----------------------------------------------------------------------------
(* A menu finds itself.                                                    *)
LEMMA FindableStep ==
  ASSUME TypeOK, Findable, [Next]_vars
  PROVE  Findable'
<1>1. /\ menu \in [Ids -> Rows] /\ work \in [Admins -> Works \cup {NoWork}]
  BY DEF TypeOK
<1> DEFINE Pending(a) == work[a].op \in {"add", "move"} => EndsWith(work[a].path, work[a].id)
           Written(m) == m \notin written /\ menu[m].status # "unused" => EndsWith(menu[m].path, m)
<1>2. ASSUME NEW a \in Admins, UNCHANGED work[a] PROVE Pending(a)'
  BY <1>2 DEF Findable
<1>3. ASSUME NEW m \in Ids, UNCHANGED menu[m], m \in written => m \in written' PROVE Written(m)'
  BY <1>3 DEF Findable
<1>4. SUFFICES (\A m \in Ids : Written(m)') /\ (\A a \in Admins : Pending(a)')
  BY DEF Findable
<1>5. ASSUME NEW a \in Admins, NEW m \in Ids, NEW p \in Parents,
             AddRead(a, p, m) \/ MoveRead(a, p, m)
      PROVE  Findable'
  <2>1. /\ UNCHANGED <<menu, written>> /\ \A b \in Admins \ {a} : UNCHANGED work[b]
        /\ work'[a].id = m /\ work'[a].path = PathUnder(p, m)
    BY <1>1, <1>5 DEF AddRead, MoveRead
  <2> QED
    BY <1>2, <1>3, <2>1, PathUnderType DEF Findable
<1>6. ASSUME NEW a \in Admins, work'[a].op \notin {"add", "move"},
             \A b \in Admins \ {a} : UNCHANGED work[b]
      PROVE  \A b \in Admins : Pending(b)'
  BY <1>2, <1>6
<1>7. ASSUME NEW a \in Admins, AddCommit(a) \/ MoveWrite(a) \/ DeleteCommit(a) \/ Abandon(a)
      PROVE  \A b \in Admins : Pending(b)'
  <2>1. work'[a] = NoWork /\ \A b \in Admins \ {a} : UNCHANGED work[b]
    BY <1>1, <1>7 DEF AddCommit, MoveWrite, DeleteCommit, Abandon, Done
  <2> QED
    BY <1>6, <2>1 DEF NoWork
<1>8. ASSUME NEW a \in Admins, NEW m \in Ids, DeleteRead(a, m) PROVE Findable'
  <2>1. /\ UNCHANGED <<menu, written>> /\ \A b \in Admins \ {a} : UNCHANGED work[b]
        /\ work'[a].op = "delete"
    BY <1>1, <1>8 DEF DeleteRead
  <2> QED
    BY <1>3, <1>6, <2>1 DEF Findable
<1>9. ASSUME NEW a \in Admins, work[a].op \in {"add", "move"}, Hang(work[a]), Race(work[a]),
             written \ {work[a].id} \subseteq written'
      PROVE  \A m \in Ids : Written(m)'
  <2>1. PICK w \in Works : w = work[a]
    BY <1>1, <1>9 DEF NoWork
  <2>2. EndsWith(menu'[w.id].path, w.id) /\ \A m \in Ids \ {w.id} : UNCHANGED menu[m]
    BY <1>9, <2>1, HangStep DEF Findable
  <2> QED
    BY <1>3, <1>9, <2>1, <2>2
<1>10. ASSUME NEW a \in Admins, AddCommit(a) \/ MoveWrite(a) PROVE Findable'
  <2>1. CASE AddCommit(a)
    BY <1>7, <1>9, <2>1 DEF AddCommit, Findable
  <2>2. CASE MoveWrite(a) /\ Live(work[a].id)
    BY <1>7, <1>9, <2>2 DEF MoveWrite, Findable
  <2>3. CASE MoveWrite(a) /\ ~ Live(work[a].id)
    BY <1>3, <1>7, <2>3 DEF MoveWrite, Findable
  <2> QED
    BY <1>10, <2>1, <2>2, <2>3
<1>11. ASSUME NEW a \in Admins, DeleteCommit(a) PROVE Findable'
  <2>0. written' = written
    BY <1>11 DEF DeleteCommit
  <2>1. \A m \in Ids : menu'[m].path = menu[m].path /\
           (menu'[m].status # "unused" => menu[m].status # "unused")
    BY <1>1, <1>11 DEF DeleteCommit, Under, Live, Rows
  <2> QED
    BY <1>7, <1>11, <2>0, <2>1 DEF Findable
<1>12. ASSUME NEW a \in Admins, Abandon(a) PROVE Findable'
  BY <1>3, <1>7, <1>12 DEF Abandon, Findable
<1>13. CASE UNCHANGED vars
  BY <1>2, <1>3, <1>13 DEF vars
<1>14. ASSUME NEW a \in Admins, NEW m \in Ids, NEW s \in Paths, WritePath(a, m, s)
       PROVE  Findable'
  <2>1. /\ UNCHANGED work /\ written' = written \cup {m}
        /\ \A x \in Ids \ {m} : UNCHANGED menu[x]
    BY <1>1, <1>14, PathWritten
  <2> QED
    BY <1>2, <1>3, <2>1 DEF Findable
<1> QED
  BY <1>5, <1>8, <1>10, <1>11, <1>12, <1>13, <1>14 DEF Next, Findable

(* The path of a menu ends with the menu, whatever moves happened, unless a*)
(* client wrote it: it can be deleted by path (deleteMenuFunctionById).    *)
THEOREM MenusFindThemselves == Spec => []FindsItself
<1>1. Init => Findable
  BY DEF Init, Findable, NoRow, NoWork
<1>2. TypeOK /\ Findable /\ [Next]_vars => Findable'
  BY FindableStep
<1>3. Findable => FindsItself
  BY DEF Findable, FindsItself, EndsWith, Live
<1> QED
  BY <1>1, <1>2, <1>3, TypeCorrect, PTL DEF Spec

-----------------------------------------------------------------------------
(* Whatever a step does, a row that was written stays written, and its path*)
(* stays unless it is moved or a client writes it.                         *)
LEMMA RowsStay ==
  ASSUME TypeOK, PathsContinue, [Next]_vars
  PROVE  /\ moved \cup written \subseteq moved' \cup written'
         /\ \A x \in Ids : menu[x].status # "unused" =>
               /\ menu'[x].status # "unused"
               /\ x \in moved' \cup written' \/ menu'[x].path = menu[x].path
<1>1. /\ menu \in [Ids -> Rows] /\ work \in [Admins -> Works \cup {NoWork}]
  BY DEF TypeOK
<1>2. ASSUME NEW a \in Admins, AddCommit(a)
      PROVE  \A x \in Ids : menu[x].status # "unused" => menu'[x] = menu[x]
  <2>1. PICK w \in Works : w = work[a]
    BY <1>1, <1>2 DEF AddCommit, NoWork
  <2> QED
    BY <1>2, <2>1, HangStep DEF AddCommit, PathsContinue
<1>3. ASSUME NEW a \in Admins, MoveWrite(a)
      PROVE  \A x \in Ids : menu[x].status # "unused" =>
               menu'[x] = menu[x] \/ (menu'[x].status # "unused" /\ x \in moved')
  <2>1. PICK w \in Works : w = work[a]
    BY <1>1, <1>3 DEF MoveWrite, NoWork
  <2> QED
    BY <1>3, <2>1, HangStep DEF MoveWrite
<1>4. ASSUME NEW a \in Admins, DeleteCommit(a)
      PROVE  \A x \in Ids : menu[x].status # "unused" =>
               menu'[x].status # "unused" /\ menu'[x].path = menu[x].path
  BY <1>1, <1>4 DEF DeleteCommit, Rows
<1>5. moved \cup written \subseteq moved' \cup written'
  BY DEF Next, vars, AddRead, AddCommit, MoveRead, MoveWrite, WritePath, DeleteRead,
         DeleteCommit, Abandon
<1>6. ASSUME NEW a \in Admins, NEW m \in Ids, NEW s \in Paths, WritePath(a, m, s)
      PROVE  \A x \in Ids : menu[x].status # "unused" =>
               menu'[x] = menu[x] \/ (menu'[x].status # "unused" /\ x \in written')
  BY <1>1, <1>6, PathWritten
<1>7. \/ UNCHANGED menu
      \/ \E a \in Admins : \/ AddCommit(a) \/ MoveWrite(a) \/ DeleteCommit(a)
                            \/ \E m \in Ids, s \in Paths : WritePath(a, m, s)
  BY DEF Next, vars, AddRead, MoveRead, DeleteRead, Abandon
<1> QED
  BY <1>2, <1>3, <1>4, <1>5, <1>6, <1>7

(* ... so what hangs stays hung.                                           *)
LEMMA StaysHung ==
  ASSUME TypeOK, PathsContinue, [Next]_vars,
         NEW m, NEW p \in Parents, NEW path, Hangs(m, p, path)
  PROVE  Hangs(m, p, path)'
BY RowsStay DEF Hangs, Parents

(* Paths keep continuing the paths of the parents.                         *)
LEMMA PathsStep ==
  ASSUME TypeOK, PathsContinue, [Next]_vars
  PROVE  PathsContinue'
<1>1. /\ menu \in [Ids -> Rows] /\ work \in [Admins -> Works \cup {NoWork}]
  BY DEF TypeOK
<1> DEFINE Pending(a) == work[a].op \in {"add", "move"} =>
                            Hangs(work[a].id, work[a].pid, work[a].path)
           Written(m) == IF m \in written THEN menu[m].status # "unused"
                         ELSE menu[m].status # "unused" =>
                                Hangs(m, menu[m].pid, menu[m].path)
           Fresh(a)   == work[a].op = "add" =>
                            /\ menu[work[a].id].status = "unused"
                            /\ \A b \in Admins : work[b].op = "add" /\ work[b].id = work[a].id
                                  => a = b
           Kept       == /\ \A m \in Ids : Written(m)
                         /\ \A a \in Admins : Pending(a)
                         /\ \A a \in Admins : Fresh(a)
<1>0. written \in SUBSET Ids /\ written' \in SUBSET Ids
  BY TypeStep DEF TypeOK
<1>2. Kept
  BY <1>0 DEF PathsContinue
<1>3. SUFFICES Kept'
  BY <1>0 DEF PathsContinue
<1>4. ASSUME NEW m \in Ids, menu'[m].pid = menu[m].pid, menu'[m].path = menu[m].path,
             menu'[m].status # "unused" <=> menu[m].status # "unused",
             m \in written <=> m \in written'
      PROVE  Written(m)'
  <2>1. menu[m].pid \in Parents
    BY <1>1 DEF Rows
  <2> QED
    BY <1>2, <1>4, <2>1, StaysHung
<1>5. ASSUME NEW a \in Admins, UNCHANGED work[a] PROVE Pending(a)'
  <2>1. CASE work[a] \in Works
    BY <1>2, <1>5, <2>1, StaysHung DEF Works
  <2> QED
    BY <1>1, <1>5, <2>1 DEF NoWork
<1>6. ASSUME NEW a \in Admins, work'[a].op # "add",
             \A b \in Admins \ {a} : UNCHANGED work[b],
             \A b \in Admins \ {a} : work[b].op = "add" =>
                menu'[work[b].id].status = menu[work[b].id].status
      PROVE  \A b \in Admins : Fresh(b)'
  BY <1>2, <1>6
(* The reads.                                                              *)
<1>7. ASSUME NEW a \in Admins, NEW m \in Ids, NEW p \in Parents,
             AddRead(a, p, m) \/ MoveRead(a, p, m)
      PROVE  /\ \A x \in Ids : Written(x)'
             /\ \A b \in Admins : Pending(b)'
  <2>1. /\ UNCHANGED <<menu, written>> /\ \A b \in Admins \ {a} : UNCHANGED work[b]
        /\ work'[a].id = m /\ work'[a].pid = p /\ work'[a].path = PathUnder(p, m)
    BY <1>1, <1>7 DEF AddRead, MoveRead
  <2>2. Hangs(m, p, PathUnder(p, m))
    BY <1>7 DEF AddRead, MoveRead, Hangs, PathUnder, Live
  <2>3. PICK path : path = PathUnder(p, m) /\ Hangs(m, p, path)
    BY <2>2
  <2>4. Hangs(m, p, path)'
    BY <2>3, StaysHung
  <2>5. Pending(a)'
    BY <2>1, <2>3, <2>4
  <2> QED
    BY <1>4, <1>5, <2>1, <2>5
<1>8. ASSUME NEW a \in Admins, NEW m \in Ids, NEW p \in Parents, AddRead(a, p, m)
      PROVE  \A b \in Admins : Fresh(b)'
  <2>1. /\ UNCHANGED menu /\ menu[m].status = "unused"
        /\ \A b \in Admins \ {a} : UNCHANGED work[b] /\ work[b].id # m
        /\ work'[a].id = m
    BY <1>1, <1>8 DEF AddRead, Free
  <2> QED
    BY <1>2, <2>1
<1>9. ASSUME NEW a \in Admins, NEW m \in Ids, NEW p \in Parents, MoveRead(a, p, m)
      PROVE  \A b \in Admins : Fresh(b)'
  <2>1. /\ UNCHANGED menu /\ work'[a].op = "move"
        /\ \A b \in Admins \ {a} : UNCHANGED work[b]
    BY <1>1, <1>9 DEF MoveRead
  <2> QED
    BY <1>6, <2>1
<1>10. ASSUME NEW a \in Admins, NEW m \in Ids, DeleteRead(a, m) PROVE Kept'
  <2>1. /\ UNCHANGED <<menu, written>> /\ work'[a].op = "delete"
        /\ \A b \in Admins \ {a} : UNCHANGED work[b]
    BY <1>1, <1>10 DEF DeleteRead
  <2> QED
    BY <1>4, <1>5, <1>6, <2>1
(* The commits.                                                            *)
<1>11. ASSUME NEW a \in Admins, AddCommit(a) \/ MoveWrite(a) \/ DeleteCommit(a) \/ Abandon(a)
       PROVE  /\ work'[a].op = "none" /\ \A b \in Admins \ {a} : UNCHANGED work[b]
              /\ \A b \in Admins : Pending(b)'
  <2>1. work'[a] = NoWork /\ \A b \in Admins \ {a} : UNCHANGED work[b]
    BY <1>1, <1>11 DEF AddCommit, MoveWrite, DeleteCommit, Abandon, Done
  <2> QED
    BY <1>5, <2>1 DEF NoWork
<1>12. ASSUME NEW a \in Admins, NEW w \in Works, w = work[a], w.op \in {"add", "move"},
              Hang(w), Race(w), written' = written \ {w.id}
       PROVE  \A m \in Ids : Written(m)'
  <2>1. /\ menu'[w.id].pid = w.pid /\ menu'[w.id].path = w.path
        /\ w.id \notin written'
        /\ \A m \in Ids \ {w.id} : menu'[m] = menu[m] /\ (m \in written <=> m \in written')
    BY <1>12, HangStep
  <2>2. Hangs(w.id, w.pid, w.path)'
    BY <1>2, <1>12, StaysHung DEF Works
  <2>3. Written(w.id)'
    BY <2>1, <2>2
  <2> QED
    BY <1>4, <2>1, <2>3
<1>13. ASSUME NEW a \in Admins, AddCommit(a) PROVE Kept'
  <2>1. PICK w \in Works : w = work[a] /\ w.op = "add"
    BY <1>1, <1>13 DEF AddCommit, NoWork
  <2>2. \A m \in Ids \ {w.id} : menu'[m] = menu[m]
    BY <1>13, <2>1, HangStep DEF AddCommit
  <2>3. \A b \in Admins \ {a} : work[b].op = "add" => work[b] \in Works /\ work[b].id # w.id
    BY <1>1, <1>2, <2>1 DEF NoWork
  <2>4. \A b \in Admins \ {a} : work[b].op = "add" =>
           menu'[work[b].id].status = menu[work[b].id].status
    BY <2>2, <2>3 DEF Works
  <2>6. w.id \in Ids /\ w.id \notin written
    BY <1>2, <2>1 DEF Works
  <2>7. written' = written \ {w.id}
    BY <1>13, <2>6 DEF AddCommit
  <2>5. \A m \in Ids : Written(m)'
    BY <1>12, <1>13, <2>1, <2>7 DEF AddCommit
  <2> QED
    BY <1>6, <1>11, <1>13, <2>4, <2>5
<1>14. ASSUME NEW a \in Admins, MoveWrite(a) PROVE Kept'
  <2>1. PICK w \in Works : w = work[a] /\ w.op = "move"
    BY <1>1, <1>14 DEF MoveWrite, NoWork
  <2>2. CASE Live(w.id)
    <3>1. \A m \in Ids \ {w.id} : menu'[m] = menu[m]
      BY <1>14, <2>1, <2>2, HangStep DEF MoveWrite
    <3>2. \A b \in Admins \ {a} : work[b].op = "add" => work[b] \in Works /\ work[b].id # w.id
      BY <1>1, <1>2, <2>2 DEF NoWork, Live
    <3>3. \A b \in Admins \ {a} : work[b].op = "add" =>
             menu'[work[b].id].status = menu[work[b].id].status
      BY <3>1, <3>2 DEF Works
    <3>4. \A m \in Ids : Written(m)'
      BY <1>12, <1>14, <2>1, <2>2 DEF MoveWrite
    <3> QED
      BY <1>6, <1>11, <1>14, <3>3, <3>4
  <2>3. CASE ~ Live(w.id)
    <3>1. UNCHANGED <<menu, written>>
      BY <1>14, <2>1, <2>3 DEF MoveWrite
    <3> QED
      BY <1>4, <1>6, <1>11, <1>14, <3>1
  <2> QED
    BY <2>2, <2>3
<1>15. ASSUME NEW a \in Admins, DeleteCommit(a) PROVE Kept'
  <2>1. \A m \in Ids : /\ menu'[m].pid = menu[m].pid /\ menu'[m].path = menu[m].path
                       /\ menu'[m].status # "unused" <=> menu[m].status # "unused"
                       /\ menu[m].status = "unused" => menu'[m].status = menu[m].status
    BY <1>1, <1>15 DEF DeleteCommit, Under, Live, Rows
  <2>2. \A b \in Admins \ {a} : work[b].op = "add" => work[b] \in Works
    BY <1>1 DEF NoWork
  <2>3. \A b \in Admins \ {a} : work[b].op = "add" =>
           menu'[work[b].id].status = menu[work[b].id].status
    BY <1>2, <2>1, <2>2 DEF Works
  <2>4. written' = written
    BY <1>15 DEF DeleteCommit
  <2> QED
    BY <1>4, <1>6, <1>11, <1>15, <2>1, <2>3, <2>4
<1>16. ASSUME NEW a \in Admins, Abandon(a) PROVE Kept'
  <2>1. UNCHANGED <<menu, written>>
    BY <1>16 DEF Abandon
  <2> QED
    BY <1>4, <1>6, <1>11, <1>16, <2>1
<1>17. CASE UNCHANGED vars
  <2>1. UNCHANGED <<menu, work, written>>
    BY <1>17 DEF vars
  <2> QED
    BY <1>2, <1>4, <1>5, <2>1
<1>18. ASSUME NEW a \in Admins, NEW m \in Ids, NEW s \in Paths, WritePath(a, m, s) PROVE Kept'
  <2>1. /\ UNCHANGED work /\ written' = written \cup {m}
        /\ \A x \in Ids \ {m} : menu'[x] = menu[x]
        /\ \A x \in Ids : menu'[x].status = menu[x].status
        /\ menu'[m].status # "unused"
    BY <1>1, <1>18, PathWritten
  <2>2. \A x \in Ids : Written(x)'
    BY <1>4, <2>1
  <2>3. \A b \in Admins : Pending(b)'
    BY <1>5, <2>1
  <2>4. \A b \in Admins : work[b].op = "add" => work[b].id \in Ids
    BY <1>1 DEF Works, NoWork
  <2>5. \A b \in Admins : Fresh(b)'
    BY <1>2, <2>1, <2>4
  <2> QED
    BY <2>2, <2>3, <2>5
<1> QED
  BY <1>7, <1>8, <1>9, <1>10, <1>13, <1>14, <1>15, <1>16, <1>17, <1>18 DEF Next

(* The path of a live menu continues its parent's, whatever operations     *)
(* overlap, unless the parent was moved or a client wrote the path of one  *)
(* of them (updateMenuFunctionById).                                       *)
THEOREM PathsAreCurrent == Spec => []StaleOnlyBelowMoved
<1>1. Init => PathsContinue
  BY DEF Init, PathsContinue, NoRow, NoWork
<1>2. TypeOK /\ PathsContinue /\ [Next]_vars => PathsContinue'
  BY PathsStep
<1>3. PathsContinue => StaleOnlyBelowMoved
  BY DEF PathsContinue, Hangs, StaleOnlyBelowMoved, Continues, Live
<1> QED
  BY <1>1, <1>2, <1>3, TypeCorrect, PTL DEF Spec

-----------------------------------------------------------------------------
(* No step makes an orphan of a menu whose path continues its parent's: an *)
(* id on the path of the parent is on the path of the menu, so a deletion  *)
(* that takes the parent takes the menu.                                   *)
LEMMA OrphansStep ==
  ASSUME TypeOK, NoOrphans, [Next]_vars
  PROVE  NoOrphans'
<1>1. /\ menu \in [Ids -> Rows] /\ work \in [Admins -> Works \cup {NoWork}]
  BY DEF TypeOK
<1>2. CASE UNCHANGED <<menu, raced, written>>
  BY <1>2 DEF NoOrphans, Live, Continues
<1>3. ASSUME NEW w \in Works, Hang(w), Race(w), written \ {w.id} \subseteq written'
      PROVE  NoOrphans'
  <2>1. /\ menu'[w.id].pid = w.pid /\ menu'[w.id].status = "live"
        /\ \A m \in Ids \ {w.id} : menu'[m] = menu[m]
        /\ w.pid # Root /\ ~ Live(w.pid) => w.id \in raced'
        /\ raced \ {w.id} \subseteq raced'
    BY <1>3, HangStep
  <2>2. \A x \in Ids : Live(x) => Live(x)'
    BY <2>1 DEF Live
  <2>3. SUFFICES ASSUME NEW m \in Ids, Live(m)', menu'[m].pid # Root,
                        m \notin raced' \cup written', ~ Live(menu[m].pid)'
                 PROVE  ~ Continues(m)'
    BY DEF NoOrphans
  <2>4. CASE m = w.id
    BY <2>1, <2>2, <2>3, <2>4 DEF Works, Parents
  <2>5. CASE m # w.id
    <3>1. Live(m) /\ m \notin raced \cup written /\ menu'[m] = menu[m]
      BY <1>3, <2>1, <2>3, <2>5 DEF Live
    <3>2. menu[m].pid \in Ids
      BY <1>1, <2>3, <3>1 DEF Rows, Parents
    <3>3. menu[m].pid # w.id /\ ~ Live(menu[m].pid)
      BY <2>1, <2>2, <2>3, <3>1, <3>2 DEF Live
    <3>4. menu'[menu[m].pid] = menu[menu[m].pid]
      BY <2>1, <3>2, <3>3
    <3>5. ~ Continues(m)
      BY <2>3, <3>1, <3>3 DEF NoOrphans
    <3> QED
      BY <2>3, <3>1, <3>4, <3>5 DEF Continues
  <2> QED
    BY <2>4, <2>5
<1>4. ASSUME NEW a \in Admins, DeleteCommit(a) PROVE NoOrphans'
  <2> DEFINE id == work[a].id
  <2>1. UNCHANGED <<raced, written>> /\ \A m \in Ids :
           menu'[m] = IF m \in Under(id) THEN [menu[m] EXCEPT !.status = "deleted"] ELSE menu[m]
    BY <1>1, <1>4 DEF DeleteCommit
  <2>2. SUFFICES ASSUME NEW m \in Ids, Live(m)', menu'[m].pid # Root,
                        m \notin raced' \cup written', Continues(m)'
                 PROVE  Live(menu[m].pid)'
    BY <2>1 DEF NoOrphans
  <2>3. Live(m) /\ m \notin Under(id) /\ menu'[m] = menu[m]
    BY <1>1, <2>1, <2>2 DEF Live, Rows
  <2>4. menu[m].pid \in Ids
    BY <1>1, <2>2, <2>3 DEF Rows, Parents
  <2>5. PICK p \in Ids : p = menu[m].pid
    BY <2>4
  <2>6. menu'[p].path = menu[p].path
    BY <1>1, <2>1 DEF Rows
  <2>7. menu[m].path = Append(menu[p].path, m)
    BY <2>2, <2>3, <2>5, <2>6 DEF Continues
  <2>8. Continues(m)
    BY <2>2, <2>3, <2>5, <2>7 DEF Continues
  <2>9. Live(p)
    BY <2>1, <2>2, <2>3, <2>5, <2>8 DEF NoOrphans
  <2>10. OnPath(p) \subseteq OnPath(m)
    <3>1. menu[p].path \in Seq(Ids)
      BY <1>1 DEF Rows
    <3> QED
      BY <2>7, <3>1 DEF OnPath
  <2>11. p \notin Under(id)
    BY <2>3, <2>10 DEF Under
  <2> QED
    BY <2>1, <2>3, <2>5, <2>9, <2>11 DEF Live
<1>5. ASSUME NEW a \in Admins, AddCommit(a) PROVE NoOrphans'
  BY <1>1, <1>3, <1>5 DEF AddCommit, NoWork
<1>6. ASSUME NEW a \in Admins, MoveWrite(a) PROVE NoOrphans'
  BY <1>1, <1>2, <1>3, <1>6 DEF MoveWrite, NoWork
<1>7. ASSUME NEW a \in Admins, NEW x \in Ids, NEW s \in Paths, WritePath(a, x, s)
      PROVE  NoOrphans'
  <2>1. /\ \A m \in Ids \ {x} : menu'[m] = menu[m]
        /\ menu'[x].status = menu[x].status /\ menu[x].status = "live"
        /\ UNCHANGED raced /\ written' = written \cup {x}
    BY <1>1, <1>7, PathWritten
  <2>2. SUFFICES ASSUME NEW m \in Ids, Live(m)', menu'[m].pid # Root,
                        m \notin raced' \cup written', ~ Live(menu[m].pid)'
                 PROVE  ~ Continues(m)'
    BY DEF NoOrphans
  <2>3. m # x /\ Live(m) /\ menu'[m] = menu[m] /\ m \notin raced \cup written
    BY <2>1, <2>2 DEF Live
  <2>4. menu[m].pid \in Ids
    BY <1>1, <2>2, <2>3 DEF Rows, Parents
  <2>5. menu[m].pid # x /\ ~ Live(menu[m].pid) /\ menu'[menu[m].pid] = menu[menu[m].pid]
    BY <2>1, <2>2, <2>3, <2>4 DEF Live
  <2> QED
    BY <2>2, <2>3, <2>5 DEF NoOrphans, Continues
<1> QED
  BY <1>2, <1>4, <1>5, <1>6, <1>7 DEF Next, vars, AddRead, MoveRead, DeleteRead, Abandon

(* Deletion by path leaves no live menu below a deleted one but those that *)
(* were being hung there at the time and those whose path was stale or     *)
(* written by a client (deleteMenuFunctionById).                           *)
THEOREM DeletionIsComplete == Spec => []NoOrphans
<1>1. Init => NoOrphans
  BY DEF Init, NoOrphans, Live, NoRow
<1>2. TypeOK /\ NoOrphans /\ [Next]_vars => NoOrphans'
  BY OrphansStep
<1> QED
  BY <1>1, <1>2, TypeCorrect, PTL DEF Spec
=============================================================================
