-------------------------- MODULE BlockBufferProofs -------------------------
(***************************************************************************)
(* What Process of BlockBuffer comes to, for every step: its loop is a     *)
(* chain of steps, one for each block (ChainStarts, ChainGoesOn); chains   *)
(* join, agree on equal bytes and only grow; and the arrays a buffer is    *)
(* made of keep their significant bytes.  The loop is written with         *)
(* functions that are given by recursion, so that they exist has to be     *)
(* proved first (RowIs, RowsAre), by induction on their domain.            *)
(***************************************************************************)
EXTENDS BlockBuffer, SequenceTheorems, WellFoundedInduction, TLAPS

CONSTANT StepOf(_, _, _)  \* what a step makes of a register and a block, in a context

(* A set of numbers has a least one.                                       *)
LEMMA LeastNumber ==
  ASSUME NEW T, T \subseteq Nat, T # {}
  PROVE  \E n \in T : \A k \in T : n <= k
<1>1. PICK n \in T : \A k \in T : ~ (<<k, n>> \in OpToRel(<, Nat))
  BY NatLessThanWellFounded, WFMin
<1>2. \A k \in T : ~ (k < n)
  BY <1>1 DEF OpToRel
<1> QED
  BY <1>2

(* Induction: a set that has 0, and with a number the next, has them all.  *)
LEMMA SetOfAllNumbers ==
  ASSUME NEW T, 0 \in T, \A n \in Nat : n \in T => n + 1 \in T
  PROVE  \A n \in Nat : n \in T
<1> DEFINE Bad == {n \in Nat : n \notin T}
<1>1. SUFFICES ASSUME Bad # {} PROVE FALSE
  OBVIOUS
<1>2. PICK n \in Bad : \A k \in Bad : n <= k
  BY <1>1, LeastNumber
<1>3. n \in Nat /\ n # 0 /\ n - 1 \in Nat
  BY <1>2
<1>4. n - 1 \in T
  BY <1>2, <1>3
<1> QED
  BY <1>2, <1>3, <1>4

-----------------------------------------------------------------------------
(* Concatenation, under a name that is not expanded where only what it is  *)
(* of matters.                                                             *)
Joined(s, t) == s \o t

(* The bytes of two sequences one after the other.                         *)
LEMMA JoinedIs ==
  ASSUME NEW s \in Seq(Byte), NEW t \in Seq(Byte)
  PROVE  /\ Joined(s, t) \in Seq(Byte)
         /\ Len(Joined(s, t)) = Len(s) + Len(t)
         /\ \A i \in 1 .. Len(s) + Len(t) :
               Joined(s, t)[i] = IF i <= Len(s) THEN s[i] ELSE t[i - Len(s)]
         /\ Joined(s, << >>) = s
<1>1. /\ s \o t \in Seq(Byte)
      /\ Len(s \o t) = Len(s) + Len(t)
      /\ \A i \in 1 .. Len(s) + Len(t) :
            (s \o t)[i] = IF i <= Len(s) THEN s[i] ELSE t[i - Len(s)]
  BY ConcatProperties
<1>2. s \o << >> = s
  BY ConcatEmptySeq
<1> QED
  BY <1>1, <1>2 DEF Joined

(* The order of joining does not matter.                                   *)
LEMMA JoinedOnce ==
  ASSUME NEW s \in Seq(Byte), NEW t \in Seq(Byte), NEW u \in Seq(Byte)
  PROVE  Joined(Joined(s, t), u) = Joined(s, Joined(t, u))
BY ConcatAssociative DEF Joined

OneBlock(c, data, size, before, k) ==
    Applied(LAMBDA after : [reg |-> after.reg, out |-> Joined(before.out, after.out)],
            StepOf(c, before.reg, BlockAt(data, k - 1, size)))

Start(reg) == [reg |-> reg, out |-> << >>]

Chain(c, data, size, reg, n) ==
    Repeat(LAMBDA before, k : OneBlock(c, data, size, before, k), Start(reg), n)

Proc(c, buffer, reg, size, minBlocks, flush) ==
    Process(buffer, reg, LAMBDA r, b : StepOf(c, r, b), size, minBlocks, flush)

(* Choosing from a set of one value.                                       *)
LEMMA TheOnlyOne == \A S, x : S = {x} => (CHOOSE result \in S : result = result) = x
  OBVIOUS

(* What one block adds: its output, and the next register.                 *)
LEMMA OneBlockIs ==
  ASSUME NEW c, NEW data, NEW size, NEW before, NEW k
  PROVE  OneBlock(c, data, size, before, k) =
           LET after == StepOf(c, before.reg, BlockAt(data, k - 1, size))
           IN  [reg |-> after.reg, out |-> Joined(before.out, after.out)]
<1> DEFINE of(after) == [reg |-> after.reg, out |-> Joined(before.out, after.out)]
           value == StepOf(c, before.reg, BlockAt(data, k - 1, size))
           S == {of(after) : after \in {value}}
<1>1. OneBlock(c, data, size, before, k) = CHOOSE result \in S : result = result
  BY DEF OneBlock, Applied, Joined
<1>2. S = {of(value)}
  <2> HIDE DEF of, value
  <2> QED
    OBVIOUS
<1> HIDE DEF S
<1> QED
  BY <1>1, <1>2, TheOnlyOne

(* The rows of Repeat, each a function that is given by recursion.         *)
Onward(c, data, size, v, k) == Applied(LAMBDA w : OneBlock(c, data, size, w, k), v)

RowStep(c, data, size, f, first, from, m) ==
    [i \in 0 .. m |-> IF i = 0 THEN first ELSE Onward(c, data, size, f[i - 1], from + i)]

Row(c, data, size, first, from, m) ==
    CHOOSE row : row = RowStep(c, data, size, row, first, from, m)

RowOn(c, data, size, v, from, m) ==
    Applied(LAMBDA w : Row(c, data, size, w, from, m)[m], v)

RowsStep(c, data, size, f, first, n) ==
    [k \in 0 .. RoundUp(n, 16) \div 16 |->
        IF k = 0 THEN first
        ELSE RowOn(c, data, size, f[k - 1], 16 * (k - 1), Least(16, n - 16 * (k - 1)))]

Rows(c, data, size, first, n) ==
    CHOOSE rows : rows = RowsStep(c, data, size, rows, first, n)

(* The loop of Process is the last of its rows.                            *)
LEMMA ChainIsRows ==
  ASSUME NEW c, NEW data, NEW size, NEW reg, NEW n
  PROVE  Chain(c, data, size, reg, n) =
           Rows(c, data, size, Start(reg), n)[RoundUp(n, 16) \div 16]
BY DEF Chain, Repeat, Rows, RowsStep, RowOn, Row, RowStep, Onward

(* A value that is computed once is the value ...                          *)
LEMMA OnwardIs ==
  ASSUME NEW c, NEW data, NEW size, NEW v, NEW k
  PROVE  Onward(c, data, size, v, k) = OneBlock(c, data, size, v, k)
<1> DEFINE S == {OneBlock(c, data, size, w, k) : w \in {v}}
<1>1. S = {OneBlock(c, data, size, v, k)}
  OBVIOUS
<1>2. Onward(c, data, size, v, k) = CHOOSE result \in S : result = result
  BY DEF Onward, Applied
<1> HIDE DEF S
<1> QED
  BY <1>1, <1>2, TheOnlyOne

(* ... of one turn or of a row of them.                                    *)
LEMMA RowOnIs ==
  ASSUME NEW c, NEW data, NEW size, NEW v, NEW from, NEW m
  PROVE  RowOn(c, data, size, v, from, m) = Row(c, data, size, v, from, m)[m]
<1> DEFINE S == {Row(c, data, size, w, from, m)[m] : w \in {v}}
<1>1. S = {Row(c, data, size, v, from, m)[m]}
  OBVIOUS
<1>2. RowOn(c, data, size, v, from, m) = CHOOSE result \in S : result = result
  BY DEF RowOn, Applied
<1> HIDE DEF S
<1> QED
  BY <1>1, <1>2, TheOnlyOne

(* A row exists, whatever it starts from ...                               *)
LEMMA RowIs ==
  ASSUME NEW c, NEW data, NEW size, NEW first, NEW from \in Nat, NEW m \in Nat
  PROVE  LET row == Row(c, data, size, first, from, m)
         IN  /\ row[0] = first
             /\ \A i \in 1 .. m : row[i] = OneBlock(c, data, size, row[i - 1], from + i)
<1> DEFINE Is(f, j) == f = RowStep(c, data, size, f, first, from, j)
           T == {j \in Nat : \E f : Is(f, j)}
<1>1. 0 \in T
  <2> DEFINE f == [i \in 0 .. 0 |-> first]
  <2>1. Is(f, 0)
    BY DEF RowStep
  <2> QED
    BY <2>1
<1>2. ASSUME NEW j \in Nat, j \in T PROVE j + 1 \in T
  <2>1. PICK f : Is(f, j)
    BY <1>2
  <2> DEFINE g == [i \in 0 .. j + 1 |->
                      IF i = j + 1 THEN Onward(c, data, size, f[j], from + (j + 1)) ELSE f[i]]
  <2>2. \A i \in 0 .. j : f[i] = IF i = 0 THEN first
                                 ELSE Onward(c, data, size, f[i - 1], from + i)
    BY <2>1 DEF RowStep
  <2>3. \A i \in 0 .. j + 1 : g[i] = IF i = 0 THEN first
                                     ELSE Onward(c, data, size, g[i - 1], from + i)
    <3>1. ASSUME NEW i \in 0 .. j + 1, i # j + 1, i # 0
          PROVE  g[i] = Onward(c, data, size, g[i - 1], from + i)
      <4>1. i \in 0 .. j /\ i - 1 \in 0 .. j + 1 /\ i - 1 # j + 1
        BY <3>1
      <4> QED
        BY <4>1, <2>2, <3>1
    <3>2. g[j + 1] = Onward(c, data, size, g[(j + 1) - 1], from + (j + 1))
      OBVIOUS
    <3>3. g[0] = first
      BY <2>2
    <3> HIDE DEF g
    <3> QED
      BY <3>1, <3>2, <3>3
  <2>4. DOMAIN g = 0 .. j + 1 /\ g = [i \in 0 .. j + 1 |-> g[i]]
    OBVIOUS
  <2>5. Is(g, j + 1)
    <3> HIDE DEF g
    <3> QED
      BY <2>3, <2>4 DEF RowStep
  <2> QED
    BY <2>5
<1> HIDE DEF T, Is
<1>3. m \in T
  BY <1>1, <1>2, SetOfAllNumbers
<1> USE DEF T, Is
<1> DEFINE row == Row(c, data, size, first, from, m)
<1>4. row = RowStep(c, data, size, row, first, from, m)
  BY <1>3 DEF Row
<1> HIDE DEF row
<1>5. \A i \in 0 .. m : row[i] = IF i = 0 THEN first
                                 ELSE Onward(c, data, size, row[i - 1], from + i)
  BY <1>4 DEF RowStep
<1>6. row[0] = first
  BY <1>5
<1>7. \A i \in 1 .. m : row[i] = OneBlock(c, data, size, row[i - 1], from + i)
  BY <1>5, OnwardIs
<1> USE DEF row
<1> QED
  BY <1>6, <1>7

(* ... and says the same of its beginning, however long it is.             *)
LEMMA RowsBeginAlike ==
  ASSUME NEW c, NEW data, NEW size, NEW first, NEW from \in Nat, NEW m \in Nat, NEW n \in Nat
  PROVE  \A i \in Nat : i <= m /\ i <= n =>
            Row(c, data, size, first, from, m)[i] = Row(c, data, size, first, from, n)[i]
<1> DEFINE f == Row(c, data, size, first, from, m)
           g == Row(c, data, size, first, from, n)
           T == {i \in Nat : i <= m /\ i <= n => f[i] = g[i]}
<1>1. /\ f[0] = first
      /\ \A i \in 1 .. m : f[i] = OneBlock(c, data, size, f[i - 1], from + i)
  BY RowIs
<1>2. /\ g[0] = first
      /\ \A i \in 1 .. n : g[i] = OneBlock(c, data, size, g[i - 1], from + i)
  BY RowIs
<1> HIDE DEF f, g
<1>3. 0 \in T
  BY <1>1, <1>2
<1>4. ASSUME NEW i \in Nat, i \in T PROVE i + 1 \in T
  <2>1. SUFFICES ASSUME i + 1 <= m, i + 1 <= n PROVE f[i + 1] = g[i + 1]
    OBVIOUS
  <2>2. f[i] = g[i]
    BY <1>4, <2>1
  <2>3. i + 1 \in 1 .. m /\ i + 1 \in 1 .. n /\ (i + 1) - 1 = i
    BY <2>1
  <2> QED
    BY <1>1, <1>2, <2>2, <2>3
<1>5. \A i \in Nat : i \in T
  <2> HIDE DEF T
  <2> QED
    BY <1>3, <1>4, SetOfAllNumbers
<1> QED
  BY <1>5 DEF f, g

(* The rows exist as well.  The length of the k-th row of n turns:         *)
Width(n, k) == Least(16, n - 16 * (k - 1))

(* Each row starts where the one before ended.                             *)
LEMMA RowsAre ==
  ASSUME NEW c, NEW data, NEW size, NEW first, NEW n \in Nat
  PROVE  LET rows == Rows(c, data, size, first, n)
         IN  /\ rows[0] = first
             /\ \A k \in 1 .. RoundUp(n, 16) \div 16 :
                   rows[k] = Row(c, data, size, rows[k - 1], 16 * (k - 1), Width(n, k))[Width(n, k)]
<1> DEFINE Next(v, k) == RowOn(c, data, size, v, 16 * (k - 1), Least(16, n - 16 * (k - 1)))
           Is(f, j) == f = [k \in 0 .. j |-> IF k = 0 THEN first ELSE Next(f[k - 1], k)]
           T == {j \in Nat : \E f : Is(f, j)}
           last == RoundUp(n, 16) \div 16
<1> HIDE DEF Next
<1>1. 0 \in T
  <2> DEFINE f == [k \in 0 .. 0 |-> first]
  <2>1. Is(f, 0)
    OBVIOUS
  <2> QED
    BY <2>1
<1>2. ASSUME NEW j \in Nat, j \in T PROVE j + 1 \in T
  <2>1. PICK f : Is(f, j)
    BY <1>2
  <2> DEFINE g == [k \in 0 .. j + 1 |-> IF k = j + 1 THEN Next(f[j], j + 1) ELSE f[k]]
  <2>2. \A k \in 0 .. j : f[k] = IF k = 0 THEN first ELSE Next(f[k - 1], k)
    BY <2>1
  <2>3. \A k \in 0 .. j + 1 : g[k] = IF k = 0 THEN first ELSE Next(g[k - 1], k)
    <3>1. ASSUME NEW k \in 0 .. j + 1, k # j + 1, k # 0
          PROVE  g[k] = Next(g[k - 1], k)
      <4>1. k \in 0 .. j /\ k - 1 \in 0 .. j + 1 /\ k - 1 # j + 1
        BY <3>1
      <4> QED
        BY <4>1, <2>2, <3>1
    <3>2. g[j + 1] = Next(g[(j + 1) - 1], j + 1)
      OBVIOUS
    <3>3. g[0] = first
      BY <2>2
    <3> HIDE DEF g
    <3> QED
      BY <3>1, <3>2, <3>3
  <2>4. DOMAIN g = 0 .. j + 1 /\ g = [k \in 0 .. j + 1 |-> g[k]]
    OBVIOUS
  <2>5. Is(g, j + 1)
    <3> HIDE DEF g
    <3> QED
      BY <2>3, <2>4
  <2> HIDE DEF g
  <2> QED
    BY <2>5
<1>3. last \in Nat
  BY DEF RoundUp
<1>4. \E f : Is(f, last)
  <2>1. last \in T
    <3> HIDE DEF T, Is, last
    <3> QED
      BY <1>1, <1>2, <1>3, SetOfAllNumbers
  <2> QED
    BY <2>1
<1> DEFINE rows == Rows(c, data, size, first, n)
<1>5. Is(rows, last)
  BY <1>4 DEF Rows, RowsStep, Next
<1> HIDE DEF rows
<1>6. \A k \in 0 .. last : rows[k] = IF k = 0 THEN first ELSE Next(rows[k - 1], k)
  <2> HIDE DEF last
  <2> QED
    BY <1>5
<1>7. rows[0] = first
  BY <1>3, <1>6
<1>8. \A k \in 1 .. last :
        rows[k] = Row(c, data, size, rows[k - 1], 16 * (k - 1), Width(n, k))[Width(n, k)]
  <2>1. \A v, k : Next(v, k) = Row(c, data, size, v, 16 * (k - 1), Width(n, k))[Width(n, k)]
    BY RowOnIs DEF Next, Width
  <2> HIDE DEF last
  <2> QED
    BY <1>3, <1>6, <2>1
<1> USE DEF rows
<1> QED
  BY <1>7, <1>8

(* The whole rows of n turns are those of n + 1.                           *)
LEMMA WholeRowsStay ==
  ASSUME NEW c, NEW data, NEW size, NEW first, NEW n \in Nat
  PROVE  \A k \in Nat : 16 * k <= n =>
            Rows(c, data, size, first, n)[k] = Rows(c, data, size, first, n + 1)[k]
<1> DEFINE f == Rows(c, data, size, first, n)
           g == Rows(c, data, size, first, n + 1)
           T == {k \in Nat : 16 * k <= n => f[k] = g[k]}
<1>1. /\ f[0] = first
      /\ \A k \in 1 .. RoundUp(n, 16) \div 16 :
            f[k] = Row(c, data, size, f[k - 1], 16 * (k - 1), Width(n, k))[Width(n, k)]
  BY RowsAre
<1>2. /\ g[0] = first
      /\ \A k \in 1 .. RoundUp(n + 1, 16) \div 16 :
            g[k] = Row(c, data, size, g[k - 1], 16 * (k - 1), Width(n + 1, k))[Width(n + 1, k)]
  BY RowsAre
<1> HIDE DEF f, g
<1>3. 0 \in T
  BY <1>1, <1>2
<1>4. ASSUME NEW k \in Nat, k \in T PROVE k + 1 \in T
  <2>1. SUFFICES ASSUME 16 * (k + 1) <= n PROVE f[k + 1] = g[k + 1]
    OBVIOUS
  <2>2. f[k] = g[k]
    BY <1>4, <2>1
  <2>3. Width(n, k + 1) = 16 /\ Width(n + 1, k + 1) = 16
    BY <2>1 DEF Width, Least
  <2>4. k + 1 \in 1 .. RoundUp(n, 16) \div 16 /\ k + 1 \in 1 .. RoundUp(n + 1, 16) \div 16
    BY <2>1 DEF RoundUp
  <2>5. (k + 1) - 1 = k
    OBVIOUS
  <2> QED
    BY <1>1, <1>2, <2>2, <2>3, <2>4, <2>5
<1>5. \A k \in Nat : k \in T
  <2> HIDE DEF T
  <2> QED
    BY <1>3, <1>4, SetOfAllNumbers
<1> QED
  BY <1>5 DEF f, g

(* After no block a chain is where it starts.                              *)
THEOREM ChainStarts ==
  \A c, data, size, reg :
     /\ Chain(c, data, size, reg, 0).reg = reg
     /\ Chain(c, data, size, reg, 0).out = << >>
<1> TAKE c, data, size, reg
<1>1. RoundUp(0, 16) \div 16 = 0
  BY DEF RoundUp
<1>2. Chain(c, data, size, reg, 0) = Start(reg)
  BY <1>1, ChainIsRows, RowsAre
<1> QED
  BY <1>2 DEF Start

(* One more block is one more step.                                        *)
THEOREM ChainGoesOn ==
  \A c, data, size, reg : \A n \in Nat :
     LET before == Chain(c, data, size, reg, n)
         after == StepOf(c, before.reg, BlockAt(data, n, size))
     IN  /\ Chain(c, data, size, reg, n + 1).reg = after.reg
         /\ Chain(c, data, size, reg, n + 1).out = Joined(before.out, after.out)
<1> TAKE c, data, size, reg
<1> TAKE n \in Nat
<1> DEFINE f == Rows(c, data, size, Start(reg), n)
           g == Rows(c, data, size, Start(reg), n + 1)
           q == n \div 16
           r == n % 16
           R(m) == Row(c, data, size, g[q], 16 * q, m)
<1>1. n = 16 * q + r /\ r \in 0 .. 15 /\ q \in Nat
  OBVIOUS
<1> HIDE DEF q, r
<1>2. Chain(c, data, size, reg, n) = f[RoundUp(n, 16) \div 16]
  BY ChainIsRows
<1>3. Chain(c, data, size, reg, n + 1) = g[RoundUp(n + 1, 16) \div 16]
  BY ChainIsRows
<1>4. RoundUp(n + 1, 16) \div 16 = q + 1
  BY <1>1 DEF RoundUp
<1>5. g[q + 1] = R(r + 1)[r + 1]
  <2>1. Width(n + 1, q + 1) = r + 1
    BY <1>1 DEF Width, Least
  <2>2. q + 1 \in 1 .. RoundUp(n + 1, 16) \div 16 /\ (q + 1) - 1 = q
    BY <1>1, <1>4
  <2> QED
    BY <2>1, <2>2, RowsAre
<1>6. R(r + 1)[r + 1] = OneBlock(c, data, size, R(r + 1)[r], n + 1)
  <2>1. r + 1 \in 1 .. r + 1 /\ (r + 1) - 1 = r /\ 16 * q + (r + 1) = n + 1 /\ r + 1 \in Nat
        /\ 16 * q \in Nat
    BY <1>1
  <2> QED
    BY <2>1, RowIs
<1>7. f[q] = g[q]
  BY <1>1, WholeRowsStay
<1>8. R(r + 1)[r] = Chain(c, data, size, reg, n)
  <2>1. CASE r = 0
    <3>1. RoundUp(n, 16) \div 16 = q
      BY <1>1, <2>1 DEF RoundUp
    <3>2. R(r + 1)[0] = g[q]
      <4>1. 16 * q \in Nat /\ r + 1 \in Nat
        BY <1>1
      <4>2. \A first : Row(c, data, size, first, 16 * q, r + 1)[0] = first
        BY <4>1, RowIs
      <4> QED
        BY <4>2
    <3> QED
      BY <3>1, <3>2, <2>1, <1>2, <1>7
  <2>2. CASE r # 0
    <3>1. RoundUp(n, 16) \div 16 = q + 1
      BY <1>1, <2>2 DEF RoundUp
    <3>2. Width(n, q + 1) = r
      BY <1>1, <2>2 DEF Width, Least
    <3>3. q + 1 \in 1 .. RoundUp(n, 16) \div 16 /\ (q + 1) - 1 = q
      BY <1>1, <3>1
    <3>4. f[q + 1] = Row(c, data, size, f[q], 16 * q, r)[r]
      BY <3>2, <3>3, RowsAre
    <3>5. R(r + 1)[r] = R(r)[r]
      <4>1. 16 * q \in Nat /\ r + 1 \in Nat /\ r \in Nat /\ r <= r + 1 /\ r <= r
        BY <1>1
      <4> QED
        BY <4>1, RowsBeginAlike
    <3> QED
      BY <3>1, <3>4, <3>5, <1>2, <1>7
  <2> QED
    BY <2>1, <2>2
<1>9. Chain(c, data, size, reg, n + 1) =
         OneBlock(c, data, size, Chain(c, data, size, reg, n), n + 1)
  BY <1>3, <1>4, <1>5, <1>6, <1>8
<1>10. (n + 1) - 1 = n
  OBVIOUS
<1> DEFINE before == Chain(c, data, size, reg, n)
           after == StepOf(c, before.reg, BlockAt(data, n, size))
<1>11. OneBlock(c, data, size, before, n + 1) =
         [reg |-> after.reg, out |-> Joined(before.out, after.out)]
  BY <1>10, OneBlockIs
<1>12. ASSUME NEW x, NEW y, NEW z, x = [reg |-> y, out |-> z] PROVE x.reg = y /\ x.out = z
  BY <1>12
<1> HIDE DEF before, after
<1>13. /\ OneBlock(c, data, size, before, n + 1).reg = after.reg
       /\ OneBlock(c, data, size, before, n + 1).out = Joined(before.out, after.out)
  BY <1>11, <1>12
<1> USE DEF before, after
<1> QED
  BY <1>9, <1>13

-----------------------------------------------------------------------------
(* Word arrays                                                             *)

IsArray(a) == a.mem \in Seq(Byte) /\ a.sig \in Nat

(* A byte of an array is a byte, 0 past its words.                         *)
THEOREM AtIsAByte ==
  \A a, i : IsArray(a) => At(a, i) \in Byte
<1> TAKE a, i
<1>1. SUFFICES ASSUME IsArray(a) PROVE At(a, i) \in Byte
  OBVIOUS
<1>2. a.mem \in Seq(Byte) /\ DOMAIN a.mem = 1 .. Len(a.mem)
  BY <1>1 DEF IsArray
<1>3. CASE i \in DOMAIN a.mem
  BY <1>2, <1>3, ElementOfSeq DEF At
<1>4. CASE i \notin DOMAIN a.mem
  BY <1>4 DEF At, Byte
<1> QED
  BY <1>3, <1>4

(* A slice has the bytes of the array, from one place to the other.        *)
THEOREM SliceIs ==
  \A a : \A from, to \in Nat :
     IsArray(a) /\ from <= to =>
        /\ Slice(a, from, to) \in Seq(Byte)
        /\ Len(Slice(a, from, to)) = to - from
        /\ \A i \in 1 .. to - from : Slice(a, from, to)[i] = At(a, from + i)
<1> TAKE a
<1> TAKE from, to \in Nat
<1>1. SUFFICES ASSUME IsArray(a), from <= to
               PROVE  /\ Slice(a, from, to) \in Seq(Byte)
                      /\ Len(Slice(a, from, to)) = to - from
                      /\ \A i \in 1 .. to - from : Slice(a, from, to)[i] = At(a, from + i)
  OBVIOUS
<1>2. Slice(a, from, to) = [i \in 1 .. to - from |-> At(a, from + i)]
  BY <1>1 DEF Slice
<1>3. \A i \in 1 .. to - from : At(a, from + i) \in Byte
  BY <1>1, AtIsAByte
<1>4. to - from \in Nat
  BY <1>1
<1> QED
  BY <1>2, <1>3, <1>4

(* Rounding up to words does not shorten, and leaves whole words alone.    *)
THEOREM RoundedUp ==
  \A n \in Nat : /\ RoundUp(n, 4) \in Nat
                 /\ n <= RoundUp(n, 4)
                 /\ n % 4 = 0 => RoundUp(n, 4) = n
BY DEF RoundUp

(* An array that is filled with the bytes of s has them.                   *)
THEOREM FilledIs ==
  \A s, fill : s \in Seq(Byte) /\ fill \in Byte =>
     /\ IsArray(Filled(s, fill))
     /\ Filled(s, fill).sig = Len(s)
     /\ \A i \in 1 .. Len(s) : At(Filled(s, fill), i) = s[i]
<1> TAKE s, fill
<1>1. SUFFICES ASSUME s \in Seq(Byte), fill \in Byte
               PROVE  /\ IsArray(Filled(s, fill))
                      /\ Filled(s, fill).sig = Len(s)
                      /\ \A i \in 1 .. Len(s) : At(Filled(s, fill), i) = s[i]
  OBVIOUS
<1> DEFINE n == RoundUp(Len(s), 4)
           mem == [i \in 1 .. n |-> IF i \in DOMAIN s THEN s[i] ELSE fill]
<1>2. n \in Nat /\ Len(s) <= n /\ Len(s) \in Nat /\ DOMAIN s = 1 .. Len(s)
  BY <1>1, RoundedUp
<1>3. Filled(s, fill) = [mem |-> mem, sig |-> Len(s)]
  BY DEF Filled, WordArray
<1> HIDE DEF n
<1>4. mem \in Seq(Byte) /\ DOMAIN mem = 1 .. n
  <2>1. \A i \in 1 .. n : mem[i] \in Byte
    BY <1>1, <1>2
  <2> QED
    BY <1>2, <2>1
<1>5. \A i \in 1 .. Len(s) : mem[i] = s[i]
  BY <1>2
<1> HIDE DEF mem
<1> QED
  BY <1>2, <1>3, <1>4, <1>5 DEF IsArray, At

(* clamp keeps the significant bytes and makes all others 0.               *)
THEOREM ClampIs ==
  \A a : IsArray(a) =>
     /\ IsArray(Clamp(a))
     /\ Clamp(a).sig = a.sig
     /\ Len(Clamp(a).mem) = RoundUp(a.sig, 4)
     /\ \A i \in Nat \ {0} : At(Clamp(a), i) = IF i <= a.sig THEN At(a, i) ELSE 0
<1> TAKE a
<1>1. SUFFICES ASSUME IsArray(a)
               PROVE  /\ IsArray(Clamp(a))
                      /\ Clamp(a).sig = a.sig
                      /\ Len(Clamp(a).mem) = RoundUp(a.sig, 4)
                      /\ \A i \in Nat \ {0} :
                            At(Clamp(a), i) = IF i <= a.sig THEN At(a, i) ELSE 0
  OBVIOUS
<1> DEFINE n == RoundUp(a.sig, 4)
           mem == [i \in 1 .. n |-> IF i <= a.sig THEN At(a, i) ELSE 0]
<1>2. n \in Nat /\ a.sig <= n /\ a.sig \in Nat
  BY <1>1, RoundedUp DEF IsArray
<1>3. Clamp(a) = [mem |-> mem, sig |-> a.sig]
  BY DEF Clamp, WordArray
<1>4. mem \in Seq(Byte) /\ DOMAIN mem = 1 .. n /\ Len(mem) = n
  <2> HIDE DEF n
  <2>1. \A i \in 1 .. n : mem[i] \in Byte
    BY <1>1, <1>2, AtIsAByte DEF Byte
  <2> QED
    BY <1>2, <2>1
<1>5. \A i \in 1 .. n : mem[i] = IF i <= a.sig THEN At(a, i) ELSE 0
  OBVIOUS
<1> HIDE DEF n, mem
<1>6. IsArray(Clamp(a)) /\ Clamp(a).sig = a.sig /\ Clamp(a).mem = mem
  BY <1>2, <1>3, <1>4 DEF IsArray
<1>7. ASSUME NEW i \in Nat \ {0}
      PROVE  At(Clamp(a), i) = IF i <= a.sig THEN At(a, i) ELSE 0
  <2>1. CASE i \in 1 .. n
    BY <2>1, <1>2, <1>4, <1>5, <1>6 DEF At
  <2>2. CASE i \notin 1 .. n
    BY <2>2, <1>2, <1>4, <1>6 DEF At
  <2> QED
    BY <2>1, <2>2
<1> QED
  BY <1>4, <1>6, <1>7 DEF n

(* What concat appends stands after what was there, slack or no slack.     *)
THEOREM ConcatIs ==
  \A a, b : IsArray(a) /\ IsArray(b) =>
     /\ IsArray(Concat(a, b))
     /\ Concat(a, b).sig = a.sig + b.sig
     /\ \A i \in 1 .. a.sig + b.sig :
           At(Concat(a, b), i) = IF i <= a.sig THEN At(a, i) ELSE At(b, i - a.sig)
<1> TAKE a, b
<1>1. SUFFICES ASSUME IsArray(a), IsArray(b)
               PROVE  /\ IsArray(Concat(a, b))
                      /\ Concat(a, b).sig = a.sig + b.sig
                      /\ \A i \in 1 .. a.sig + b.sig :
                            At(Concat(a, b), i) =
                               IF i <= a.sig THEN At(a, i) ELSE At(b, i - a.sig)
  OBVIOUS
<1> DEFINE clamped == Clamp(a).mem
           n == a.sig + b.sig
<1>2. n \in Nat /\ a.sig \in Nat /\ b.sig \in Nat /\ b.mem \in Seq(Byte)
  BY <1>1 DEF IsArray
<1>3. /\ clamped \in Seq(Byte)
      /\ Len(clamped) = RoundUp(a.sig, 4)
      /\ Len(clamped) \in Nat /\ a.sig <= Len(clamped)
      /\ \A i \in 1 .. a.sig : clamped[i] = At(a, i)
  <2>1. clamped \in Seq(Byte) /\ Len(clamped) = RoundUp(a.sig, 4)
        /\ Len(clamped) \in Nat /\ a.sig <= Len(clamped)
    BY <1>1, <1>2, ClampIs, RoundedUp DEF IsArray
  <2>2. \A i \in 1 .. a.sig : At(Clamp(a), i) = At(a, i)
    BY <1>1, <1>2, ClampIs
  <2>3. \A i \in 1 .. a.sig : clamped[i] = At(Clamp(a), i)
    BY <1>2, <2>1 DEF At
  <2> QED
    BY <2>1, <2>2, <2>3
<1> HIDE DEF clamped
<1>4. CASE a.sig % 4 # 0
  <2> DEFINE m == RoundUp(n, 4)
             mem == [i \in 1 .. m |-> IF i <= a.sig THEN clamped[i]
                                      ELSE IF i <= n THEN At(b, i - a.sig) ELSE 0]
  <2>1. Concat(a, b) = [mem |-> mem, sig |-> n]
    BY <1>4 DEF Concat, WordArray, clamped
  <2>2. m \in Nat /\ n <= m
    BY <1>2, RoundedUp
  <2> HIDE DEF m
  <2>3. \A i \in 1 .. m : mem[i] \in Byte
    <3> TAKE i \in 1 .. m
    <3>1. CASE i <= a.sig
      <4>1. i \in 1 .. a.sig
        BY <1>2, <2>2, <3>1
      <4> QED
        BY <1>1, <1>3, <3>1, <4>1, AtIsAByte
    <3>2. CASE ~ (i <= a.sig)
      BY <3>2, <1>1, AtIsAByte DEF Byte
    <3> QED
      BY <3>1, <3>2
  <2>4. mem \in Seq(Byte) /\ DOMAIN mem = 1 .. m
    BY <2>2, <2>3
  <2>5. \A i \in 1 .. n : mem[i] = IF i <= a.sig THEN At(a, i) ELSE At(b, i - a.sig)
    BY <1>2, <1>3, <2>2
  <2> HIDE DEF mem
  <2>6. IsArray(Concat(a, b)) /\ Concat(a, b).sig = n
    BY <1>2, <2>1, <2>4 DEF IsArray
  <2>7. \A i \in 1 .. n : At(Concat(a, b), i) = mem[i]
    BY <1>2, <2>1, <2>2, <2>4 DEF At
  <2> QED
    BY <2>5, <2>6, <2>7
<1>5. CASE a.sig % 4 = 0
  <2>1. PICK t \in Seq(Byte) :
              /\ Concat(a, b) = [mem |-> clamped \o t, sig |-> n]
              /\ \A i \in 1 .. b.sig : At(b, i) = IF i \in DOMAIN t THEN t[i] ELSE 0
    <3>1. CASE Len(b.mem) \div 4 > PushLimit
      <4> DEFINE m == RoundUp(b.sig, 4)
                 t == Slice(b, 0, m)
      <4>1. m \in Nat /\ b.sig <= m /\ 0 \in Nat /\ 0 <= m
        BY <1>2, RoundedUp
      <4>3. Concat(a, b) = [mem |-> clamped \o t, sig |-> n]
        BY <1>5, <3>1 DEF Concat, WordArray, clamped
      <4> HIDE DEF m
      <4>2. /\ t \in Seq(Byte)
            /\ Len(t) = m - 0
            /\ \A i \in 1 .. m - 0 : t[i] = At(b, 0 + i)
        BY <1>1, <4>1, SliceIs
      <4> HIDE DEF t
      <4>4. \A i \in 1 .. b.sig : i \in DOMAIN t /\ t[i] = At(b, i)
        BY <1>2, <4>1, <4>2
      <4> QED
        BY <4>2, <4>3, <4>4
    <3>2. CASE ~ (Len(b.mem) \div 4 > PushLimit)
      <4>1. Concat(a, b) = [mem |-> clamped \o b.mem, sig |-> n]
        BY <1>5, <3>2 DEF Concat, WordArray, clamped
      <4> QED
        BY <1>2, <4>1 DEF At
    <3> QED
      BY <3>1, <3>2
  <2>2. Len(clamped) = a.sig
    BY <1>2, <1>3, <1>5, RoundedUp
  <2> DEFINE mem == clamped \o t
  <2>3. /\ mem \in Seq(Byte)
        /\ Len(mem) = a.sig + Len(t)
        /\ \A i \in 1 .. a.sig + Len(t) :
              mem[i] = IF i <= a.sig THEN clamped[i] ELSE t[i - a.sig]
    <3>1. t \in Seq(Byte)
      BY <2>1
    <3>2. /\ mem \in Seq(Byte)
          /\ Len(mem) = Len(clamped) + Len(t)
          /\ \A i \in 1 .. Len(clamped) + Len(t) :
                mem[i] = IF i <= Len(clamped) THEN clamped[i] ELSE t[i - Len(clamped)]
      BY <1>3, <3>1, ConcatProperties
    <3> QED
      BY <2>2, <3>2
  <2>4. Len(t) \in Nat /\ DOMAIN t = 1 .. Len(t) /\ DOMAIN mem = 1 .. Len(mem)
    BY <2>3
  <2>5. Concat(a, b) = [mem |-> mem, sig |-> n]
    BY <2>1
  <2> HIDE DEF mem
  <2>6. IsArray(Concat(a, b)) /\ Concat(a, b).sig = n
    BY <1>2, <2>3, <2>5 DEF IsArray
  <2>7. ASSUME NEW i \in 1 .. n
        PROVE  At(Concat(a, b), i) = IF i <= a.sig THEN At(a, i) ELSE At(b, i - a.sig)
    <3>1. At(Concat(a, b), i) = IF i \in DOMAIN mem THEN mem[i] ELSE 0
      BY <2>5 DEF At
    <3>2. CASE i <= a.sig
      BY <1>2, <1>3, <2>3, <2>4, <3>1, <3>2
    <3>3. CASE ~ (i <= a.sig)
      <4>1. i - a.sig \in 1 .. b.sig
        BY <1>2, <3>3
      <4>2. At(b, i - a.sig) = IF i - a.sig \in DOMAIN t THEN t[i - a.sig] ELSE 0
        BY <2>1, <4>1
      <4>3. i \in DOMAIN mem <=> i - a.sig \in DOMAIN t
        BY <1>2, <2>3, <2>4, <4>1
      <4> QED
        BY <1>2, <2>3, <2>4, <3>1, <3>3, <4>1, <4>2, <4>3
    <3> QED
      BY <3>2, <3>3
  <2> QED
    BY <2>6, <2>7
<1> QED
  BY <1>4, <1>5

-----------------------------------------------------------------------------
(* Whole blocks                                                            *)

(* A length is its whole blocks and a rest of less than a block.           *)
THEOREM Division ==
  \A n \in Nat : \A k \in Nat \ {0} :
     /\ n \div k \in Nat /\ n % k \in 0 .. k - 1
     /\ n = k * (n \div k) + (n % k)
<1> TAKE n \in Nat
<1> TAKE k \in Nat \ {0}
<1> DEFINE q == n \div k
           r == n % k
<1>1. q \in Nat /\ r \in 0 .. k - 1 /\ n = k * q + r
  OBVIOUS
<1> QED
  BY <1>1

(* Such a division is unique.                                              *)
THEOREM DivisionIsUnique ==
  \A k \in Nat \ {0} : \A q \in Nat, r \in 0 .. k - 1 :
     (k * q + r) \div k = q /\ (k * q + r) % k = r
<1> TAKE k \in Nat \ {0}
<1> TAKE q \in Nat, r \in 0 .. k - 1
<1> DEFINE n == k * q + r
           d == n \div k
           m == n % k
<1>1. n \in Nat /\ d \in Nat /\ m \in 0 .. k - 1 /\ n = k * d + m
  <2>1. n \in Nat
    OBVIOUS
  <2> QED
    BY <2>1, Division
<1>2. k * d + m = k * q + r
  BY <1>1
<1> HIDE DEF d, m, n
<1>3. ~ (d < q)
  <2>1. SUFFICES ASSUME d + 1 <= q PROVE FALSE
    BY <1>1
  <2>2. k * (d + 1) <= k * q
    BY <1>1, <2>1
  <2> QED
    BY <1>1, <1>2, <2>2
<1>4. ~ (q < d)
  <2>1. SUFFICES ASSUME q + 1 <= d PROVE FALSE
    BY <1>1
  <2>2. k * (q + 1) <= k * d
    BY <1>1, <2>1
  <2> QED
    BY <1>1, <1>2, <2>2
<1>5. d = q
  BY <1>1, <1>3, <1>4
<1>6. m = r
  BY <1>1, <1>2, <1>5
<1> QED
  BY <1>5, <1>6 DEF d, m, n

(* A product, under a name that is expanded only where it is computed      *)
(* with.                                                                   *)
Times(n, size) == n * size

(* What splice leaves is the array without the blocks that went.           *)
THEOREM SplicedIs ==
  \A a : \A ready, size \in Nat : IsArray(a) =>
     /\ IsArray(Spliced(a, ready, size))
     /\ Spliced(a, ready, size).sig = a.sig - Taken(a, ready, size)
     /\ \A i \in Nat \ {0} : At(Spliced(a, ready, size), i) = At(a, Times(ready, size) + i)
<1> TAKE a
<1> TAKE ready, size \in Nat
<1>1. SUFFICES ASSUME IsArray(a)
               PROVE  /\ IsArray(Spliced(a, ready, size))
                      /\ Spliced(a, ready, size).sig = a.sig - Taken(a, ready, size)
                      /\ \A i \in Nat \ {0} :
                            At(Spliced(a, ready, size), i) = At(a, Times(ready, size) + i)
  OBVIOUS
<1> DEFINE p == ready * size
           mem == SubSeq(a.mem, p + 1, Len(a.mem))
<1>2. Spliced(a, ready, size) = [mem |-> mem, sig |-> a.sig - Taken(a, ready, size)]
  BY DEF Spliced, WordArray
<1>3. p \in Nat
  OBVIOUS
<1>4. a.mem \in Seq(Byte) /\ a.sig \in Nat /\ Len(a.mem) \in Nat /\ DOMAIN a.mem = 1 .. Len(a.mem)
  BY <1>1 DEF IsArray
<1>5. a.sig - Taken(a, ready, size) \in Nat
  BY <1>3, <1>4 DEF Taken, Least
<1> HIDE DEF p
<1>6. /\ mem \in Seq(Byte)
      /\ Len(mem) = IF p + 1 <= Len(a.mem) THEN Len(a.mem) - p ELSE 0
      /\ \A i \in 1 .. Len(mem) : mem[i] = a.mem[p + i]
  BY <1>3, <1>4
<1> HIDE DEF mem
<1>7. ASSUME NEW i \in Nat \ {0} PROVE At(Spliced(a, ready, size), i) = At(a, p + i)
  <2>1. DOMAIN mem = 1 .. Len(mem)
    BY <1>6
  <2>2. i \in DOMAIN mem <=> p + i \in DOMAIN a.mem
    BY <1>3, <1>4, <1>6, <2>1
  <2> QED
    BY <1>2, <1>6, <2>1, <2>2 DEF At
<1> QED
  BY <1>2, <1>5, <1>6, <1>7 DEF IsArray, p, Times

(* Where the bytes of the n-th block are.                                  *)
LEMMA BlockBytesAre ==
  ASSUME NEW a, IsArray(a), NEW k \in Nat, NEW size \in Nat, NEW i \in 1 .. size
  PROVE  BlockAt(a, k, size)[i] = At(a, k * size + i)
<1> DEFINE p == k * size
<1>1. p \in Nat /\ (k + 1) * size = p + size
  OBVIOUS
<1>2. BlockAt(a, k, size) = Slice(a, p, p + size)
  BY <1>1 DEF BlockAt
<1> HIDE DEF p
<1>3. p + size \in Nat /\ p <= p + size /\ (p + size) - p = size
  BY <1>1
<1>4. \A j \in 1 .. (p + size) - p : Slice(a, p, p + size)[j] = At(a, p + j)
  BY <1>1, <1>3, SliceIs
<1>5. Slice(a, p, p + size)[i] = At(a, p + i)
  BY <1>3, <1>4
<1> QED
  BY <1>2, <1>5 DEF p

(* A block of an array has the bytes of the array at its place.            *)
THEOREM BlockIs ==
  \A a : \A k, size \in Nat : IsArray(a) =>
     /\ BlockAt(a, k, size) \in Seq(Byte)
     /\ Len(BlockAt(a, k, size)) = size
     /\ \A i \in 1 .. size : BlockAt(a, k, size)[i] = At(a, k * size + i)
<1> TAKE a
<1> TAKE k, size \in Nat
<1> DEFINE p == k * size
<1>1. p \in Nat /\ (k + 1) * size = p + size
  OBVIOUS
<1>2. BlockAt(a, k, size) = Slice(a, p, p + size)
  BY <1>1 DEF BlockAt
<1> HIDE DEF p
<1>3. p + size \in Nat /\ p <= p + size /\ (p + size) - p = size
  BY <1>1
<1>4. IsArray(a) =>
        /\ Slice(a, p, p + size) \in Seq(Byte)
        /\ Len(Slice(a, p, p + size)) = size
        /\ \A i \in 1 .. size : Slice(a, p, p + size)[i] = At(a, p + i)
  BY <1>1, <1>3, SliceIs
<1> QED
  BY <1>2, <1>4 DEF p

(* Steps take a register and a block of size bytes to a register and width *)
(* bytes.                                                                  *)
Steps(c, size, width, regs) ==
    \A r \in regs : \A block \in Seq(Byte) : Len(block) = size =>
       /\ StepOf(c, r, block).reg \in regs
       /\ StepOf(c, r, block).out \in Seq(Byte)
       /\ Len(StepOf(c, r, block).out) = width

Typed(x, regs, n, width) ==
    x.reg \in regs /\ x.out \in Seq(Byte) /\ Len(x.out) = Times(n, width)

(* After n blocks there is a register, and n blocks have come out.         *)
LEMMA ChainIsTyped ==
  \A c, data, reg, regs : \A size, width, n \in Nat :
     IsArray(data) /\ reg \in regs /\ Steps(c, size, width, regs) =>
        Typed(Chain(c, data, size, reg, n), regs, n, width)
<1> TAKE c, data, reg, regs
<1> SUFFICES ASSUME NEW size \in Nat, NEW width \in Nat,
                    IsArray(data), reg \in regs, Steps(c, size, width, regs)
             PROVE  \A n \in Nat : Typed(Chain(c, data, size, reg, n), regs, n, width)
  OBVIOUS
<1> DEFINE T == {n \in Nat : Typed(Chain(c, data, size, reg, n), regs, n, width)}
<1>1. 0 \in T
  <2>2. << >> \in Seq(Byte) /\ Len(<< >>) = 0 /\ Times(0, width) = 0
    BY DEF Times
  <2>3. /\ Chain(c, data, size, reg, 0).reg = reg
        /\ Chain(c, data, size, reg, 0).out = << >>
    BY ChainStarts
  <2>4. Typed(Chain(c, data, size, reg, 0), regs, 0, width)
    BY <2>2, <2>3 DEF Typed
  <2> QED
    BY <2>4
<1>2. ASSUME NEW n \in Nat, n \in T PROVE n + 1 \in T
  <2> DEFINE before == Chain(c, data, size, reg, n)
             block == BlockAt(data, n, size)
             after == StepOf(c, before.reg, block)
  <2>1. block \in Seq(Byte) /\ Len(block) = size
    BY BlockIs
  <2>2. before.reg \in regs /\ before.out \in Seq(Byte) /\ Len(before.out) = Times(n, width)
    BY <1>2 DEF Typed
  <2>7. /\ Chain(c, data, size, reg, n + 1).reg = after.reg
        /\ Chain(c, data, size, reg, n + 1).out = Joined(before.out, after.out)
    BY ChainGoesOn
  <2> HIDE DEF before, block
  <2>4. after.reg \in regs /\ after.out \in Seq(Byte) /\ Len(after.out) = width
    BY <2>1, <2>2 DEF Steps
  <2> HIDE DEF after
  <2>5. /\ Joined(before.out, after.out) \in Seq(Byte)
        /\ Len(Joined(before.out, after.out)) = Times(n, width) + width
    <3>1. /\ Joined(before.out, after.out) \in Seq(Byte)
          /\ Len(Joined(before.out, after.out)) = Len(before.out) + Len(after.out)
      BY <2>2, <2>4, JoinedIs
    <3> QED
      BY <2>2, <2>4, <3>1
  <2>6. Times(n + 1, width) = Times(n, width) + width
    BY DEF Times
  <2>8. Typed(Chain(c, data, size, reg, n + 1), regs, n + 1, width)
    BY <2>4, <2>5, <2>6, <2>7 DEF Typed
  <2> QED
    BY <2>8
<1>3. \A n \in Nat : n \in T
  <2> HIDE DEF T
  <2> QED
    BY <1>1, <1>2, SetOfAllNumbers
<1> QED
  BY <1>3

(* The register after n blocks is one ...                                  *)
THEOREM ChainRegister ==
  \A c, data, reg, regs : \A size, width, n \in Nat :
     IsArray(data) /\ reg \in regs /\ Steps(c, size, width, regs) =>
        Chain(c, data, size, reg, n).reg \in regs
BY ChainIsTyped DEF Typed

(* ... and n blocks have come out.                                         *)
THEOREM ChainOutput ==
  \A c, data, reg, regs : \A size, width, n \in Nat :
     IsArray(data) /\ reg \in regs /\ Steps(c, size, width, regs) =>
        /\ Chain(c, data, size, reg, n).out \in Seq(Byte)
        /\ Len(Chain(c, data, size, reg, n).out) = Times(n, width)
<1> TAKE c, data, reg, regs
<1> TAKE size, width, n \in Nat
<1> HAVE IsArray(data) /\ reg \in regs /\ Steps(c, size, width, regs)
<1>1. Typed(Chain(c, data, size, reg, n), regs, n, width)
  BY ChainIsTyped
<1> QED
  BY <1>1 DEF Typed

(* A chain over what follows after q blocks goes on where the chain over   *)
(* the whole was after them.                                               *)
Continues(b, a, q, n, size) ==
    \A i \in 1 .. Times(n, size) : At(b, i) = At(a, Times(q, size) + i)

JoinsAt(c, a, b, size, reg, q, n) ==
    LET first == Chain(c, a, size, reg, q)
        rest == Chain(c, b, size, first.reg, n)
    IN  /\ Chain(c, a, size, reg, q + n).reg = rest.reg
        /\ Chain(c, a, size, reg, q + n).out = Joined(first.out, rest.out)

(* Blocks that go through a chain in two runs come out as in one: how      *)
(* Process was called does not show.                                       *)
THEOREM ChainsJoin ==
  \A c, a, b, reg, regs : \A size, width, q, n \in Nat :
     /\ IsArray(a) /\ IsArray(b) /\ reg \in regs /\ Steps(c, size, width, regs)
     /\ Continues(b, a, q, n, size)
     => JoinsAt(c, a, b, size, reg, q, n)
<1> TAKE c, a, b, reg, regs
<1> TAKE size, width, q, n \in Nat
<1> HAVE /\ IsArray(a) /\ IsArray(b) /\ reg \in regs /\ Steps(c, size, width, regs)
         /\ Continues(b, a, q, n, size)
<1> DEFINE first == Chain(c, a, size, reg, q)
<1>1. first.reg \in regs /\ first.out \in Seq(Byte)
  BY ChainRegister, ChainOutput
<1> HIDE DEF first
<1> DEFINE Rest(k) == Chain(c, b, size, first.reg, k)
           All(k) == Chain(c, a, size, reg, q + k)
           IsJoined(k) == All(k).reg = Rest(k).reg /\ All(k).out = Joined(first.out, Rest(k).out)
           T == {k \in Nat : k <= n => IsJoined(k)}
<1>2. \A k \in Nat : Rest(k).reg \in regs /\ Rest(k).out \in Seq(Byte)
  <2>1. \A k \in Nat : Rest(k).reg \in regs
    BY <1>1, ChainRegister
  <2>2. \A k \in Nat : Rest(k).out \in Seq(Byte)
    BY <1>1, ChainOutput
  <2> QED
    BY <2>1, <2>2
<1>3. Rest(0).reg = first.reg /\ Rest(0).out = << >>
  BY ChainStarts
<1>4. All(0) = first
  <2>1. q + 0 = q
    OBVIOUS
  <2> QED
    BY <2>1 DEF first
<1>5. \A k \in Nat :
        LET after == StepOf(c, Rest(k).reg, BlockAt(b, k, size))
        IN  /\ Rest(k + 1).reg = after.reg
            /\ Rest(k + 1).out = Joined(Rest(k).out, after.out)
  BY ChainGoesOn
<1>6. \A k \in Nat :
        LET after == StepOf(c, All(k).reg, BlockAt(a, q + k, size))
        IN  /\ All(k + 1).reg = after.reg
            /\ All(k + 1).out = Joined(All(k).out, after.out)
  <2> TAKE k \in Nat
  <2>1. q + k \in Nat /\ (q + k) + 1 = q + (k + 1)
    OBVIOUS
  <2> QED
    BY <2>1, ChainGoesOn
<1> HIDE DEF Rest, All
<1>7. 0 \in T
  <2>1. Joined(first.out, << >>) = first.out
    BY <1>1, JoinedIs
  <2> QED
    BY <1>3, <1>4, <2>1
<1>8. ASSUME NEW k \in Nat, k \in T PROVE k + 1 \in T
  <2>1. SUFFICES ASSUME k + 1 <= n PROVE IsJoined(k + 1)
    OBVIOUS
  <2>2. IsJoined(k)
    BY <1>8, <2>1
  <2> DEFINE s == BlockAt(b, k, size)
             t == BlockAt(a, q + k, size)
             after == StepOf(c, Rest(k).reg, s)
  <2>3. /\ s \in Seq(Byte) /\ Len(s) = size
        /\ \A i \in 1 .. size : s[i] = At(b, k * size + i)
    <3>1. s \in Seq(Byte) /\ Len(s) = size
      BY BlockIs
    <3>2. \A i \in 1 .. size : s[i] = At(b, k * size + i)
      BY BlockBytesAre
    <3> HIDE DEF s
    <3> QED
      BY <3>1, <3>2
  <2>4. /\ t \in Seq(Byte) /\ Len(t) = size
        /\ \A i \in 1 .. size : t[i] = At(a, q * size + (k * size + i))
    <3>1. q + k \in Nat /\ (q + k) * size = q * size + k * size
      OBVIOUS
    <3>2. /\ t \in Seq(Byte) /\ Len(t) = size
          /\ \A i \in 1 .. size : t[i] = At(a, (q + k) * size + i)
      <4>1. t \in Seq(Byte) /\ Len(t) = size
        BY <3>1, BlockIs
      <4>2. \A i \in 1 .. size : t[i] = At(a, (q + k) * size + i)
        BY <3>1, BlockBytesAre
      <4> HIDE DEF t
      <4> QED
        BY <4>1, <4>2
    <3>3. \A i \in 1 .. size : (q + k) * size + i = q * size + (k * size + i)
      BY <3>1
    <3> HIDE DEF t
    <3> QED
      BY <3>2, <3>3
  <2>5. s = t
    <3>1. k * size \in Nat /\ k * size + size <= n * size
      <4>1. (k + 1) * size <= n * size /\ (k + 1) * size = k * size + size
        BY <2>1
      <4> QED
        BY <4>1
    <3>2. \A i \in 1 .. size : k * size + i \in 1 .. n * size
      BY <3>1
    <3> HIDE DEF s, t
    <3>3. \A i \in 1 .. size : s[i] = t[i]
      BY <2>3, <2>4, <3>2 DEF Continues, Times
    <3> QED
      BY <2>3, <2>4, <3>3, SeqEqual
  <2>6. after.out \in Seq(Byte)
    <3> HIDE DEF s
    <3> QED
      BY <1>2, <2>3 DEF Steps
  <2>7. Rest(k + 1).reg = after.reg /\ Rest(k + 1).out = Joined(Rest(k).out, after.out)
    BY <1>5
  <2>8. All(k + 1).reg = after.reg /\ All(k + 1).out = Joined(All(k).out, after.out)
    <3> HIDE DEF s
    <3> QED
      BY <1>6, <2>2, <2>5
  <2> HIDE DEF after
  <2>9. Joined(Joined(first.out, Rest(k).out), after.out) =
           Joined(first.out, Joined(Rest(k).out, after.out))
    BY <1>1, <1>2, <2>6, JoinedOnce
  <2> QED
    BY <2>2, <2>7, <2>8, <2>9
<1>9. \A k \in Nat : k \in T
  <2> HIDE DEF T
  <2> QED
    BY <1>7, <1>8, SetOfAllNumbers
<1>10. IsJoined(n)
  BY <1>9
<1> QED
  BY <1>10 DEF Rest, All, first, JoinsAt

(* The same bytes, the same chain.                                         *)
THEOREM ChainsAgree ==
  \A c, a, b, reg, regs : \A size, width, n \in Nat :
     /\ IsArray(a) /\ IsArray(b) /\ reg \in regs /\ Steps(c, size, width, regs)
     /\ Continues(b, a, 0, n, size)
     => /\ Chain(c, a, size, reg, n).reg = Chain(c, b, size, reg, n).reg
        /\ Chain(c, a, size, reg, n).out = Chain(c, b, size, reg, n).out
<1> TAKE c, a, b, reg, regs
<1> TAKE size, width, n \in Nat
<1> HAVE /\ IsArray(a) /\ IsArray(b) /\ reg \in regs /\ Steps(c, size, width, regs)
         /\ Continues(b, a, 0, n, size)
<1>1. Chain(c, a, size, reg, 0).reg = reg /\ Chain(c, a, size, reg, 0).out = << >>
  BY ChainStarts
<1>2. 0 \in Nat /\ 0 + n = n
  OBVIOUS
<1>3. /\ Chain(c, a, size, reg, n).reg = Chain(c, b, size, reg, n).reg
      /\ Chain(c, a, size, reg, n).out = Joined(<< >>, Chain(c, b, size, reg, n).out)
  <2>1. JoinsAt(c, a, b, size, reg, 0, n)
    BY <1>2, ChainsJoin
  <2> QED
    BY <1>1, <1>2, <2>1 DEF JoinsAt
<1>4. Chain(c, b, size, reg, n).out \in Seq(Byte)
  BY ChainOutput
<1>5. \A t \in Seq(Byte) : Joined(<< >>, t) = t
  BY ConcatEmptySeq DEF Joined
<1> QED
  BY <1>3, <1>4, <1>5

(* A chain only grows.                                                     *)
GrowsAt(c, a, size, width, reg, q, n) ==
    \A i \in 1 .. Times(q, width) :
       Chain(c, a, size, reg, q + n).out[i] = Chain(c, a, size, reg, q).out[i]

(* What has come out stays as it is when more blocks go through.           *)
THEOREM ChainGrows ==
  \A c, a, reg, regs : \A size, width, q, n \in Nat :
     IsArray(a) /\ reg \in regs /\ Steps(c, size, width, regs) =>
        GrowsAt(c, a, size, width, reg, q, n)
<1> TAKE c, a, reg, regs
<1> TAKE size, width, q, n \in Nat
<1> HAVE IsArray(a) /\ reg \in regs /\ Steps(c, size, width, regs)
<1> DEFINE first == Chain(c, a, size, reg, q)
           b == Spliced(a, q, size)
           rest == Chain(c, b, size, first.reg, n)
<1>1. IsArray(b) /\ Continues(b, a, q, n, size)
  <2>1. IsArray(b)
    BY SplicedIs
  <2>3. \A i \in Nat \ {0} : At(b, i) = At(a, Times(q, size) + i)
    BY SplicedIs
  <2>2. \A i \in 1 .. Times(n, size) : i \in Nat \ {0}
    OBVIOUS
  <2> HIDE DEF b
  <2> QED
    BY <2>1, <2>2, <2>3 DEF Continues
<1>2. Chain(c, a, size, reg, q + n).out = Joined(first.out, rest.out)
  <2> HIDE DEF b
  <2>1. JoinsAt(c, a, b, size, reg, q, n)
    BY <1>1, ChainsJoin
  <2> QED
    BY <2>1 DEF JoinsAt
<1>3. first.reg \in regs /\ first.out \in Seq(Byte) /\ Len(first.out) = Times(q, width)
  <2>1. first.reg \in regs
    BY ChainRegister
  <2>2. first.out \in Seq(Byte) /\ Len(first.out) = Times(q, width)
    BY ChainOutput
  <2> QED
    BY <2>1, <2>2
<1>4. rest.out \in Seq(Byte)
  <2> HIDE DEF b, first
  <2> QED
    BY <1>1, <1>3, ChainOutput
<1> HIDE DEF first, rest
<1>5. \A i \in 1 .. Len(first.out) + Len(rest.out) :
         Joined(first.out, rest.out)[i] =
            IF i <= Len(first.out) THEN first.out[i] ELSE rest.out[i - Len(first.out)]
  BY <1>3, <1>4, JoinedIs
<1>6. Len(rest.out) \in Nat /\ Len(first.out) \in Nat
  BY <1>3, <1>4
<1>7. ASSUME NEW i \in 1 .. Len(first.out)
      PROVE  Joined(first.out, rest.out)[i] = first.out[i]
  <2>1. i \in 1 .. Len(first.out) + Len(rest.out) /\ i <= Len(first.out)
    <3> DEFINE m == Len(first.out)
               k == Len(rest.out)
    <3>1. k \in Nat /\ m \in Nat /\ i \in 1 .. m
      BY <1>6
    <3> HIDE DEF m, k
    <3>2. i \in 1 .. m + k /\ i <= m
      BY <3>1
    <3> QED
      BY <3>2 DEF m, k
  <2> QED
    BY <1>5, <2>1
<1> QED
  BY <1>2, <1>3, <1>7 DEF first, GrowsAt

(* What _process makes of a buffer: the blocks that are ready go, the      *)
(* chain over them is returned.                                            *)
LEMMA ProcessIs ==
  \A c, data, count, reg, size, minBlocks, flush :
     LET ready == BlocksReady(data.sig, size, minBlocks, flush)
         run == Chain(c, data, size, reg, ready)
     IN  Proc(c, [data |-> data, count |-> count], reg, size, minBlocks, flush) =
            [buffer |-> [data |-> Spliced(data, ready, size), count |-> count],
             reg |-> run.reg,
             result |-> WordArray(run.out, Taken(data, ready, size))]
<1> TAKE c, data, count, reg, size, minBlocks, flush
<1> DEFINE buffer == [data |-> data, count |-> count]
           ready == BlocksReady(buffer.data.sig, size, minBlocks, flush)
           of(run) == [buffer |-> [buffer EXCEPT !.data = Spliced(buffer.data, ready, size)],
                       reg |-> run.reg,
                       result |-> WordArray(run.out, Taken(buffer.data, ready, size))]
           value == Chain(c, buffer.data, size, reg, ready)
           S == {of(run) : run \in {value}}
<1>1. Proc(c, buffer, reg, size, minBlocks, flush) = CHOOSE result \in S : result = result
  <2> HIDE DEF buffer
  <2> QED
    BY DEF Proc, Process, Chain, OneBlock, Start, Applied, Joined
<1>2. S = {of(value)}
  <2> HIDE DEF of, value
  <2> QED
    OBVIOUS
<1>3. Proc(c, buffer, reg, size, minBlocks, flush) = of(value)
  <2> HIDE DEF S, of, value, buffer
  <2> QED
    BY <1>1, <1>2, TheOnlyOne
<1>4. buffer.data = data
      /\ [buffer EXCEPT !.data = Spliced(data, ready, size)] =
            [data |-> Spliced(data, ready, size), count |-> count]
  OBVIOUS
<1> QED
  BY <1>3, <1>4

=============================================================================
