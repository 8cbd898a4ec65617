--------------------------- MODULE HashPipeProofs ---------------------------
(***************************************************************************)
(* Proofs about HashPipe: for every message, every way of cutting it into  *)
(* pieces, whatever fills up their last words, every hasher of the shape   *)
(* HashAssumption allows and every key, and whatever the compression       *)
(* function is (IsACompression), a hash and an HMAC are the standard ones. *)
(*                                                                         *)
(* The argument, from the bottom up:                                       *)
(*  - the words of a buffer are no more than its bytes take, whatever was  *)
(*    appended and spliced (ConcatIsTight, SplicedIsTight), so that        *)
(*    nothing but the last word can hold slack;                            *)
(*  - a hasher is described by what it has been given: the state after     *)
(*    the first blocks of it, the rest in the buffer (Has, Hashing); how   *)
(*    it was cut into pieces is not in it (UpdateHashes);                  *)
(*  - without slack the padding written into the words is the one of the   *)
(*    standard (LengthPads, BitsPad, PadIs);                               *)
(*  - so what finalize makes of a hasher is the hash of what it was given  *)
(*    (FinalizedIs), and an HMAC is two of those (MacFinalizedIs);         *)
(*  - the inductive invariant HashInv says what the hasher or the HMAC     *)
(*    has been given and keeps the two pads of the key.                    *)
(***************************************************************************)
EXTENDS HashPipe, SequenceTheorems, TLAPS

(* What the compression function has to be: from state to state, a block   *)
(* at a time, and a state has as many bytes as the hashers take of it.     *)
Compresses(States) ==
    /\ InitialState \in States
    /\ \A a \in Algos : \A state \in States :
          /\ \A block \in Seq(Byte) : Len(block) = a.block =>
                Compress(state, block) \in States
          /\ StateBytes(state, a.full) \in Seq(Byte)
          /\ Len(StateBytes(state, a.full)) = a.full

IsACompression == \E States : Compresses(States)

AbsorbOf(c, state, block) == Absorb(state, block)

Run == INSTANCE BlockBufferProofs WITH StepOf <- AbsorbOf

-----------------------------------------------------------------------------
(* The operators of the module of the chains are the ones of this module   *)

IsArray(a) == a.mem \in Seq(Byte) /\ a.sig \in Nat

(* A product, under a name that is expanded only where it is computed      *)
(* with, and so for the joining of two sequences.                          *)
Times(n, size) == n * size

Joined(s, t) == s \o t

(* Word arrays ...                                                         *)
LEMMA SameArrays ==
  /\ Run!Byte = Byte
  /\ \A a : Run!IsArray(a) <=> IsArray(a)
  /\ \A a, i : Run!At(a, i) = At(a, i)
  /\ \A n, k : Run!RoundUp(n, k) = RoundUp(n, k)
  /\ \A a : Run!Clamp(a) = Clamp(a)
  /\ \A a, from, to : Run!Slice(a, from, to) = Slice(a, from, to)
  /\ \A s, fill : Run!Filled(s, fill) = Filled(s, fill)
<1>1. Run!Byte = Byte
  BY DEF Byte, Run!Byte
<1>2. \A a : Run!IsArray(a) <=> IsArray(a)
  BY DEF Byte, Run!Byte, IsArray, Run!IsArray
<1>3. \A a, i : Run!At(a, i) = At(a, i)
  BY DEF At, Run!At
<1>4. \A n, k : Run!RoundUp(n, k) = RoundUp(n, k)
  BY DEF RoundUp, Run!RoundUp
<1>5. \A a : Run!Clamp(a) = Clamp(a)
  BY DEF Clamp, Run!Clamp, At, Run!At, RoundUp, Run!RoundUp, WordArray, Run!WordArray
<1>6. \A a, from, to : Run!Slice(a, from, to) = Slice(a, from, to)
  BY DEF Slice, Run!Slice, At, Run!At
<1>7. \A s, fill : Run!Filled(s, fill) = Filled(s, fill)
  BY DEF Filled, Run!Filled, RoundUp, Run!RoundUp, WordArray, Run!WordArray
<1> QED
  BY <1>1, <1>2, <1>3, <1>4, <1>5, <1>6, <1>7

(* ... buffers ...                                                         *)
LEMMA SameBuffers ==
  /\ \A a, b : Run!Concat(a, b) = Concat(a, b)
  /\ \A mem, sig : Run!WordArray(mem, sig) = WordArray(mem, sig)
  /\ \A n, size, minBlocks, flush :
        Run!BlocksReady(n, size, minBlocks, flush) = BlocksReady(n, size, minBlocks, flush)
  /\ \A a, ready, size : Run!Taken(a, ready, size) = Taken(a, ready, size)
  /\ \A a, ready, size : Run!Spliced(a, ready, size) = Spliced(a, ready, size)
<1>1. \A a, b : Run!Concat(a, b) = Concat(a, b)
  BY DEF Concat, Run!Concat, At, Run!At, RoundUp, Run!RoundUp, WordArray, Run!WordArray,
     Clamp, Run!Clamp, Slice, Run!Slice
<1>2. \A mem, sig : Run!WordArray(mem, sig) = WordArray(mem, sig)
  BY DEF WordArray, Run!WordArray
<1>3. \A n, size, minBlocks, flush :
        Run!BlocksReady(n, size, minBlocks, flush) = BlocksReady(n, size, minBlocks, flush)
  BY DEF BlocksReady, Run!BlocksReady, RoundUp, Run!RoundUp
<1>4. \A a, ready, size : Run!Taken(a, ready, size) = Taken(a, ready, size)
  BY DEF Taken, Run!Taken, Least, Run!Least
<1>5. \A a, ready, size : Run!Spliced(a, ready, size) = Spliced(a, ready, size)
  BY DEF Taken, Run!Taken, Least, Run!Least, Spliced, Run!Spliced, WordArray, Run!WordArray
<1> QED
  BY <1>1, <1>2, <1>3, <1>4, <1>5

(* ... and what the chains are stated with.                                *)
LEMMA SameChains ==
  /\ \A n, size : Run!Times(n, size) = Times(n, size)
  /\ \A s, t : Run!Joined(s, t) = Joined(s, t)
  /\ \A a, k, size : Run!BlockAt(a, k, size) = BlockAt(a, k, size)
<1>1. \A n, size : Run!Times(n, size) = Times(n, size)
  BY DEF Times, Run!Times
<1>2. \A s, t : Run!Joined(s, t) = Joined(s, t)
  BY DEF Joined, Run!Joined
<1>3. \A a, k, size : Run!BlockAt(a, k, size) = BlockAt(a, k, size)
  BY DEF BlockAt, Run!BlockAt, Slice, Run!Slice, At, Run!At
<1> QED
  BY <1>1, <1>2, <1>3

(* A byte of an array is a byte, 0 past its words.                         *)
LEMMA AtIsAByte ==
  \A a, i : IsArray(a) => At(a, i) \in Byte
BY SameArrays, Run!AtIsAByte, PushLimitAssumption

(* An array that is filled with the bytes of s has them.                   *)
LEMMA FilledIs ==
  \A s, fill : s \in Seq(Byte) /\ fill \in Byte =>
     /\ IsArray(Filled(s, fill))
     /\ Filled(s, fill).sig = Len(s)
     /\ \A i \in 1 .. Len(s) : At(Filled(s, fill), i) = s[i]
BY SameArrays, Run!FilledIs, PushLimitAssumption

(* clamp keeps the significant bytes and makes all others 0.               *)
LEMMA ClampIs ==
  \A a : IsArray(a) =>
     /\ IsArray(Clamp(a))
     /\ Clamp(a).sig = a.sig
     /\ Len(Clamp(a).mem) = RoundUp(a.sig, 4)
     /\ \A i \in Nat \ {0} : At(Clamp(a), i) = IF i <= a.sig THEN At(a, i) ELSE 0
BY SameArrays, Run!ClampIs, PushLimitAssumption

(* A slice has the bytes of the array, from one place to the other.        *)
LEMMA SliceIs ==
  \A a : \A from, to \in Nat : IsArray(a) /\ from <= to =>
     /\ Slice(a, from, to) \in Seq(Byte)
     /\ Len(Slice(a, from, to)) = to - from
     /\ \A i \in 1 .. to - from : Slice(a, from, to)[i] = At(a, from + i)
BY SameArrays, Run!SliceIs, PushLimitAssumption

(* concat appends the significant bytes, by whichever way it copies the    *)
(* words.                                                                  *)
LEMMA ConcatIs ==
  \A a, b : IsArray(a) /\ IsArray(b) =>
     /\ IsArray(Concat(a, b))
     /\ Concat(a, b).sig = a.sig + b.sig
     /\ \A i \in 1 .. a.sig + b.sig :
           At(Concat(a, b), i) = IF i <= a.sig THEN At(a, i) ELSE At(b, i - a.sig)
BY SameArrays, SameBuffers, Run!ConcatIs, PushLimitAssumption

(* b is a without its first blocks.                                        *)
IsRest(b, a, blocks, size) ==
    /\ IsArray(b)
    /\ b.sig = a.sig - Taken(a, blocks, size)
    /\ \A i \in Nat \ {0} : At(b, i) = At(a, Times(blocks, size) + i)

(* What splice leaves is the array without the blocks that went.           *)
LEMMA SplicedIs ==
  ASSUME NEW a, IsArray(a), NEW ready \in Nat, NEW size \in Nat
  PROVE  IsRest(Spliced(a, ready, size), a, ready, size)
<1>1. Run!IsArray(a)
  BY SameArrays
<1>2. /\ Run!IsArray(Run!Spliced(a, ready, size))
      /\ Run!Spliced(a, ready, size).sig = a.sig - Run!Taken(a, ready, size)
      /\ \A i \in Nat \ {0} :
            Run!At(Run!Spliced(a, ready, size), i) = Run!At(a, Run!Times(ready, size) + i)
  BY <1>1, Run!SplicedIs, PushLimitAssumption
<1> QED
  BY <1>2, SameArrays, SameBuffers DEF IsRest, Times, Run!Times

(* b has the bytes of the block at its place in the array.                 *)
IsBlock(b, a, k, size) ==
    /\ b \in Seq(Byte) /\ Len(b) = size
    /\ \A i \in 1 .. size : b[i] = At(a, Times(k, size) + i)

(* So have the blocks that are taken of an array.                          *)
LEMMA BlockIs ==
  ASSUME NEW a, IsArray(a), NEW k \in Nat, NEW size \in Nat
  PROVE  IsBlock(BlockAt(a, k, size), a, k, size)
<1> DEFINE block == Run!BlockAt(a, k, size)
<1>1. Run!IsArray(a)
  BY SameArrays
<1>2. /\ block \in Seq(Run!Byte) /\ Len(block) = size
      /\ \A i \in 1 .. size : block[i] = Run!At(a, k * size + i)
  BY <1>1, Run!BlockIs, PushLimitAssumption
<1>3. block = BlockAt(a, k, size)
  BY SameChains
<1> HIDE DEF block
<1>4. IsBlock(block, a, k, size)
  BY <1>2, SameArrays DEF IsBlock, Times
<1> QED
  BY <1>3, <1>4

-----------------------------------------------------------------------------
(* The bytes of n + 1 blocks.                                              *)
LEMMA TimesIs ==
  ASSUME NEW n \in Nat, NEW size \in Nat
  PROVE  /\ Times(n, size) \in Nat
         /\ Times(n + 1, size) = Times(n, size) + size
BY DEF Times

(* No block has no bytes.                                                  *)
LEMMA NoTimes == \A size \in Nat : Times(0, size) = 0
BY DEF Times

(* The bytes of m and of n blocks add up.                                  *)
LEMMA TimesAdd ==
  ASSUME NEW m \in Nat, NEW n \in Nat, NEW size \in Nat
  PROVE  Times(m + n, size) = Times(m, size) + Times(n, size)
BY DEF Times

(* More blocks have not fewer bytes.                                       *)
LEMMA TimesGrow ==
  ASSUME NEW m \in Nat, NEW n \in Nat, NEW size \in Nat, m <= n
  PROVE  Times(m, size) <= Times(n, size)
BY DEF Times

(* Whole blocks and what is left of them                                   *)

(* A length is its whole blocks and a rest of less than a block.           *)
LEMMA Quotient ==
  ASSUME NEW m \in Nat, NEW size \in Nat \ {0}
  PROVE  /\ m \div size \in Nat /\ m % size \in 0 .. size - 1
         /\ Times(m \div size, size) <= m
         /\ m % size = m - Times(m \div size, size)
         /\ m % size = 0 <=> Times(m \div size, size) = m
<1> DEFINE q == m \div size
           r == m % size
<1>1. q \in Nat /\ r \in 0 .. size - 1 /\ m = size * q + r
  BY Run!Division, PushLimitAssumption
<1> HIDE DEF q, r
<1>2. Times(q, size) = size * q /\ size * q \in Nat
  BY <1>1 DEF Times
<1>3. Times(q, size) <= m /\ r = m - Times(q, size)
  BY <1>1, <1>2
<1> QED
  BY <1>1, <1>2, <1>3 DEF q, r

(* Such a division is unique.                                              *)
LEMMA QuotientIs ==
  ASSUME NEW m \in Nat, NEW size \in Nat \ {0}, NEW q \in Nat,
         Times(q, size) <= m, m < Times(q, size) + size
  PROVE  m \div size = q /\ m % size = m - Times(q, size)
<1> DEFINE r == m - Times(q, size)
<1>1. Times(q, size) = size * q /\ size * q \in Nat /\ Times(q, size) \in Nat
  BY DEF Times
<1>2. r \in 0 .. size - 1 /\ m = size * q + r
  BY <1>1
<1> HIDE DEF r
<1>3. (size * q + r) \div size = q /\ (size * q + r) % size = r
  BY <1>2, Run!DivisionIsUnique, PushLimitAssumption
<1> QED
  BY <1>2, <1>3 DEF r

(* Without its first q blocks a text has q blocks less.                    *)
LEMMA QuotientShifts ==
  ASSUME NEW m \in Nat, NEW size \in Nat \ {0}, NEW q \in Nat, Times(q, size) <= m
  PROVE  /\ q <= m \div size
         /\ (m - Times(q, size)) \div size = (m \div size) - q
         /\ (m - Times(q, size)) % size = m % size
<1> DEFINE k == m \div size
           r == m % size
           n == m - Times(q, size)
<1>1. /\ k \in Nat /\ r \in 0 .. size - 1 /\ Times(k, size) <= m /\ r = m - Times(k, size)
      /\ Times(k, size) \in Nat /\ Times(q, size) \in Nat
  BY Quotient, TimesIs
<1> HIDE DEF k, r
<1>2. q <= k
  <2>1. SUFFICES ASSUME k + 1 <= q PROVE FALSE
    BY <1>1
  <2>2. Times(k + 1, size) <= Times(q, size) /\ Times(k + 1, size) = Times(k, size) + size
    <3>1. k + 1 \in Nat
      BY <1>1
    <3> QED
      BY <1>1, <2>1, <3>1, TimesIs, TimesGrow
  <2> QED
    BY <1>1, <2>2
<1>3. k - q \in Nat /\ Times(k, size) = Times(q, size) + Times(k - q, size)
  <2>1. k - q \in Nat /\ k = q + (k - q)
    BY <1>1, <1>2
  <2> QED
    BY <2>1, TimesAdd
<1>4. Times(k - q, size) \in Nat
  BY <1>3, TimesIs
<1>5. n \in Nat /\ Times(k - q, size) <= n /\ n < Times(k - q, size) + size
      /\ n - Times(k - q, size) = r
  BY <1>1, <1>3, <1>4
<1> HIDE DEF n
<1>6. n \div size = k - q /\ n % size = n - Times(k - q, size)
  BY <1>3, <1>5, QuotientIs
<1> QED
  BY <1>2, <1>5, <1>6 DEF k, r, n

-----------------------------------------------------------------------------
(* Sequences of bytes                                                      *)

(* The bytes of two sequences one after the other.                         *)
LEMMA JoinedIs ==
  ASSUME NEW s \in Seq(Byte), NEW t \in Seq(Byte)
  PROVE  /\ Joined(s, t) \in Seq(Byte)
         /\ Len(Joined(s, t)) = Len(s) + Len(t)
         /\ \A i \in 1 .. Len(s) + Len(t) :
               Joined(s, t)[i] = IF i <= Len(s) THEN s[i] ELSE t[i - Len(s)]
BY ConcatProperties DEF Joined

(* Joining with nothing changes nothing, and the order of joining does not *)
(* matter.                                                                 *)
LEMMA JoinedEnds ==
  ASSUME NEW s \in Seq(Byte), NEW t \in Seq(Byte), NEW u \in Seq(Byte)
  PROVE  /\ Joined(s, << >>) = s /\ Joined(<< >>, s) = s
         /\ Joined(Joined(s, t), u) = Joined(s, Joined(t, u))
BY ConcatEmptySeq, ConcatAssociative DEF Joined

(* The first n bytes of a sequence.                                        *)
LEMMA PrefixIs ==
  ASSUME NEW s \in Seq(Byte), NEW n \in 0 .. Len(s)
  PROVE  /\ SubSeq(s, 1, n) \in Seq(Byte)
         /\ Len(SubSeq(s, 1, n)) = n
         /\ \A i \in 1 .. n : SubSeq(s, 1, n)[i] = s[i]
OBVIOUS

(* All bytes of a sequence are its first ones.                             *)
LEMMA WholeIsPrefix ==
  ASSUME NEW s \in Seq(Byte)
  PROVE  SubSeq(s, 1, Len(s)) = s
<1>1. Len(s) \in 0 .. Len(s)
  OBVIOUS
<1>2. /\ SubSeq(s, 1, Len(s)) \in Seq(Byte)
      /\ Len(SubSeq(s, 1, Len(s))) = Len(s)
      /\ \A i \in 1 .. Len(s) : SubSeq(s, 1, Len(s))[i] = s[i]
  BY <1>1, PrefixIs
<1> QED
  BY <1>2, SeqEqual

(* The significant bytes of an array that has as many words as it takes.   *)
LEMMA BytesAre ==
  ASSUME NEW mem \in Seq(Byte), NEW n \in 0 .. Len(mem)
  PROVE  Bytes(WordArray(mem, n)) = SubSeq(mem, 1, n)
<1> DEFINE a == WordArray(mem, n)
           b == Slice(a, 0, n)
<1>1. IsArray(a) /\ a.sig = n /\ a.mem = mem /\ n \in Nat
  BY DEF WordArray, IsArray
<1>2. Bytes(a) = b
  BY <1>1 DEF Bytes
<1>3. \A i \in 1 .. n : At(a, i) = mem[i]
  BY <1>1 DEF At
<1> HIDE DEF a
<1>4. b \in Seq(Byte) /\ Len(b) = n - 0 /\ \A i \in 1 .. n - 0 : b[i] = At(a, 0 + i)
  <2>1. 0 \in Nat /\ 0 <= n
    BY <1>1
  <2> QED
    BY <1>1, <2>1, SliceIs
<1> HIDE DEF b
<1>5. \A i \in 1 .. n : b[i] = mem[i]
  BY <1>1, <1>3, <1>4
<1>6. /\ SubSeq(mem, 1, n) \in Seq(Byte) /\ Len(SubSeq(mem, 1, n)) = n
      /\ \A i \in 1 .. n : SubSeq(mem, 1, n)[i] = mem[i]
  BY PrefixIs
<1>7. b = SubSeq(mem, 1, n)
  <2> DEFINE p == SubSeq(mem, 1, n)
  <2>1. p \in Seq(Byte) /\ Len(p) = n /\ \A i \in 1 .. n : p[i] = mem[i]
    BY <1>6
  <2> HIDE DEF p
  <2>2. Len(b) = n
    BY <1>1, <1>4
  <2>3. b = p
    BY <1>4, <1>5, <2>1, <2>2, SeqEqual
  <2> QED
    BY <2>3 DEF p
<1> QED
  BY <1>2, <1>7 DEF a

-----------------------------------------------------------------------------
(* Arrays with as many words as their bytes take                           *)

Tight(a) == IsArray(a) /\ Len(a.mem) = RoundUp(a.sig, 4)

(* Rounding up to words, seen from a number of whole words.                *)
LEMMA WholeWords ==
  ASSUME NEW m \in Nat, NEW n \in Nat, m % 4 = 0
  PROVE  /\ RoundUp(m + n, 4) = m + RoundUp(n, 4)
         /\ RoundUp(m, 4) = m
         /\ RoundUp(n, 4) \in Nat /\ n <= RoundUp(n, 4) /\ RoundUp(n, 4) <= n + 3
         /\ n <= m => RoundUp(n, 4) <= m
BY DEF RoundUp

(* concat leaves no words the bytes do not take, if the piece has none.    *)
LEMMA ConcatIsTight ==
  ASSUME NEW a, IsArray(a), NEW b, Tight(b)
  PROVE  Tight(Concat(a, b))
<1> DEFINE clamped == Clamp(a).mem
           n == a.sig + b.sig
<1>1. /\ IsArray(b) /\ Len(b.mem) = RoundUp(b.sig, 4)
      /\ a.sig \in Nat /\ b.sig \in Nat /\ b.mem \in Seq(Byte) /\ n \in Nat
  BY DEF Tight, IsArray
<1>2. IsArray(Concat(a, b)) /\ Concat(a, b).sig = n
  BY <1>1, ConcatIs
<1>3. clamped \in Seq(Byte) /\ Len(clamped) = RoundUp(a.sig, 4)
  BY ClampIs DEF IsArray
<1>4. Len(Concat(a, b).mem) = RoundUp(n, 4)
  <2> HIDE DEF clamped
  <2>1. CASE a.sig % 4 # 0
    <3> DEFINE m == RoundUp(n, 4)
               mem == [i \in 1 .. m |-> IF i <= a.sig THEN clamped[i]
                                        ELSE IF i <= n THEN At(b, i - a.sig) ELSE 0]
    <3>1. Concat(a, b).mem = mem
      BY <2>1 DEF Concat, WordArray, clamped
    <3>2. m \in Nat
      BY <1>1 DEF RoundUp
    <3> HIDE DEF m
    <3>3. Len(mem) = m
      BY <3>2
    <3> QED
      BY <3>1, <3>3 DEF m
  <2>2. CASE a.sig % 4 = 0
    <3>1. RoundUp(n, 4) = a.sig + RoundUp(b.sig, 4) /\ Len(clamped) = a.sig
          /\ RoundUp(b.sig, 4) \in Nat
      BY <1>1, <1>3, <2>2, WholeWords
    <3>2. CASE Len(b.mem) \div 4 > PushLimit
      <4> DEFINE m == RoundUp(b.sig, 4)
                 t == Slice(b, 0, m)
      <4>1. Concat(a, b).mem = clamped \o t
        BY <2>2, <3>2 DEF Concat, WordArray, clamped
      <4>2. 0 \in Nat /\ m \in Nat /\ 0 <= m
        BY <3>1
      <4> HIDE DEF m
      <4>3. t \in Seq(Byte) /\ Len(t) = m - 0
        BY <1>1, <4>2, SliceIs
      <4> HIDE DEF t
      <4>4. Len(clamped \o t) = Len(clamped) + Len(t)
        BY <1>3, <4>3, ConcatProperties
      <4> QED
        BY <3>1, <4>1, <4>2, <4>3, <4>4 DEF m
    <3>3. CASE ~ (Len(b.mem) \div 4 > PushLimit)
      <4>1. Concat(a, b).mem = clamped \o b.mem
        BY <2>2, <3>3 DEF Concat, WordArray, clamped
      <4>2. Len(clamped \o b.mem) = Len(clamped) + Len(b.mem)
        BY <1>1, <1>3, ConcatProperties
      <4> QED
        BY <1>1, <3>1, <4>1, <4>2
    <3> QED
      BY <3>2, <3>3
  <2> QED
    BY <2>1, <2>2
<1> QED
  BY <1>2, <1>4 DEF Tight

(* Nor does splice: whole blocks are whole words.                          *)
LEMMA SplicedIsTight ==
  ASSUME NEW a, Tight(a), NEW n \in Nat, NEW size \in Nat, size % 4 = 0,
         Times(n, size) <= a.sig
  PROVE  /\ Tight(Spliced(a, n, size))
         /\ Spliced(a, n, size).sig = a.sig - Times(n, size)
         /\ \A i \in Nat \ {0} : At(Spliced(a, n, size), i) = At(a, Times(n, size) + i)
<1> DEFINE p == Times(n, size)
           b == Spliced(a, n, size)
           mem == SubSeq(a.mem, p + 1, Len(a.mem))
<1>1. /\ IsArray(a) /\ a.mem \in Seq(Byte) /\ a.sig \in Nat
      /\ Len(a.mem) = RoundUp(a.sig, 4) /\ p \in Nat /\ p <= a.sig
  BY TimesIs DEF Tight, IsArray
<1>2. p % 4 = 0
  <2>1. PICK k \in Nat : size = 4 * k
    BY DEF Times
  <2>2. p = 4 * (n * k) /\ n * k \in Nat
    BY <2>1 DEF Times
  <2> HIDE DEF p
  <2> QED
    BY <2>2
<1>3. Taken(a, n, size) = p
  BY <1>1 DEF Taken, Least, Times
<1>4. IsArray(b) /\ b.sig = a.sig - p
      /\ \A i \in Nat \ {0} : At(b, i) = At(a, p + i)
  <2>1. IsRest(b, a, n, size)
    BY <1>1, SplicedIs
  <2> HIDE DEF b
  <2> QED
    BY <1>3, <2>1 DEF IsRest
<1>5. b.mem = mem
  BY DEF Spliced, WordArray, Times
<1> HIDE DEF p, b
<1>6. Len(mem) = RoundUp(a.sig, 4) - p
  <2>1. RoundUp(a.sig, 4) \in Nat /\ p <= RoundUp(a.sig, 4)
    <3>1. RoundUp(a.sig, 4) \in Nat /\ a.sig <= RoundUp(a.sig, 4)
      BY <1>1 DEF RoundUp
    <3> QED
      BY <1>1, <3>1
  <2>2. Len(a.mem) \in Nat /\ p <= Len(a.mem)
    BY <1>1, <2>1
  <2>3. Len(mem) = Len(a.mem) - p
    BY <1>1, <2>2
  <2> QED
    BY <1>1, <2>3
<1>7. RoundUp(a.sig - p, 4) = RoundUp(a.sig, 4) - p
  <2>1. a.sig - p \in Nat /\ p + (a.sig - p) = a.sig
    BY <1>1
  <2>2. RoundUp(p + (a.sig - p), 4) = p + RoundUp(a.sig - p, 4) /\ RoundUp(a.sig - p, 4) \in Nat
    BY <1>1, <1>2, <2>1, WholeWords
  <2> QED
    BY <1>1, <2>1, <2>2
<1>8. Tight(b)
  BY <1>4, <1>5, <1>6, <1>7 DEF Tight
<1> QED
  BY <1>4, <1>8 DEF p, b

-----------------------------------------------------------------------------
(* What a hasher has been given                                            *)

(* What the assumption about the constants says of the hashers.            *)
LEMMA HasherIs ==
  ASSUME NEW a \in Algos
  PROVE  /\ a.block \in Nat \ {0} /\ 64 <= a.block /\ a.block <= 512
         /\ a.block % 8 = 0 /\ a.block % 4 = 0
         /\ a.full \in Nat /\ a.full % 4 = 0 /\ a.full <= a.block
         /\ a.size \in 1 .. a.full
         /\ a.length \in {"big", "little", "low", "none"}
         /\ a.length \in {"little", "low"} => a.block = 64
         /\ a.block + Len(Message) < LengthLimit
<1>1. IsHasher(a) /\ a.block + Len(Message) < LengthLimit
  BY HashAssumption DEF HashAssumption
<1>2. PICK m \in 8 .. 64 : a.block = 8 * m
  BY <1>1 DEF IsHasher
<1>3. PICK n \in 1 .. 64 : a.full = 4 * n
  BY <1>1 DEF IsHasher
<1> QED
  BY <1>1, <1>2, <1>3 DEF IsHasher

(* The state after n blocks of s.                                          *)
State(a, s, n) == Run!Chain(a, OfBytes(s), a.block, InitialState, n).reg

(* Absorbing leads from state to state.                                    *)
LEMMA AbsorbingSteps ==
  ASSUME NEW States, Compresses(States), NEW a \in Algos
  PROVE  Run!Steps(a, a.block, a.block, States)
<1>1. \A r \in States : \A block \in Seq(Byte) : Len(block) = a.block =>
         /\ AbsorbOf(a, r, block).reg \in States
         /\ AbsorbOf(a, r, block).out = block
  BY DEF Compresses, AbsorbOf, Absorb, Step
<1> QED
  BY <1>1, SameArrays DEF Run!Steps

(* The bytes of a sequence as an array.                                    *)
LEMMA OfBytesIs ==
  ASSUME NEW s \in Seq(Byte)
  PROVE  /\ IsArray(OfBytes(s)) /\ OfBytes(s).sig = Len(s)
         /\ \A i \in 1 .. Len(s) : At(OfBytes(s), i) = s[i]
<1>1. 0 \in Byte
  BY DEF Byte
<1> QED
  BY <1>1, FilledIs DEF OfBytes

(* The array has what s has from a byte on.                                *)
Has(data, s, from) ==
    /\ Tight(data)
    /\ from <= Len(s)
    /\ data.sig = Len(s) - from
    /\ \A i \in 1 .. data.sig : At(data, i) = s[from + i]

(* Before the first block there is the initial state, and a state has the  *)
(* bytes that are taken of it.                                             *)
LEMMA StatesAre ==
  ASSUME IsACompression, NEW a \in Algos, NEW s \in Seq(Byte),
         NEW n \in Nat
  PROVE  /\ State(a, s, 0) = InitialState
         /\ StateBytes(State(a, s, n), a.full) \in Seq(Byte)
         /\ Len(StateBytes(State(a, s, n), a.full)) = a.full
<1> PICK States : Compresses(States)
  BY DEF IsACompression
<1>1. State(a, s, 0) = InitialState
  BY Run!ChainStarts, PushLimitAssumption DEF State
<1>2. Run!IsArray(OfBytes(s))
  BY OfBytesIs, SameArrays
<1>3. InitialState \in States /\ Run!Steps(a, a.block, a.block, States) /\ a.block \in Nat
  BY AbsorbingSteps, HasherIs DEF Compresses
<1>4. State(a, s, n) \in States
  BY <1>2, <1>3, Run!ChainRegister, PushLimitAssumption DEF State
<1> QED
  BY <1>1, <1>4 DEF Compresses

(* One block more of s.                                                    *)
LEMMA StateGoesOn ==
  ASSUME NEW a, NEW s, NEW n \in Nat
  PROVE  State(a, s, n + 1) = Compress(State(a, s, n), BlockAt(OfBytes(s), n, a.block))
<1> DEFINE block == Run!BlockAt(OfBytes(s), n, a.block)
<1>1. State(a, s, n + 1) = AbsorbOf(a, State(a, s, n), block).reg
  BY Run!ChainGoesOn, PushLimitAssumption DEF State
<1>2. \A r, b : AbsorbOf(a, r, b).reg = Compress(r, b)
  BY DEF AbsorbOf, Absorb, Step
<1> QED
  BY <1>1, <1>2, SameChains

GoesOn(a, s, data, q, n, last) ==
    State(a, s, last) = Run!Chain(a, data, a.block, State(a, s, q), n).reg

(* A buffer that has the rest of s goes on where the first blocks of s     *)
(* led to.                                                                 *)
LEMMA StatesGoOn ==
  ASSUME IsACompression, NEW a \in Algos, NEW s \in Seq(Byte),
         NEW q \in Nat, NEW n \in Nat, NEW last \in Nat, last = q + n,
         Times(last, a.block) <= Len(s),
         NEW data, Has(data, s, Times(q, a.block))
  PROVE  GoesOn(a, s, data, q, n, last)
<1> DEFINE array == OfBytes(s)
           from == Times(q, a.block)
           width == Times(n, a.block)
<1>1. /\ IsArray(array)
      /\ \A i \in 1 .. Len(s) : At(array, i) = s[i]
  BY OfBytesIs
<1>2. /\ IsArray(data) /\ data.sig = Len(s) - from
      /\ \A i \in 1 .. data.sig : At(data, i) = s[from + i]
  BY DEF Has, Tight
<1>3. from \in Nat /\ width \in Nat /\ from + width <= Len(s) /\ Len(s) \in Nat
      /\ a.block \in Nat
  <2>1. a.block \in Nat
    BY HasherIs
  <2>2. from \in Nat /\ width \in Nat
    BY <2>1, TimesIs
  <2>3. Times(q + n, a.block) = from + width
    BY <2>1, TimesAdd
  <2>4. Len(s) \in Nat
    OBVIOUS
  <2> QED
    BY <2>1, <2>2, <2>3, <2>4
<1> HIDE DEF array, from, width
<1>4. \A i \in 1 .. width : At(data, i) = At(array, from + i)
  <2> TAKE i \in 1 .. width
  <2>1. i \in 1 .. data.sig /\ from + i \in 1 .. Len(s)
    BY <1>2, <1>3
  <2> QED
    BY <1>1, <1>2, <2>1
<1>5. Run!Continues(data, array, q, n, a.block)
  BY <1>4, SameArrays, SameChains DEF Run!Continues, from, width
<1>6. Run!IsArray(data) /\ Run!IsArray(array)
  BY <1>1, <1>2, SameArrays
<1> PICK States : Compresses(States)
  BY DEF IsACompression
<1>7. InitialState \in States /\ Run!Steps(a, a.block, a.block, States)
  BY AbsorbingSteps DEF Compresses
<1>8. Run!JoinsAt(a, array, data, a.block, InitialState, q, n)
  BY <1>3, <1>5, <1>6, <1>7, Run!ChainsJoin, PushLimitAssumption
<1> QED
  BY <1>8 DEF Run!JoinsAt, State, GoesOn, array

(* What follows does not change the state after the first blocks.          *)
LEMMA StatesAgree ==
  ASSUME IsACompression, NEW a \in Algos,
         NEW s \in Seq(Byte), NEW t \in Seq(Byte),
         NEW q \in Nat, Times(q, a.block) <= Len(s)
  PROVE  State(a, Joined(s, t), q) = State(a, s, q)
<1> DEFINE u == Joined(s, t)
           first == OfBytes(s)
           all == OfBytes(u)
           width == Times(q, a.block)
<1>1. u \in Seq(Byte) /\ Len(u) = Len(s) + Len(t) /\ \A i \in 1 .. Len(s) : u[i] = s[i]
  <2>1. /\ u \in Seq(Byte) /\ Len(u) = Len(s) + Len(t)
        /\ \A i \in 1 .. Len(s) + Len(t) : u[i] = IF i <= Len(s) THEN s[i] ELSE t[i - Len(s)]
    BY JoinedIs
  <2> HIDE DEF u
  <2>2. Len(s) \in Nat /\ Len(t) \in Nat
    OBVIOUS
  <2> QED
    BY <2>1, <2>2
<1> HIDE DEF u
<1>2. IsArray(first) /\ \A i \in 1 .. Len(s) : At(first, i) = s[i]
  BY OfBytesIs
<1>3. IsArray(all) /\ \A i \in 1 .. Len(u) : At(all, i) = u[i]
  BY <1>1, OfBytesIs
<1>4. a.block \in Nat /\ width \in Nat /\ width <= Len(s) /\ Times(0, a.block) = 0
      /\ Len(t) \in Nat /\ Len(s) \in Nat
  <2>1. a.block \in Nat
    BY HasherIs
  <2>2. width \in Nat /\ Times(0, a.block) = 0
    BY <2>1, TimesIs, NoTimes
  <2>3. Len(s) \in Nat /\ Len(t) \in Nat
    OBVIOUS
  <2> QED
    BY <2>1, <2>2, <2>3
<1> HIDE DEF first, all, width
<1>5. \A i \in 1 .. width : At(first, i) = At(all, 0 + i)
  BY <1>1, <1>2, <1>3, <1>4
<1>6. Run!Continues(first, all, 0, q, a.block)
  BY <1>4, <1>5, SameArrays, SameChains DEF Run!Continues, width
<1>7. Run!IsArray(first) /\ Run!IsArray(all)
  BY <1>2, <1>3, SameArrays
<1> PICK States : Compresses(States)
  BY DEF IsACompression
<1>8. InitialState \in States /\ Run!Steps(a, a.block, a.block, States)
  BY AbsorbingSteps DEF Compresses
<1>9. Run!Chain(a, all, a.block, InitialState, q).reg =
         Run!Chain(a, first, a.block, InitialState, q).reg
  BY <1>4, <1>6, <1>7, <1>8, Run!ChainsAgree, PushLimitAssumption
<1> QED
  BY <1>9 DEF State, first, all, u

(* Choosing from a set of one value.                                       *)
LEMMA TheOnlyOne == \A S, x : S = {x} => (CHOOSE v \in S : v = v) = x
  OBVIOUS

(* A buffer as a record.                                                   *)
Buffer(data, count) == [data |-> data, count |-> count]

(* What absorbing takes are the whole blocks.                              *)
LEMMA AbsorbingProcesses ==
  ASSUME NEW a, NEW buffer, NEW state
  PROVE  Process(buffer, state, Absorb, a.block, 0, FALSE) =
            Run!Proc(a, buffer, state, a.block, 0, FALSE)
BY DEF AbsorbOf, Process, Run!Proc, Run!Process,
   Applied, Run!Applied, Repeat, Run!Repeat, Least, Run!Least, RoundUp, Run!RoundUp,
   BlocksReady, Run!BlocksReady, Spliced, Run!Spliced, Taken, Run!Taken,
   WordArray, Run!WordArray, BlockAt, Run!BlockAt, Slice, Run!Slice, At, Run!At

(* What Absorbed makes of a buffer.                                        *)
LEMMA AbsorbedIs ==
  ASSUME NEW a, a.block \in Nat \ {0}, NEW data, data.sig \in Nat, NEW count, NEW state
  PROVE  LET ready == data.sig \div a.block
         IN  Absorbed(a, Buffer(data, count), state) =
                [buffer |-> Buffer(Spliced(data, ready, a.block), count),
                 state |-> Run!Chain(a, data, a.block, state, ready).reg]
<1> DEFINE ready == BlocksReady(data.sig, a.block, 0, FALSE)
           run == Run!Chain(a, data, a.block, state, ready)
           buffer == Buffer(data, count)
           of(p) == [buffer |-> p.buffer, state |-> p.reg]
           value == Process(buffer, state, Absorb, a.block, 0, FALSE)
           S == {of(p) : p \in {value}}
<1>1. ready = data.sig \div a.block
  <2>1. data.sig \div a.block \in Nat
    BY Quotient
  <2> QED
    BY <2>1 DEF BlocksReady
<1>2. Absorbed(a, buffer, state) = CHOOSE v \in S : v = v
  BY DEF Absorbed, Applied
<1>3. S = {of(value)}
  <2> HIDE DEF of, value
  <2> QED
    OBVIOUS
<1>4. Absorbed(a, buffer, state) = of(value)
  <2> HIDE DEF S, of, value, buffer
  <2> QED
    BY <1>2, <1>3, TheOnlyOne
<1>5. value = [buffer |-> [data |-> Spliced(data, ready, a.block), count |-> count],
               reg |-> run.reg,
               result |-> WordArray(run.out, Taken(data, ready, a.block))]
  <2>1. value = Run!Proc(a, buffer, state, a.block, 0, FALSE)
    BY AbsorbingProcesses
  <2>2. \A m, flush :
        LET r == Run!BlocksReady(data.sig, a.block, m, flush)
            c == Run!Chain(a, data, a.block, state, r)
        IN  Run!Proc(a, [data |-> data, count |-> count], state, a.block, m, flush) =
              [buffer |-> [data |-> Run!Spliced(data, r, a.block), count |-> count],
               reg |-> c.reg,
               result |-> Run!WordArray(c.out, Run!Taken(data, r, a.block))]
    BY Run!ProcessIs, PushLimitAssumption
  <2> HIDE DEF value
  <2> QED
    BY <2>1, <2>2, SameBuffers DEF Buffer
<1> HIDE DEF value, run, ready
<1>6. of(value) = [buffer |-> Buffer(Spliced(data, ready, a.block), count),
                   state |-> run.reg]
  BY <1>5 DEF Buffer
<1> QED
  BY <1>1, <1>4, <1>6 DEF run

(* The hasher has been given s, and has absorbed its first q blocks.       *)
Hashing(a, h, s, q) ==
    /\ h = [buffer |-> Buffer(h.buffer.data, Len(s)), state |-> State(a, s, q)]
    /\ Has(h.buffer.data, s, Times(q, a.block))

(* Absorbing takes the blocks that are whole.                              *)
LEMMA AbsorbedHashes ==
  ASSUME IsACompression, NEW a \in Algos, NEW s \in Seq(Byte),
         NEW q \in Nat, NEW data, Has(data, s, Times(q, a.block))
  PROVE  Hashing(a, Absorbed(a, Buffer(data, Len(s)), State(a, s, q)), s,
                 Len(s) \div a.block)
<1> DEFINE from == Times(q, a.block)
           ready == data.sig \div a.block
           last == Len(s) \div a.block
           rest == Spliced(data, ready, a.block)
           h == Absorbed(a, Buffer(data, Len(s)), State(a, s, q))
<1>1. a.block \in Nat \ {0} /\ a.block % 4 = 0 /\ Len(s) \in Nat
  BY HasherIs
<1>2. /\ Tight(data) /\ from <= Len(s) /\ data.sig = Len(s) - from /\ data.sig \in Nat
      /\ \A i \in 1 .. data.sig : At(data, i) = s[from + i]
  BY DEF Has, Tight, IsArray
<1>3. from \in Nat
  BY <1>1, TimesIs
<1>4. ready \in Nat /\ last \in Nat /\ q + ready = last
  <2>1. q <= last /\ (Len(s) - from) \div a.block = last - q
    BY <1>1, <1>2, QuotientShifts
  <2>2. last \in Nat
    BY <1>1, Quotient
  <2> HIDE DEF last
  <2>3. ready = last - q
    BY <1>2, <2>1
  <2> HIDE DEF ready
  <2> QED
    BY <2>1, <2>2, <2>3
<1>5. Times(last, a.block) <= Len(s)
  BY <1>1, Quotient
<1>6. Times(last, a.block) = from + Times(ready, a.block) /\ Times(ready, a.block) \in Nat
  <2> HIDE DEF ready, last
  <2>1. Times(q + ready, a.block) = Times(q, a.block) + Times(ready, a.block)
    BY <1>1, <1>4, TimesAdd
  <2> QED
    BY <1>1, <1>4, <2>1, TimesIs
<1>7. h = [buffer |-> Buffer(rest, Len(s)),
           state |-> Run!Chain(a, data, a.block, State(a, s, q), ready).reg]
  BY <1>1, <1>2, AbsorbedIs
<1> HIDE DEF ready, last, rest, h
<1>8. State(a, s, last) = Run!Chain(a, data, a.block, State(a, s, q), ready).reg
  <2>1. /\ Times(last, a.block) <= Len(s) /\ Has(data, s, Times(q, a.block))
        /\ last = q + ready
    BY <1>4, <1>5
  <2>2. GoesOn(a, s, data, q, ready, last)
    BY <1>4, <2>1, StatesGoOn
  <2> QED
    BY <2>2 DEF GoesOn
<1>9. /\ Tight(rest) /\ rest.sig = data.sig - Times(ready, a.block)
      /\ \A i \in Nat \ {0} : At(rest, i) = At(data, Times(ready, a.block) + i)
  <2>1. Times(ready, a.block) <= data.sig
    BY <1>2, <1>3, <1>5, <1>6
  <2> QED
    BY <1>1, <1>2, <1>4, <2>1, SplicedIsTight DEF rest
<1> HIDE DEF from
<1>10. Has(rest, s, Times(last, a.block))
  <2> DEFINE width == Times(ready, a.block)
             to == Times(last, a.block)
  <2>1. to = from + width /\ width \in Nat /\ to <= Len(s)
    BY <1>5, <1>6
  <2> HIDE DEF width, to
  <2>2. rest.sig = Len(s) - to
    BY <1>1, <1>2, <1>3, <1>9, <2>1 DEF width
  <2>3. \A i \in 1 .. rest.sig : At(rest, i) = s[to + i]
    <3> TAKE i \in 1 .. rest.sig
    <3>1. i \in Nat \ {0} /\ width + i \in 1 .. data.sig /\ from + (width + i) = to + i
      BY <1>1, <1>2, <1>3, <2>1, <2>2
    <3>2. At(rest, i) = At(data, width + i)
      BY <1>9, <3>1 DEF width
    <3> QED
      BY <1>2, <3>1, <3>2
  <2> QED
    BY <1>9, <2>1, <2>2, <2>3 DEF Has, to
<1>11. h.buffer.data = rest /\ h = [buffer |-> Buffer(rest, Len(s)), state |-> State(a, s, last)]
  BY <1>7, <1>8 DEF Buffer
<1> QED
  BY <1>10, <1>11 DEF Hashing, h, last

(* The piece is an array of the bytes of t, in no more words than they     *)
(* take.                                                                   *)
IsPiece(piece, t) ==
    /\ Tight(piece)
    /\ piece.sig = Len(t)
    /\ \A i \in 1 .. Len(t) : At(piece, i) = t[i]

(* What is appended is had as well.                                        *)
LEMMA AppendedHas ==
  ASSUME NEW s \in Seq(Byte), NEW t \in Seq(Byte), NEW from \in Nat,
         NEW data, Has(data, s, from), NEW piece, IsPiece(piece, t)
  PROVE  Has(Concat(data, piece), Joined(s, t), from)
<1> DEFINE both == Concat(data, piece)
           u == Joined(s, t)
<1>1. /\ IsArray(data) /\ from <= Len(s) /\ data.sig = Len(s) - from
      /\ \A i \in 1 .. data.sig : At(data, i) = s[from + i]
  BY DEF Has, Tight
<1>2. /\ IsArray(piece) /\ piece.sig = Len(t)
      /\ \A i \in 1 .. Len(t) : At(piece, i) = t[i]
  BY DEF IsPiece, Tight
<1>3. Tight(both)
  BY <1>1, ConcatIsTight DEF IsPiece
<1>4. /\ both.sig = data.sig + piece.sig
      /\ \A i \in 1 .. data.sig + piece.sig :
            At(both, i) = IF i <= data.sig THEN At(data, i) ELSE At(piece, i - data.sig)
  BY <1>1, <1>2, ConcatIs
<1>5. /\ Len(u) = Len(s) + Len(t) /\ Len(s) \in Nat /\ Len(t) \in Nat
      /\ \A i \in 1 .. Len(s) + Len(t) : u[i] = IF i <= Len(s) THEN s[i] ELSE t[i - Len(s)]
  <2>1. Len(s) \in Nat /\ Len(t) \in Nat
    OBVIOUS
  <2>2. /\ Len(u) = Len(s) + Len(t)
        /\ \A i \in 1 .. Len(s) + Len(t) : u[i] = IF i <= Len(s) THEN s[i] ELSE t[i - Len(s)]
    BY JoinedIs
  <2> QED
    BY <2>1, <2>2
<1> HIDE DEF both, u
<1>6. from <= Len(u) /\ both.sig = Len(u) - from
  BY <1>1, <1>2, <1>4, <1>5
<1>7. \A i \in 1 .. both.sig : At(both, i) = u[from + i]
  <2> TAKE i \in 1 .. both.sig
  <2>1. i \in 1 .. data.sig + piece.sig /\ from + i \in 1 .. Len(s) + Len(t)
    BY <1>1, <1>2, <1>4, <1>5
  <2>2. CASE i <= data.sig
    <3>1. i \in 1 .. data.sig /\ from + i <= Len(s)
      BY <1>1, <1>5, <2>1, <2>2
    <3> QED
      BY <1>1, <1>4, <1>5, <2>1, <2>2, <3>1
  <2>3. CASE ~ (i <= data.sig)
    <3>1. i - data.sig \in 1 .. Len(t) /\ ~ (from + i <= Len(s))
          /\ (from + i) - Len(s) = i - data.sig
      BY <1>1, <1>2, <1>5, <2>1, <2>3
    <3> QED
      BY <1>2, <1>4, <1>5, <2>1, <2>3, <3>1
  <2> QED
    BY <2>2, <2>3
<1> QED
  BY <1>3, <1>6, <1>7 DEF Has, both, u

(* A hasher a piece is appended to has been given it.                      *)
LEMMA WithPieceHashes ==
  ASSUME IsACompression, NEW a \in Algos,
         NEW s \in Seq(Byte), NEW t \in Seq(Byte), NEW q \in Nat,
         NEW h, Hashing(a, h, s, q), NEW piece, IsPiece(piece, t)
  PROVE  /\ Hashing(a, WithPiece(h, piece), Joined(s, t), q)
         /\ AppendTo(h.buffer, piece) = Buffer(Concat(h.buffer.data, piece), Len(Joined(s, t)))
         /\ h.state = State(a, Joined(s, t), q)
<1> DEFINE data == h.buffer.data
           u == Joined(s, t)
<1>1. h = [buffer |-> Buffer(data, Len(s)), state |-> State(a, s, q)]
      /\ Has(data, s, Times(q, a.block))
  BY DEF Hashing
<1>2. Len(u) = Len(s) + Len(t) /\ piece.sig = Len(t)
  BY JoinedIs DEF IsPiece
<1>3. Times(q, a.block) \in Nat /\ Times(q, a.block) <= Len(s)
  BY <1>1, HasherIs, TimesIs DEF Has
<1>4. State(a, u, q) = State(a, s, q)
  BY <1>3, StatesAgree
<1>5. Has(Concat(data, piece), u, Times(q, a.block))
  BY <1>1, <1>3, AppendedHas
<1>6. h.buffer = Buffer(data, Len(s)) /\ h.state = State(a, s, q)
  <2> HIDE DEF data
  <2> QED
    BY <1>1
<1> HIDE DEF u, data
<1>7. AppendTo(h.buffer, piece) = Buffer(Concat(data, piece), Len(u))
  BY <1>2, <1>6 DEF AppendTo, Buffer
<1>8. WithPiece(h, piece) = [buffer |-> Buffer(Concat(data, piece), Len(u)),
                             state |-> State(a, u, q)]
  <2>1. h = [buffer |-> h.buffer, state |-> h.state]
    BY <1>1
  <2>2. WithPiece(h, piece) = [buffer |-> AppendTo(h.buffer, piece), state |-> h.state]
    BY <2>1 DEF WithPiece
  <2> QED
    BY <1>4, <1>6, <1>7, <2>2
<1>9. WithPiece(h, piece).buffer.data = Concat(data, piece)
  BY <1>8 DEF Buffer
<1> QED
  BY <1>4, <1>5, <1>6, <1>7, <1>8, <1>9 DEF Hashing, u, data

(* So has one that is updated with it, and it has absorbed what blocks are *)
(* whole.                                                                  *)
LEMMA UpdateHashes ==
  ASSUME IsACompression, NEW a \in Algos,
         NEW s \in Seq(Byte), NEW t \in Seq(Byte), NEW q \in Nat,
         NEW h, Hashing(a, h, s, q), NEW piece, IsPiece(piece, t)
  PROVE  Hashing(a, Update(a, h, piece), Joined(s, t), Len(Joined(s, t)) \div a.block)
<1> DEFINE u == Joined(s, t)
           data == Concat(h.buffer.data, piece)
<1>1. u \in Seq(Byte)
  BY JoinedIs
<1>2. /\ Hashing(a, WithPiece(h, piece), u, q)
      /\ AppendTo(h.buffer, piece) = Buffer(data, Len(u)) /\ h.state = State(a, u, q)
  BY WithPieceHashes
<1>3. Update(a, h, piece) = Absorbed(a, Buffer(data, Len(u)), State(a, u, q))
  BY <1>2 DEF Update
<1>4. Has(data, u, Times(q, a.block))
  <2>1. Has(h.buffer.data, s, Times(q, a.block))
    BY DEF Hashing
  <2>2. Times(q, a.block) \in Nat
    BY HasherIs, TimesIs
  <2> QED
    BY <2>1, <2>2, AppendedHas
<1> HIDE DEF u, data
<1> QED
  BY <1>1, <1>3, <1>4, AbsorbedHashes DEF u

(* A new hasher has been given nothing.                                    *)
LEMMA NewHasherHashes ==
  ASSUME IsACompression, NEW a \in Algos
  PROVE  Hashing(a, NewHasher, << >>, 0)
<1>1. State(a, << >>, 0) = InitialState
  <2>1. << >> \in Seq(Byte) /\ 0 \in Nat
    OBVIOUS
  <2> QED
    BY <2>1, StatesAre
<1>2. NewHasher.buffer.data = [mem |-> << >>, sig |-> 0]
      /\ NewHasher = [buffer |-> Buffer([mem |-> << >>, sig |-> 0], 0), state |-> InitialState]
  BY DEF NewHasher, EmptyBuffer, NoWords, WordArray, Buffer
<1>3. Times(0, a.block) = 0
  BY HasherIs, NoTimes
<1>4. Tight([mem |-> << >>, sig |-> 0])
  BY DEF Tight, IsArray, RoundUp
<1> QED
  BY <1>1, <1>2, <1>3, <1>4 DEF Hashing, Has

-----------------------------------------------------------------------------
(* The padding                                                             *)

(* Zeros are bytes.                                                        *)
LEMMA ZerosAre ==
  ASSUME NEW n \in Nat
  PROVE  /\ Zeros(n) \in Seq(Byte) /\ Len(Zeros(n)) = n
         /\ \A i \in 1 .. n : Zeros(n)[i] = 0
<1>1. Zeros(n) \in [1 .. n -> Byte]
  BY DEF Zeros, Byte
<1> QED
  BY <1>1 DEF Zeros

(* The length as the standard notes it.                                    *)
High(n) == (8 * n) \div 65536
Middle(n) == ((8 * n) \div 256) % 256
Low(n) == (8 * n) % 256

Note(a, n, field) ==
    IF a.length = "big" THEN Joined(Zeros(field - 3), <<High(n), Middle(n), Low(n)>>)
    ELSE Joined(<<Low(n), Middle(n), High(n)>>, Zeros(field - 3))

(* It takes three bytes up to the limit.                                   *)
LEMMA ThreeBytes ==
  ASSUME NEW n \in Nat, n < LengthLimit
  PROVE  /\ High(n) \in Byte /\ Middle(n) \in Byte /\ Low(n) \in Byte
         /\ High(n) = ((8 * n) \div 65536) % 256
<1>1. High(n) \in 0 .. 255
  BY DEF High, LengthLimit
<1>2. Middle(n) \in 0 .. 255
  BY DEF Middle
<1>3. Low(n) \in 0 .. 255
  BY DEF Low
<1> QED
  BY <1>1, <1>2, <1>3 DEF High, Byte

(* Three bytes that are noted, the lowest last or first.                   *)
LEMMA LengthBytes ==
  ASSUME NEW a, NEW n \in Nat, n < LengthLimit, NEW k \in 1 .. 8
  PROVE  LengthByte(a, n, k) =
            IF a.length = "big"
            THEN IF k = 8 THEN Low(n) ELSE IF k = 7 THEN Middle(n)
                 ELSE IF k = 6 THEN High(n) ELSE 0
            ELSE IF k = 1 THEN Low(n) ELSE IF k = 2 THEN Middle(n)
                 ELSE IF k = 3 THEN High(n) ELSE 0
<1> DEFINE bits == 8 * n
           byte(m) == CASE m = 0 -> bits % 256
                        [] m = 1 -> (bits \div 256) % 256
                        [] m = 2 -> (bits \div 65536) % 256
                        [] OTHER -> 0
<1>1. LengthByte(a, n, k) = IF a.length = "big" THEN byte(8 - k) ELSE byte(k - 1)
  BY DEF LengthByte
<1>2. byte(0) = Low(n)
  BY DEF Low
<1>3. byte(1) = Middle(n)
  BY DEF Middle
<1>4. byte(2) = High(n)
  BY ThreeBytes
<1>5. \A m \in 3 .. 7 : byte(m) = 0
  OBVIOUS
<1> HIDE DEF byte
<1> QED
  BY <1>1, <1>2, <1>3, <1>4, <1>5

(* The note at the end of a block, byte by byte.                           *)
LEMMA NoteIs ==
  ASSUME NEW a, NEW n \in Nat, n < LengthLimit, NEW field \in Nat, 8 <= field,
         a.length # "big" => field = 8
  PROVE  /\ Note(a, n, field) \in Seq(Byte) /\ Len(Note(a, n, field)) = field
         /\ \A i \in 1 .. field : Note(a, n, field)[i] =
               IF i <= field - 8 THEN 0 ELSE LengthByte(a, n, i - (field - 8))
<1> DEFINE z == Zeros(field - 3)
           note == Note(a, n, field)
<1>1. field - 3 \in Nat
  OBVIOUS
<1>2. z \in Seq(Byte) /\ Len(z) = field - 3 /\ \A i \in 1 .. field - 3 : z[i] = 0
  BY <1>1, ZerosAre
<1>3. High(n) \in Byte /\ Middle(n) \in Byte /\ Low(n) \in Byte
  BY ThreeBytes
<1>4. CASE a.length = "big"
  <2> DEFINE t == <<High(n), Middle(n), Low(n)>>
  <2>1. /\ t \in Seq(Byte) /\ Len(t) = 3
        /\ t[1] = High(n) /\ t[2] = Middle(n) /\ t[3] = Low(n)
    BY <1>3
  <2>2. note = Joined(z, t)
    BY <1>4 DEF Note
  <2> HIDE DEF t, z, note
  <2>3. /\ note \in Seq(Byte) /\ Len(note) = field
        /\ \A i \in 1 .. field :
              note[i] = IF i <= field - 3 THEN z[i] ELSE t[i - (field - 3)]
    <3>1. /\ Joined(z, t) \in Seq(Byte) /\ Len(Joined(z, t)) = Len(z) + Len(t)
          /\ \A i \in 1 .. Len(z) + Len(t) :
                Joined(z, t)[i] = IF i <= Len(z) THEN z[i] ELSE t[i - Len(z)]
      BY <1>2, <2>1, JoinedIs
    <3>2. Len(z) + Len(t) = field
      BY <1>2, <2>1
    <3> QED
      BY <1>2, <2>2, <3>1, <3>2
  <2>4. \A i \in 1 .. field : note[i] =
            IF i <= field - 8 THEN 0 ELSE LengthByte(a, n, i - (field - 8))
    <3> TAKE i \in 1 .. field
    <3>1. CASE i <= field - 8
      BY <1>2, <2>3, <3>1
    <3>2. CASE ~ (i <= field - 8)
      <4> DEFINE k == i - (field - 8)
      <4>1. k \in 1 .. 8 /\ i - (field - 3) = k - 5 /\ (i <= field - 3 <=> k <= 5)
        BY <3>2
      <4> HIDE DEF k
      <4>2. LengthByte(a, n, k) = IF k = 8 THEN Low(n) ELSE IF k = 7 THEN Middle(n)
                                  ELSE IF k = 6 THEN High(n) ELSE 0
        BY <1>4, <4>1, LengthBytes
      <4>3. CASE k <= 5
        BY <1>2, <2>3, <3>2, <4>1, <4>2, <4>3 DEF k
      <4>4. CASE k = 6
        BY <2>1, <2>3, <3>2, <4>1, <4>2, <4>4 DEF k
      <4>5. CASE k = 7
        BY <2>1, <2>3, <3>2, <4>1, <4>2, <4>5 DEF k
      <4>6. CASE k = 8
        BY <2>1, <2>3, <3>2, <4>1, <4>2, <4>6 DEF k
      <4> QED
        BY <4>1, <4>3, <4>4, <4>5, <4>6
    <3> QED
      BY <3>1, <3>2
  <2> QED
    BY <2>3, <2>4 DEF note
<1>5. CASE a.length # "big"
  <2> DEFINE t == <<Low(n), Middle(n), High(n)>>
  <2>1. /\ t \in Seq(Byte) /\ Len(t) = 3
        /\ t[1] = Low(n) /\ t[2] = Middle(n) /\ t[3] = High(n)
    BY <1>3
  <2>2. note = Joined(t, z)
    BY <1>5 DEF Note
  <2>3. field = 8
    BY <1>5
  <2> HIDE DEF t, z, note
  <2>4. /\ note \in Seq(Byte) /\ Len(note) = 8
        /\ \A i \in 1 .. 8 : note[i] = IF i <= 3 THEN t[i] ELSE z[i - 3]
    <3>1. /\ Joined(t, z) \in Seq(Byte) /\ Len(Joined(t, z)) = Len(t) + Len(z)
          /\ \A i \in 1 .. Len(t) + Len(z) :
                Joined(t, z)[i] = IF i <= Len(t) THEN t[i] ELSE z[i - Len(t)]
      BY <1>2, <2>1, JoinedIs
    <3>2. Len(t) + Len(z) = 8
      BY <1>2, <2>1, <2>3
    <3> QED
      BY <2>1, <2>2, <3>1, <3>2
  <2>5. \A i \in 1 .. 8 : note[i] = LengthByte(a, n, i)
    <3> TAKE i \in 1 .. 8
    <3>1. LengthByte(a, n, i) = IF i = 1 THEN Low(n) ELSE IF i = 2 THEN Middle(n)
                                ELSE IF i = 3 THEN High(n) ELSE 0
      BY <1>5, LengthBytes
    <3>2. i > 3 => i - 3 \in 1 .. field - 3
      BY <2>3
    <3> QED
      BY <1>2, <2>1, <2>4, <3>1, <3>2
  <2>6. \A i \in 1 .. field : i \in 1 .. 8 /\ ~ (i <= field - 8) /\ i - (field - 8) = i
    BY <2>3
  <2> QED
    BY <2>3, <2>4, <2>5, <2>6 DEF note
<1> QED
  BY <1>4, <1>5

(* What the bits are that are set after the data.                          *)
LEMMA SetBits ==
  SetBit(0, 128) = 128 /\ SetBit(0, 1) = 1 /\ SetBit(1, 128) = 129
BY DEF SetBit

(* Where nothing lies past the significant bytes there are zeros.          *)
LEMMA NoSlack ==
  ASSUME NEW data, IsArray(data), ~ IsLoose(data)
  PROVE  \A i \in Nat : i > data.sig => At(data, i) = 0
BY DEF IsLoose, At, IsArray

(* There is one number of zeros that makes whole blocks.                   *)
LEMMA OneFilling ==
  ASSUME NEW m \in Nat, NEW size \in Nat \ {0},
         NEW y \in 0 .. size - 1, (m + y) % size = 0,
         NEW z \in 0 .. size - 1, (m + z) % size = 0
  PROVE  y = z
<1> DEFINE j == (m + y) \div size
           k == (m + z) \div size
<1>1. j \in Nat /\ Times(j, size) = m + y
  <2>1. m + y \in Nat
    OBVIOUS
  <2> QED
    BY <2>1, Quotient
<1>2. k \in Nat /\ Times(k, size) = m + z
  <2>1. m + z \in Nat
    OBVIOUS
  <2> QED
    BY <2>1, Quotient
<1> HIDE DEF j, k
<1>3. \A i \in Nat : Times(i + 1, size) = Times(i, size) + size
  BY TimesIs
<1>4. CASE j < k
  <2>1. j + 1 \in Nat /\ j + 1 <= k
    BY <1>1, <1>2, <1>4
  <2>2. Times(j + 1, size) <= Times(k, size)
    BY <1>2, <2>1, TimesGrow
  <2> QED
    BY <1>1, <1>2, <1>3, <2>2
<1>5. CASE k < j
  <2>1. k + 1 \in Nat /\ k + 1 <= j
    BY <1>1, <1>2, <1>5
  <2>2. Times(k + 1, size) <= Times(j, size)
    BY <1>1, <2>1, TimesGrow
  <2> QED
    BY <1>1, <1>2, <1>3, <2>2
<1>6. CASE j = k
  BY <1>1, <1>2, <1>6
<1> QED
  BY <1>1, <1>2, <1>4, <1>5, <1>6

(* The array has what data has, and then the padding p.                    *)
PaddedWith(padded, data, p) ==
    /\ Tight(padded) /\ p \in Seq(Byte)
    /\ padded.sig = data.sig + Len(p)
    /\ \A i \in 1 .. data.sig : At(padded, i) = At(data, i)
    /\ \A i \in 1 .. Len(p) : At(padded, data.sig + i) = p[i]

(* Then it has the padded text.                                            *)
LEMMA PaddedHas ==
  ASSUME NEW s \in Seq(Byte), NEW from \in Nat, NEW data, Has(data, s, from),
         NEW padded, NEW p, PaddedWith(padded, data, p)
  PROVE  Has(padded, Joined(s, p), from)
<1> DEFINE u == Joined(s, p)
<1>1. /\ from <= Len(s) /\ data.sig = Len(s) - from
      /\ \A i \in 1 .. data.sig : At(data, i) = s[from + i]
  BY DEF Has
<1>2. /\ Tight(padded) /\ p \in Seq(Byte)
      /\ padded.sig = data.sig + Len(p)
      /\ \A i \in 1 .. data.sig : At(padded, i) = At(data, i)
      /\ \A i \in 1 .. Len(p) : At(padded, data.sig + i) = p[i]
  BY DEF PaddedWith
<1>3. /\ Len(u) = Len(s) + Len(p) /\ Len(s) \in Nat /\ Len(p) \in Nat
      /\ \A i \in 1 .. Len(s) + Len(p) : u[i] = IF i <= Len(s) THEN s[i] ELSE p[i - Len(s)]
  <2>1. Len(s) \in Nat /\ Len(p) \in Nat
    BY <1>2
  <2>2. /\ Len(u) = Len(s) + Len(p)
        /\ \A i \in 1 .. Len(s) + Len(p) : u[i] = IF i <= Len(s) THEN s[i] ELSE p[i - Len(s)]
    BY <1>2, JoinedIs
  <2> QED
    BY <2>1, <2>2
<1> HIDE DEF u
<1>4. from <= Len(u) /\ padded.sig = Len(u) - from
  BY <1>1, <1>2, <1>3
<1>5. \A i \in 1 .. padded.sig : At(padded, i) = u[from + i]
  <2> TAKE i \in 1 .. padded.sig
  <2>1. from + i \in 1 .. Len(s) + Len(p)
    BY <1>1, <1>2, <1>3
  <2>2. CASE i <= data.sig
    <3>1. i \in 1 .. data.sig /\ from + i <= Len(s)
      BY <1>1, <1>3, <2>1, <2>2
    <3> QED
      BY <1>1, <1>2, <1>3, <2>1, <3>1
  <2>3. CASE ~ (i <= data.sig)
    <3> DEFINE j == i - data.sig
    <3>1. j \in 1 .. Len(p) /\ ~ (from + i <= Len(s)) /\ (from + i) - Len(s) = j
          /\ data.sig + j = i
      BY <1>1, <1>2, <1>3, <2>1, <2>3
    <3> HIDE DEF j
    <3> QED
      BY <1>2, <1>3, <2>1, <3>1
  <2> QED
    BY <2>2, <2>3
<1> QED
  BY <1>2, <1>4, <1>5 DEF Has, u

(* The padding of the standard with a given number of zeros.               *)
NotedPadding(a, n, zeros) ==
    Joined(Joined(<<128>>, Zeros(zeros)), Note(a, n, a.block \div 8))

(* The zeros are as many as make whole blocks.                             *)
LEMMA NotedPaddingIs ==
  ASSUME NEW a \in Algos, a.length # "none", NEW n \in Nat, n < LengthLimit,
         NEW zeros \in 0 .. a.block - 1, (n + 1 + zeros + a.block \div 8) % a.block = 0
  PROVE  /\ StandardPadding(a, n) = NotedPadding(a, n, zeros)
         /\ NotedPadding(a, n, zeros) \in Seq(Byte)
         /\ Len(NotedPadding(a, n, zeros)) = 1 + zeros + a.block \div 8
         /\ \A i \in 1 .. 1 + zeros + a.block \div 8 : NotedPadding(a, n, zeros)[i] =
               IF i = 1 THEN 128 ELSE IF i <= zeros + a.block \div 8 - 7 THEN 0
               ELSE LengthByte(a, n, i - (zeros + a.block \div 8 - 7))
<1> DEFINE field == a.block \div 8
           note == Note(a, n, field)
           head == Joined(<<128>>, Zeros(zeros))
           p == NotedPadding(a, n, zeros)
           Fits(z) == (n + 1 + z + a.block \div 8) % a.block = 0
<1>1. /\ a.block \in Nat \ {0} /\ field \in Nat /\ 8 <= field
      /\ a.length # "big" => field = 8
  <2>1. /\ a.block \in Nat \ {0} /\ 64 <= a.block /\ a.length \in {"big", "little", "low", "none"}
        /\ a.length \in {"little", "low"} => a.block = 64
    BY HasherIs
  <2>2. a.length # "big" => a.block = 64
    BY <2>1
  <2>3. field \in Nat /\ 8 <= field /\ (a.block = 64 => field = 8)
    BY <2>1
  <2> QED
    BY <2>1, <2>2, <2>3
<1> HIDE DEF field
<1>2. ZerosAfter(a, n) = zeros
  <2>1. Fits(zeros)
    OBVIOUS
  <2>2. ZerosAfter(a, n) \in 0 .. a.block - 1 /\ Fits(ZerosAfter(a, n))
    BY <2>1 DEF ZerosAfter
  <2>3. \A z \in 0 .. a.block - 1 : Fits(z) => ((n + 1 + field) + z) % a.block = 0
    <3> TAKE z \in 0 .. a.block - 1
    <3>1. n + 1 + z + field = (n + 1 + field) + z
      BY <1>1
    <3> QED
      BY <3>1 DEF field
  <2> HIDE DEF Fits
  <2>4. n + 1 + field \in Nat
    BY <1>1
  <2> QED
    BY <1>1, <2>1, <2>2, <2>3, <2>4, OneFilling
<1>3. StandardPadding(a, n) = p
  <2>1. StandardPadding(a, n) = <<128>> \o Zeros(zeros) \o NotedLength(a, n)
    BY <1>2 DEF StandardPadding
  <2>2. NotedLength(a, n) = note
    BY DEF NotedLength, Note, Joined, High, Middle, Low, field
  <2> HIDE DEF note
  <2> QED
    BY <2>1, <2>2 DEF NotedPadding, Joined, note, field
<1>4. /\ note \in Seq(Byte) /\ Len(note) = field
      /\ \A i \in 1 .. field : note[i] =
            IF i <= field - 8 THEN 0 ELSE LengthByte(a, n, i - (field - 8))
  BY <1>1, NoteIs
<1>5. /\ head \in Seq(Byte) /\ Len(head) = 1 + zeros
      /\ \A i \in 1 .. 1 + zeros : head[i] = IF i = 1 THEN 128 ELSE 0
  <2> DEFINE h == <<128>>
             z == Zeros(zeros)
  <2>1. h \in Seq(Byte) /\ Len(h) = 1 /\ h[1] = 128
    BY DEF Byte
  <2>2. z \in Seq(Byte) /\ Len(z) = zeros /\ \A i \in 1 .. zeros : z[i] = 0
    BY ZerosAre
  <2> HIDE DEF h, z
  <2>3. /\ Joined(h, z) \in Seq(Byte) /\ Len(Joined(h, z)) = Len(h) + Len(z)
        /\ \A i \in 1 .. Len(h) + Len(z) :
              Joined(h, z)[i] = IF i <= Len(h) THEN h[i] ELSE z[i - Len(h)]
    BY <2>1, <2>2, JoinedIs
  <2>4. \A i \in 1 .. 1 + zeros : Joined(h, z)[i] = IF i = 1 THEN 128 ELSE 0
    BY <2>1, <2>2, <2>3
  <2>5. Joined(h, z) \in Seq(Byte) /\ Len(Joined(h, z)) = 1 + zeros
    BY <2>1, <2>2, <2>3
  <2> QED
    BY <2>4, <2>5 DEF h, z
<1>6. p = Joined(head, note)
  BY DEF NotedPadding, field
<1> HIDE DEF head, note, p
<1>7. /\ p \in Seq(Byte) /\ Len(p) = Len(head) + Len(note)
      /\ \A i \in 1 .. Len(head) + Len(note) :
            p[i] = IF i <= Len(head) THEN head[i] ELSE note[i - Len(head)]
  BY <1>4, <1>5, <1>6, JoinedIs
<1>8. \A i \in 1 .. 1 + zeros + field : p[i] =
         IF i = 1 THEN 128 ELSE IF i <= zeros + field - 7 THEN 0
         ELSE LengthByte(a, n, i - (zeros + field - 7))
  <2> TAKE i \in 1 .. 1 + zeros + field
  <2>1. CASE i <= 1 + zeros
    BY <1>1, <1>4, <1>5, <1>7, <2>1
  <2>2. CASE ~ (i <= 1 + zeros)
    <3> DEFINE j == i - (1 + zeros)
    <3>1. j \in 1 .. field /\ i # 1 /\ (j <= field - 8 <=> i <= zeros + field - 7)
          /\ j - (field - 8) = i - (zeros + field - 7)
      BY <1>1, <2>2
    <3>2. p[i] = note[j]
      BY <1>1, <1>4, <1>5, <1>7, <2>2
    <3> HIDE DEF j
    <3> QED
      BY <1>4, <3>1, <3>2
  <2> QED
    BY <2>1, <2>2
<1> QED
  BY <1>1, <1>3, <1>4, <1>5, <1>7, <1>8 DEF field, p

(* Whole blocks leave nothing.                                             *)
LEMMA WholeBlocks ==
  ASSUME NEW k \in Nat, NEW size \in Nat \ {0}
  PROVE  Times(k, size) \in Nat /\ Times(k, size) % size = 0
<1> DEFINE m == Times(k, size)
<1>1. m \in Nat /\ Times(k, size) = m
  BY TimesIs
<1> HIDE DEF m
<1>2. Times(k, size) <= m /\ m < Times(k, size) + size
  BY <1>1
<1>3. m % size = m - Times(k, size)
  BY <1>1, <1>2, QuotientIs
<1> QED
  BY <1>1, <1>3

(* The byte that is noted is one.                                          *)
LEMMA LengthByteIsAByte ==
  ASSUME NEW a, NEW n \in Nat, n < LengthLimit, NEW k \in 1 .. 8
  PROVE  LengthByte(a, n, k) \in Byte
<1>1. 0 \in Byte
  BY DEF Byte
<1>2. High(n) \in Byte /\ Middle(n) \in Byte /\ Low(n) \in Byte
  BY ThreeBytes
<1> QED
  BY <1>1, <1>2, LengthBytes

(* Up to the last block the low end of the length leaves four bytes as     *)
(* they are, which are noted as zeros elsewhere.                           *)
LEMMA LowLeavesZeros ==
  ASSUME NEW a, a.length = "low", NEW n \in Nat, n < LengthLimit, NEW k \in 5 .. 8
  PROVE  LengthByte(a, n, k) = 0
<1>1. k \in 1 .. 8 /\ a.length # "big" /\ k # 1 /\ k # 2 /\ k # 3
  OBVIOUS
<1> QED
  BY <1>1, LengthBytes

(* All but SHA-3 write the padding of the standard into the words, where   *)
(* there is nothing else.                                                  *)
LEMMA LengthPads ==
  ASSUME NEW a \in Algos, a.length # "none", NEW n \in Nat, n < LengthLimit,
         NEW data, Tight(data), ~ IsLoose(data),
         NEW q \in Nat, n = Times(q, a.block) + data.sig
  PROVE  /\ PaddedWith(PadLength(a, Buffer(data, n)), data, StandardPadding(a, n))
         /\ (n + Len(StandardPadding(a, n))) % a.block = 0
<1> DEFINE sig == data.sig
           field == a.block \div 8
           d == (sig + field) \div a.block
           end == (d + 1) * a.block
           zeros == end - sig - 1 - field
           p == StandardPadding(a, n)
<1>1. /\ a.block \in Nat \ {0} /\ a.block % 4 = 0 /\ field \in Nat /\ 8 <= field
      /\ sig \in Nat /\ IsArray(data) /\ Len(data.mem) = RoundUp(sig, 4)
  <2>1. /\ a.block \in Nat \ {0} /\ 64 <= a.block /\ a.block % 4 = 0
    BY HasherIs
  <2> QED
    BY <2>1 DEF Tight, IsArray
<1> HIDE DEF field, sig
<1>2. /\ d \in Nat /\ end = Times(d + 1, a.block) /\ end \in Nat
      /\ sig + field < end /\ end <= sig + field + a.block
  <2> DEFINE m == sig + field
  <2>1. m \in Nat /\ m = sig + field
    BY <1>1
  <2> HIDE DEF m
  <2>2. /\ m \div a.block \in Nat /\ Times(m \div a.block, a.block) <= m
        /\ m % a.block \in 0 .. a.block - 1
        /\ m % a.block = m - Times(m \div a.block, a.block)
    BY <1>1, <2>1, Quotient
  <2>3. d = m \div a.block
    BY DEF m
  <2> HIDE DEF d
  <2>4. /\ d \in Nat /\ Times(d, a.block) \in Nat
        /\ Times(d + 1, a.block) = Times(d, a.block) + a.block
    BY <1>1, <2>2, <2>3, TimesIs
  <2>5. end = Times(d + 1, a.block)
    BY DEF Times
  <2> HIDE DEF end
  <2>6. Times(d, a.block) <= m /\ m < Times(d, a.block) + a.block
    <3> DEFINE rest == m % a.block
    <3>1. rest \in 0 .. a.block - 1 /\ rest = m - Times(d, a.block)
      BY <2>2, <2>3
    <3> HIDE DEF rest
    <3> QED
      BY <1>1, <2>1, <2>4, <3>1
  <2> QED
    BY <1>1, <2>1, <2>4, <2>5, <2>6
<1>3. end % 4 = 0
  <2>1. PICK k \in Nat : a.block = 4 * k
    BY <1>1
  <2>2. end = 4 * ((d + 1) * k) /\ (d + 1) * k \in Nat
    BY <1>2, <2>1
  <2> HIDE DEF end, d
  <2> QED
    BY <2>2
<1> HIDE DEF end, d
<1>4. zeros \in 0 .. a.block - 1 /\ zeros = end - sig - 1 - field
  BY <1>1, <1>2
<1>5. n + 1 + zeros + field = Times(q + (d + 1), a.block)
  <2>1. Times(q + (d + 1), a.block) = Times(q, a.block) + end /\ Times(q, a.block) \in Nat
    <3> DEFINE e == d + 1
    <3>1. e \in Nat /\ end = Times(e, a.block)
      BY <1>2
    <3> HIDE DEF e
    <3>2. a.block \in Nat
      BY <1>1
    <3>3. Times(q + e, a.block) = Times(q, a.block) + Times(e, a.block)
      BY <3>1, <3>2, TimesAdd
    <3>4. Times(q, a.block) \in Nat
      BY <3>2, TimesIs
    <3> QED
      BY <3>1, <3>3, <3>4 DEF e
  <2> QED
    BY <1>1, <1>2, <2>1 DEF sig
<1>6. (n + 1 + zeros + field) % a.block = 0
  <2>1. q + (d + 1) \in Nat
    BY <1>2
  <2> QED
    BY <1>1, <1>5, <2>1, WholeBlocks
<1> HIDE DEF zeros
<1>7. /\ p \in Seq(Byte)
      /\ Len(p) = 1 + zeros + field
      /\ \A i \in 1 .. 1 + zeros + field : p[i] =
            IF i = 1 THEN 128 ELSE IF i <= zeros + field - 7 THEN 0
            ELSE LengthByte(a, n, i - (zeros + field - 7))
  BY <1>4, <1>6, NotedPaddingIs DEF field
<1> HIDE DEF p
<1> DEFINE noted(i) == i \in end - 7 .. (IF a.length = "low" THEN end - 4 ELSE end)
           mem == [i \in 1 .. end |->
                      IF noted(i) THEN LengthByte(a, n, i - (end - 8))
                      ELSE IF i = sig + 1 THEN SetBit(At(data, i), 128)
                      ELSE At(data, i)]
           padded == PadLength(a, Buffer(data, n))
<1>8. RoundUp(sig, 4) <= end /\ RoundUp(end, 4) = end
  BY <1>1, <1>2, <1>3, WholeWords
<1>9. padded = WordArray(mem, end)
  <2> DEFINE of(m) == WordArray([i \in 1 .. m |->
                      IF noted(i) THEN LengthByte(a, n, i - (end - 8))
                      ELSE IF i = sig + 1 THEN SetBit(At(data, i), 128)
                      ELSE At(data, i)], m)
             size == RoundUp(IF Len(data.mem) > end THEN Len(data.mem) ELSE end, 4)
  <2>1. padded = of(size)
    BY DEF PadLength, Buffer, sig, end, d, field
  <2>2. size = end
    BY <1>1, <1>2, <1>8
  <2> HIDE DEF size
  <2> QED
    BY <2>1, <2>2
<1>10. \A i \in Nat : i > sig => At(data, i) = 0
  BY <1>1, NoSlack DEF sig
<1>11. \A i \in 1 .. end : mem[i] =
          IF i <= sig THEN At(data, i)
          ELSE IF i = sig + 1 THEN 128
          ELSE IF i <= end - 8 THEN 0 ELSE LengthByte(a, n, i - (end - 8))
  <2> TAKE i \in 1 .. end
  <2>0. sig + 1 < end - 7
    BY <1>1, <1>2
  <2>1. CASE i <= sig
    BY <1>1, <1>2, <2>0, <2>1
  <2>2. CASE i = sig + 1
    <3>1. mem[i] = SetBit(At(data, i), 128)
      BY <1>1, <1>2, <2>0, <2>2
    <3>2. At(data, i) = 0
      BY <1>1, <1>10, <2>2
    <3> QED
      BY <1>1, <2>2, <3>1, <3>2, SetBits
  <2>3. CASE i > sig + 1 /\ i <= end - 8
    BY <1>1, <1>2, <1>10, <2>3
  <2>4. CASE i > sig + 1 /\ ~ (i <= end - 8)
    <3>1. CASE noted(i)
      BY <1>1, <2>4, <3>1
    <3>2. CASE ~ noted(i)
      <4>0. i \in end - 7 .. end
        BY <1>2, <2>4
      <4>1. a.length = "low" /\ i - (end - 8) \in 5 .. 8
        <5>1. a.length = "low"
          BY <3>2, <4>0
        <5>2. ~ (i \in end - 7 .. end - 4)
          BY <3>2, <5>1
        <5> QED
          BY <1>2, <4>0, <5>1, <5>2
      <4>2. LengthByte(a, n, i - (end - 8)) = 0
        BY <4>1, LowLeavesZeros
      <4>3. mem[i] = At(data, i) /\ At(data, i) = 0
        BY <1>1, <1>10, <2>4, <3>2
      <4> QED
        BY <1>1, <2>4, <4>2, <4>3
    <3> QED
      BY <3>1, <3>2
  <2> QED
    BY <1>1, <2>1, <2>2, <2>3, <2>4
<1>12. DOMAIN mem = 1 .. end
  OBVIOUS
<1> HIDE DEF noted
<1>13. mem \in Seq(Byte) /\ Len(mem) = end
  <2>1. \A i \in 1 .. end : mem[i] \in Byte
    <3> TAKE i \in 1 .. end
    <3>1. 0 \in Byte /\ 128 \in Byte
      BY DEF Byte
    <3>2. At(data, i) \in Byte
      BY <1>1, AtIsAByte
    <3>3. ~ (i <= end - 8) => LengthByte(a, n, i - (end - 8)) \in Byte
      <4>1. ~ (i <= end - 8) => i - (end - 8) \in 1 .. 8
        BY <1>2
      <4> QED
        BY <4>1, LengthByteIsAByte
    <3> QED
      BY <1>11, <3>1, <3>2, <3>3
  <2>2. mem = [i \in 1 .. end |-> mem[i]]
    OBVIOUS
  <2> HIDE DEF mem
  <2>3. mem \in [1 .. end -> Byte]
    BY <2>1, <2>2
  <2> QED
    BY <1>2, <2>3
<1> HIDE DEF mem, padded
<1>14. padded.mem = mem /\ padded.sig = end /\ Tight(padded)
  BY <1>2, <1>8, <1>9, <1>13 DEF WordArray, Tight, IsArray
<1>15. padded.sig = sig + Len(p) /\ sig + (1 + zeros + field) = end
       /\ zeros + field - 7 = (end - 8) - sig
  <2>1. Len(p) = 1 + zeros + field
    BY <1>7
  <2>2. padded.sig = end
    BY <1>14
  <2>3. sig \in Int /\ field \in Int /\ end \in Int /\ zeros \in Int
    BY <1>1, <1>2, <1>4
  <2>4. zeros = end - sig - 1 - field
    BY <1>4
  <2> QED
    BY <2>1, <2>2, <2>3, <2>4
<1>16. \A i \in 1 .. end : At(padded, i) = mem[i]
  BY <1>12, <1>14 DEF At
<1>17. \A i \in 1 .. sig : At(padded, i) = At(data, i)
  <2> TAKE i \in 1 .. sig
  <2>1. i \in 1 .. end
    BY <1>1, <1>2
  <2> QED
    BY <1>1, <1>11, <1>16, <2>1
<1>18. \A i \in 1 .. Len(p) : At(padded, sig + i) = p[i]
  <2> TAKE i \in 1 .. Len(p)
  <2>1. /\ i \in 1 .. 1 + zeros + field /\ sig + i \in 1 .. end
        /\ ~ (sig + i <= sig) /\ (sig + i = sig + 1 <=> i = 1)
        /\ (sig + i <= end - 8 <=> i <= zeros + field - 7)
        /\ (sig + i) - (end - 8) = i - (zeros + field - 7)
    <3>1. Len(p) = 1 + zeros + field
      BY <1>7
    <3>2. sig \in Nat /\ field \in Nat /\ 8 <= field /\ end \in Nat /\ zeros \in Nat
      BY <1>1, <1>2, <1>4
    <3> QED
      BY <1>15, <3>1, <3>2
  <2>2. At(padded, sig + i) =
           IF i = 1 THEN 128 ELSE IF i <= zeros + field - 7 THEN 0
           ELSE LengthByte(a, n, i - (zeros + field - 7))
    <3> DEFINE at == sig + i
    <3>1. /\ at \in 1 .. end /\ ~ (at <= sig) /\ (at = sig + 1 <=> i = 1)
          /\ (at <= end - 8 <=> i <= zeros + field - 7)
          /\ at - (end - 8) = i - (zeros + field - 7)
      BY <2>1
    <3> HIDE DEF at
    <3>2. At(padded, at) = mem[at]
      BY <1>16, <3>1
    <3>3. mem[at] = IF i = 1 THEN 128 ELSE IF i <= zeros + field - 7 THEN 0
                    ELSE LengthByte(a, n, i - (zeros + field - 7))
      <4>1. mem[at] = IF at <= sig THEN At(data, at)
                      ELSE IF at = sig + 1 THEN 128
                      ELSE IF at <= end - 8 THEN 0 ELSE LengthByte(a, n, at - (end - 8))
        BY <1>11, <3>1
      <4>2. LengthByte(a, n, at - (end - 8)) = LengthByte(a, n, i - (zeros + field - 7))
        BY <3>1
      <4> HIDE DEF mem
      <4> QED
        BY <3>1, <4>1, <4>2, Zenon
    <3> QED
      BY <3>2, <3>3 DEF at
  <2> QED
    BY <1>7, <2>1, <2>2
<1>19. PaddedWith(padded, data, p)
  BY <1>7, <1>14, <1>15, <1>17, <1>18 DEF PaddedWith, sig
<1>20. (n + Len(p)) % a.block = 0
  <2>1. n + Len(p) = n + 1 + zeros + field
    BY <1>1, <1>4, <1>7
  <2> QED
    BY <1>6, <2>1
<1> QED
  BY <1>19, <1>20 DEF padded, p

(* The padding of SHA-3, byte by byte.                                     *)
LEMMA BitPaddingIs ==
  ASSUME NEW a \in Algos, a.length = "none", NEW n \in Nat,
         NEW missing \in Nat \ {0}, missing = a.block - (n % a.block)
  PROVE  /\ StandardPadding(a, n) \in Seq(Byte)
         /\ Len(StandardPadding(a, n)) = missing
         /\ \A i \in 1 .. missing : StandardPadding(a, n)[i] =
               IF i = missing THEN IF i = 1 THEN 129 ELSE 128
               ELSE IF i = 1 THEN 1 ELSE 0
<1> DEFINE p == StandardPadding(a, n)
<1>1. CASE missing = 1
  <2>1. p = <<129>>
    BY <1>1 DEF StandardPadding
  <2>2. 129 \in Byte
    BY DEF Byte
  <2> HIDE DEF p
  <2>3. p \in Seq(Byte) /\ Len(p) = 1 /\ p[1] = 129
    BY <2>1, <2>2
  <2> QED
    BY <1>1, <2>3 DEF p
<1>2. CASE missing # 1
  <2> DEFINE z == Zeros(missing - 2)
             h == <<1>>
             e == <<128>>
             c == Joined(h, z)
  <2>1. p = Joined(c, e)
    BY <1>2 DEF StandardPadding, Joined
  <2>2. h \in Seq(Byte) /\ Len(h) = 1 /\ h[1] = 1
    BY DEF Byte
  <2>3. e \in Seq(Byte) /\ Len(e) = 1 /\ e[1] = 128
    BY DEF Byte
  <2>4. missing - 2 \in Nat
    BY <1>2
  <2>5. z \in Seq(Byte) /\ Len(z) = missing - 2 /\ \A i \in 1 .. missing - 2 : z[i] = 0
    BY <2>4, ZerosAre
  <2> HIDE DEF p, z, h, e
  <2>6. /\ c \in Seq(Byte) /\ Len(c) = Len(h) + Len(z)
        /\ \A i \in 1 .. Len(h) + Len(z) : c[i] = IF i <= Len(h) THEN h[i] ELSE z[i - Len(h)]
    BY <2>2, <2>5, JoinedIs
  <2> HIDE DEF c
  <2>7. /\ p \in Seq(Byte) /\ Len(p) = Len(c) + Len(e)
        /\ \A i \in 1 .. Len(c) + Len(e) : p[i] = IF i <= Len(c) THEN c[i] ELSE e[i - Len(c)]
    BY <2>1, <2>3, <2>6, JoinedIs
  <2>8. Len(c) = missing - 1 /\ Len(p) = missing
    BY <2>2, <2>3, <2>5, <2>6, <2>7
  <2>9. \A i \in 1 .. missing - 1 : c[i] = IF i = 1 THEN 1 ELSE 0
    BY <2>2, <2>5, <2>6
  <2>10. \A i \in 1 .. missing : p[i] =
            IF i = missing THEN IF i = 1 THEN 129 ELSE 128
            ELSE IF i = 1 THEN 1 ELSE 0
    <3> TAKE i \in 1 .. missing
    <3>1. CASE i = missing
      BY <1>2, <2>3, <2>7, <2>8, <3>1
    <3>2. CASE i # missing
      BY <2>3, <2>7, <2>8, <2>9, <3>2
    <3> QED
      BY <3>1, <3>2
  <2> QED
    BY <2>7, <2>8, <2>10 DEF p
<1> QED
  BY <1>1, <1>2

(* SHA-3 sets its two bits as the standard does.                           *)
LEMMA BitsPad ==
  ASSUME NEW a \in Algos, a.length = "none", NEW n \in Nat,
         NEW data, Tight(data), ~ IsLoose(data),
         NEW q \in Nat, n = Times(q, a.block) + data.sig
  PROVE  /\ PaddedWith(PadBits(a, Buffer(data, n)), data, StandardPadding(a, n))
         /\ (n + Len(StandardPadding(a, n))) % a.block = 0
<1> DEFINE sig == data.sig
           d == sig \div a.block
           end == (d + 1) * a.block
           missing == end - sig
           p == StandardPadding(a, n)
<1>1. /\ a.block \in Nat \ {0} /\ a.block % 4 = 0
      /\ sig \in Nat /\ IsArray(data) /\ Len(data.mem) = RoundUp(sig, 4)
  <2>1. a.block \in Nat \ {0} /\ a.block % 4 = 0
    BY HasherIs
  <2> QED
    BY <2>1 DEF Tight, IsArray
<1> HIDE DEF sig
<1>2. /\ d \in Nat /\ end = Times(d + 1, a.block) /\ end \in Nat
      /\ sig < end /\ end <= sig + a.block /\ sig % a.block = sig - (end - a.block)
  <2>1. /\ d \in Nat /\ Times(d, a.block) <= sig
        /\ sig % a.block \in 0 .. a.block - 1
        /\ sig % a.block = sig - Times(d, a.block)
    BY <1>1, Quotient
  <2> HIDE DEF d
  <2>2. Times(d, a.block) \in Nat /\ Times(d + 1, a.block) = Times(d, a.block) + a.block
    BY <1>1, <2>1, TimesIs
  <2>3. end = Times(d + 1, a.block)
    BY DEF Times
  <2> HIDE DEF end
  <2> QED
    BY <1>1, <2>1, <2>2, <2>3
<1>3. end % 4 = 0
  <2>1. PICK k \in Nat : a.block = 4 * k
    BY <1>1
  <2>2. end = 4 * ((d + 1) * k) /\ (d + 1) * k \in Nat
    BY <1>2, <2>1
  <2> HIDE DEF end, d
  <2> QED
    BY <2>2
<1> HIDE DEF end, d
<1>4. missing \in Nat \ {0} /\ missing = end - sig
  BY <1>1, <1>2
<1>5. n % a.block = sig % a.block
  <2>1. Times(q, a.block) \in Nat /\ Times(q, a.block) <= n /\ n - Times(q, a.block) = sig
    <3>1. a.block \in Nat /\ sig \in Nat
      BY <1>1
    <3>2. Times(q, a.block) \in Nat
      BY <3>1, TimesIs
    <3>3. n = Times(q, a.block) + sig
      BY DEF sig
    <3> QED
      BY <3>1, <3>2, <3>3
  <2> QED
    BY <1>1, <2>1, QuotientShifts
<1>6. missing = a.block - (n % a.block)
  BY <1>1, <1>2, <1>4, <1>5
<1> HIDE DEF missing
<1>7. /\ p \in Seq(Byte) /\ Len(p) = missing
      /\ \A i \in 1 .. missing : p[i] =
            IF i = missing THEN IF i = 1 THEN 129 ELSE 128
            ELSE IF i = 1 THEN 1 ELSE 0
  BY <1>4, <1>6, BitPaddingIs
<1> HIDE DEF p
<1>8. (n + Len(p)) % a.block = 0
  <2> DEFINE e == d + 1
  <2>1. e \in Nat /\ end = Times(e, a.block)
    BY <1>2
  <2> HIDE DEF e
  <2>2. a.block \in Nat
    BY <1>1
  <2>3. Times(q + e, a.block) = Times(q, a.block) + Times(e, a.block)
    BY <2>1, <2>2, TimesAdd
  <2>4. Times(q, a.block) \in Nat /\ n = Times(q, a.block) + sig
    BY <2>2, TimesIs DEF sig
  <2>5. n + Len(p) = Times(q + e, a.block)
    BY <1>1, <1>2, <1>4, <1>7, <2>1, <2>3, <2>4
  <2>6. q + e \in Nat
    BY <2>1
  <2> QED
    BY <1>1, <2>5, <2>6, WholeBlocks
<1> DEFINE first(i) == IF i = sig + 1 THEN SetBit(At(data, i), 1) ELSE At(data, i)
           mem == [i \in 1 .. end |-> IF i = end THEN SetBit(first(i), 128) ELSE first(i)]
           padded == PadBits(a, Buffer(data, n))
<1>9. RoundUp(sig, 4) <= end /\ RoundUp(end, 4) = end
  BY <1>1, <1>2, <1>3, WholeWords
<1>10. padded = WordArray(mem, end)
  <2> DEFINE of(m) == WordArray([i \in 1 .. m |->
                         IF i = end THEN SetBit(first(i), 128) ELSE first(i)], m)
             size == IF Len(data.mem) > end THEN Len(data.mem) ELSE end
  <2>1. padded = of(size)
    BY DEF PadBits, Buffer, sig, end, d
  <2>2. size = end
    BY <1>1, <1>2, <1>9
  <2> HIDE DEF size
  <2> QED
    BY <2>1, <2>2
<1>11. \A i \in Nat : i > sig => At(data, i) = 0
  BY <1>1, NoSlack DEF sig
<1>12. \A i \in 1 .. end : mem[i] =
          IF i <= sig THEN At(data, i)
          ELSE IF i = end THEN IF i = sig + 1 THEN 129 ELSE 128
          ELSE IF i = sig + 1 THEN 1 ELSE 0
  <2> TAKE i \in 1 .. end
  <2>1. CASE i <= sig
    BY <1>1, <1>2, <2>1
  <2>2. CASE ~ (i <= sig)
    <3>1. At(data, i) = 0
      BY <1>1, <1>11, <2>2
    <3>2. first(i) = IF i = sig + 1 THEN 1 ELSE 0
      BY <3>1, SetBits
    <3> HIDE DEF first
    <3>3. mem[i] = IF i = end THEN SetBit(first(i), 128) ELSE first(i)
      OBVIOUS
    <3> QED
      BY <2>2, <3>2, <3>3, SetBits
  <2> QED
    BY <2>1, <2>2
<1>13. DOMAIN mem = 1 .. end
  OBVIOUS
<1> HIDE DEF first
<1>14. mem \in Seq(Byte) /\ Len(mem) = end
  <2>1. \A i \in 1 .. end : mem[i] \in Byte
    <3> TAKE i \in 1 .. end
    <3>1. 0 \in Byte /\ 1 \in Byte /\ 128 \in Byte /\ 129 \in Byte
      BY DEF Byte
    <3>2. At(data, i) \in Byte
      BY <1>1, AtIsAByte
    <3> QED
      BY <1>12, <3>1, <3>2
  <2>2. mem = [i \in 1 .. end |-> mem[i]]
    OBVIOUS
  <2> HIDE DEF mem
  <2>3. mem \in [1 .. end -> Byte]
    BY <2>1, <2>2
  <2> QED
    BY <1>2, <2>3
<1> HIDE DEF mem, padded
<1>15. padded.mem = mem /\ padded.sig = end /\ Tight(padded)
  BY <1>2, <1>9, <1>10, <1>14 DEF WordArray, Tight, IsArray
<1>16. padded.sig = sig + Len(p)
  BY <1>1, <1>2, <1>4, <1>7, <1>15
<1>17. \A i \in 1 .. end : At(padded, i) = mem[i]
  BY <1>13, <1>15 DEF At
<1>18. \A i \in 1 .. sig : At(padded, i) = At(data, i)
  <2> TAKE i \in 1 .. sig
  <2>1. i \in 1 .. end
    BY <1>1, <1>2
  <2> QED
    BY <1>1, <1>12, <1>17, <2>1
<1>19. \A i \in 1 .. Len(p) : At(padded, sig + i) = p[i]
  <2> TAKE i \in 1 .. Len(p)
  <2> DEFINE at == sig + i
  <2>1. /\ at \in 1 .. end /\ ~ (at <= sig) /\ (at = sig + 1 <=> i = 1)
        /\ (at = end <=> i = missing) /\ i \in 1 .. missing
    <3>1. sig \in Nat /\ end \in Nat /\ missing = end - sig
      BY <1>1, <1>2, <1>4
    <3>2. Len(p) = missing
      BY <1>7
    <3> QED
      BY <3>1, <3>2
  <2> HIDE DEF at
  <2>2. At(padded, at) = mem[at]
    BY <1>17, <2>1
  <2>3. mem[at] = IF i = missing THEN IF i = 1 THEN 129 ELSE 128
                  ELSE IF i = 1 THEN 1 ELSE 0
    BY <1>12, <2>1
  <2> QED
    BY <1>7, <2>1, <2>2, <2>3 DEF at
<1>20. PaddedWith(padded, data, p)
  BY <1>7, <1>15, <1>16, <1>18, <1>19 DEF PaddedWith, sig
<1> QED
  BY <1>8, <1>20 DEF padded, p

-----------------------------------------------------------------------------
(* Finalize                                                                *)

Padded(a, s) == Joined(s, StandardPadding(a, Len(s)))

PaddedArray(a, buffer) ==
    IF a.length = "none" THEN PadBits(a, buffer) ELSE PadLength(a, buffer)

(* Whichever way a hasher pads, it pads as the standard does, unless bytes *)
(* lie past the significant ones.                                          *)
LEMMA PadIs ==
  ASSUME NEW a \in Algos, NEW s \in Seq(Byte), Len(s) < LengthLimit, NEW q \in Nat,
         NEW h, Hashing(a, h, s, q), ~ IsLoose(h.buffer.data)
  PROVE  /\ PaddedWith(PaddedArray(a, h.buffer), h.buffer.data, StandardPadding(a, Len(s)))
         /\ (Len(s) + Len(StandardPadding(a, Len(s)))) % a.block = 0
<1> DEFINE data == h.buffer.data
           n == Len(s)
<1>1. h.buffer = Buffer(data, n) /\ Has(data, s, Times(q, a.block))
  <2>1. h = [buffer |-> Buffer(data, n), state |-> State(a, s, q)]
        /\ Has(data, s, Times(q, a.block))
    BY DEF Hashing
  <2> HIDE DEF data
  <2> QED
    BY <2>1
<1>2. Tight(data) /\ n = Times(q, a.block) + data.sig /\ n \in Nat /\ n < LengthLimit
  <2>1. Times(q, a.block) \in Nat
    BY HasherIs, TimesIs
  <2> QED
    BY <1>1, <2>1 DEF Has
<1>3. ~ IsLoose(data)
  OBVIOUS
<1> HIDE DEF data, n
<1>4. CASE a.length = "none"
  BY <1>1, <1>2, <1>3, <1>4, BitsPad DEF PaddedArray, data, n
<1>5. CASE a.length # "none"
  BY <1>1, <1>2, <1>3, <1>5, LengthPads DEF PaddedArray, data, n
<1> QED
  BY <1>4, <1>5

(* A block of the standard is the block of the array.                      *)
LEMMA BlocksAreAlike ==
  ASSUME NEW a \in Algos, NEW u \in Seq(Byte),
         NEW k \in Nat, NEW last \in Nat, last = k + 1, last <= Len(u) \div a.block
  PROVE  SubSeq(u, k * a.block + 1, last * a.block) = BlockAt(OfBytes(u), k, a.block)
<1> DEFINE from == Times(k, a.block)
           to == Times(last, a.block)
           b == SubSeq(u, from + 1, to)
           c == BlockAt(OfBytes(u), k, a.block)
<1>1. a.block \in Nat \ {0} /\ from \in Nat /\ to \in Nat /\ to = from + a.block
  <2>1. a.block \in Nat \ {0}
    BY HasherIs
  <2> QED
    BY <2>1, TimesIs
<1>2. to <= Len(u) /\ Len(u) \in Nat
  <2> DEFINE m == Len(u) \div a.block
  <2>1. Len(u) \in Nat
    OBVIOUS
  <2>2. m \in Nat /\ Times(m, a.block) <= Len(u) /\ Times(m, a.block) \in Nat /\ last <= m
    BY <1>1, <2>1, Quotient, TimesIs
  <2> HIDE DEF m
  <2>3. to <= Times(m, a.block)
    BY <1>1, <2>2, TimesGrow
  <2> HIDE DEF to
  <2> QED
    BY <1>1, <2>1, <2>2, <2>3
<1>3. c \in Seq(Byte) /\ Len(c) = a.block
      /\ \A i \in 1 .. a.block : c[i] = At(OfBytes(u), from + i)
  <2> DEFINE array == OfBytes(u)
  <2>1. IsArray(array) /\ a.block \in Nat
    BY <1>1, OfBytesIs
  <2> HIDE DEF array
  <2>2. IsBlock(BlockAt(array, k, a.block), array, k, a.block)
    BY <2>1, BlockIs
  <2> QED
    BY <2>2 DEF IsBlock, array
<1>4. \A i \in 1 .. Len(u) : At(OfBytes(u), i) = u[i]
  BY OfBytesIs
<1> HIDE DEF c, from, to
<1>5. b \in Seq(Byte) /\ Len(b) = a.block
      /\ \A i \in 1 .. a.block : b[i] = u[from + i]
  <2>1. b \in Seq(Byte)
    BY <1>1, <1>2
  <2>2. Len(b) = a.block
    BY <1>1, <1>2
  <2>3. \A i \in 1 .. a.block : b[i] = u[from + i]
    <3> TAKE i \in 1 .. a.block
    <3>1. i \in 1 .. to - (from + 1) + 1 /\ (from + 1) + i - 1 = from + i
      BY <1>1
    <3> QED
      BY <1>1, <1>2, <3>1
  <2> QED
    BY <2>1, <2>2, <2>3
<1> HIDE DEF b
<1>6. \A i \in 1 .. a.block : b[i] = c[i]
  <2> TAKE i \in 1 .. a.block
  <2>1. from + i \in 1 .. Len(u)
    BY <1>1, <1>2
  <2> QED
    BY <1>3, <1>4, <1>5, <2>1
<1>7. b = c
  BY <1>3, <1>5, <1>6, SeqEqual
<1> QED
  BY <1>7 DEF b, c, from, to, Times

(* The states of the standard are the states of the chain.                 *)
LEMMA StandardStates ==
  ASSUME NEW a \in Algos, NEW u \in Seq(Byte), NEW last \in Nat, last = Len(u) \div a.block,
         NEW f, f = [k \in 0 .. last |->
                        IF k = 0 THEN InitialState
                        ELSE Compress(f[k - 1],
                                      SubSeq(u, (k - 1) * a.block + 1, k * a.block))],
         IsACompression
  PROVE  f[last] = State(a, u, last)
<1> DEFINE T == {k \in Nat : k <= last => f[k] = State(a, u, k)}
<1>1. 0 \in T
  <2>1. State(a, u, 0) = InitialState
    BY StatesAre
  <2>2. f[0] = InitialState
    OBVIOUS
  <2> QED
    BY <2>1, <2>2
<1>2. \A k \in Nat : k \in T => k + 1 \in T
  <2> TAKE k \in Nat
  <2>1. SUFFICES ASSUME k \in T, k + 1 <= last
                 PROVE  f[k + 1] = State(a, u, k + 1)
    OBVIOUS
  <2> DEFINE j == k + 1
  <2>2. j \in 1 .. last /\ j - 1 = k /\ j = k + 1 /\ j \in Nat
    BY <2>1
  <2> HIDE DEF j
  <2>3. f[k] = State(a, u, k)
    BY <2>1, <2>2
  <2>4. f[j] = Compress(f[j - 1], SubSeq(u, (j - 1) * a.block + 1, j * a.block))
    BY <2>2
  <2>5. SubSeq(u, k * a.block + 1, j * a.block) = BlockAt(OfBytes(u), k, a.block)
    BY <2>2, BlocksAreAlike
  <2>6. State(a, u, j) = Compress(State(a, u, k), BlockAt(OfBytes(u), k, a.block))
    BY <2>2, StateGoesOn
  <2> QED
    BY <2>2, <2>3, <2>4, <2>5, <2>6 DEF j
<1> HIDE DEF T
<1>3. last \in T
  BY <1>1, <1>2, Run!SetOfAllNumbers, PushLimitAssumption
<1> QED
  BY <1>3 DEF T

(* So the hash of the standard is what the states of the padded text lead  *)
(* to.                                                                     *)
LEMMA StandardHashIs ==
  ASSUME IsACompression, NEW a \in Algos, NEW s \in Seq(Byte),
         StandardPadding(a, Len(s)) \in Seq(Byte)
  PROVE  LET u == Padded(a, s)
         IN  StandardHash(a, s) =
                SubSeq(StateBytes(State(a, u, Len(u) \div a.block), a.full), 1, a.size)
<1> DEFINE u == Padded(a, s)
           last == Len(u) \div a.block
           Is(f) == f = [k \in 0 .. last |->
                            IF k = 0 THEN InitialState
                            ELSE Compress(f[k - 1],
                                          SubSeq(u, (k - 1) * a.block + 1, k * a.block))]
           states == CHOOSE f : Is(f)
           g == [k \in 0 .. last |-> State(a, u, k)]
<1>1. u \in Seq(Byte)
  BY JoinedIs DEF Padded
<1>2. last \in Nat
  <2>1. Len(u) \in Nat
    BY <1>1
  <2> QED
    BY <2>1, HasherIs, Quotient
<1>3. StandardHash(a, s) = SubSeq(StateBytes(states[last], a.full), 1, a.size)
  BY DEF StandardHash, Padded, Joined
<1> HIDE DEF u, last
<1>4. Is(g)
  <2> DEFINE next(k) == IF k = 0 THEN InitialState
                        ELSE Compress(g[k - 1],
                                      SubSeq(u, (k - 1) * a.block + 1, k * a.block))
  <2>1. \A k \in 0 .. last : State(a, u, k) = next(k)
    <3> TAKE k \in 0 .. last
    <3>1. CASE k = 0
      BY <1>1, <3>1, StatesAre
    <3>2. CASE k # 0
      <4> DEFINE j == k - 1
      <4>1. j \in Nat /\ k = j + 1 /\ j \in 0 .. last /\ k \in Nat /\ k <= last
        BY <1>2, <3>2
      <4>2. g[j] = State(a, u, j)
        BY <4>1
      <4> HIDE DEF j, g
      <4>3. State(a, u, k) = Compress(State(a, u, j), BlockAt(OfBytes(u), j, a.block))
        BY <4>1, StateGoesOn
      <4>4. SubSeq(u, j * a.block + 1, k * a.block) = BlockAt(OfBytes(u), j, a.block)
        BY <1>1, <4>1, BlocksAreAlike DEF last
      <4>5. next(k) = Compress(g[j], SubSeq(u, j * a.block + 1, k * a.block))
        BY <3>2 DEF j
      <4> QED
        BY <4>2, <4>3, <4>4, <4>5
    <3> QED
      BY <3>1, <3>2
  <2> HIDE DEF next
  <2>2. g = [k \in 0 .. last |-> next(k)]
    BY <2>1
  <2> HIDE DEF g
  <2> QED
    BY <2>2 DEF next
<1>5. Is(states)
  <2> HIDE DEF Is, g
  <2> QED
    BY <1>4
<1> HIDE DEF states
<1>6. states[last] = State(a, u, last)
  BY <1>1, <1>2, <1>5, StandardStates DEF last
<1> QED
  BY <1>3, <1>6 DEF u, last

(* Finalize leads there.                                                   *)
LEMMA FinalStateIs ==
  ASSUME IsACompression, NEW a \in Algos,
         NEW s \in Seq(Byte), Len(s) < LengthLimit, NEW q \in Nat,
         NEW h, Hashing(a, h, s, q), ~ IsLoose(h.buffer.data)
  PROVE  /\ StandardPadding(a, Len(s)) \in Seq(Byte)
         /\ Finalized(a, h).state = State(a, Padded(a, s), Len(Padded(a, s)) \div a.block)
<1> DEFINE p == StandardPadding(a, Len(s))
           u == Padded(a, s)
           data == h.buffer.data
           array == PaddedArray(a, h.buffer)
           from == Times(q, a.block)
           last == Len(u) \div a.block
           ready == array.sig \div a.block
<1>1. PaddedWith(array, data, p)
  BY PadIs
<1>2. p \in Seq(Byte) /\ u \in Seq(Byte) /\ Tight(array) /\ array.sig \in Nat
  <2>1. p \in Seq(Byte) /\ Tight(array)
    BY <1>1 DEF PaddedWith
  <2>2. u \in Seq(Byte)
    BY <2>1, JoinedIs DEF Padded
  <2> QED
    BY <2>1, <2>2 DEF Tight, IsArray
<1>3. /\ h.buffer = Buffer(data, Len(s)) /\ h.state = State(a, s, q)
      /\ Has(data, s, from)
  <2>1. h = [buffer |-> Buffer(data, Len(s)), state |-> State(a, s, q)]
        /\ Has(data, s, from)
    BY DEF Hashing
  <2> HIDE DEF data
  <2> QED
    BY <2>1
<1>4. a.block \in Nat \ {0} /\ from \in Nat
  BY HasherIs, TimesIs
<1>5. Has(array, u, from)
  BY <1>1, <1>3, <1>4, PaddedHas DEF Padded
<1>6. Finalized(a, h) = Absorbed(a, Buffer(array, Len(s)), State(a, s, q))
  BY <1>3 DEF Finalized, PaddedArray, Buffer
<1> HIDE DEF p, u, array, data, from
<1>7. Absorbed(a, Buffer(array, Len(s)), State(a, s, q)).state =
         Run!Chain(a, array, a.block, State(a, s, q), ready).reg
  BY <1>2, <1>4, AbsorbedIs
<1>8. State(a, u, q) = State(a, s, q)
  <2>1. Times(q, a.block) <= Len(s)
    BY <1>3 DEF Has, from
  <2> QED
    BY <1>2, <2>1, StatesAgree DEF u, p, Padded
<1>9. last \in Nat /\ ready \in Nat /\ last = q + ready /\ Times(last, a.block) <= Len(u)
  <2>1. Len(u) \in Nat /\ from <= Len(u) /\ array.sig = Len(u) - from
    BY <1>2, <1>5 DEF Has
  <2>2. q <= last /\ (Len(u) - from) \div a.block = last - q
    BY <1>4, <2>1, QuotientShifts DEF from
  <2>3. last \in Nat /\ Times(last, a.block) <= Len(u)
    BY <1>4, <2>1, Quotient
  <2>4. ready = last - q
    BY <2>1, <2>2
  <2> HIDE DEF ready, last
  <2> QED
    BY <2>2, <2>3, <2>4
<1> HIDE DEF last, ready
<1>10. GoesOn(a, u, array, q, ready, last)
  BY <1>2, <1>5, <1>9, StatesGoOn DEF from
<1> QED
  BY <1>2, <1>6, <1>7, <1>8, <1>10 DEF GoesOn, u, last, p

(* Finalize makes of a hasher the hash of what it was given.               *)
LEMMA FinalizedIs ==
  ASSUME IsACompression, NEW a \in Algos,
         NEW s \in Seq(Byte), Len(s) < LengthLimit, NEW q \in Nat,
         NEW h, Hashing(a, h, s, q), ~ IsLoose(h.buffer.data)
  PROVE  LET digest == DigestOf(a, Finalized(a, h))
         IN  /\ digest.mem \in Seq(Byte) /\ Len(digest.mem) = a.full /\ digest.sig = a.size
             /\ Bytes(digest) = StandardHash(a, s)
<1> DEFINE u == Padded(a, s)
           last == Len(u) \div a.block
           mem == StateBytes(State(a, u, last), a.full)
           digest == DigestOf(a, Finalized(a, h))
<1>1. StandardPadding(a, Len(s)) \in Seq(Byte) /\ Finalized(a, h).state = State(a, u, last)
  BY FinalStateIs
<1>2. StandardHash(a, s) = SubSeq(mem, 1, a.size)
  BY <1>1, StandardHashIs
<1>3. digest = WordArray(mem, a.size)
  BY <1>1 DEF DigestOf
<1>4. u \in Seq(Byte) /\ last \in Nat
  <2>1. u \in Seq(Byte)
    BY <1>1, JoinedIs DEF Padded
  <2>2. Len(u) \in Nat
    BY <2>1
  <2> QED
    BY <2>1, <2>2, HasherIs, Quotient
<1>5. mem \in Seq(Byte) /\ Len(mem) = a.full
  BY <1>4, StatesAre
<1>6. a.size \in 0 .. Len(mem)
  BY <1>5, HasherIs
<1> HIDE DEF mem, digest
<1>7. Bytes(WordArray(mem, a.size)) = SubSeq(mem, 1, a.size)
  BY <1>5, <1>6, BytesAre
<1>8. digest.mem = mem /\ digest.sig = a.size
  BY <1>3 DEF WordArray
<1> QED
  BY <1>2, <1>3, <1>5, <1>7, <1>8 DEF digest

-----------------------------------------------------------------------------
(* The key of an HMAC                                                      *)

(* What the exclusive or of bytes is, bit by bit.                          *)
NibbleOf(m, n, k) == ((m \div k + n \div k) % 2) * k

(* The exclusive or of bytes is a byte.                                    *)
LEMMA XorIsAByte ==
  ASSUME NEW m \in Byte, NEW n \in Byte
  PROVE  Xor(m, n) \in Byte
<1> DEFINE Nibble == 0 .. 15
           h == NibbleXor[m \div 16][n \div 16]
           l == NibbleXor[m % 16][n % 16]
<1>1. m \div 16 \in Nibble /\ n \div 16 \in Nibble /\ m % 16 \in Nibble /\ n % 16 \in Nibble
  BY DEF Byte
<1>2. \A i, j \in Nibble : NibbleXor[i][j] \in Nibble
  <2> TAKE i, j \in Nibble
  <2>1. NibbleXor[i][j] =
           NibbleOf(i, j, 1) + NibbleOf(i, j, 2) + NibbleOf(i, j, 4) + NibbleOf(i, j, 8)
    BY DEF NibbleXor, NibbleOf
  <2> QED
    BY <2>1 DEF NibbleOf
<1>3. h \in Nibble /\ l \in Nibble
  BY <1>1, <1>2
<1>4. Xor(m, n) = 16 * h + l
  BY DEF Xor
<1> HIDE DEF h, l
<1> QED
  BY <1>3, <1>4 DEF Byte

(* The significant bytes of an array, one by one.                          *)
LEMMA BytesAt ==
  ASSUME NEW data, IsArray(data)
  PROVE  /\ Bytes(data) \in Seq(Byte) /\ Len(Bytes(data)) = data.sig
         /\ \A i \in 1 .. data.sig : Bytes(data)[i] = At(data, i)
<1> DEFINE n == data.sig
           b == Slice(data, 0, n)
<1>1. n \in Nat /\ Bytes(data) = b
  BY DEF IsArray, Bytes
<1> HIDE DEF n
<1>2. b \in Seq(Byte) /\ Len(b) = n - 0 /\ \A i \in 1 .. n - 0 : b[i] = At(data, 0 + i)
  <2>1. 0 \in Nat /\ 0 <= n
    BY <1>1
  <2> QED
    BY <1>1, <2>1, SliceIs
<1> HIDE DEF b
<1>3. Len(b) = n /\ \A i \in 1 .. n : b[i] = At(data, i)
  BY <1>1, <1>2
<1> QED
  BY <1>1, <1>2, <1>3 DEF n

(* What is appended to nothing is as it was.                               *)
LEMMA ConcatToNothing ==
  ASSUME NEW data, Tight(data)
  PROVE  /\ Concat(NoWords, data).sig = data.sig
         /\ Concat(NoWords, data).mem = data.mem
<1> DEFINE clamped == Clamp(NoWords).mem
           m == RoundUp(data.sig, 4)
           t == Slice(data, 0, m)
<1>1. /\ IsArray(data) /\ data.mem \in Seq(Byte) /\ data.sig \in Nat /\ Len(data.mem) = m
  BY DEF Tight, IsArray
<1>2. clamped = << >>
  BY DEF Clamp, NoWords, WordArray, RoundUp
<1>3. Concat(NoWords, data) =
         WordArray(IF Len(data.mem) \div 4 > PushLimit THEN clamped \o t
                   ELSE clamped \o data.mem, 0 + data.sig)
  BY DEF Concat, NoWords, WordArray
<1>4. m \in Nat
  BY <1>1 DEF RoundUp
<1> HIDE DEF clamped, m
<1>5. t \in Seq(Byte) /\ Len(t) = m - 0 /\ \A i \in 1 .. m - 0 : t[i] = At(data, 0 + i)
  <2>1. 0 \in Nat /\ 0 <= m
    BY <1>4
  <2> QED
    BY <1>1, <1>4, <2>1, SliceIs
<1> HIDE DEF t
<1>6. t = data.mem
  <2>1. Len(t) = Len(data.mem)
    BY <1>1, <1>4, <1>5
  <2>2. \A i \in 1 .. Len(t) : t[i] = data.mem[i]
    <3> TAKE i \in 1 .. Len(t)
    <3>1. i \in DOMAIN data.mem /\ i \in 1 .. m - 0 /\ 0 + i = i
      BY <1>1, <1>4, <1>5, <2>1
    <3> QED
      BY <1>5, <3>1 DEF At
  <2> QED
    BY <1>1, <1>5, <2>1, <2>2, SeqEqual
<1>7. clamped \o data.mem = data.mem
  BY <1>1, <1>2, ConcatEmptySeq
<1>8. Concat(NoWords, data) = WordArray(data.mem, 0 + data.sig)
  BY <1>3, <1>6, <1>7
<1> QED
  BY <1>1, <1>8 DEF WordArray

(* A new hasher that is given a piece has been given it, and it has slack  *)
(* where the piece has.                                                    *)
LEMMA FirstPieceHashes ==
  ASSUME IsACompression, NEW a \in Algos, NEW t \in Seq(Byte),
         NEW piece, IsPiece(piece, t)
  PROVE  /\ Hashing(a, WithPiece(NewHasher, piece), t, 0)
         /\ IsLoose(WithPiece(NewHasher, piece).buffer.data) <=> IsLoose(piece)
<1>1. Hashing(a, NewHasher, << >>, 0)
  BY NewHasherHashes
<1>2. << >> \in Seq(Byte) /\ 0 \in Nat /\ Joined(<< >>, t) = t
  BY JoinedEnds
<1>3. Hashing(a, WithPiece(NewHasher, piece), Joined(<< >>, t), 0)
  BY <1>1, <1>2, WithPieceHashes
<1>4. WithPiece(NewHasher, piece).buffer.data = Concat(NoWords, piece)
  BY DEF WithPiece, NewHasher, AppendTo, EmptyBuffer
<1>5. Concat(NoWords, piece).sig = piece.sig /\ Concat(NoWords, piece).mem = piece.mem
  BY ConcatToNothing DEF IsPiece
<1> QED
  BY <1>2, <1>3, <1>4, <1>5 DEF IsLoose

(* The key as a block of the standard, and its two pads.                   *)
Short(a, k) == IF Len(k) > a.block THEN StandardHash(a, k) ELSE k

KeyBlock(a, k) == Joined(Short(a, k), Zeros(a.block - Len(Short(a, k))))

PadOf(a, k, constant) == [i \in 1 .. a.block |-> Xor(KeyBlock(a, k)[i], constant)]

(* What is clamped is filled up with zeros.                                *)
LEMMA ClampedFillsUp ==
  ASSUME NEW data, IsArray(data), NEW size \in Nat, data.sig <= size
  PROVE  LET block == Joined(Bytes(data), Zeros(size - Len(Bytes(data))))
         IN  /\ block \in Seq(Byte) /\ Len(block) = size
             /\ \A i \in 1 .. size : At(Clamp(data), i) = block[i]
<1> DEFINE s == Bytes(data)
           z == Zeros(size - Len(s))
           block == Joined(s, z)
<1>1. s \in Seq(Byte) /\ Len(s) = data.sig /\ \A i \in 1 .. data.sig : s[i] = At(data, i)
  BY BytesAt
<1>2. data.sig \in Nat
  BY DEF IsArray
<1> HIDE DEF s
<1>3. size - Len(s) \in Nat
  BY <1>1, <1>2
<1>4. z \in Seq(Byte) /\ Len(z) = size - Len(s) /\ \A i \in 1 .. size - Len(s) : z[i] = 0
  BY <1>3, ZerosAre
<1> HIDE DEF z
<1>5. /\ block \in Seq(Byte) /\ Len(block) = Len(s) + Len(z)
      /\ \A i \in 1 .. Len(s) + Len(z) :
            block[i] = IF i <= Len(s) THEN s[i] ELSE z[i - Len(s)]
  BY <1>1, <1>4, JoinedIs
<1> HIDE DEF block
<1>6. \A i \in Nat \ {0} : At(Clamp(data), i) = IF i <= data.sig THEN At(data, i) ELSE 0
  BY ClampIs
<1>7. \A i \in 1 .. size : At(Clamp(data), i) = block[i]
  <2> TAKE i \in 1 .. size
  <2>1. CASE i <= data.sig
    <3>1. At(Clamp(data), i) = At(data, i)
      BY <1>6, <2>1
    <3>2. i \in 1 .. Len(s) + Len(z) /\ i \in 1 .. data.sig /\ i <= Len(s)
      BY <1>1, <1>2, <1>4, <2>1
    <3> QED
      BY <1>1, <1>5, <3>1, <3>2
  <2>2. CASE ~ (i <= data.sig)
    <3>1. At(Clamp(data), i) = 0
      BY <1>6, <2>2
    <3>2. i \in 1 .. Len(s) + Len(z) /\ ~ (i <= Len(s)) /\ i - Len(s) \in 1 .. size - Len(s)
      BY <1>1, <1>2, <1>4, <2>2
    <3> QED
      BY <1>4, <1>5, <3>1, <3>2
  <2> QED
    BY <2>1, <2>2
<1> QED
  BY <1>1, <1>3, <1>4, <1>5, <1>7 DEF block, z, s

(* A key that has to be hashed can be.                                     *)
KeyFits(a, k) == k.sig > a.block => ~ IsLoose(k)

(* A key has no more words than its bytes take.                            *)
LEMMA KeyIsAPiece ==
  ASSUME NEW k \in Keys
  PROVE  /\ IsArray(k) /\ k.sig \in Nat /\ k.sig < LengthLimit
         /\ Bytes(k) \in Seq(Byte) /\ Len(Bytes(k)) = k.sig
         /\ IsPiece(k, Bytes(k))
<1>1. /\ k.mem \in Seq(Byte) /\ k.sig \in Nat /\ k.sig < LengthLimit
      /\ Len(k.mem) = RoundUp(k.sig, 4)
  BY HashAssumption DEF HashAssumption
<1>2. IsArray(k)
  BY <1>1 DEF IsArray
<1>3. /\ Bytes(k) \in Seq(Byte) /\ Len(Bytes(k)) = k.sig
      /\ \A i \in 1 .. k.sig : Bytes(k)[i] = At(k, i)
  BY <1>2, BytesAt
<1> QED
  BY <1>1, <1>2, <1>3 DEF IsPiece, Tight

(* The key that is used fills a block up with zeros.                       *)
LEMMA MacKeyIs ==
  ASSUME IsACompression, NEW a \in Algos, NEW k \in Keys, KeyFits(a, k)
  PROVE  /\ IsArray(MacKey(a, k))
         /\ KeyBlock(a, Bytes(k)) \in Seq(Byte) /\ Len(KeyBlock(a, Bytes(k))) = a.block
         /\ \A i \in 1 .. a.block : At(MacKey(a, k), i) = KeyBlock(a, Bytes(k))[i]
<1> DEFINE s == Bytes(k)
           digest == Digest(a, NewHasher, k)
           used == IF k.sig > a.block THEN digest ELSE k
<1>1. /\ IsArray(k) /\ k.sig \in Nat /\ k.sig < LengthLimit
      /\ s \in Seq(Byte) /\ Len(s) = k.sig /\ IsPiece(k, s)
  BY KeyIsAPiece
<1>2. a.block \in Nat /\ a.full \in Nat /\ a.full <= a.block /\ a.size \in 1 .. a.full
  BY HasherIs
<1>3. MacKey(a, k) = Clamp(used)
  BY DEF MacKey
<1> HIDE DEF s
<1>4. IsArray(used) /\ used.sig <= a.block /\ Bytes(used) = Short(a, s)
  <2>1. CASE k.sig > a.block
    <3> DEFINE h == WithPiece(NewHasher, k)
    <3>1. Hashing(a, h, s, 0) /\ ~ IsLoose(h.buffer.data)
      BY <1>1, <2>1, FirstPieceHashes DEF KeyFits
    <3>2. digest = DigestOf(a, Finalized(a, h))
      BY DEF Digest
    <3> HIDE DEF h, digest
    <3>3. Len(s) < LengthLimit /\ 0 \in Nat
      BY <1>1
    <3>4. /\ digest.mem \in Seq(Byte) /\ Len(digest.mem) = a.full /\ digest.sig = a.size
          /\ Bytes(digest) = StandardHash(a, s)
      BY <1>1, <3>1, <3>2, <3>3, FinalizedIs
    <3>5. IsArray(digest) /\ digest.sig <= a.block
      BY <1>2, <3>4 DEF IsArray
    <3> QED
      BY <1>1, <2>1, <3>4, <3>5 DEF Short
  <2>2. CASE ~ (k.sig > a.block)
    <3>1. used = k
      BY <2>2
    <3>2. Short(a, s) = s
      BY <1>1, <2>2 DEF Short
    <3> HIDE DEF used
    <3> QED
      BY <1>1, <1>2, <2>2, <3>1, <3>2 DEF s
  <2> QED
    BY <2>1, <2>2
<1> HIDE DEF used
<1> DEFINE block == Joined(Bytes(used), Zeros(a.block - Len(Bytes(used))))
<1>5. /\ block \in Seq(Byte) /\ Len(block) = a.block
      /\ \A i \in 1 .. a.block : At(Clamp(used), i) = block[i]
  BY <1>2, <1>4, ClampedFillsUp
<1>6. block = KeyBlock(a, s)
  BY <1>4 DEF KeyBlock
<1>7. IsArray(Clamp(used))
  BY <1>4, ClampIs
<1> HIDE DEF block
<1> QED
  BY <1>3, <1>5, <1>6, <1>7 DEF s

(* Each of its pads is the one of the standard.                            *)
LEMMA KeyPadIs ==
  ASSUME IsACompression, NEW a \in Algos, NEW k \in Keys, KeyFits(a, k),
         NEW constant \in Byte
  PROVE  /\ KeyPad(a, MacKey(a, k), constant) = WordArray(PadOf(a, Bytes(k), constant), a.block)
         /\ PadOf(a, Bytes(k), constant) \in Seq(Byte)
         /\ Len(PadOf(a, Bytes(k), constant)) = a.block
<1> DEFINE macKey == MacKey(a, k)
           block == KeyBlock(a, Bytes(k))
           pad == PadOf(a, Bytes(k), constant)
<1>1. /\ IsArray(macKey) /\ block \in Seq(Byte) /\ Len(block) = a.block
      /\ \A i \in 1 .. a.block : At(macKey, i) = block[i]
  BY MacKeyIs
<1>2. pad = [i \in 1 .. a.block |-> Xor(block[i], constant)]
  BY DEF PadOf
<1>3. KeyPad(a, macKey, constant) =
         WordArray([i \in 1 .. a.block |-> Xor(At(macKey, i), constant)], a.block)
  BY DEF KeyPad
<1>4. a.block \in Nat
  BY HasherIs
<1> HIDE DEF macKey, block, pad
<1>5. KeyPad(a, macKey, constant) = WordArray(pad, a.block)
  BY <1>1, <1>2, <1>3
<1>6. \A i \in 1 .. a.block : Xor(block[i], constant) \in Byte
  <2> TAKE i \in 1 .. a.block
  <2>1. block[i] \in Byte
    BY <1>1
  <2> QED
    BY <2>1, XorIsAByte
<1>7. pad \in [1 .. a.block -> Byte]
  BY <1>2, <1>6
<1>8. pad \in Seq(Byte) /\ Len(pad) = a.block
  BY <1>4, <1>7
<1> QED
  BY <1>5, <1>8 DEF macKey, pad

(* An array of whole words of bytes is a piece.                            *)
LEMMA WholeWordsAreAPiece ==
  ASSUME NEW mem \in Seq(Byte), Len(mem) % 4 = 0
  PROVE  IsPiece(WordArray(mem, Len(mem)), mem)
<1> DEFINE data == WordArray(mem, Len(mem))
<1>1. Len(mem) \in Nat
  OBVIOUS
<1>2. RoundUp(Len(mem), 4) = Len(mem)
  <2> DEFINE m == Len(mem)
  <2>1. m \in Nat /\ m % 4 = 0 /\ 0 \in Nat
    BY <1>1
  <2> HIDE DEF m
  <2> QED
    BY <2>1, WholeWords DEF m
<1>3. data.mem = mem /\ data.sig = Len(mem)
  BY DEF WordArray
<1> HIDE DEF data
<1>4. Tight(data)
  BY <1>1, <1>2, <1>3 DEF Tight, IsArray
<1>5. \A i \in 1 .. Len(mem) : At(data, i) = mem[i]
  BY <1>3 DEF At
<1> QED
  BY <1>3, <1>4, <1>5 DEF IsPiece, data

(* An HMAC as a record: its hasher, and the two pads of its key.           *)
MacWith(a, k, h) ==
    [hasher |-> h,
     oKey |-> WordArray(PadOf(a, Bytes(k), 92), a.block),
     iKey |-> WordArray(PadOf(a, Bytes(k), 54), a.block)]

(* Each pad is a piece of one block.                                       *)
LEMMA PadsArePieces ==
  ASSUME IsACompression, NEW a \in Algos, NEW k \in Keys, KeyFits(a, k),
         NEW constant \in {54, 92}
  PROVE  LET pad == PadOf(a, Bytes(k), constant)
         IN  /\ pad \in Seq(Byte) /\ Len(pad) = a.block
             /\ KeyPad(a, MacKey(a, k), constant) = WordArray(pad, a.block)
             /\ IsPiece(WordArray(pad, a.block), pad)
<1> DEFINE pad == PadOf(a, Bytes(k), constant)
<1>1. constant \in Byte
  BY DEF Byte
<1>2. /\ pad \in Seq(Byte) /\ Len(pad) = a.block
      /\ KeyPad(a, MacKey(a, k), constant) = WordArray(pad, a.block)
  BY <1>1, KeyPadIs
<1>3. a.block % 4 = 0
  BY HasherIs
<1> HIDE DEF pad
<1>4. IsPiece(WordArray(pad, Len(pad)), pad)
  BY <1>2, <1>3, WholeWordsAreAPiece
<1> QED
  BY <1>2, <1>4 DEF pad

(* HMAC.reset: the hasher has been given the inner pad.                    *)
LEMMA MacResetIs ==
  ASSUME IsACompression, NEW a \in Algos, NEW k \in Keys, KeyFits(a, k), NEW h
  PROVE  LET pad == PadOf(a, Bytes(k), 54)
             mac == MacReset(a, MacWith(a, k, h))
         IN  /\ mac = MacWith(a, k, mac.hasher)
             /\ Hashing(a, mac.hasher, pad, Len(pad) \div a.block)
<1> DEFINE pad == PadOf(a, Bytes(k), 54)
           iKey == WordArray(pad, a.block)
           mac == MacReset(a, MacWith(a, k, h))
           hasher == Update(a, NewHasher, iKey)
<1>1. mac = MacWith(a, k, hasher) /\ mac.hasher = hasher
  BY DEF MacReset, MacWith
<1>2. pad \in Seq(Byte) /\ IsPiece(iKey, pad)
  BY PadsArePieces
<1>3. Hashing(a, NewHasher, << >>, 0)
  BY NewHasherHashes
<1> HIDE DEF pad, mac, iKey
<1>4. << >> \in Seq(Byte) /\ 0 \in Nat /\ Joined(<< >>, pad) = pad
  BY <1>2, JoinedEnds
<1>5. Hashing(a, hasher, Joined(<< >>, pad), Len(Joined(<< >>, pad)) \div a.block)
  BY <1>2, <1>3, <1>4, UpdateHashes
<1> QED
  BY <1>1, <1>4, <1>5 DEF pad, mac

(* HMAC.init keeps the two pads of the key and resets.                     *)
LEMMA NewMacIs ==
  ASSUME IsACompression, NEW a \in Algos, NEW k \in Keys, KeyFits(a, k)
  PROVE  NewMac(a, k) = MacReset(a, MacWith(a, k, NewHasher))
<1> DEFINE of(v) == MacReset(a, [hasher |-> NewHasher,
                                 oKey |-> KeyPad(a, v, 92), iKey |-> KeyPad(a, v, 54)])
           value == MacKey(a, k)
           S == {of(v) : v \in {value}}
<1>1. NewMac(a, k) = CHOOSE v \in S : v = v
  BY DEF NewMac, Applied
<1>2. of(value) = MacReset(a, MacWith(a, k, NewHasher))
  <2>1. KeyPad(a, value, 92) = WordArray(PadOf(a, Bytes(k), 92), a.block)
    BY PadsArePieces
  <2>2. KeyPad(a, value, 54) = WordArray(PadOf(a, Bytes(k), 54), a.block)
    BY PadsArePieces
  <2> HIDE DEF value
  <2> QED
    BY <2>1, <2>2 DEF MacWith
<1>3. S = {of(value)}
  <2> HIDE DEF of, value
  <2> QED
    OBVIOUS
<1> HIDE DEF S, of, value
<1> QED
  BY <1>1, <1>2, <1>3, TheOnlyOne

(* The HMAC of the standard, with the pads of the key.                     *)
LEMMA StandardMacIs ==
  ASSUME NEW a, NEW k, NEW s
  PROVE  StandardMac(a, k, s) =
            StandardHash(a, Joined(PadOf(a, k, 92),
                                   StandardHash(a, Joined(PadOf(a, k, 54), s))))
BY DEF StandardMac, PadOf, KeyBlock, Short, Joined

(* HMAC.finalize: where the inner hash is all of the final state, the      *)
(* outer one is the HMAC of the standard.                                  *)
LEMMA MacFinalizedIs ==
  ASSUME IsACompression, NEW a \in Algos, NEW k \in Keys, KeyFits(a, k), a.size = a.full,
         NEW s \in Seq(Byte), a.block + Len(s) < LengthLimit, NEW q \in Nat, NEW h,
         Hashing(a, h, Joined(PadOf(a, Bytes(k), 54), s), q), ~ IsLoose(h.buffer.data)
  PROVE  LET after == MacFinalized(a, MacWith(a, k, h))
         IN  Bytes(DigestOf(a, after.hasher)) = StandardMac(a, Bytes(k), s)
<1> DEFINE ipad == PadOf(a, Bytes(k), 54)
           opad == PadOf(a, Bytes(k), 92)
           oKey == WordArray(opad, a.block)
           text == Joined(ipad, s)
           inner == DigestOf(a, Finalized(a, h))
           hash == StandardHash(a, text)
           piece == Concat(oKey, inner)
           outer == WithPiece(NewHasher, piece)
           all == Joined(opad, hash)
           mac == MacWith(a, k, h)
           of(v) == [mac EXCEPT !.hasher =
                        Finalized(a, WithPiece(NewHasher, Concat(mac.oKey, v)))]
           S == {of(v) : v \in {inner}}
<1>1. /\ ipad \in Seq(Byte) /\ Len(ipad) = a.block
      /\ opad \in Seq(Byte) /\ Len(opad) = a.block /\ IsPiece(oKey, opad)
  <2>1. ipad \in Seq(Byte) /\ Len(ipad) = a.block
    BY PadsArePieces
  <2>2. opad \in Seq(Byte) /\ Len(opad) = a.block /\ IsPiece(oKey, opad)
    BY PadsArePieces
  <2> QED
    BY <2>1, <2>2
<1>2. /\ a.block \in Nat /\ a.block <= 512 /\ a.block % 4 = 0
      /\ a.full \in Nat /\ a.full % 4 = 0 /\ a.full <= a.block
  BY HasherIs
<1>3. MacFinalized(a, mac) = of(inner)
  <2>1. MacFinalized(a, mac) = CHOOSE v \in S : v = v
    <3>1. mac.hasher = h
      BY DEF MacWith
    <3> HIDE DEF mac
    <3> QED
      BY <3>1 DEF MacFinalized, Applied
  <2>2. S = {of(inner)}
    <3> HIDE DEF of, inner
    <3> QED
      OBVIOUS
  <2> HIDE DEF S, of, inner, mac
  <2> QED
    BY <2>1, <2>2, TheOnlyOne
<1>4. of(inner).hasher = Finalized(a, outer)
  BY DEF MacWith
<1>5. text \in Seq(Byte) /\ Len(text) < LengthLimit
  <2>1. text \in Seq(Byte) /\ Len(text) = Len(ipad) + Len(s)
    BY <1>1, JoinedIs
  <2> HIDE DEF text, ipad
  <2> QED
    BY <1>1, <2>1
<1>6. /\ inner.mem \in Seq(Byte) /\ Len(inner.mem) = a.full /\ inner.sig = a.full
      /\ Bytes(inner) = hash
  <2>1. Hashing(a, h, text, q)
    OBVIOUS
  <2> HIDE DEF text
  <2>2. LET digest == DigestOf(a, Finalized(a, h))
        IN  /\ digest.mem \in Seq(Byte) /\ Len(digest.mem) = a.full /\ digest.sig = a.size
            /\ Bytes(digest) = StandardHash(a, text)
    BY <1>5, <2>1, FinalizedIs
  <2> QED
    BY <2>2
<1> HIDE DEF ipad, opad, text, inner, hash
<1>7. IsPiece(inner, hash) /\ hash \in Seq(Byte) /\ Len(hash) = a.full
  <2>1. IsArray(inner)
    BY <1>2, <1>6 DEF IsArray
  <2>2. /\ hash \in Seq(Byte) /\ Len(hash) = a.full
        /\ \A i \in 1 .. a.full : hash[i] = At(inner, i)
    BY <1>6, <2>1, BytesAt
  <2>3. RoundUp(a.full, 4) = a.full
    <3>1. 0 \in Nat
      OBVIOUS
    <3> QED
      BY <1>2, <3>1, WholeWords
  <2>4. Tight(inner)
    BY <1>6, <2>1, <2>3 DEF Tight
  <2> QED
    BY <1>6, <2>2, <2>4 DEF IsPiece
<1> HIDE DEF oKey
<1>8. /\ all \in Seq(Byte) /\ Len(all) = a.block + a.full
      /\ \A i \in 1 .. a.block + a.full :
            all[i] = IF i <= a.block THEN opad[i] ELSE hash[i - a.block]
  <2>1. opad \in Seq(Byte) /\ hash \in Seq(Byte)
    BY <1>1, <1>7
  <2>2. /\ all \in Seq(Byte) /\ Len(all) = Len(opad) + Len(hash)
        /\ \A i \in 1 .. Len(opad) + Len(hash) :
              all[i] = IF i <= Len(opad) THEN opad[i] ELSE hash[i - Len(opad)]
    BY <2>1, JoinedIs
  <2> QED
    BY <1>1, <1>7, <2>2
<1> HIDE DEF all
<1>9. IsPiece(piece, all) /\ ~ IsLoose(piece)
  <2>1. /\ Tight(oKey) /\ oKey.sig = a.block /\ \A i \in 1 .. a.block : At(oKey, i) = opad[i]
    BY <1>1 DEF IsPiece
  <2>2. /\ Tight(inner) /\ inner.sig = a.full /\ \A i \in 1 .. a.full : At(inner, i) = hash[i]
    BY <1>7 DEF IsPiece
  <2>3. Tight(piece)
    BY <2>1, <2>2, ConcatIsTight DEF Tight
  <2>4. /\ piece.sig = a.block + a.full
        /\ \A i \in 1 .. a.block + a.full :
              At(piece, i) = IF i <= a.block THEN At(oKey, i) ELSE At(inner, i - a.block)
    BY <2>1, <2>2, ConcatIs DEF Tight
  <2> HIDE DEF piece
  <2>5. \A i \in 1 .. Len(all) : At(piece, i) = all[i]
    <3> TAKE i \in 1 .. Len(all)
    <3>1. i \in 1 .. a.block + a.full
      BY <1>8
    <3>2. CASE i <= a.block
      <4>1. i \in 1 .. a.block
        BY <1>2, <3>1, <3>2
      <4> QED
        BY <1>8, <2>1, <2>4, <3>1, <3>2, <4>1
    <3>3. CASE ~ (i <= a.block)
      <4>1. i - a.block \in 1 .. a.full
        BY <1>2, <3>1, <3>3
      <4> QED
        BY <1>8, <2>2, <2>4, <3>1, <3>3, <4>1
    <3> QED
      BY <3>2, <3>3
  <2>6. ~ IsLoose(piece)
    <3>1. Len(piece.mem) = a.block + a.full
      <4>1. /\ RoundUp(a.full, 4) = a.full
            /\ RoundUp(a.block + a.full, 4) = a.block + RoundUp(a.full, 4)
        <5> DEFINE m == a.block
                   n == a.full
        <5>1. 0 \in Nat /\ m \in Nat /\ n \in Nat /\ m % 4 = 0 /\ n % 4 = 0
          BY <1>2
        <5> HIDE DEF m, n
        <5>2. RoundUp(n, 4) = n
          BY <5>1, WholeWords
        <5>3. RoundUp(m + n, 4) = m + RoundUp(n, 4)
          BY <5>1, WholeWords
        <5> QED
          BY <5>2, <5>3 DEF m, n
      <4> QED
        BY <2>3, <2>4, <4>1 DEF Tight
    <3>2. piece.sig + 1 .. Len(piece.mem) = {}
      BY <1>2, <2>4, <3>1
    <3> QED
      BY <3>2 DEF IsLoose
  <2> QED
    BY <1>8, <2>3, <2>4, <2>5, <2>6 DEF IsPiece
<1> HIDE DEF piece
<1>10. Hashing(a, outer, all, 0) /\ ~ IsLoose(outer.buffer.data)
  BY <1>8, <1>9, FirstPieceHashes
<1>11. Len(all) < LengthLimit /\ 0 \in Nat
  BY <1>2, <1>8 DEF LengthLimit
<1> HIDE DEF outer
<1>12. Bytes(DigestOf(a, Finalized(a, outer))) = StandardHash(a, all)
  BY <1>8, <1>10, <1>11, FinalizedIs
<1>13. StandardMac(a, Bytes(k), s) = StandardHash(a, all)
  BY StandardMacIs DEF all, hash, text, ipad, opad
<1> HIDE DEF of
<1> QED
  BY <1>3, <1>4, <1>12, <1>13 DEF mac

(* Nor does it touch the pads, whatever the hash is.                       *)
LEMMA MacKeepsItsPads ==
  ASSUME NEW a, NEW k, NEW h
  PROVE  MacFinalized(a, MacWith(a, k, h)) =
            MacWith(a, k, MacFinalized(a, MacWith(a, k, h)).hasher)
<1> DEFINE mac == MacWith(a, k, h)
           inner == DigestOf(a, Finalized(a, mac.hasher))
           new(v) == Finalized(a, WithPiece(NewHasher, Concat(mac.oKey, v)))
           of(v) == [mac EXCEPT !.hasher = new(v)]
           S == {of(v) : v \in {inner}}
<1>1. MacFinalized(a, mac) = of(inner)
  <2>1. MacFinalized(a, mac) = CHOOSE v \in S : v = v
    <3> HIDE DEF mac
    <3> QED
      BY DEF MacFinalized, Applied
  <2>2. S = {of(inner)}
    <3> HIDE DEF of, inner
    <3> QED
      OBVIOUS
  <2> HIDE DEF S, of, inner, mac
  <2> QED
    BY <2>1, <2>2, TheOnlyOne
<1> HIDE DEF inner, new
<1>2. of(inner) = MacWith(a, k, new(inner))
  BY DEF MacWith
<1>3. of(inner).hasher = new(inner)
  BY DEF MacWith
<1> HIDE DEF of, mac
<1> QED
  BY <1>1, <1>2, <1>3 DEF mac

-----------------------------------------------------------------------------
(* The inductive invariant                                                 *)

Usable(a, k) == k # NoKey => KeyFits(a, k)

InnerOf(k, o) == IF k # NoKey THEN o.hasher ELSE o

LastOf(k, o, piece) ==
    IF piece.sig = 0 THEN o
    ELSE IF k # NoKey THEN [o EXCEPT !.hasher = WithPiece(@, piece)]
    ELSE WithPiece(o, piece)

(* What the hasher is given: the inner pad before the text, in an HMAC.    *)
TextOf(a, k, s) == IF k # NoKey THEN Joined(PadOf(a, Bytes(k), 54), s) ELSE s

KeepsPads(a, k, o) == k # NoKey => o = MacWith(a, k, o.hasher)

(* The hasher, or the one of the HMAC, has been given all that was fed     *)
(* since the last reset, and the HMAC has the pads of the key: the whole   *)
(* of HashInv is inductive, together with the two properties.              *)
HashInv ==
    /\ algo \in Algos /\ key \in Keys \cup {NoKey} /\ given \in 0 .. Len(Message)
    /\ Usable(algo, key) =>
          /\ KeepsPads(algo, key, object)
          /\ result = NoWords =>
                \E q \in Nat : Hashing(algo, Inner(object), TextOf(algo, key, Fed), q)
    /\ HashIsStandard /\ MacIsStandard

(* The text is bytes, within the limit, and what is fed next comes last.   *)
LEMMA TextIs ==
  ASSUME IsACompression, NEW a \in Algos, NEW k \in Keys \cup {NoKey}, Usable(a, k),
         NEW s \in Seq(Byte)
  PROVE  /\ TextOf(a, k, s) \in Seq(Byte)
         /\ Len(TextOf(a, k, s)) <= a.block + Len(s)
         /\ \A t \in Seq(Byte) : TextOf(a, k, Joined(s, t)) = Joined(TextOf(a, k, s), t)
<1>1. CASE k = NoKey
  <2>1. TextOf(a, k, s) = s /\ \A t : TextOf(a, k, Joined(s, t)) = Joined(s, t)
    BY <1>1 DEF TextOf
  <2>2. Len(s) \in Nat /\ a.block \in Nat
    BY HasherIs
  <2> QED
    BY <2>1, <2>2
<1>2. CASE k # NoKey
  <2> DEFINE pad == PadOf(a, Bytes(k), 54)
  <2>1. pad \in Seq(Byte) /\ Len(pad) = a.block
    BY <1>2, PadsArePieces DEF Usable
  <2>2. /\ TextOf(a, k, s) = Joined(pad, s)
        /\ \A t : TextOf(a, k, Joined(s, t)) = Joined(pad, Joined(s, t))
    BY <1>2 DEF TextOf
  <2> HIDE DEF pad
  <2>3. Joined(pad, s) \in Seq(Byte) /\ Len(Joined(pad, s)) = a.block + Len(s)
    BY <2>1, JoinedIs
  <2>4. \A t \in Seq(Byte) : Joined(pad, Joined(s, t)) = Joined(Joined(pad, s), t)
    BY <2>1, JoinedEnds
  <2>5. Len(s) \in Nat /\ a.block \in Nat
    BY HasherIs
  <2> QED
    BY <2>2, <2>3, <2>4, <2>5
<1> QED
  BY <1>1, <1>2

(* What is fed is a piece of the message, and the pieces add up.           *)
LEMMA PieceIs ==
  ASSUME NEW from \in 0 .. Len(Message), NEW n \in Nat, from + n <= Len(Message),
         NEW fill \in FillsOf(n), n \in Pieces \cup {0}
  PROVE  LET t == SubSeq(Message, from + 1, from + n)
         IN  /\ t \in Seq(Byte) /\ Len(t) = n /\ IsPiece(Filled(t, fill), t)
             /\ SubSeq(Message, 1, from) \in Seq(Byte)
             /\ Joined(SubSeq(Message, 1, from), t) = SubSeq(Message, 1, from + n)
<1> DEFINE t == SubSeq(Message, from + 1, from + n)
           s == SubSeq(Message, 1, from)
           u == SubSeq(Message, 1, from + n)
           m == from + n
<1>1. Message \in Seq(Byte) /\ fill \in Byte
  <2>1. Message \in Seq(Byte) /\ Fills \subseteq Byte
    BY HashAssumption DEF HashAssumption
  <2>2. 0 \in Byte
    BY DEF Byte
  <2> QED
    BY <2>1, <2>2 DEF FillsOf
<1>2. from \in Nat /\ m \in 0 .. Len(Message) /\ Len(Message) \in Nat
  BY <1>1
<1>3. t \in Seq(Byte) /\ Len(t) = n /\ \A i \in 1 .. n : t[i] = Message[from + i]
  <2>1. t \in Seq(Byte)
    BY <1>1, <1>2
  <2>2. Len(t) = n
    BY <1>1, <1>2
  <2>3. \A i \in 1 .. n : t[i] = Message[from + i]
    <3> TAKE i \in 1 .. n
    <3>1. i \in 1 .. (from + n) - (from + 1) + 1 /\ (from + 1) + i - 1 = from + i
      BY <1>2
    <3> QED
      BY <1>1, <1>2, <3>1
  <2> QED
    BY <2>1, <2>2, <2>3
<1>4. s \in Seq(Byte) /\ Len(s) = from /\ \A i \in 1 .. from : s[i] = Message[i]
  BY <1>1, PrefixIs
<1>5. u \in Seq(Byte) /\ Len(u) = m /\ \A i \in 1 .. m : u[i] = Message[i]
  BY <1>1, <1>2, PrefixIs
<1> HIDE DEF t, s, u
<1>6. IsPiece(Filled(t, fill), t)
  <2> DEFINE piece == Filled(t, fill)
  <2>1. IsArray(piece) /\ piece.sig = Len(t) /\ \A i \in 1 .. Len(t) : At(piece, i) = t[i]
    BY <1>1, <1>3, FilledIs
  <2>2. Len(piece.mem) = RoundUp(Len(t), 4)
    <3>1. piece.mem = [i \in 1 .. RoundUp(Len(t), 4) |-> IF i \in DOMAIN t THEN t[i] ELSE fill]
      BY DEF Filled, WordArray
    <3>2. RoundUp(Len(t), 4) \in Nat
      BY <1>3 DEF RoundUp
    <3> DEFINE w == RoundUp(Len(t), 4)
    <3> HIDE DEF w, piece
    <3>3. Len([i \in 1 .. w |-> IF i \in DOMAIN t THEN t[i] ELSE fill]) = w
      BY <3>2 DEF w
    <3> QED
      BY <3>1, <3>3 DEF w
  <2> HIDE DEF piece
  <2>3. IsPiece(piece, t)
    BY <2>1, <2>2 DEF IsPiece, Tight
  <2> QED
    BY <2>3 DEF piece
<1>7. Joined(s, t) = u
  <2> DEFINE j == Joined(s, t)
  <2>1. /\ j \in Seq(Byte) /\ Len(j) = Len(s) + Len(t)
        /\ \A i \in 1 .. Len(s) + Len(t) : j[i] = IF i <= Len(s) THEN s[i] ELSE t[i - Len(s)]
    BY <1>3, <1>4, JoinedIs
  <2> HIDE DEF j
  <2>2. Len(j) = Len(u)
    BY <1>2, <1>3, <1>4, <1>5, <2>1
  <2>3. \A i \in 1 .. Len(j) : j[i] = u[i]
    <3> TAKE i \in 1 .. Len(j)
    <3>1. i \in 1 .. m /\ i \in 1 .. Len(s) + Len(t)
      BY <1>5, <2>1, <2>2
    <3>2. CASE i <= from
      BY <1>2, <1>4, <1>5, <2>1, <3>1, <3>2
    <3>3. CASE ~ (i <= from)
      <4>1. i - from \in 1 .. n /\ from + (i - from) = i
        BY <1>2, <3>1, <3>3
      <4>2. t[i - from] = Message[i]
        BY <1>3, <4>1
      <4> QED
        BY <1>4, <1>5, <2>1, <3>1, <3>3, <4>2
    <3> QED
      BY <3>2, <3>3
  <2>4. j = u
    BY <1>5, <2>1, <2>2, <2>3, SeqEqual
  <2> QED
    BY <2>4 DEF j
<1> QED
  BY <1>3, <1>4, <1>6, <1>7 DEF t, s, u

(* A new hasher or HMAC, and one that is reset, has been given no text.    *)
LEMMA StartsWithNothing ==
  ASSUME IsACompression, NEW a \in Algos, NEW k \in Keys \cup {NoKey}, Usable(a, k),
         NEW o,
         \/ k = NoKey /\ o = NewHasher
         \/ k # NoKey /\ \E h : o = MacReset(a, MacWith(a, k, h))
  PROVE  /\ KeepsPads(a, k, o)
         /\ \E q \in Nat : Hashing(a, InnerOf(k, o), TextOf(a, k, << >>), q)
<1>1. CASE k = NoKey
  <2>1. Hashing(a, NewHasher, << >>, 0) /\ 0 \in Nat
    BY NewHasherHashes
  <2> QED
    BY <1>1, <2>1 DEF TextOf, KeepsPads, InnerOf
<1>2. CASE k # NoKey
  <2>1. PICK h : o = MacReset(a, MacWith(a, k, h))
    BY <1>2
  <2> DEFINE pad == PadOf(a, Bytes(k), 54)
             q == Len(pad) \div a.block
  <2>2. k \in Keys /\ KeyFits(a, k)
    BY <1>2 DEF Usable
  <2>3. o = MacWith(a, k, o.hasher) /\ Hashing(a, o.hasher, pad, q)
    BY <2>1, <2>2, MacResetIs
  <2>4. pad \in Seq(Byte)
    BY <2>2, PadsArePieces
  <2>5. q \in Nat
    <3>1. Len(pad) \in Nat
      BY <2>4
    <3> HIDE DEF pad
    <3> QED
      BY <3>1, HasherIs, Quotient
  <2>6. TextOf(a, k, << >>) = pad
    <3>1. << >> \in Seq(Byte)
      OBVIOUS
    <3>2. TextOf(a, k, << >>) = Joined(pad, << >>)
      BY <1>2 DEF TextOf
    <3> HIDE DEF pad
    <3> QED
      BY <2>4, <3>1, <3>2, JoinedEnds
  <2> HIDE DEF pad, q
  <2> QED
    BY <1>2, <2>3, <2>5, <2>6 DEF KeepsPads, InnerOf
<1> QED
  BY <1>1, <1>2

(* Update gives the hasher the piece, and keeps the pads.                  *)
LEMMA GivenHashes ==
  ASSUME IsACompression, NEW a \in Algos, NEW k \in Keys \cup {NoKey},
         NEW s \in Seq(Byte), NEW t \in Seq(Byte), NEW o, NEW q \in Nat,
         NEW piece, IsPiece(piece, t), KeepsPads(a, k, o),
         Hashing(a, InnerOf(k, o), s, q),
         NEW new, new = IF k # NoKey THEN MacUpdate(a, o, piece) ELSE Update(a, o, piece)
  PROVE  /\ KeepsPads(a, k, new)
         /\ \E p \in Nat :
               Hashing(a, InnerOf(k, new), Joined(s, t), p)
<1> DEFINE h == InnerOf(k, o)
           p == Len(Joined(s, t)) \div a.block
<1>1. Hashing(a, Update(a, h, piece), Joined(s, t), p)
  BY UpdateHashes
<1>2. p \in Nat
  <2>1. Len(Joined(s, t)) \in Nat
    BY JoinedIs
  <2> QED
    BY <2>1, HasherIs, Quotient
<1> HIDE DEF p
<1>3. CASE k = NoKey
  <2>1. new = Update(a, h, piece)
    BY <1>3 DEF InnerOf
  <2> HIDE DEF h
  <2> QED
    BY <1>1, <1>2, <1>3, <2>1 DEF KeepsPads, InnerOf
<1>4. CASE k # NoKey
  <2>1. new = [o EXCEPT !.hasher = Update(a, @, piece)]
    BY <1>4 DEF MacUpdate
  <2>2. o = MacWith(a, k, o.hasher)
    BY <1>4 DEF KeepsPads
  <2>3. \A u : /\ [MacWith(a, k, u) EXCEPT !.hasher = Update(a, @, piece)] =
                     MacWith(a, k, Update(a, u, piece))
               /\ MacWith(a, k, u).hasher = u
    BY DEF MacWith
  <2>4. new = MacWith(a, k, Update(a, o.hasher, piece))
    BY <2>1, <2>2, <2>3
  <2>5. new.hasher = Update(a, o.hasher, piece)
    BY <2>3, <2>4
  <2>6. h = o.hasher
    BY <1>4 DEF InnerOf
  <2> HIDE DEF h
  <2> QED
    BY <1>1, <1>2, <1>4, <2>4, <2>5, <2>6 DEF KeepsPads, InnerOf
<1> QED
  BY <1>3, <1>4

(* finalize appends the last piece, if there is one.                       *)
LEMMA LastHashes ==
  ASSUME IsACompression, NEW a \in Algos, NEW k \in Keys \cup {NoKey},
         NEW s \in Seq(Byte), NEW t \in Seq(Byte), NEW o, NEW q \in Nat,
         NEW piece, IsPiece(piece, t), KeepsPads(a, k, o),
         Hashing(a, InnerOf(k, o), s, q),
         NEW new, new = LastOf(k, o, piece)
  PROVE  /\ KeepsPads(a, k, new)
         /\ Hashing(a, InnerOf(k, new), Joined(s, t), q)
<1> DEFINE h == InnerOf(k, o)
<1>1. CASE piece.sig = 0
  <2>1. new = o
    BY <1>1 DEF LastOf
  <2>2. t = << >>
    <3>1. Len(t) = 0
      BY <1>1 DEF IsPiece
    <3> QED
      BY <3>1
  <2>3. Joined(s, t) = s
    <3>1. << >> \in Seq(Byte)
      OBVIOUS
    <3> QED
      BY <2>2, <3>1, JoinedEnds
  <2> QED
    BY <2>1, <2>3
<1>2. CASE piece.sig # 0
  <2>1. Hashing(a, WithPiece(h, piece), Joined(s, t), q)
    BY WithPieceHashes
  <2>2. CASE k = NoKey
    <3>1. new = WithPiece(h, piece)
      BY <1>2, <2>2 DEF LastOf, InnerOf
    <3> HIDE DEF h
    <3> QED
      BY <2>1, <2>2, <3>1 DEF KeepsPads, InnerOf
  <2>3. CASE k # NoKey
    <3>1. new = [o EXCEPT !.hasher = WithPiece(@, piece)]
      BY <1>2, <2>3 DEF LastOf
    <3>2. o = MacWith(a, k, o.hasher)
      BY <2>3 DEF KeepsPads
    <3>3. \A u : /\ [MacWith(a, k, u) EXCEPT !.hasher = WithPiece(@, piece)] =
                       MacWith(a, k, WithPiece(u, piece))
                 /\ MacWith(a, k, u).hasher = u
      BY DEF MacWith
    <3>4. new = MacWith(a, k, WithPiece(o.hasher, piece))
      BY <3>1, <3>2, <3>3
    <3>5. new.hasher = WithPiece(o.hasher, piece)
      BY <3>3, <3>4
    <3>6. h = o.hasher
      BY <2>3 DEF InnerOf
    <3> HIDE DEF h
    <3> QED
      BY <2>1, <2>3, <3>4, <3>5, <3>6 DEF KeepsPads, InnerOf
  <2> QED
    BY <2>2, <2>3
<1> QED
  BY <1>1, <1>2

(* At first nothing has been fed.                                          *)
LEMMA HashInvInit ==
  ASSUME IsACompression, Init
  PROVE  HashInv
<1>1. /\ algo \in Algos /\ key \in Keys \cup {NoKey}
      /\ object = Created(algo, key) /\ given = 0 /\ result = NoWords
  BY DEF Init
<1>2. given \in 0 .. Len(Message) /\ Fed = << >>
  <2>1. Message \in Seq(Byte)
    BY HashAssumption DEF HashAssumption
  <2>2. given \in 0 .. Len(Message)
    BY <1>1, <2>1
  <2>3. Fed \in Seq(Byte) /\ Len(Fed) = given
    BY <2>1, <2>2, PrefixIs DEF Fed
  <2>4. Fed = << >>
    BY <1>1, <2>3
  <2> QED
    BY <2>2, <2>4
<1>3. ASSUME Usable(algo, key)
      PROVE  /\ KeepsPads(algo, key, object)
             /\ \E q \in Nat : Hashing(algo, Inner(object), TextOf(algo, key, Fed), q)
  <2>1. \/ key = NoKey /\ object = NewHasher
        \/ key # NoKey /\ \E h : object = MacReset(algo, MacWith(algo, key, h))
    <3>1. CASE key = NoKey
      BY <1>1, <3>1 DEF Created
    <3>2. CASE key # NoKey
      <4>1. key \in Keys /\ KeyFits(algo, key)
        BY <1>1, <1>3, <3>2 DEF Usable
      <4>2. object = NewMac(algo, key)
        BY <1>1, <3>2 DEF Created
      <4>3. NewMac(algo, key) = MacReset(algo, MacWith(algo, key, NewHasher))
        BY <1>1, <4>1, NewMacIs
      <4> QED
        BY <3>2, <4>2, <4>3
    <3> QED
      BY <3>1, <3>2
  <2>2. /\ KeepsPads(algo, key, object)
        /\ \E q \in Nat : Hashing(algo, InnerOf(key, object),
                                  TextOf(algo, key, << >>), q)
    BY <1>1, <1>3, <2>1, StartsWithNothing
  <2> QED
    BY <1>2, <2>2 DEF Inner, InnerOf, IsMac
<1>4. HashIsStandard /\ MacIsStandard
  BY <1>1 DEF HashIsStandard, MacIsStandard
<1> QED
  BY <1>1, <1>2, <1>3, <1>4 DEF HashInv

(* Feeding gives the hasher what is fed.                                   *)
LEMMA HashInvFeed ==
  ASSUME IsACompression, HashInv, NEW n \in Pieces, NEW fill \in FillsOf(n), Feed(n, fill)
  PROVE  HashInv'
<1> DEFINE t == SubSeq(Message, given + 1, given + n)
           piece == Filled(t, fill)
<1>1. /\ algo \in Algos /\ key \in Keys \cup {NoKey} /\ given \in 0 .. Len(Message)
      /\ n \in Nat /\ given + n <= Len(Message) /\ result = NoWords
  <2>1. n \in Nat
    BY HashAssumption DEF HashAssumption
  <2> QED
    BY <2>1 DEF HashInv, Feed
<1>2. /\ object' = Given(object, piece) /\ given' = given + n
      /\ algo' = algo /\ key' = key /\ loose' = loose /\ result' = result
  BY DEF Feed, Piece
<1>3. given' \in 0 .. Len(Message)
  <2>1. Len(Message) \in Nat
    BY HashAssumption DEF HashAssumption
  <2> QED
    BY <1>1, <1>2, <2>1
<1>4. /\ t \in Seq(Byte) /\ IsPiece(piece, t) /\ Fed \in Seq(Byte) /\ Fed' = Joined(Fed, t)
  <2>1. fill \in FillsOf(n) /\ n \in Pieces \cup {0}
    OBVIOUS
  <2>2. /\ t \in Seq(Byte) /\ IsPiece(piece, t)
        /\ SubSeq(Message, 1, given) \in Seq(Byte)
        /\ Joined(SubSeq(Message, 1, given), t) = SubSeq(Message, 1, given + n)
    BY <1>1, <2>1, PieceIs
  <2> QED
    BY <1>2, <2>2 DEF Fed
<1> HIDE DEF t, piece
<1>5. ASSUME Usable(algo, key)
      PROVE  /\ KeepsPads(algo, key, object')
             /\ \E q \in Nat : Hashing(algo, Inner(object'), TextOf(algo, key, Fed'), q)
  <2>1. PICK q \in Nat : Hashing(algo, Inner(object), TextOf(algo, key, Fed), q)
    BY <1>1, <1>5 DEF HashInv
  <2>2. KeepsPads(algo, key, object)
    BY <1>5 DEF HashInv
  <2>3. /\ TextOf(algo, key, Fed) \in Seq(Byte)
        /\ TextOf(algo, key, Fed') = Joined(TextOf(algo, key, Fed), t)
    BY <1>1, <1>4, <1>5, TextIs
  <2>4. object' = IF key # NoKey THEN MacUpdate(algo, object, piece)
                  ELSE Update(algo, object, piece)
    BY <1>2 DEF Given, IsMac
  <2>5. /\ KeepsPads(algo, key, object')
        /\ \E p \in Nat : Hashing(algo, InnerOf(key, object'),
                                  Joined(TextOf(algo, key, Fed), t), p)
    BY <1>1, <1>4, <2>1, <2>2, <2>3, <2>4, GivenHashes DEF Inner, InnerOf, IsMac
  <2> QED
    BY <2>3, <2>5 DEF Inner, InnerOf, IsMac
<1>6. result' = NoWords
  BY <1>1, <1>2
<1>7. HashIsStandard' /\ MacIsStandard'
  BY <1>6 DEF HashIsStandard, MacIsStandard
<1>8. Inner(object)' = Inner(object')
  BY <1>2 DEF Inner, InnerOf, IsMac
<1> QED
  BY <1>1, <1>2, <1>3, <1>5, <1>6, <1>7, <1>8 DEF HashInv

(* After a reset nothing has been fed.                                     *)
LEMMA HashInvReset ==
  ASSUME IsACompression, HashInv, Reset
  PROVE  HashInv'
<1>1. /\ algo \in Algos /\ key \in Keys \cup {NoKey}
      /\ object' = (IF key # NoKey THEN MacReset(algo, object) ELSE NewHasher)
      /\ given' = 0 /\ result' = NoWords /\ algo' = algo /\ key' = key
  BY DEF HashInv, Reset, IsMac
<1>2. given' \in 0 .. Len(Message) /\ Fed' = << >>
  <2>1. Message \in Seq(Byte)
    BY HashAssumption DEF HashAssumption
  <2>2. given' \in 0 .. Len(Message) /\ 0 \in 0 .. Len(Message)
    BY <1>1, <2>1
  <2>3. SubSeq(Message, 1, 0) \in Seq(Byte) /\ Len(SubSeq(Message, 1, 0)) = 0
    BY <2>1, <2>2, PrefixIs
  <2>4. Fed' = SubSeq(Message, 1, 0)
    BY <1>1 DEF Fed
  <2> QED
    BY <2>2, <2>3, <2>4
<1>3. ASSUME Usable(algo, key)
      PROVE  /\ KeepsPads(algo, key, object')
             /\ \E q \in Nat : Hashing(algo, Inner(object'), TextOf(algo, key, Fed'), q)
  <2>1. KeepsPads(algo, key, object)
    BY <1>3 DEF HashInv
  <2>2. \/ key = NoKey /\ object' = NewHasher
        \/ key # NoKey /\ \E h : object' = MacReset(algo, MacWith(algo, key, h))
    BY <1>1, <2>1 DEF KeepsPads
  <2>3. /\ KeepsPads(algo, key, object')
        /\ \E q \in Nat : Hashing(algo, InnerOf(key, object'),
                                  TextOf(algo, key, << >>), q)
    BY <1>1, <1>3, <2>2, StartsWithNothing
  <2> QED
    BY <1>2, <2>3 DEF Inner, InnerOf, IsMac
<1>4. HashIsStandard' /\ MacIsStandard'
  BY <1>1 DEF HashIsStandard, MacIsStandard
<1>5. Inner(object)' = Inner(object')
  BY <1>1 DEF Inner, InnerOf, IsMac
<1> QED
  BY <1>1, <1>2, <1>3, <1>4, <1>5 DEF HashInv

(* Finalize makes the hash of all that was fed, or the HMAC.               *)
LEMMA HashInvFinalize ==
  ASSUME IsACompression, HashInv,
         NEW n \in Pieces \cup {0}, NEW fill \in FillsOf(n), Finalize(n, fill)
  PROVE  HashInv'
<1> DEFINE t == SubSeq(Message, given + 1, given + n)
           piece == Filled(t, fill)
           last == Last(object, piece)
           after == IF IsMac THEN MacFinalized(algo, last) ELSE Finalized(algo, last)
<1>1. /\ algo \in Algos /\ key \in Keys \cup {NoKey} /\ given \in 0 .. Len(Message)
      /\ n \in Nat /\ given + n <= Len(Message) /\ result = NoWords
  <2>1. n \in Nat
    BY HashAssumption DEF HashAssumption
  <2> QED
    BY <2>1 DEF HashInv, Finalize
<1>2. /\ object' = after /\ given' = given + n /\ algo' = algo /\ key' = key
      /\ loose' = IsLoose(Inner(last).buffer.data)
      /\ result' = DigestOf(algo, Inner(after))
  BY DEF Finalize, Piece
<1>3. given' \in 0 .. Len(Message) /\ Len(Message) \in Nat
  <2>1. Len(Message) \in Nat
    BY HashAssumption DEF HashAssumption
  <2> QED
    BY <1>1, <1>2, <2>1
<1>4. /\ t \in Seq(Byte) /\ IsPiece(piece, t) /\ Fed \in Seq(Byte) /\ Fed' = Joined(Fed, t)
      /\ Fed' \in Seq(Byte) /\ Len(Fed') = given'
  <2>1. /\ t \in Seq(Byte) /\ IsPiece(piece, t)
        /\ SubSeq(Message, 1, given) \in Seq(Byte)
        /\ Joined(SubSeq(Message, 1, given), t) = SubSeq(Message, 1, given + n)
    BY <1>1, PieceIs
  <2>2. Fed' = SubSeq(Message, 1, given')
    BY DEF Fed
  <2>3. Message \in Seq(Byte)
    BY HashAssumption DEF HashAssumption
  <2>4. Fed' \in Seq(Byte) /\ Len(Fed') = given'
    BY <1>3, <2>2, <2>3, PrefixIs
  <2> QED
    BY <1>2, <2>1, <2>2, <2>4 DEF Fed
<1> HIDE DEF t, piece
<1>5. result' # NoWords
  <2>1. result'.sig = algo.size
    BY <1>2 DEF DigestOf, WordArray
  <2>2. algo.size # 0
    BY <1>1, HasherIs
  <2> QED
    BY <2>1, <2>2 DEF NoWords, WordArray
<1>6. ASSUME Usable(algo, key)
      PROVE  /\ KeepsPads(algo, key, last)
             /\ \E q \in Nat : Hashing(algo, Inner(last), TextOf(algo, key, Fed'), q)
  <2>1. PICK q \in Nat : Hashing(algo, Inner(object), TextOf(algo, key, Fed), q)
    BY <1>1, <1>6 DEF HashInv
  <2>2. KeepsPads(algo, key, object)
    BY <1>6 DEF HashInv
  <2>3. /\ TextOf(algo, key, Fed) \in Seq(Byte)
        /\ TextOf(algo, key, Fed') = Joined(TextOf(algo, key, Fed), t)
    BY <1>1, <1>4, <1>6, TextIs
  <2>4. last = LastOf(key, object, piece)
    BY DEF Last, LastOf, IsMac
  <2> HIDE DEF last
  <2>5. /\ KeepsPads(algo, key, last)
        /\ Hashing(algo, InnerOf(key, last),
                   Joined(TextOf(algo, key, Fed), t), q)
    BY <1>1, <1>4, <2>1, <2>2, <2>3, <2>4, LastHashes DEF Inner, InnerOf, IsMac
  <2> QED
    BY <2>3, <2>5 DEF Inner, InnerOf, IsMac
<1> HIDE DEF last
<1>7. Usable(algo, key) => KeepsPads(algo, key, object')
  <2> SUFFICES ASSUME Usable(algo, key), key # NoKey
               PROVE  object' = MacWith(algo, key, object'.hasher)
    BY DEF KeepsPads
  <2>1. last = MacWith(algo, key, last.hasher)
    BY <1>6 DEF KeepsPads
  <2>2. object' = MacFinalized(algo, last)
    BY <1>2 DEF IsMac
  <2> DEFINE u == last.hasher
             new == MacFinalized(algo, MacWith(algo, key, u))
  <2>3. new = MacWith(algo, key, new.hasher)
    BY MacKeepsItsPads
  <2>4. object' = new
    BY <2>1, <2>2
  <2> HIDE DEF new
  <2> QED
    BY <2>3, <2>4
<1>8. ASSUME Usable(algo, key)
      PROVE  /\ TextOf(algo, key, Fed') \in Seq(Byte)
             /\ algo.block + Len(Fed') < LengthLimit
             /\ Len(TextOf(algo, key, Fed')) < LengthLimit
  <2>1. /\ TextOf(algo, key, Fed') \in Seq(Byte)
        /\ Len(TextOf(algo, key, Fed')) <= algo.block + Len(Fed')
    BY <1>1, <1>4, <1>8, TextIs
  <2>2. algo.block + Len(Message) < LengthLimit /\ algo.block \in Nat
    BY <1>1, HasherIs
  <2>3. algo.block + Len(Fed') < LengthLimit
    BY <1>3, <1>4, <2>2 DEF LengthLimit
  <2>4. Len(TextOf(algo, key, Fed')) \in Nat
    BY <2>1
  <2> QED
    BY <1>3, <1>4, <2>1, <2>2, <2>3, <2>4 DEF LengthLimit
<1>9. HashIsStandard'
  <2> SUFFICES ASSUME key = NoKey, ~ loose'
               PROVE  Bytes(result') = StandardHash(algo, Fed')
    BY <1>2 DEF HashIsStandard, IsMac
  <2>1. Usable(algo, key) /\ TextOf(algo, key, Fed') = Fed'
    BY DEF Usable, TextOf
  <2>2. PICK q \in Nat : Hashing(algo, last, Fed', q)
    BY <1>6, <2>1 DEF Inner, InnerOf, IsMac
  <2>3. ~ IsLoose(last.buffer.data) /\ result' = DigestOf(algo, Finalized(algo, last))
    BY <1>2 DEF Inner, InnerOf, IsMac
  <2>4. Len(Fed') < LengthLimit
    BY <1>8, <2>1
  <2> QED
    BY <1>1, <1>4, <2>2, <2>3, <2>4, FinalizedIs
<1>10. MacIsStandard'
  <2> SUFFICES ASSUME key # NoKey, ~ loose', MacKeyFits
               PROVE  Bytes(result') = StandardMac(algo, Bytes(key), Fed')
    BY <1>2 DEF MacIsStandard, MacKeyFits, IsMac
  <2>1. Usable(algo, key) /\ KeyFits(algo, key) /\ algo.size = algo.full /\ key \in Keys
    BY <1>1 DEF Usable, KeyFits, MacKeyFits
  <2>2. PICK q \in Nat :
           Hashing(algo, last.hasher, Joined(PadOf(algo, Bytes(key), 54), Fed'), q)
    BY <1>6, <2>1 DEF Inner, IsMac, TextOf
  <2>3. ~ IsLoose(last.hasher.buffer.data)
        /\ result' = DigestOf(algo, MacFinalized(algo, last).hasher)
    BY <1>2 DEF Inner, InnerOf, IsMac
  <2>4. last = MacWith(algo, key, last.hasher)
    BY <1>6, <2>1 DEF KeepsPads
  <2>5. algo.block + Len(Fed') < LengthLimit
    BY <1>8, <2>1
  <2> DEFINE h == last.hasher
  <2>6. Bytes(DigestOf(algo, MacFinalized(algo, MacWith(algo, key, h)).hasher)) =
           StandardMac(algo, Bytes(key), Fed')
    <3>1. /\ Hashing(algo, h, Joined(PadOf(algo, Bytes(key), 54), Fed'), q)
          /\ ~ IsLoose(h.buffer.data)
      BY <2>2, <2>3
    <3> HIDE DEF h
    <3> QED
      BY <1>1, <1>4, <2>1, <2>5, <3>1, MacFinalizedIs
  <2> QED
    BY <2>3, <2>4, <2>6
<1> QED
  BY <1>1, <1>2, <1>3, <1>5, <1>7, <1>9, <1>10 DEF HashInv

-----------------------------------------------------------------------------
(* The theorems                                                            *)

(* HashInv holds whatever is fed, finalized and reset in whatever order.   *)
THEOREM HashInvariant ==
  ASSUME IsACompression
  PROVE  Spec => []HashInv
<1>1. Init => HashInv
  BY HashInvInit
<1>2. HashInv /\ [Next]_vars => HashInv'
  <2> SUFFICES ASSUME HashInv, [Next]_vars
               PROVE  HashInv'
    OBVIOUS
  <2>1. CASE \E n \in Pieces : \E fill \in FillsOf(n) : Feed(n, fill)
    BY <2>1, HashInvFeed
  <2>2. CASE \E n \in Pieces \cup {0} : \E fill \in FillsOf(n) : Finalize(n, fill)
    BY <2>2, HashInvFinalize
  <2>3. CASE Reset
    BY <2>3, HashInvReset
  <2>4. CASE UNCHANGED vars
    BY <2>4 DEF HashInv, HashIsStandard, MacIsStandard, MacKeyFits, Fed, Inner, IsMac, vars
  <2> QED
    BY <2>1, <2>2, <2>3, <2>4 DEF Next
<1> QED
  BY <1>1, <1>2, PTL DEF Spec

(* HashIsStandard: a hash is the standard one of all that was fed since    *)
(* the last reset, however it was cut into pieces (update, finalize).      *)
THEOREM HashesAreStandard ==
  ASSUME IsACompression
  PROVE  Spec => []HashIsStandard
<1>1. HashInv => HashIsStandard
  BY DEF HashInv
<1> QED
  BY <1>1, HashInvariant, PTL

(* MacIsStandard: so is an HMAC, under the conditions it states.           *)
THEOREM MacsAreStandard ==
  ASSUME IsACompression
  PROVE  Spec => []MacIsStandard
<1>1. HashInv => MacIsStandard
  BY DEF HashInv
<1> QED
  BY <1>1, HashInvariant, PTL

=============================================================================
