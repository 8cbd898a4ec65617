----------------------------- MODULE WordArrays -----------------------------
(***************************************************************************)
(* The byte containers of the cryptography library the pages load          *)
(* (static/js, CryptoJS 3.1.2).  A word array is an array of 32-bit words  *)
(* and the number of its significant bytes; the two need not agree, and    *)
(* what the words hold past the significant bytes is called slack here.    *)
(*                                                                         *)
(* mem holds the bytes of the words in big-endian order, so its length is  *)
(* a multiple of four; sig is sigBytes.  A word the array does not have is *)
(* undefined in the code and counts as 0 in every operation on it.         *)
(***************************************************************************)
EXTENDS Integers, Sequences

CONSTANT PushLimit  \* above this many words concat copies word by word

ASSUME PushLimitAssumption == PushLimit \in Nat

Byte == 0 .. 255

(* The exclusive or of two bytes, from a table of the one of two nibbles.  *)
NibbleXor ==
    [a \in 0 .. 15 |-> [b \in 0 .. 15 |->
        LET bit(k) == ((a \div k + b \div k) % 2) * k
        IN  bit(1) + bit(2) + bit(4) + bit(8)]]

Xor(a, b) ==
    16 * NibbleXor[a \div 16][b \div 16] + NibbleXor[a % 16][b % 16]

XorBytes(s, t) == [i \in DOMAIN s |-> Xor(s[i], t[i])]

RoundUp(n, k) == ((n + k - 1) \div k) * k

Least(m, n) == IF m <= n THEN m ELSE n

(* op applied to a value that is computed once, however often op uses it.  *)
(* (TLC works a function out when it is compared, and not before.)         *)
Applied(op(_), value) ==
    CHOOSE result \in {op(v) : v \in {value}} : result = result

(* A loop: value becomes op(value, i) for i from 1 to n.  It is taken in   *)
(* rows of sixteen, which keeps the recursion flat.                        *)
Repeat(op(_, _), first, n) ==
    LET row(value, from) ==
            LET step[i \in 0 .. Least(16, n - from)] ==
                    IF i = 0 THEN value
                    ELSE Applied(LAMBDA v : op(v, from + i), step[i - 1])
            IN  step[Least(16, n - from)]
        rows[k \in 0 .. RoundUp(n, 16) \div 16] ==
            IF k = 0 THEN first
            ELSE Applied(LAMBDA v : row(v, 16 * (k - 1)), rows[k - 1])
    IN  rows[RoundUp(n, 16) \div 16]

IsWordArray(a) ==
    /\ a.sig \in Nat
    /\ Len(a.mem) % 4 = 0
    /\ \A i \in DOMAIN a.mem : a.mem[i] \in Byte

WordArray(mem, sig) == [mem |-> mem, sig |-> sig]

NoWords == WordArray(<< >>, 0)

(* The i-th byte of the words, 0 where there is no word.                   *)
At(a, i) == IF i \in DOMAIN a.mem THEN a.mem[i] ELSE 0

Slice(a, from, to) ==
    [i \in 1 .. (IF from < to THEN to - from ELSE 0) |-> At(a, from + i)]

(* The significant bytes: what the array stands for; none when an unpadding *)
(* has taken off more than there was.                                      *)
Bytes(a) == Slice(a, 0, a.sig)

(* The bytes of s as a word array whose last word is filled up with fill.  *)
Filled(s, fill) ==
    WordArray([i \in 1 .. RoundUp(Len(s), 4) |->
                  IF i \in DOMAIN s THEN s[i] ELSE fill], Len(s))

OfBytes(s) == Filled(s, 0)

Clamp(a) ==
    WordArray([i \in 1 .. RoundUp(a.sig, 4) |->
                  IF i <= a.sig THEN At(a, i) ELSE 0], a.sig)

(* Mutant: words are pushed wherever the array ends.                       *)
ConcatVariant(a, b) == WordArray(Clamp(a).mem \o b.mem, a.sig + b.sig)

(* concat clamps the array it extends, never the one it copies from.  At a *)
(* word boundary the words are pushed as they are, slack included, unless  *)
(* there are too many of them; then only the significant words are copied. *)
Concat(a, b) ==
    LET clamped == Clamp(a).mem
        n == a.sig + b.sig
    IN  WordArray(
            CASE a.sig % 4 # 0 ->
                   [i \in 1 .. RoundUp(n, 4) |->
                       IF i <= a.sig THEN clamped[i]
                       ELSE IF i <= n THEN At(b, i - a.sig) ELSE 0]
              [] a.sig % 4 = 0 /\ Len(b.mem) \div 4 > PushLimit ->
                   clamped \o Slice(b, 0, RoundUp(b.sig, 4))
              [] OTHER -> clamped \o b.mem,
            n)

(* random(nBytes) with every drawn byte equal to r: whole words are drawn. *)
Random(nBytes, r) == WordArray([i \in 1 .. RoundUp(nBytes, 4) |-> r], nBytes)

=============================================================================
