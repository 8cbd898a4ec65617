-------------------------------- MODULE Sha1 --------------------------------
(***************************************************************************)
(* The arithmetic of SHA-1, which both scripts of the pages that hash with *)
(* it share: the library's and the one of sha1.js.  A word is the pair of  *)
(* its halves, numbers below 65536.                                        *)
(***************************************************************************)
EXTENDS WordArrays

HalfRange == 65536

XorHalf(a, b) == 256 * Xor(a \div 256, b \div 256) + Xor(a % 256, b % 256)

(* For any two numbers a + b is the sum of (a xor b) and twice (a and b).  *)
AndHalf(a, b) == (a + b - XorHalf(a, b)) \div 2

XorPair(v, w) == <<XorHalf(v[1], w[1]), XorHalf(v[2], w[2])>>

AndPair(v, w) == <<AndHalf(v[1], w[1]), AndHalf(v[2], w[2])>>

NotPair(w) == <<HalfRange - 1 - w[1], HalfRange - 1 - w[2]>>

(* The halves are added one after the other, the carry of the low one with *)
(* the high one.                                                           *)
SafeAdd(v, w) ==
    LET low == v[2] + w[2]
        high == v[1] + w[1] + low \div HalfRange
    IN  <<high % HalfRange, low % HalfRange>>

(* Rotation to the left; from half a word on the halves change places.     *)
Rol(w, n) ==
    LET turned == IF n >= 16 THEN <<w[2], w[1]>> ELSE w
        k == 2 ^ (n % 16)
        from(i, j) == ((turned[i] * k) % HalfRange) + turned[j] \div (HalfRange \div k)
    IN  <<from(1, 2), from(2, 1)>>

-----------------------------------------------------------------------------
Choose(b, c, d) == XorPair(AndPair(b, c), AndPair(NotPair(b), d))

Parity(b, c, d) == XorPair(XorPair(b, c), d)

Majority(b, c, d) ==
    XorPair(XorPair(AndPair(b, c), AndPair(b, d)), AndPair(c, d))

(* sha1_ft and sha1_kt.                                                    *)
Sha1Ft(t, b, c, d) ==
    CASE t < 20 -> Choose(b, c, d)
      [] t \in 40 .. 59 -> Majority(b, c, d)
      [] OTHER -> Parity(b, c, d)

Sha1Kt(t) ==
    CASE t < 20 -> <<23170, 31129>>
      [] t \in 20 .. 39 -> <<28377, 60321>>
      [] t \in 40 .. 59 -> <<36635, 48348>>
      [] OTHER -> <<51810, 49622>>

(* The five words a hash starts from.                                      *)
Sha1Initial == <<<<26437, 8961>>, <<61389, 43913>>, <<39098, 56574>>,
                 <<4146, 21622>>, <<50130, 57840>>>>

(* The word i, from 1 on, that a block is extended by.                     *)
Extended(w, i) ==
    IF i <= 16 THEN w
    ELSE Append(w, Rol(XorPair(XorPair(w[i - 3], w[i - 8]),
                               XorPair(w[i - 14], w[i - 16])), 1))

Sha1Round(h, t, word) ==
    LET sum == SafeAdd(SafeAdd(Rol(h[1], 5), Sha1Ft(t, h[2], h[3], h[4])),
                       SafeAdd(SafeAdd(h[5], word), Sha1Kt(t)))
    IN  <<sum, h[1], Rol(h[2], 30), h[3], h[4]>>

(* What a block of 64 bytes makes of the five words.                       *)
Sha1Compress(state, block) ==
    LET pair(i) == <<256 * block[4 * i - 3] + block[4 * i - 2],
                     256 * block[4 * i - 1] + block[4 * i]>>
        first == Repeat(LAMBDA w, i : Append(w, pair(i)), << >>, 16)
        w == Repeat(Extended, first, 80)
        rounds == Applied(LAMBDA words :
                      Repeat(LAMBDA h, i : Sha1Round(h, i - 1, words[i]), state, 80), w)
    IN  Applied(LAMBDA h : <<SafeAdd(state[1], h[1]), SafeAdd(state[2], h[2]),
                             SafeAdd(state[3], h[3]), SafeAdd(state[4], h[4]),
                             SafeAdd(state[5], h[5])>>, rounds)

Sha1Bytes(state) ==
    LET of(w) == <<w[1] \div 256, w[1] % 256, w[2] \div 256, w[2] % 256>>
    IN  of(state[1]) \o of(state[2]) \o of(state[3]) \o of(state[4]) \o of(state[5])

=============================================================================
