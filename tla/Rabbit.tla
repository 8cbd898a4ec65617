------------------------------- MODULE Rabbit -------------------------------
(***************************************************************************)
(* The stream cipher Rabbit and its legacy variant.  A word is a number    *)
(* below W: the code's has 32 bits, and the model's 4 * Q bits for any Q   *)
(* (the code's is 8): every distance the code rotates or shifts by is a    *)
(* multiple of a quarter of the word, or half the word but one.            *)
(***************************************************************************)
EXTENDS WordArrays

CONSTANTS Q,  \* the bits of a quarter of a word
          A   \* what is added to the eight counters

Half == 2 ^ (2 * Q)

W == Half * Half

ASSUME RabbitAssumption ==
    /\ Q \in Nat \ {0}
    /\ DOMAIN A = 1 .. 8
    /\ \A i \in 1 .. 8 : A[i] \in 0 .. W - 2

Low(w) == w % Half

High(w) == w \div Half

Join(high, low) == high * Half + low

(* Rotation to the left by n quarters.                                     *)
Rotate(w, n) ==
    LET k == 2 ^ (Q * n) IN ((w * k) % W) + w \div (W \div k)

XorNumbers(v, w) ==
    LET bit(n) == ((v \div 2 ^ n + w \div 2 ^ n) % 2) * 2 ^ n
        upTo[n \in 0 .. 4 * Q] == IF n = 0 THEN 0 ELSE upTo[n - 1] + bit(n - 1)
    IN  upTo[4 * Q]

(* The four quarters in the opposite order.                                *)
SwapQuarters(w) ==
    LET k == 2 ^ Q
        quarter(n) == (w \div k ^ n) % k
    IN  quarter(0) * k ^ 3 + quarter(1) * k ^ 2 + quarter(2) * k + quarter(3)

-----------------------------------------------------------------------------
(* Mutant: the sum is compared with what was added.                        *)
AddUpVariant(counters, carry) ==
    LET next(at, i) ==
            LET c == (counters[i] + A[i] + at.carry) % W
            IN  [c |-> Append(at.c, c), carry |-> IF c < A[i] THEN 1 ELSE 0]
    IN  Repeat(next, [c |-> << >>, carry |-> carry], 8)

(* A sum is carried over when it has become smaller than what it was made  *)
(* from: the code compares, it never sees the carry.                       *)
AddUp(counters, carry) ==
    LET next(at, i) ==
            LET c == (counters[i] + A[i] + at.carry) % W
            IN  [c |-> Append(at.c, c), carry |-> IF c < counters[i] THEN 1 ELSE 0]
    IN  Repeat(next, [c |-> << >>, carry |-> carry], 8)

(* The high and the low word of the square, from the halves of g.          *)
SquareHigh(g) ==
    LET a == Low(g)
        b == High(g)
    IN  ((a * a) \div (2 * Half) + a * b) \div (Half \div 2) + b * b

SquareLow(g) ==
    (((Join(High(g), 0) * g) % W) + ((Low(g) * g) % W)) % W

GValue(x, c) ==
    LET g == (x + c) % W IN XorNumbers(SquareHigh(g), SquareLow(g))

(* The g value of a word and the turned ones of the two words before it.   *)
Sum(g, i) ==
    LET from(n) == g[((i + 7 - n) % 8) + 1]
    IN  IF i % 2 = 1 THEN (g[i] + Rotate(from(1), 2) + Rotate(from(2), 2)) % W
        ELSE (g[i] + Rotate(from(1), 1) + from(2)) % W

NextState(state) ==
    Applied(LAMBDA added :
                [x |-> Applied(LAMBDA g : [i \in 1 .. 8 |-> Sum(g, i)],
                               [i \in 1 .. 8 |-> GValue(state.x[i], added.c[i])]),
                 c |-> added.c, b |-> added.carry],
            AddUp(state.c, state.b))

FourTimes(state) ==
    Repeat(LAMBDA before, n : NextState(before), state, 4)

-----------------------------------------------------------------------------
(* Setting up from the words of the key, k[1] to k[4], and the two of the  *)
(* initialisation vector, if there is one.                                 *)
FromKey(k) ==
    [x |-> <<k[1], Join(Low(k[4]), High(k[3])), k[2], Join(Low(k[1]), High(k[4])),
             k[3], Join(Low(k[2]), High(k[1])), k[4], Join(Low(k[3]), High(k[2]))>>,
     c |-> <<Rotate(k[3], 2), Join(High(k[1]), Low(k[2])),
             Rotate(k[4], 2), Join(High(k[2]), Low(k[3])),
             Rotate(k[1], 2), Join(High(k[3]), Low(k[4])),
             Rotate(k[2], 2), Join(High(k[4]), Low(k[1]))>>,
     b |-> 0]

MixCounters(state, by) ==
    [state EXCEPT !.c = [i \in 1 .. 8 |-> XorNumbers(@[i], by[i])]]

WithIv(state, iv) ==
    LET i0 == SwapQuarters(iv[1])
        i2 == SwapQuarters(iv[2])
        sub == <<i0, Join(High(i2), High(i0)), i2, Join(Low(i2), Low(i0))>>
    IN  IF iv = << >> THEN state ELSE FourTimes(MixCounters(state, sub \o sub))

SetUp(k, iv) ==
    Applied(LAMBDA s : WithIv(MixCounters(s, [i \in 1 .. 8 |-> s.x[((i + 3) % 8) + 1]]), iv),
            FourTimes(FromKey(k)))

(* Mutant: the words are turned in a copy of the key.                      *)
RabbitResetVariant(key, iv) ==
    [key |-> key,
     state |-> SetUp([i \in 1 .. 4 |-> SwapQuarters(key[i])], iv)]

(* _doReset of Rabbit turns the words of the key round where they are, in  *)
(* the caller's word array; the legacy variant takes them as they come.    *)
RabbitReset(key, iv) ==
    LET k == [i \in 1 .. 4 |-> SwapQuarters(key[i])]
    IN  [key |-> k, state |-> SetUp(k, iv)]

RabbitLegacyReset(key, iv) == [key |-> key, state |-> SetUp(key, iv)]

(* Four words of keystream, from the next state: each is made of an even   *)
(* word and halves of the words five and three further on.                 *)
RabbitKeystream(state) ==
    LET word(x, i) ==
            LET at(n) == x[((2 * (i - 1) + n) % 8) + 1]
            IN  SwapQuarters(XorNumbers(XorNumbers(at(0), High(at(5))), Join(Low(at(3)), 0)))
    IN  Applied(LAMBDA next :
                    [state |-> next, words |-> [i \in 1 .. 4 |-> word(next.x, i)]],
                NextState(state))

=============================================================================
