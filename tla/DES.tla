--------------------------------- MODULE DES --------------------------------
(***************************************************************************)
(* DES and Triple-DES as the library computes them.  A word is the set of  *)
(* the numbers of its bits that are 1, 0 being the lowest; a block is two  *)
(* words.                                                                  *)
(***************************************************************************)
EXTENDS WordArrays

Bits == 0 .. 31

XorBits(v, w) == {b \in Bits : (b \in v) # (b \in w)}

ShiftRight(w, n) == {b - n : b \in {c \in w : c >= n}}

ShiftLeft(w, n) == {b + n : b \in {c \in w : c + n <= 31}}

RotateLeft(w, n) == {(b + n) % 32 : b \in w}

Pair(l, r) == [l |-> l, r |-> r]

-----------------------------------------------------------------------------
(* PC1, PC2 and BIT_SHIFTS.                                                *)
PC1 == <<57, 49, 41, 33, 25, 17, 9, 1, 58, 50, 42, 34, 26, 18,
         10, 2, 59, 51, 43, 35, 27, 19, 11, 3, 60, 52, 44, 36,
         63, 55, 47, 39, 31, 23, 15, 7, 62, 54, 46, 38, 30, 22,
         14, 6, 61, 53, 45, 37, 29, 21, 13, 5, 28, 20, 12, 4>>

PC2 == <<14, 17, 11, 24, 1, 5, 3, 28, 15, 6, 21, 10,
         23, 19, 12, 4, 26, 8, 16, 7, 27, 20, 13, 2,
         41, 52, 31, 37, 47, 55, 30, 40, 51, 45, 33, 48,
         44, 49, 39, 56, 34, 53, 46, 42, 50, 36, 29, 32>>

BitShifts == <<1, 2, 4, 6, 8, 10, 12, 14, 15, 17, 19, 21, 23, 25, 27, 28>>

(* Bit pos of the key's words, counted from the first bit; a word that is  *)
(* missing has none.                                                       *)
KeyBit(key, pos) ==
    (At(key, pos \div 8 + 1) \div 2 ^ (7 - (pos % 8))) % 2 = 1

(* The places, counted from 0, of the 56 bits that are set.                *)
KeyBits(key) == {i \in 0 .. 55 : KeyBit(key, PC1[i + 1] - 1)}

(* Six bits of the left or the right half, rotated, at the top of a word   *)
(* and then moved to where the expansion of a block would put them.        *)
SubKeyGroup(bits, shift, g) ==
    LET half == IF g < 4 THEN 0 ELSE 28
        chosen == {i \in 6 * g .. 6 * g + 5 :
                      half + ((PC2[i + 1] - 1 + shift) % 28) \in bits}
        top == {31 - (i % 6) : i \in chosen}
    IN  CASE g = 0 -> RotateLeft(top, 1)
          [] g = 7 -> RotateLeft(top, 5)
          [] OTHER -> ShiftRight(top, (g - 1) * 4 + 3)

SubKeys(key) ==
    LET bits == KeyBits(key)
    IN  [n \in 1 .. 16 |-> [g \in 0 .. 7 |-> SubKeyGroup(bits, BitShifts[n], g)]]

InvSubKeys(key) ==
    Applied(LAMBDA keys : [n \in 1 .. 16 |-> keys[17 - n]], SubKeys(key))

-----------------------------------------------------------------------------
(* SBOX_P: each table as what it makes of the number of the six bits, the  *)
(* highest first, and the bits of the word that the four bits of that are. *)
SBox1 ==
    [places |-> <<23, 15, 9, 1>>,
     of |-> <<14, 0, 4, 15, 13, 7, 1, 4, 2, 14, 15, 2, 11, 13, 8, 1,
              3, 10, 10, 6, 6, 12, 12, 11, 5, 9, 9, 5, 0, 3, 7, 8,
              4, 15, 1, 12, 14, 8, 8, 2, 13, 4, 6, 9, 2, 1, 11, 7,
              15, 5, 12, 11, 9, 3, 7, 14, 3, 10, 10, 0, 5, 6, 0, 13>>]

SBox2 ==
    [places |-> <<19, 4, 30, 14>>,
     of |-> <<15, 3, 1, 13, 8, 4, 14, 7, 6, 15, 11, 2, 3, 8, 4, 14,
              9, 12, 7, 0, 2, 1, 13, 10, 12, 6, 0, 9, 5, 11, 10, 5,
              0, 13, 14, 8, 7, 10, 11, 1, 10, 3, 4, 15, 13, 4, 1, 2,
              5, 11, 8, 6, 12, 7, 6, 12, 9, 0, 3, 5, 2, 14, 15, 9>>]

SBox3 ==
    [places |-> <<8, 16, 2, 26>>,
     of |-> <<10, 13, 0, 7, 9, 0, 14, 9, 6, 3, 3, 4, 15, 6, 5, 10,
              1, 2, 13, 8, 12, 5, 7, 14, 11, 12, 4, 11, 2, 15, 8, 1,
              13, 1, 6, 10, 4, 13, 9, 0, 8, 6, 15, 9, 3, 8, 0, 7,
              11, 4, 1, 15, 2, 14, 12, 3, 5, 11, 10, 5, 14, 2, 7, 12>>]

SBox4 ==
    [places |-> <<6, 12, 22, 31>>,
     of |-> <<7, 13, 13, 8, 14, 11, 3, 5, 0, 6, 6, 15, 9, 0, 10, 3,
              1, 4, 2, 7, 8, 2, 5, 12, 11, 1, 12, 10, 4, 14, 15, 9,
              10, 3, 6, 15, 9, 0, 0, 6, 12, 10, 11, 1, 7, 13, 13, 8,
              15, 9, 1, 4, 3, 5, 14, 11, 5, 12, 2, 7, 8, 2, 4, 14>>]

SBox5 ==
    [places |-> <<24, 18, 7, 29>>,
     of |-> <<2, 14, 12, 11, 4, 2, 1, 12, 7, 4, 10, 7, 11, 13, 6, 1,
              8, 5, 5, 0, 3, 15, 15, 10, 13, 3, 0, 9, 14, 8, 9, 6,
              4, 11, 2, 8, 1, 12, 11, 7, 10, 1, 13, 14, 7, 2, 8, 13,
              15, 6, 9, 15, 12, 0, 5, 9, 6, 10, 3, 4, 0, 5, 14, 3>>]

SBox6 ==
    [places |-> <<28, 3, 21, 13>>,
     of |-> <<12, 10, 1, 15, 10, 4, 15, 2, 9, 7, 2, 12, 6, 9, 8, 5,
              0, 6, 13, 1, 3, 13, 4, 14, 14, 0, 7, 11, 5, 3, 11, 8,
              9, 4, 14, 3, 15, 2, 5, 12, 2, 9, 8, 5, 12, 15, 3, 10,
              7, 11, 0, 14, 4, 1, 10, 7, 1, 6, 13, 0, 11, 8, 6, 13>>]

SBox7 ==
    [places |-> <<0, 20, 10, 25>>,
     of |-> <<4, 13, 11, 0, 2, 11, 14, 7, 15, 4, 0, 9, 8, 1, 13, 10,
              3, 14, 12, 3, 9, 5, 7, 12, 5, 2, 10, 15, 6, 8, 1, 6,
              1, 6, 4, 11, 11, 13, 13, 8, 12, 1, 3, 4, 7, 10, 14, 7,
              10, 9, 15, 5, 6, 0, 8, 15, 0, 14, 5, 2, 9, 3, 2, 12>>]

SBox8 ==
    [places |-> <<27, 5, 17, 11>>,
     of |-> <<13, 1, 2, 15, 8, 13, 4, 8, 6, 10, 15, 3, 11, 7, 1, 4,
              10, 12, 9, 5, 3, 6, 14, 11, 5, 0, 0, 14, 12, 9, 7, 2,
              7, 2, 11, 1, 4, 14, 1, 7, 9, 4, 12, 10, 14, 8, 2, 13,
              0, 15, 6, 12, 10, 9, 13, 0, 15, 3, 3, 5, 5, 6, 8, 11>>]

SBoxes == <<SBox1, SBox2, SBox3, SBox4, SBox5, SBox6, SBox7, SBox8>>

SBoxMask(g) == {(b - 4 * g) % 32 : b \in 27 .. 32}

(* The word of table g for the bits of word that the mask selects.         *)
SBoxP(g, word) ==
    LET bit(k) == IF (27 + k - 4 * g) % 32 \in word THEN 2 ^ k ELSE 0
        number == bit(0) + bit(1) + bit(2) + bit(3) + bit(4) + bit(5)
        four == SBoxes[g + 1].of[number + 1]
    IN  {SBoxes[g + 1].places[k] : k \in {i \in 1 .. 4 : (four \div 2 ^ (4 - i)) % 2 = 1}}

-----------------------------------------------------------------------------
(* 0x0f0f0f0f, 0x0000ffff, 0x33333333, 0x00ff00ff and 0x55555555 are the   *)
(* bits that lie in every other run of 4, 16, 2, 8 and 1.                  *)
EveryOther(n) == {b \in Bits : (b \div n) % 2 = 0}

ExchangeLR(block, n) ==
    LET t == XorBits(ShiftRight(block.l, n), block.r) \cap EveryOther(n)
    IN  Pair(XorBits(block.l, ShiftLeft(t, n)), XorBits(block.r, t))

Flip(block) == Pair(block.r, block.l)

ExchangeRL(block, n) == Flip(ExchangeLR(Flip(block), n))

InitialPermutation(block) ==
    ExchangeLR(ExchangeRL(ExchangeRL(ExchangeLR(ExchangeLR(block, 4), 16), 2), 8), 1)

FinalPermutation(block) ==
    ExchangeLR(ExchangeLR(ExchangeRL(ExchangeRL(ExchangeLR(block, 1), 8), 2), 16), 4)

Feistel(word, subKey) ==
    UNION {SBoxP(g, XorBits(word, subKey[g]) \cap SBoxMask(g)) : g \in 0 .. 7}

DESCrypt(block, subKeys) ==
    LET round(before, n) ==
            Pair(before.r, XorBits(before.l, Feistel(before.r, subKeys[n])))
        rounds(first) == Repeat(round, first, 16)
        all(input) == FinalPermutation(Flip(rounds(InitialPermutation(input))))
    IN  Applied(all, block)

DESEncrypt(key, block) ==
    Applied(LAMBDA keys : DESCrypt(block, keys), SubKeys(key))

DESDecrypt(key, block) ==
    Applied(LAMBDA keys : DESCrypt(block, keys), InvSubKeys(key))

-----------------------------------------------------------------------------
(* Three keys of two words each, as far as the key has them.               *)
DesKey(key, n) ==
    LET words == SubSeq(key.mem, 8 * n - 7, Least(8 * n, Len(key.mem)))
    IN  WordArray(words, Len(words))

TripleDESEncrypt(key, block) ==
    DESEncrypt(DesKey(key, 3),
        DESDecrypt(DesKey(key, 2), DESEncrypt(DesKey(key, 1), block)))

TripleDESDecrypt(key, block) ==
    DESDecrypt(DesKey(key, 1),
        DESEncrypt(DesKey(key, 2), DESDecrypt(DesKey(key, 3), block)))

=============================================================================
