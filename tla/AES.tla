--------------------------------- MODULE AES --------------------------------
(***************************************************************************)
(* The AES block cipher as the library computes it: tables walked out of   *)
(* the field of 256 elements, a key schedule that is as long as the key    *)
(* makes it, and one round function for both directions.                   *)
(* A word is the tuple of its four bytes; a block is sixteen bytes.        *)
(***************************************************************************)
EXTENDS WordArrays

Word(a, b, c, d) == <<a, b, c, d>>

ZeroWord == Word(0, 0, 0, 0)

(* Left rotation of a byte by k bits, and of a word by k bytes to the right. *)
RotateByte(b, k) == ((b * 2 ^ k) % 256) + (b * 2 ^ k) \div 256

Turn(w, k) == [i \in 1 .. 4 |-> w[((i - 1 + 4 - k) % 4) + 1]]

(* The exclusive or of four words.                                         *)
XorFour(w) ==
    [b \in 1 .. 4 |-> Xor(Xor(w[1][b], w[2][b]), Xor(w[3][b], w[4][b]))]

(* The product in the field, of the doubles that the code adds up.         *)
Double(x) == IF x < 128 THEN 2 * x ELSE Xor((2 * x) % 256, 27)

Times(n, x) ==
    Repeat(LAMBDA high, k : Xor(Double(high), ((n \div 2 ^ (8 - k)) % 2) * x), 0, 8)

Multiples(ns, x) == [b \in 1 .. 4 |-> Times(ns[b], x)]

Substituted(xi) ==
    Repeat(LAMBDA sum, k : Xor(sum, RotateByte(xi, k)), Xor(xi, 99), 4)

(* x walks through the field and xi through the inverses, and each step    *)
(* fills in one place of the tables.  mix and invMix are SUB_MIX_0 and     *)
(* INV_SUB_MIX_0; the other six tables are these two, turned.  The sum of  *)
(* x8 and x2, doubled three times, is the 80-fold of x.                    *)
Filling(at, x, s) ==
    [sbox |-> [at.sbox EXCEPT ![x] = s],
     invSbox |-> [at.invSbox EXCEPT ![s] = x],
     mix |-> [at.mix EXCEPT ![x] = Multiples(<<2, 1, 1, 3>>, s)],
     invMix |-> [at.invMix EXCEPT ![s] = Multiples(<<14, 9, 13, 11>>, x)],
     x |-> IF x = 0 THEN 1 ELSE Xor(Times(2, x), Times(80, x)),
     xi |-> IF x = 0 THEN 1 ELSE Times(5, at.xi)]

WalkStep(at, i) == Applied(LAMBDA s : Filling(at, at.x, s), Substituted(at.xi))

Tables ==
    Repeat(WalkStep,
           [sbox |-> [b \in Byte |-> 0], invSbox |-> [b \in Byte |-> 0],
            mix |-> [b \in Byte |-> ZeroWord], invMix |-> [b \in Byte |-> ZeroWord],
            x |-> 0, xi |-> 0],
           256)

(* Mutant: the constants are doubled without the reduction.                *)
RconVariant == <<1, 2, 4, 8, 16, 32, 64, 128, 0, 0>>

Rcon == <<1, 2, 4, 8, 16, 32, 64, 128, 27, 54>>

SubWord(w) == [i \in 1 .. 4 |-> Tables.sbox[w[i]]]

-----------------------------------------------------------------------------
(* A row that is missing reads as 0.                                       *)
RowAt(rows, r) == IF r + 1 \in DOMAIN rows THEN rows[r + 1] ELSE ZeroWord

KeyWord(key, r) ==
    Word(At(key, 4 * r + 1), At(key, 4 * r + 2), At(key, 4 * r + 3), At(key, 4 * r + 4))

(* What row r takes from the one before it, under a key of n bytes.  The   *)
(* code counts the key in words, of which there may be a fraction; the     *)
(* model counts it in bytes.                                               *)
Mixed(last, n, r) ==
    LET turns == (4 * r) % n = 0
        round == (4 * r) \div n
        constant == IF turns /\ round \in DOMAIN Rcon THEN Rcon[round] ELSE 0
    IN  IF turns \/ (n > 24 /\ (4 * r) % n = 16)
        THEN [SubWord(IF turns THEN Turn(last, 3) ELSE last) EXCEPT ![1] = Xor(@, constant)]
        ELSE last

(* The row a whole key back is missing when the key is not whole words.    *)
KeyRow(key, rows, r) ==
    IF 4 * r < key.sig THEN KeyWord(key, r)
    ELSE XorBytes(IF key.sig % 4 = 0 THEN RowAt(rows, r - key.sig \div 4) ELSE ZeroWord,
                  Mixed(RowAt(rows, r - 1), key.sig, r))

KeyRows(key) == key.sig + 28

KeySchedule(key) ==
    Repeat(LAMBDA rows, r : Append(rows, KeyRow(key, rows, r - 1)), << >>, KeyRows(key))

MixKeyWord(w) ==
    XorFour([i \in 1 .. 4 |-> Turn(Tables.invMix[Tables.sbox[w[i]]], i - 1)])

(* Counted back from the end, four rows at a time change places.           *)
InvKeyRow(rows, inv) ==
    LET r == Len(rows) - inv
        w == RowAt(rows, IF inv % 4 # 0 THEN r ELSE r - 4)
    IN  IF inv < 4 \/ r <= 4 THEN w ELSE MixKeyWord(w)

InvKeySchedule(key) ==
    Applied(LAMBDA rows : [k \in 1 .. Len(rows) |-> InvKeyRow(rows, k - 1)],
            KeySchedule(key))

-----------------------------------------------------------------------------
RoundsBefore(key) == (key.sig + 23) \div 4  \* all rounds but the last

(* Byte i of word j of the next state comes from word j + i - 1 of this.   *)
From(state, j, i) == state[((j + i - 2) % 4) + 1][i]

MixRound(state, mix, rows, round) ==
    [j \in 1 .. 4 |->
        XorBytes(XorFour([i \in 1 .. 4 |-> Turn(mix[From(state, j, i)], i - 1)]),
                 RowAt(rows, 4 * round + j - 1))]

LastRound(state, sbox, rows, round) ==
    [j \in 1 .. 4 |->
        XorBytes([i \in 1 .. 4 |-> sbox[From(state, j, i)]],
                 RowAt(rows, 4 * round + j - 1))]

DoCryptBlock(state, rows, mix, sbox, rounds) ==
    LastRound(Repeat(LAMBDA before, round : MixRound(before, mix, rows, round),
                     [j \in 1 .. 4 |-> XorBytes(state[j], RowAt(rows, j - 1))],
                     rounds),
              sbox, rows, rounds + 1)

WordsOf(block) == [j \in 1 .. 4 |-> SubSeq(block, 4 * j - 3, 4 * j)]

BlockOf(state) == state[1] \o state[2] \o state[3] \o state[4]

AESEncrypt(key, block) ==
    Applied(LAMBDA rows :
                BlockOf(DoCryptBlock(WordsOf(block), rows, Tables.mix, Tables.sbox,
                                     RoundsBefore(key))),
            KeySchedule(key))

(* The second and the fourth word change places before and after.          *)
Swapped(state) == <<state[1], state[4], state[3], state[2]>>

AESDecrypt(key, block) ==
    Applied(LAMBDA rows :
                BlockOf(Swapped(DoCryptBlock(Swapped(WordsOf(block)), rows, Tables.invMix,
                                             Tables.invSbox, RoundsBefore(key)))),
            InvKeySchedule(key))

=============================================================================
