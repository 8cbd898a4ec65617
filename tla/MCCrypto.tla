------------------------------ MODULE MCCrypto ------------------------------
(***************************************************************************)
(* The samples.  The hashers compress with SHA-1, which is right for SHA-1 *)
(* itself and stands in for the compression of the others.                 *)
(***************************************************************************)
EXTENDS Crypto

MCBytes(state, n) ==
    LET b == Sha1Bytes(state) IN [i \in 1 .. n |-> b[((i - 1) % 20) + 1]]

Upward(n) == [i \in 1 .. n |-> i - 1]

(* Bytes of every length up to a word and a half, what UTF-8 has to refuse *)
(* (overlong forms, halves of pairs, codes too large, ends too early) next *)
(* to what it has to take, and ciphertexts that look salted.               *)
ByteStrings ==
    {[i \in 1 .. n |-> (90 * i) % 256] : n \in 0 .. 6 \cup {45, 100}} \cup
    {<<192, 128>>, <<194, 128>>, <<224, 159, 191>>, <<224, 160, 128>>,
     <<237, 160, 128>>, <<239, 187, 191>>, <<240, 143, 191, 191>>,
     <<240, 159, 152, 128>>, <<244, 144, 128, 128>>, <<227, 129>>, <<128>>,
     <<65, 227, 129, 130, 66>>,
     SaltMark, SaltMark \o Upward(16), SaltMark \o Upward(21)}

MCArrays == {Filled(s, fill) : s \in ByteStrings, fill \in {0, 201}}

Ascii(n) == [i \in 1 .. n |-> 32 + ((7 * i) % 90)]

MCTexts ==
    {<< >>, Ascii(3), Ascii(15), Ascii(16), Ascii(24), Ascii(65), Ascii(3) \o <<233>>,
     <<20013, 25991>> \o Ascii(2), <<55357, 56832>>,
     <<55357>>, <<56832>>, <<65, 56832, 55357>>, <<55357, 55357, 56832>>}

Answer(cipher, key, block, answer) ==
    [cipher |-> cipher, key |-> key, block |-> block, answer |-> answer]

AESPlain == [i \in 1 .. 16 |-> 17 * (i - 1)]

BitsOf(bytes) ==
    {b \in Bits : (bytes[4 - b \div 8] \div 2 ^ (b % 8)) % 2 = 1}

BlockOfBits(bytes) ==
    Pair(BitsOf(SubSeq(bytes, 1, 4)), BitsOf(SubSeq(bytes, 5, 8)))

(* FIPS 197 appendix C, the usual examples of DES and RC4, and the test    *)
(* sha1_vm_test of sha1.js.                                                *)
MCAnswers ==
    {Answer("AES", OfBytes(Upward(16)), AESPlain,
         <<105, 196, 224, 216, 106, 123, 4, 48, 216, 205, 183, 128, 112, 180, 197, 90>>),
     Answer("AES", OfBytes(Upward(24)), AESPlain,
         <<221, 169, 124, 164, 134, 76, 223, 224, 110, 175, 112, 160, 236, 13, 113, 145>>),
     Answer("AES", OfBytes(Upward(32)), AESPlain,
         <<142, 162, 183, 202, 81, 103, 69, 191, 234, 252, 73, 144, 75, 73, 96, 137>>),
     Answer("DES", OfBytes(<<19, 52, 87, 121, 155, 188, 223, 241>>),
         BlockOfBits(<<1, 35, 69, 103, 137, 171, 205, 239>>),
         BlockOfBits(<<133, 232, 19, 84, 15, 10, 180, 5>>)),
     Answer("RC4", OfBytes(<<75, 101, 121>>), << >>,
         <<235, 159, 119, 129, 183, 52, 202, 114, 167, 25, 74, 40>>),
     Answer("SHA1", NoWords, <<97, 98, 99>>,
         <<10, 9, 9, 9, 3, 14, 3, 6, 4, 7, 0, 6, 8, 1, 6, 10, 11, 10, 3, 14,
           2, 5, 7, 1, 7, 8, 5, 0, 12, 2, 6, 12, 9, 12, 13, 0, 13, 8, 9, 13>>)}

MCBlocks ==
    {Pair({}, {}), Pair(Bits, {}), Pair({0, 5, 31}, {1, 2, 30}), Pair({7}, Bits)}

MCKeys == {OfBytes([i \in 1 .. n |-> (n + 77 * i) % 256]) : n \in {8, 16, 19, 21, 24, 30, 32}}

(* Quarters of two bits; 0, 105 and 190 read the same both ways.           *)
MCRabbitKeys == [1 .. 4 -> {0, 105, 190}] \cup {<<1, 2, 3, 4>>, <<0, 0, 0, 1>>, <<200, 0, 105, 77>>}

MCRabbitIvs == {<< >>, <<0, 0>>, <<3, 250>>}

(* The code adds 4d34d34d, d34d34d3 and 34d34d34 in turn.                  *)
MCA == <<77, 211, 52, 77, 211, 52, 77, 211>>

(* Every counter is just below, at or above the point where it wraps.      *)
MCCounters ==
    {[i \in 1 .. 8 |-> (W - MCA[i] + d[(i % 4) + 1]) % W] : d \in [1 .. 4 -> {0, 1, W - 1}]}
        \cup {[i \in 1 .. 8 |-> W - 1], [i \in 1 .. 8 |-> 0]}

MCDerivations ==
    [algo : {MD5, SHA1, SHA224}, password : {OfBytes(Upward(5))},
     salt : {OfBytes(Upward(8))}, keySize : {1, 7, 8, 12, 15},
     iterations : {1, 2}]

MCSalts == {NoSalt, NoWords, OfBytes(Upward(5)), OfBytes(Upward(8)), OfBytes(Upward(12))}

=============================================================================
