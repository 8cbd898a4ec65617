------------------------------ MODULE PageSha1 ------------------------------
(***************************************************************************)
(* The script sha1.js, which index.html hashes with.  It works on strings  *)
(* of code units; an array of words is the sequence of its bytes.  The     *)
(* settings are the script's own: eight bits of every unit (chrsz), and no *)
(* padding character in Base64 (b64pad).                                   *)
(***************************************************************************)
EXTENDS Sha1

(* The high byte of a unit is silently ignored.                            *)
Str2Binb(s) == OfBytes([i \in DOMAIN s |-> s[i] % 256]).mem

ByteAt(x, i) == IF i \in DOMAIN x THEN x[i] ELSE 0

(* core_sha1: a bit is set after len bytes, in what is there already, and  *)
(* the length in bits is assigned to the last word of the last block.      *)
CoreSha1(x, len) ==
    LET end == ((8 * len + 64) \div 512 + 1) * 64
        bits == 8 * len
        padded(i) ==
            CASE i = end -> bits % 256
              [] i = end - 1 -> (bits \div 256) % 256
              [] i = end - 2 -> (bits \div 65536) % 256
              [] i = end - 3 -> bits \div 16777216
              [] i = len + 1 -> IF ByteAt(x, i) < 128 THEN ByteAt(x, i) + 128
                                ELSE ByteAt(x, i)
              [] OTHER -> ByteAt(x, i)
        block(n) == [i \in 1 .. 64 |-> padded(64 * (n - 1) + i)]
    IN  Sha1Bytes(Repeat(LAMBDA state, n : Sha1Compress(state, block(n)),
                         Sha1Initial, end \div 64))

(* Mutant: a long key is hashed with the length of its words.              *)
CoreHmacSha1Variant(key, data) ==
    LET bin == Str2Binb(key)
        bkey == IF Len(bin) > 64 THEN CoreSha1(bin, Len(bin)) ELSE bin
        pad(constant) == [i \in 1 .. 64 |-> Xor(ByteAt(bkey, i), constant)]
        hash == CoreSha1(pad(54) \o Str2Binb(data), 64 + Len(data))
    IN  CoreSha1(pad(92) \o hash, 64 + 20)

(* core_hmac_sha1: of a key of more than sixteen words the hash is used.   *)
CoreHmacSha1(key, data) ==
    LET bin == Str2Binb(key)
        bkey == IF Len(bin) > 64 THEN CoreSha1(bin, Len(key)) ELSE bin
        pad(constant) == [i \in 1 .. 64 |-> Xor(ByteAt(bkey, i), constant)]
        hash == CoreSha1(pad(54) \o Str2Binb(data), 64 + Len(data))
    IN  CoreSha1(pad(92) \o hash, 64 + 20)

Binb2Hex(bin) ==
    [i \in 1 .. 2 * Len(bin) |->
        LET byte == bin[(i + 1) \div 2]
        IN  IF i % 2 = 1 THEN byte \div 16 ELSE byte % 16]

(* Four digits for every three bytes, as far as they begin within them.    *)
Binb2B64(bin) ==
    LET digit(j) ==
            LET b(k) == ByteAt(bin, 3 * (j \div 4) + k)
            IN  CASE j % 4 = 0 -> b(1) \div 4
                  [] j % 4 = 1 -> (b(1) % 4) * 16 + b(2) \div 16
                  [] j % 4 = 2 -> (b(2) % 16) * 4 + b(3) \div 64
                  [] j % 4 = 3 -> b(3) % 64
        shown(j) == (j \div 4) * 24 + (j % 4) * 6 <= 8 * Len(bin)
    IN  [i \in {j \in 1 .. RoundUp(4 * Len(bin), 12) \div 3 : shown(j - 1)} |->
            digit(i - 1)]

Sha1Of(s) == CoreSha1(Str2Binb(s), Len(s))

HexSha1(s) == Binb2Hex(Sha1Of(s))

B64Sha1(s) == Binb2B64(Sha1Of(s))

HexHmacSha1(key, data) == Binb2Hex(CoreHmacSha1(key, data))

(* What the page shows for a text.                                         *)
EncryptBySHA1(s) == SubSeq(HexSha1(s), 1, 16)

=============================================================================
