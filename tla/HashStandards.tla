---------------------------- MODULE HashStandards ---------------------------
(***************************************************************************)
(* What the hashers are measured against: FIPS 180, RFC 1321 and Keccak    *)
(* for the padding of a message, RFC 2104 for HMAC, RFC 2898 for PBKDF2    *)
(* and OpenSSL's EVP_BytesToKey for EvpKDF.  Everything here is a function *)
(* on sequences of bytes.                                                  *)
(***************************************************************************)
EXTENDS Hashers

Zeros(n) == [i \in 1 .. n |-> 0]

(* What a message is filled up with so that the length ends a block ...    *)
ZerosAfter(a, n) ==
    CHOOSE z \in 0 .. a.block - 1 : (n + 1 + z + a.block \div 8) % a.block = 0

(* ... and its length in bits, high or low end first.                      *)
NotedLength(a, n) ==
    LET high == (8 * n) \div 65536
        middle == ((8 * n) \div 256) % 256
        low == (8 * n) % 256
        zeros == Zeros(a.block \div 8 - 3)
    IN  IF a.length = "big" THEN zeros \o <<high, middle, low>>
        ELSE <<low, middle, high>> \o zeros

StandardPadding(a, n) ==
    IF a.length = "none"
    THEN LET missing == a.block - (n % a.block)
         IN  IF missing = 1 THEN <<129>> ELSE <<1>> \o Zeros(missing - 2) \o <<128>>
    ELSE <<128>> \o Zeros(ZerosAfter(a, n)) \o NotedLength(a, n)

StandardHash(a, s) ==
    LET padded == s \o StandardPadding(a, Len(s))
        state[k \in 0 .. Len(padded) \div a.block] ==
            IF k = 0 THEN InitialState
            ELSE Compress(state[k - 1],
                          SubSeq(padded, (k - 1) * a.block + 1, k * a.block))
    IN  SubSeq(StateBytes(state[Len(padded) \div a.block], a.full), 1, a.size)

StandardMac(a, k, s) ==
    LET short == IF Len(k) > a.block THEN StandardHash(a, k) ELSE k
        block == short \o Zeros(a.block - Len(short))
        with(constant) == [i \in 1 .. a.block |-> Xor(block[i], constant)]
    IN  StandardHash(a, with(92) \o StandardHash(a, with(54) \o s))

-----------------------------------------------------------------------------
Cut(s, n) == SubSeq(s, 1, n)

StandardPBKDF2(a, password, salt, bytes, iterations) ==
    LET prf(s) == StandardMac(a, password, s)
        link(at, i) ==
            Applied(LAMBDA u : [u |-> u, all |-> XorBytes(at.all, u)], prf(at.u))
        block(key, index) ==
            key \o Applied(LAMBDA u : Repeat(link, [u |-> u, all |-> u], iterations - 1),
                           prf(salt \o <<0, 0, 0, index>>)).all
    IN  Cut(Repeat(block, << >>, (bytes + a.size - 1) \div a.size), bytes)

StandardBytesToKey(a, password, salt, bytes, iterations) ==
    LET again(hash, i) == StandardHash(a, hash)
        block(at, n) ==
            Applied(LAMBDA d : [d |-> d, key |-> at.key \o d],
                    Repeat(again, at.d \o password \o salt, iterations))
    IN  Cut(Repeat(block, [d |-> << >>, key |-> << >>],
                   (bytes + a.size - 1) \div a.size).key, bytes)

=============================================================================
