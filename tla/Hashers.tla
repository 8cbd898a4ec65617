------------------------------- MODULE Hashers ------------------------------
(***************************************************************************)
(* The hashers: how each of them pads and cuts a message into the blocks   *)
(* that its compression function absorbs, and what is built from them,     *)
(* HMAC and the two key derivation functions.  The compression functions   *)
(* themselves are a parameter: Compress takes a state and a block to the   *)
(* next state, and StateBytes(state, n) are the n bytes of a final state.  *)
(***************************************************************************)
EXTENDS BlockBuffer

CONSTANTS Compress(_, _), StateBytes(_, _), InitialState

(* block and full are the bytes of a block and of a final state, size the  *)
(* bytes of the digest; length says how a hasher notes the length of the   *)
(* message: "big" and "little" end first in eight bytes, "low" in four of  *)
(* them, and not at all in SHA-3.                                          *)
Hasher(block, full, size, length) ==
    [block |-> block, full |-> full, size |-> size, length |-> length]

(* outputLength in bytes; the digest is taken in lanes of eight bytes.     *)
SHA3(outputLength) ==
    Hasher(200 - 2 * outputLength, RoundUp(outputLength, 8), outputLength, "none")

MD5 == Hasher(64, 16, 16, "little")
SHA1 == Hasher(64, 20, 20, "big")
SHA256 == Hasher(64, 32, 32, "big")
SHA224 == [SHA256 EXCEPT !.size = @ - 4]
SHA512 == Hasher(128, 64, 64, "big")
SHA384 == [SHA512 EXCEPT !.size = @ - 16]
RIPEMD160 == Hasher(64, 20, 20, "low")

-----------------------------------------------------------------------------
NewHasher == [buffer |-> EmptyBuffer, state |-> InitialState]

Absorb(state, block) == Step(block, Compress(state, block))

Absorbed(algo, buffer, state) ==
    Applied(LAMBDA processed : [buffer |-> processed.buffer, state |-> processed.reg],
            Process(buffer, state, Absorb, algo.block, 0, FALSE))

Update(algo, hasher, piece) ==
    Absorbed(algo, AppendTo(hasher.buffer, piece), hasher.state)

(* Mutant: the last piece is appended without being counted.               *)
WithPieceVariant(hasher, piece) ==
    [hasher EXCEPT !.buffer.data = Concat(@, piece)]

(* finalize with a last piece appends it first.                            *)
WithPiece(hasher, piece) ==
    [hasher EXCEPT !.buffer = AppendTo(@, piece)]

(* The length of the message in bits, in the eight bytes that end a block. *)
LengthByte(algo, count, i) ==
    LET bits == 8 * count
        byte(k) == CASE k = 0 -> bits % 256
                     [] k = 1 -> (bits \div 256) % 256
                     [] k = 2 -> (bits \div 65536) % 256
                     [] OTHER -> 0
    IN  IF algo.length = "big" THEN byte(8 - i) ELSE byte(i - 1)

SetBit(byte, bit) ==
    IF (byte \div bit) % 2 = 1 THEN byte ELSE byte + bit

(* The padding is written into the words: a bit after the data is set in   *)
(* what is there already, the length is assigned, and whatever else lies   *)
(* past the significant bytes stays and is absorbed with the rest.  All    *)
(* but MD5 and RIPEMD-160 take every word there is for significant; these  *)
(* two count one more, which no block completes.                           *)
PadLength(algo, buffer) ==
    LET sig == buffer.data.sig
        end == ((sig + algo.block \div 8) \div algo.block + 1) * algo.block
        size == RoundUp(IF Len(buffer.data.mem) > end THEN Len(buffer.data.mem)
                        ELSE end, 4)
        noted(i) == i \in end - 7 .. (IF algo.length = "low" THEN end - 4 ELSE end)
    IN  WordArray([i \in 1 .. size |->
                      IF noted(i) THEN LengthByte(algo, buffer.count, i - (end - 8))
                      ELSE IF i = sig + 1 THEN SetBit(At(buffer.data, i), 128)
                      ELSE At(buffer.data, i)], size)

(* SHA-3 sets the first bit after the data and the last bit of the block.  *)
PadBits(algo, buffer) ==
    LET sig == buffer.data.sig
        end == (sig \div algo.block + 1) * algo.block
        size == IF Len(buffer.data.mem) > end THEN Len(buffer.data.mem) ELSE end
        first(i) == IF i = sig + 1 THEN SetBit(At(buffer.data, i), 1)
                    ELSE At(buffer.data, i)
    IN  WordArray([i \in 1 .. size |->
                      IF i = end THEN SetBit(first(i), 128) ELSE first(i)], size)

(* Mutant: the last piece is clamped before it is padded.                  *)
FinalizedVariant(algo, hasher) ==
    Absorbed(algo,
             [hasher.buffer EXCEPT !.data =
                 IF algo.length = "none"
                 THEN PadBits(algo, [hasher.buffer EXCEPT !.data = Clamp(@)])
                 ELSE PadLength(algo, [hasher.buffer EXCEPT !.data = Clamp(@)])],
             hasher.state)

(* _doFinalize.  The digest is all of the state; where the hash is shorter *)
(* only the number of its significant bytes says so.                       *)
Finalized(algo, hasher) ==
    Absorbed(algo,
             [hasher.buffer EXCEPT !.data =
                 IF algo.length = "none" THEN PadBits(algo, hasher.buffer)
                 ELSE PadLength(algo, hasher.buffer)],
             hasher.state)

DigestOf(algo, hasher) ==
    WordArray(StateBytes(hasher.state, algo.full), algo.size)

Digest(algo, hasher, piece) ==
    DigestOf(algo, Finalized(algo, WithPiece(hasher, piece)))

-----------------------------------------------------------------------------
(* Mutant: the key is not clamped.                                         *)
MacKeyVariant(algo, key) ==
    IF key.sig > algo.block THEN Digest(algo, NewHasher, key) ELSE key

(* HMAC: a hasher that has absorbed the key xored with one constant, and   *)
(* the key xored with another for the end.  A key longer than a block is   *)
(* hashed first.                                                           *)
MacKey(algo, key) ==
    Clamp(IF key.sig > algo.block THEN Digest(algo, NewHasher, key) ELSE key)

KeyPad(algo, key, constant) ==
    WordArray([i \in 1 .. algo.block |-> Xor(At(key, i), constant)], algo.block)

MacReset(algo, mac) ==
    [mac EXCEPT !.hasher = Update(algo, NewHasher, mac.iKey)]

NewMac(algo, key) ==
    Applied(LAMBDA macKey :
                MacReset(algo, [hasher |-> NewHasher,
                                oKey |-> KeyPad(algo, macKey, 92),
                                iKey |-> KeyPad(algo, macKey, 54)]),
            MacKey(algo, key))

MacUpdate(algo, mac, piece) ==
    [mac EXCEPT !.hasher = Update(algo, @, piece)]

(* The hasher is reset after the inner hash and used for the outer one; it *)
(* is left as the outer one leaves it.                                     *)
MacFinalized(algo, mac) ==
    Applied(LAMBDA inner :
                [mac EXCEPT !.hasher =
                    Finalized(algo, WithPiece(NewHasher, Concat(mac.oKey, inner)))],
            DigestOf(algo, Finalized(algo, mac.hasher)))

MacOf(algo, mac) == DigestOf(algo, mac.hasher)

Mac(algo, mac, piece) ==
    MacOf(algo, MacFinalized(algo, [mac EXCEPT !.hasher = WithPiece(@, piece)]))

-----------------------------------------------------------------------------
(* Key derivation.  Blocks, each made from the one before and its number,  *)
(* are appended until the key has keySize words: the words are counted,    *)
(* the significant ones and the others, and then all of them that the key  *)
(* needs are significant.                                                  *)
KeyFrom(block(_, _), keySize) ==
    WordArray(
        Repeat(LAMBDA at, n :
                   IF Len(at.key.mem) >= 4 * keySize THEN at
                   ELSE Applied(LAMBDA b : [key |-> Concat(at.key, b), last |-> b],
                                block(at.last, n)),
               [key |-> NoWords, last |-> NoWords], keySize).key.mem,
        4 * keySize)

(* Mutant: only the last link of the chain counts.                         *)
XorWordsVariant(a, b) == b

XorWords(a, b) ==
    WordArray([i \in DOMAIN a.mem |-> Xor(a.mem[i], At(b, i))], a.sig)

(* PBKDF2: every block is the exclusive or of a chain of MACs.             *)
PBKDF2Link(algo, mac, at) ==
    Applied(LAMBDA next : [last |-> next, all |-> XorWords(at.all, next)],
            Mac(algo, mac, at.last))

PBKDF2Block(algo, mac, salt, index, iterations) ==
    Applied(LAMBDA hash :
                Repeat(LAMBDA at, i : PBKDF2Link(algo, mac, at),
                       [last |-> hash, all |-> hash], iterations - 1),
            Mac(algo, MacUpdate(algo, mac, salt), OfBytes(<<0, 0, 0, index>>))).all

PBKDF2(algo, password, salt, keySize, iterations) ==
    Applied(LAMBDA mac :
                KeyFrom(LAMBDA before, index :
                            PBKDF2Block(algo, mac, salt, index, iterations),
                        keySize),
            NewMac(algo, password))

(* EvpKDF: every block is a hash of the block before, if there is one, of  *)
(* the password and of the salt.                                           *)
EvpBlock(algo, password, salt, before, n, iterations) ==
    LET hasher == IF n = 1 THEN NewHasher ELSE Update(algo, NewHasher, before)
    IN  Repeat(LAMBDA hash, i : Digest(algo, NewHasher, hash),
               Digest(algo, Update(algo, hasher, password), salt),
               iterations - 1)

EvpKDF(algo, password, salt, keySize, iterations) ==
    KeyFrom(LAMBDA before, n : EvpBlock(algo, password, salt, before, n, iterations),
            keySize)

=============================================================================
