------------------------------- MODULE Crypto -------------------------------
(***************************************************************************)
(* The functions of the page's scripts that keep no state between calls,   *)
(* each measured against what it stands for on samples of what a caller    *)
(* may hand over.  A step takes a sample of one kind up or lays it down;   *)
(* the properties say what the functions make of it.                       *)
(***************************************************************************)
EXTENDS ServerCipher, AES, DES, HashStandards, PageSha1, Rabbit, RC4

CONSTANTS
    Arrays,       \* word arrays
    Texts,        \* sequences of code units
    Answers,      \* known answers: [cipher, key, block, answer]
    Blocks,       \* blocks of two words, as sets of bits, for DES
    Keys,         \* keys of bytes for DES, AES and RC4
    RabbitKeys,   \* keys of four words below W
    RabbitIvs,    \* two words, or none
    Counters,     \* the eight counters of Rabbit
    Derivations,  \* [algo, password, salt, keySize, iterations]
    Salts         \* word arrays, and NoSalt

VARIABLE sample

Nothing == [kind |-> "nothing"]

Take(kind, value) ==
    /\ sample = Nothing
    /\ sample' = [kind |-> kind, of |-> value]

-----------------------------------------------------------------------------
Init == sample = Nothing

LayDown == sample # Nothing /\ sample' = Nothing

TakeArray == \E a \in Arrays : Take("array", a)

TakeText == \E s \in Texts : Take("text", s)

TakeAnswer == \E a \in Answers : Take("answer", a)

TakeBlock ==
    \E key \in Keys : \E b \in Blocks : Take("block", [key |-> key, block |-> b])

TakeKey == \E key \in Keys : \E drop \in 0 .. 2 : Take("key", [key |-> key, drop |-> drop])

TakeRabbitKey ==
    \E key \in RabbitKeys : \E iv \in RabbitIvs : Take("rabbit", [key |-> key, iv |-> iv])

TakeCounters ==
    \E c \in Counters : \E b \in 0 .. 1 : Take("counters", [c |-> c, b |-> b])

TakeNumber == \E g \in 0 .. W - 1 : Take("number", g)

TakeDerivation == \E d \in Derivations : Take("derivation", d)

TakeParams ==
    \E a \in Arrays : \E salt \in Salts : Take("params", CipherParams(a, salt))

(* A message and the key or password for it, both texts.                   *)
TakePage ==
    \E message \in Texts : \E key \in Texts \ {<< >>} :
        /\ WellFormed(message) /\ WellFormed(key)
        /\ Take("page", [message |-> message, key |-> key])

Next ==
    \/ LayDown \/ TakeArray \/ TakeText \/ TakeAnswer \/ TakeBlock \/ TakeKey
    \/ TakeRabbitKey \/ TakeCounters \/ TakeNumber \/ TakeDerivation
    \/ TakeParams \/ TakePage

Spec == Init /\ [][Next]_sample

-----------------------------------------------------------------------------
(* Properties                                                              *)

For(kind, holds(_)) == sample.kind = kind => holds(sample.of)

(* Every encoder gives back the significant bytes it was given and nothing *)
(* of what lies past them, except UTF-16: where the bytes end within a     *)
(* unit it also takes the byte after them (stringify and parse).           *)
EncodersInvert ==
    For("array", LAMBDA a :
        \A e \in Encoders :
            Bytes(Parse(e, Stringify(e, a))) =
                Slice(a, 0, IF e \in {"Utf16BE", "Utf16LE"} THEN RoundUp(a.sig, 2)
                            ELSE a.sig))

(* UTF-8 is read strictly: a text comes back from its bytes, bytes that    *)
(* are read at all come back from their text, and the only texts without   *)
(* bytes are the ones with half of a pair.  So a decryption that fails     *)
(* shows no text or a wrong one, never an encoding of the same (Utf8).     *)
Utf8IsExact ==
    /\ For("text", LAMBDA s :
           IF WellFormed(s) THEN Utf8Stringify(Utf8Parse(s)) = Text(s)
           ELSE Utf8Parse(s) = Malformed)
    /\ For("array", LAMBDA a :
           Utf8Stringify(a) # Malformed =>
               Bytes(Utf8Parse(Utf8Stringify(a).text)) = Bytes(a))

(* Base64 at the two ends of the line: the server reads back what it wrote *)
(* although it breaks its lines, without the breaks it writes what the     *)
(* page writes, and it refuses a text that has lost its last character     *)
(* (encode and decode of Base64.java, and the Base64 of aes.js).           *)
OneBase64 ==
    For("array", LAMBDA a :
        LET text == ServerEncode(Bytes(a))
            digits == SelectSeq(text, LAMBDA c : c # Blank)
        IN  /\ ServerDecode(text) = Returned(Bytes(a))
            /\ digits = Base64Stringify(a)
            /\ digits # << >> => ServerDecode(SubSeq(digits, 1, Len(digits) - 1)) = Null)

(* What is written as text is read back as it was, by the page and by the  *)
(* server.                                                                 *)
TextSurvives == EncodersInvert /\ Utf8IsExact /\ OneBase64

(* The ciphers are the standard ones: they give the published answers.     *)
Enciphered(cipher, key, block) ==
    CASE cipher = "AES" -> AESEncrypt(key, block)
      [] cipher = "DES" -> DESEncrypt(key, block)
      [] cipher = "RC4" -> Keystream(RC4Reset(key), 3)
      [] cipher = "SHA1" -> HexSha1(block)

KnownAnswers ==
    For("answer", LAMBDA a : Enciphered(a.cipher, a.key, a.block) = a.answer)

(* Deciphering undoes DES and Triple-DES under every key, and a key that   *)
(* has no words left for the third part of Triple-DES is zeros there: with *)
(* one key three times Triple-DES is DES, with the key twice it is as good *)
(* as one with eight zeros behind (TripleDES._doReset).                    *)
Repeated(key, n) == OfBytes([i \in 1 .. n * key.sig |-> key.mem[((i - 1) % key.sig) + 1]])

DESInverts ==
    For("block", LAMBDA s :
        LET key == WordArray(Slice(s.key, 0, 8), 8)
        IN  /\ DESDecrypt(key, DESEncrypt(key, s.block)) = s.block
            /\ TripleDESDecrypt(s.key, TripleDESEncrypt(s.key, s.block)) = s.block
            /\ TripleDESEncrypt(Repeated(key, 3), s.block) = DESEncrypt(key, s.block)
            /\ TripleDESEncrypt(Repeated(key, 2), s.block) =
                   TripleDESEncrypt(Concat(Repeated(key, 2), OfBytes(Zeros(8))), s.block))

(* The keystream of RC4 without its first words is the one of RC4Drop, a   *)
(* swap at a time: its state stays a permutation of the bytes.             *)
RC4DropsWords ==
    For("key", LAMBDA s :
        LET dropped == RC4DropReset(s.key, s.drop)
            whole == Keystream(RC4Reset(s.key), s.drop + 2)
        IN  /\ Keystream(dropped, 2) = SubSeq(whole, 4 * s.drop + 1, 4 * s.drop + 8)
            /\ {dropped.s[b] : b \in Byte} = Byte)

(* AES is undone under a key of whole words and under no other: the key    *)
(* schedule for deciphering is read at places a fraction off (aes.js).     *)
AESInverts ==
    For("key", LAMBDA s :
        LET block == [i \in 1 .. 16 |-> 17 * (i - 1)]
        IN  AESDecrypt(s.key, AESEncrypt(s.key, block)) = block
                <=> s.key.sig % 4 = 0)

(* Every cipher is the one its name says, and is undone.                   *)
CiphersAreStandard == KnownAnswers /\ DESInverts /\ RC4DropsWords /\ AESInverts

-----------------------------------------------------------------------------
(* Rabbit's counters are one number of eight words: comparing a new word   *)
(* with the old one finds the same carry as the sum has (nextState).       *)
CountersCarryExactly ==
    For("counters", LAMBDA s :
        LET carry[i \in 1 .. 9] ==
                IF i = 1 THEN s.b ELSE (s.c[i - 1] + A[i - 1] + carry[i - 1]) \div W
            word(i) == (s.c[i] + A[i] + carry[i]) % W
            added == AddUp(s.c, s.b)
        IN  added.carry = carry[9] /\ \A i \in 1 .. 8 : added.c[i] = word(i))

(* The two words made from the halves of g are the square of g.            *)
SquareIsExact ==
    For("number", LAMBDA g : SquareHigh(g) * W + SquareLow(g) = g * g)

(* The two places where the code computes past the width of a word.        *)
RabbitArithmetic == CountersCarryExactly /\ SquareIsExact

(* A Rabbit cipher that is reset, or a second one made from the same key,  *)
(* works with another state than the first, because the words of the key   *)
(* are turned round in the caller's array; only a key whose words read the *)
(* same both ways is spared, and the legacy variant (_doReset, reset).     *)
RabbitTurnsTheKey ==
    For("rabbit", LAMBDA s :
        \A first \in {RabbitReset(s.key, s.iv)},
           legacy \in {RabbitLegacyReset(s.key, s.iv)} :
        \A second \in {RabbitReset(first.key, s.iv)} :
            /\ second.state = first.state
                   <=> \A i \in 1 .. 4 : SwapQuarters(s.key[i]) = s.key[i]
            /\ RabbitReset(second.key, s.iv) = first
            /\ RabbitLegacyReset(legacy.key, s.iv) = legacy)

-----------------------------------------------------------------------------
(* EvpKDF and PBKDF2 derive the standard keys with every hasher whose      *)
(* digest is all of its final state.  Of a digest that is cut the words    *)
(* that were cut off count as well: EvpKDF uses them where the key ends    *)
(* within them, or when it iterates; PBKDF2 always goes wrong, with the    *)
(* HMAC it is built on (compute).                                          *)
KeysAreStandard ==
    For("derivation", LAMBDA d :
        LET password == Bytes(d.password)
            salt == Bytes(d.salt)
            size == 4 * d.keySize
            cut == d.algo.size # d.algo.full
            inCut == \E n \in 0 .. d.keySize :
                         /\ (n + 1) * d.algo.size < size
                         /\ size <= n * d.algo.size + d.algo.full
        IN  /\ Bytes(EvpKDF(d.algo, d.password, d.salt, d.keySize, d.iterations)) =
                   StandardBytesToKey(d.algo, password, salt, size, d.iterations)
                   <=> ~cut \/ (d.iterations = 1 /\ ~inCut)
            /\ Bytes(PBKDF2(d.algo, d.password, d.salt, d.keySize, d.iterations)) =
                   StandardPBKDF2(d.algo, password, salt, size, d.iterations)
                   <=> ~cut)

(* A ciphertext and its salt come back from the OpenSSL format exactly     *)
(* when the salt has eight bytes, or there is none and the ciphertext does *)
(* not happen to begin with the mark of a salt.  The hexadecimal format    *)
(* keeps the ciphertext and loses the salt.                                *)
FormatsKeep ==
    For("params", LAMBDA p :
        LET same(q) == /\ q.ciphertext.sig = p.ciphertext.sig
                       /\ Bytes(q.ciphertext) = Bytes(p.ciphertext)
            sameSalt(q) == IF p.salt = NoSalt THEN q.salt = NoSalt
                           ELSE q.salt # NoSalt /\ Bytes(q.salt) = Bytes(p.salt)
            openSSL == FormatParse("OpenSSL", FormatStringify("OpenSSL", p))
            hex == FormatParse("Hex", FormatStringify("Hex", p))
            marked == SubSeq(Bytes(p.ciphertext), 1, Least(8, p.ciphertext.sig)) = SaltMark
        IN  /\ same(openSSL) /\ sameSalt(openSSL)
                   <=> IF p.salt = NoSalt THEN ~marked ELSE p.salt.sig = 8
            /\ same(hex) /\ hex.salt = NoSalt)

(* What was enciphered with a password is read back with it from the       *)
(* OpenSSL format, whatever is drawn at the other end, and from the        *)
(* hexadecimal format only if the same salt is drawn again.                *)
FirstDraw == OfBytes(<<1, 2, 3, 4, 5, 6, 7, 8>>)
SecondDraw == OfBytes(<<8, 7, 6, 5, 4, 3, 2, 1>>)

PasswordSurvives ==
    For("page", LAMBDA s :
        LET message == Utf8Parse(s.message)
            password == Utf8Parse(s.key)
        IN  \A sent \in {PasswordEncrypt(message, password, FirstDraw)},
               format \in Formats, drawn \in {FirstDraw, SecondDraw} :
                LET sameKey == format = "OpenSSL" \/ drawn = FirstDraw
                IN  sameKey \/ s.message # << >> =>
                        (Bytes(PasswordDecrypt(
                             FormatParse(format, FormatStringify(format, sent)),
                             password, drawn)) = Bytes(message)
                            <=> sameKey))

(* index.html: what encryptByDES shows of a text that is not empty is read *)
(* back by decryptByDES under the same key exactly when the bytes of the   *)
(* key are whole words, which they seldom are when a character of it is    *)
(* not ASCII.                                                              *)
PageReadsBack ==
    For("page", LAMBDA s :
        LET iv == s.message
        IN  s.message # << >> =>
                (DecryptByDES(EncryptByDES(s.message, s.key, iv), s.key, iv) = Text(s.message)
                    <=> Utf8Parse(s.key).sig % 4 = 0))

(* What the page enciphers is deciphered by the server, and the other way  *)
(* round, exactly when the bytes of the key are a size the provider takes; *)
(* any other key gives null (AESUtils), where the page still shows a       *)
(* ciphertext.                                                             *)
ServerIv == <<43, 115, 117, 108, 112, 100, 100, 97, 43, 115, 117, 108, 112, 100, 100, 97>>

ServerReadsPage ==
    For("page", LAMBDA s :
        LET fits == Utf8Parse(s.key).sig \in {16, 24, 32}
            expected == IF fits THEN Text(s.message) ELSE Null
        IN  /\ DecryptAES(EncryptByDES(s.message, s.key, ServerIv), s.key, ServerIv) =
                   expected
            /\ Then(EncryptAES(s.message, s.key, ServerIv),
                    LAMBDA answer : DecryptByDES(answer, s.key, ServerIv)) = expected)

(* A ciphertext comes through its format, and its salt with it; the page   *)
(* reads itself, and page and server read each other.                      *)
CiphertextSurvives ==
    FormatsKeep /\ PasswordSurvives /\ PageReadsBack /\ ServerReadsPage

(* The two scripts of the page agree on the SHA-1 and the HMAC of a text   *)
(* whose units are ASCII and on no other: sha1.js keeps the low byte of a  *)
(* unit where the library encodes it in UTF-8.  On bytes they agree.       *)
IsAscii(s) == \A i \in DOMAIN s : s[i] < 128

ScriptsAgree ==
    For("page", LAMBDA s :
        LET library(parse(_)) == Digest(SHA1, NewHasher, parse(s.message))
            mac(parse(_)) == Mac(SHA1, NewMac(SHA1, parse(s.key)), parse(s.message))
        IN  /\ HexSha1(s.message) = HexStringify(library(Latin1Parse))
            /\ HexSha1(s.message) = HexStringify(library(Utf8Parse))
                   <=> IsAscii(s.message)
            /\ B64Sha1(s.message) \o <<PadChar>> = Base64Stringify(library(Latin1Parse))
            /\ HexHmacSha1(s.key, s.message) = HexStringify(mac(Latin1Parse)))

=============================================================================
