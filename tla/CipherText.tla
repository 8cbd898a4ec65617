----------------------------- MODULE CipherText -----------------------------
(***************************************************************************)
(* What the callers of the ciphers see: the cipher parameters and their    *)
(* two text formats, the ciphers that take a key and the ones that take a  *)
(* password, and the two functions of index.html.  The cipher is the one   *)
(* the page uses, AES in CBC mode with the padding Pkcs7.                  *)
(***************************************************************************)
EXTENDS BlockModes, Encoders, Hashers, Padding

(* CipherParams: salt is NoSalt where the parameters have none.            *)
NoSalt == [none |-> TRUE]

CipherParams(ciphertext, salt) == [ciphertext |-> ciphertext, salt |-> salt]

-----------------------------------------------------------------------------
(* The bytes of "Salted__".                                                *)
SaltMark == <<83, 97, 108, 116, 101, 100, 95, 95>>

OpenSSLStringify(params) ==
    Base64Stringify(
        IF params.salt = NoSalt THEN params.ciphertext
        ELSE Concat(Concat(OfBytes(SaltMark), params.salt), params.ciphertext))

(* Mutant: the words of the salt are taken off, their bytes not.           *)
OpenSSLParseVariant(text) ==
    LET all == Base64Parse(text)
        salt == SubSeq(all.mem, 9, Least(16, Len(all.mem)))
    IN  IF SubSeq(all.mem, 1, Least(8, Len(all.mem))) = SaltMark
        THEN CipherParams(WordArray(SubSeq(all.mem, 17, Len(all.mem)), all.sig),
                          WordArray(salt, Len(salt)))
        ELSE CipherParams(all, NoSalt)

(* Two words of salt and the rest: the words tell whether there is a salt. *)
OpenSSLParse(text) ==
    LET all == Base64Parse(text)
        salt == SubSeq(all.mem, 9, Least(16, Len(all.mem)))
    IN  IF SubSeq(all.mem, 1, Least(8, Len(all.mem))) = SaltMark
        THEN CipherParams(WordArray(SubSeq(all.mem, 17, Len(all.mem)), all.sig - 16),
                          WordArray(salt, Len(salt)))
        ELSE CipherParams(all, NoSalt)

HexFormatStringify(params) == HexStringify(params.ciphertext)

HexFormatParse(text) == CipherParams(HexParse(text), NoSalt)

Formats == {"OpenSSL", "Hex"}

FormatStringify(format, params) ==
    IF format = "OpenSSL" THEN OpenSSLStringify(params) ELSE HexFormatStringify(params)

FormatParse(format, text) ==
    IF format = "OpenSSL" THEN OpenSSLParse(text) ELSE HexFormatParse(text)

-----------------------------------------------------------------------------
(* A cipher that is created for one message: an initialisation vector is   *)
(* read for one block, as far as it has words.                             *)
AESBlock == 16

FirstRegister(iv) == Slice(iv, 0, AESBlock)

Encipher(key, iv, message) ==
    Process([data |-> Pkcs7Pad(AppendTo(EmptyBuffer, message).data, AESBlock),
             count |-> message.sig],
            FirstRegister(iv), LAMBDA reg, block : CBCEncrypt(key, reg, block),
            AESBlock, 0, TRUE).result

Decipher(key, iv, ciphertext) ==
    CountedUnpad(
        Process(AppendTo(EmptyBuffer, ciphertext), FirstRegister(iv),
                LAMBDA reg, block : CBCDecrypt(key, reg, block),
                AESBlock, 1, TRUE).result)

(* SerializableCipher: encrypt returns parameters, decrypt takes them or a *)
(* text in the format of the configuration.                                *)
SerializableEncrypt(message, key, iv) ==
    CipherParams(Encipher(key, iv, message), NoSalt)

SerializableDecrypt(params, key, iv) == Decipher(key, iv, params.ciphertext)

(* OpenSSLKdf: the sizes are in words.  The key keeps the words of the     *)
(* initialisation vector behind its own.  drawn is the salt of eight bytes *)
(* that is drawn when there is none.                                       *)
OpenSSLKdf(password, keySize, ivSize, salt, drawn) ==
    LET used == IF salt = NoSalt THEN drawn ELSE salt
        split(derived) ==
            [key |-> WordArray(derived.mem, 4 * keySize),
             iv |-> WordArray(SubSeq(derived.mem, 4 * keySize + 1, Len(derived.mem)),
                              4 * ivSize),
             salt |-> used]
    IN  Applied(split, EvpKDF(MD5, password, used, keySize + ivSize, 1))

AESKeySize == 8
AESIvSize == 4

(* PasswordBasedCipher.                                                    *)
PasswordEncrypt(message, password, drawn) ==
    Applied(LAMBDA derived :
                CipherParams(
                    SerializableEncrypt(message, derived.key, derived.iv).ciphertext,
                    derived.salt),
            OpenSSLKdf(password, AESKeySize, AESIvSize, NoSalt, drawn))

PasswordDecrypt(params, password, drawn) ==
    Applied(LAMBDA derived : SerializableDecrypt(params, derived.key, derived.iv),
            OpenSSLKdf(password, AESKeySize, AESIvSize, params.salt, drawn))

-----------------------------------------------------------------------------
(* index.html: the key, the initialisation vector and the message are      *)
(* texts, and the ciphertext is shown in Base64 without a format.          *)
EncryptByDES(message, key, iv) ==
    Base64Stringify(Encipher(Utf8Parse(key), Utf8Parse(iv), Utf8Parse(message)))

DecryptByDES(ciphertext, key, iv) ==
    Utf8Stringify(Decipher(Utf8Parse(key), Utf8Parse(iv), Base64Parse(ciphertext)))

=============================================================================
