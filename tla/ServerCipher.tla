---------------------------- MODULE ServerCipher ----------------------------
(***************************************************************************)
(* The server's end of what index.html enciphers: Base64 and AESUtils of   *)
(* the Java side.  Both ends have put "_" in the place of "+" in their     *)
(* Base64 alphabet (aes.js and Base64.java), so that a digit is the same   *)
(* character at either end; a text is again the values of its digits, and  *)
(* the server's may hold blanks.                                           *)
(***************************************************************************)
EXTENDS CipherText

Blank == 65    \* the value of a blank in a Base64 text

(* What a method returns: bytes, or null where it has thrown.              *)
Null == [null |-> TRUE]

Returned(bytes) == [bytes |-> bytes]

(* What comes next is done to bytes, and not after an exception.           *)
Then(answer, next(_)) ==
    Applied(LAMBDA a : IF a = Null THEN Null ELSE next(a.bytes), answer)

(* encode: groups of three bytes make four digits, with a blank after      *)
(* every fifteenth group; one or two bytes that are left are padded.       *)
ServerEncode(bytes) ==
    LET whole == Len(bytes) \div 3
        left == Len(bytes) % 3
        digit(j) == Base64Digit(OfBytes(bytes), j)
        lines == [p \in 1 .. 4 * whole + whole \div 15 |->
                     IF p % 61 = 0 THEN Blank ELSE digit(p - 1 - p \div 61)]
        rest == [j \in 1 .. left + 1 |-> digit(4 * whole + j - 1)]
    IN  CASE left = 0 -> lines
          [] left = 1 -> lines \o rest \o <<PadChar, PadChar>>
          [] left = 2 -> lines \o rest \o <<PadChar>>

(* decode, one turn of its loop: blanks are skipped, four characters are   *)
(* taken, and padding in the third or the fourth ends the text.  A text    *)
(* that stops within a group, or a character without a value, throws.      *)
DecodeGroup(s, at) ==
    LET from == CHOOSE i \in at.i .. Len(s) + 1 :
                    /\ \A j \in at.i .. i - 1 : s[j] = Blank
                    /\ i > Len(s) \/ s[i] # Blank
        value(k) == IF s[from + k] = PadChar THEN 0 ELSE s[from + k]
        three == <<(value(0) * 4 + value(1) \div 16) % 256,
                   ((value(1) % 16) * 16 + value(2) \div 4) % 256,
                   (value(2) % 4) * 64 + value(3)>>
        taken == IF s[from + 2] = PadChar THEN 1 ELSE IF s[from + 3] = PadChar THEN 2 ELSE 3
    IN  IF from > Len(s) THEN [at EXCEPT !.end = TRUE]
        ELSE IF from + 3 > Len(s) \/ \E k \in 0 .. 3 : s[from + k] \notin 0 .. PadChar
        THEN [at EXCEPT !.throws = TRUE, !.end = TRUE]
        ELSE [i |-> from + 4, out |-> at.out \o SubSeq(three, 1, taken),
              throws |-> FALSE, end |-> taken < 3]

ServerDecode(s) ==
    LET first == [i |-> 1, out |-> << >>, throws |-> FALSE, end |-> FALSE]
    IN  Applied(LAMBDA last : IF last.throws THEN Null ELSE Returned(last.out),
                Repeat(LAMBDA at, n : IF at.end THEN at ELSE DecodeGroup(s, at),
                       first, Len(s) \div 4 + 1))

-----------------------------------------------------------------------------
(* The provider's AES/CBC/PKCS5Padding is the standard one.  It takes keys *)
(* of three sizes and whole blocks, and checks every byte of the padding;  *)
(* anything else throws.                                                   *)
ProviderKey(key) == key.sig \in {16, 24, 32}

ProviderUnpad(padded) ==
    LET n == padded[Len(padded)]
        kept == Len(padded) - n
    IN  IF /\ n \in 1 .. AESBlock
           /\ \A j \in kept + 1 .. Len(padded) : padded[j] = n
        THEN Returned(SubSeq(padded, 1, kept)) ELSE Null

ProviderDecipher(key, iv, bytes) ==
    IF bytes = << >> THEN Returned(<< >>)
    ELSE IF Len(bytes) % AESBlock # 0 THEN Null
    ELSE Applied(ProviderUnpad,
                 Bytes(Process(AppendTo(EmptyBuffer, OfBytes(bytes)), iv,
                               LAMBDA reg, block : CBCDecrypt(key, reg, block),
                               AESBlock, 0, TRUE).result))

(* encryptAES and decryptAES: any exception makes the result null.  The    *)
(* blanks of the Base64 text are taken out.                                *)
EncryptAES(message, encryptKey, iv) ==
    LET key == Utf8Parse(encryptKey)
    IN  IF ~ProviderKey(key) THEN Null
        ELSE Applied(LAMBDA bytes :
                         Returned(SelectSeq(ServerEncode(bytes), LAMBDA c : c # Blank)),
                     Bytes(Encipher(key, OfBytes(iv), Utf8Parse(message))))

(* new String(bytes, "utf-8") puts a replacement character where bytes are *)
(* malformed: Replaced stands for every text that holds such a character.  *)
Replaced == [replaced |-> TRUE]

NewString(bytes) ==
    LET text == Utf8Stringify(OfBytes(bytes))
    IN  IF text = Malformed THEN Replaced ELSE text

DecryptAES(text, decryptKey, iv) ==
    LET key == Utf8Parse(decryptKey)
    IN  IF ~ProviderKey(key) THEN Null
        ELSE Then(Then(ServerDecode(text),
                       LAMBDA bytes : ProviderDecipher(key, iv, bytes)),
                  NewString)

=============================================================================
