------------------------------ MODULE Encoders ------------------------------
(***************************************************************************)
(* The strategies that turn word arrays into text and back.  A text is a   *)
(* sequence of code units (0 .. 65535); a hexadecimal or Base64 text is    *)
(* the sequence of the values of its digits, and the alphabet is left out. *)
(***************************************************************************)
EXTENDS WordArrays

PadChar == 64  \* the value of the Base64 padding character

Malformed == [error |-> "Malformed UTF-8 data"]

Text(s) == [text |-> s]

-----------------------------------------------------------------------------
HexStringify(a) ==
    [i \in 1 .. 2 * a.sig |->
        LET byte == At(a, (i + 1) \div 2)
        IN  IF i % 2 = 1 THEN byte \div 16 ELSE byte % 16]

(* Digits are taken two by two; a last digit without a partner makes a     *)
(* byte of its own.  (sigBytes is then not whole; every loop over the      *)
(* bytes runs to the next whole number, which is the size here.)           *)
HexParse(s) ==
    OfBytes([k \in 1 .. (Len(s) + 1) \div 2 |->
                IF 2 * k <= Len(s) THEN 16 * s[2 * k - 1] + s[2 * k]
                ELSE s[2 * k - 1]])

Latin1Stringify(a) == Bytes(a)

Latin1Parse(s) == OfBytes([i \in DOMAIN s |-> s[i] % 256])

-----------------------------------------------------------------------------
(* UTF-8 is what encodeURIComponent and decodeURIComponent make of a text: *)
(* both throw on what has no encoding.                                     *)
IsHigh(unit) == unit \in 55296 .. 56319

IsLow(unit) == unit \in 56320 .. 57343

WellFormed(s) ==
    \A i \in DOMAIN s :
        /\ IsHigh(s[i]) => i < Len(s) /\ IsLow(s[i + 1])
        /\ IsLow(s[i]) => i > 1 /\ IsHigh(s[i - 1])

Continuation(code, k) == 128 + ((code \div k) % 64)

CodeBytes(code) ==
    CASE code < 128 -> <<code>>
      [] code \in 128 .. 2047 -> <<192 + code \div 64, Continuation(code, 1)>>
      [] code \in 2048 .. 65535 ->
           <<224 + code \div 4096, Continuation(code, 64), Continuation(code, 1)>>
      [] OTHER ->
           <<240 + code \div 262144, Continuation(code, 4096),
             Continuation(code, 64), Continuation(code, 1)>>

PairCode(high, low) == 65536 + (high - 55296) * 1024 + (low - 56320)

UnitBytes(s, i) ==
    CASE IsHigh(s[i]) -> CodeBytes(PairCode(s[i], s[i + 1]))
      [] IsLow(s[i]) -> << >>
      [] OTHER -> CodeBytes(s[i])

(* A word array, or Malformed for a text with half of a pair.              *)
Utf8Parse(s) ==
    LET upTo[i \in 0 .. Len(s)] ==
            IF i = 0 THEN << >> ELSE upTo[i - 1] \o UnitBytes(s, i)
    IN  IF WellFormed(s) THEN OfBytes(upTo[Len(s)]) ELSE Malformed

CodeLength(lead) ==
    CASE lead < 128 -> 1
      [] lead \in 194 .. 223 -> 2
      [] lead \in 224 .. 239 -> 3
      [] lead \in 240 .. 244 -> 4
      [] OTHER -> 0

CodeAt(b, i) ==
    LET part(k) == b[i + k] % 64
    IN  CASE CodeLength(b[i]) = 1 -> b[i]
          [] CodeLength(b[i]) = 2 -> (b[i] - 192) * 64 + part(1)
          [] CodeLength(b[i]) = 3 -> (b[i] - 224) * 4096 + part(1) * 64 + part(2)
          [] OTHER -> (b[i] - 240) * 262144 + part(1) * 4096 + part(2) * 64 + part(3)

(* The bytes from i on are the shortest encoding of a code that is no half *)
(* of a pair.                                                              *)
IsCodeAt(b, i) ==
    LET n == CodeLength(b[i])
    IN  /\ n > 0 /\ i + n - 1 <= Len(b)
        /\ \A k \in i + 1 .. i + n - 1 : b[k] \in 128 .. 191
        /\ CodeAt(b, i) <= 1114111
        /\ ~IsHigh(CodeAt(b, i)) /\ ~IsLow(CodeAt(b, i))
        /\ Len(CodeBytes(CodeAt(b, i))) = n

CodeUnits(code) ==
    IF code < 65536 THEN <<code>>
    ELSE <<55296 + (code - 65536) \div 1024, 56320 + ((code - 65536) % 1024)>>

(* Codes are read until the bytes are used up or one cannot be read.       *)
Utf8Stringify(a) ==
    LET b == Bytes(a)
        read[i \in 1 .. Len(b) + 1] ==
            IF i > Len(b) THEN Text(<< >>)
            ELSE IF ~IsCodeAt(b, i) THEN Malformed
            ELSE LET rest == read[i + CodeLength(b[i])]
                 IN  IF rest = Malformed THEN Malformed
                     ELSE Text(CodeUnits(CodeAt(b, i)) \o rest.text)
    IN  read[1]

-----------------------------------------------------------------------------
(* Two bytes make a unit.  Where the bytes end within one, the byte after  *)
(* the last is taken from the words all the same.                          *)
Utf16BEStringify(a) ==
    [i \in 1 .. (a.sig + 1) \div 2 |-> 256 * At(a, 2 * i - 1) + At(a, 2 * i)]

Utf16BEParse(s) ==
    OfBytes([k \in 1 .. 2 * Len(s) |->
                LET unit == s[(k + 1) \div 2]
                IN  IF k % 2 = 1 THEN unit \div 256 ELSE unit % 256])

(* swapEndian exchanges the two bytes of each half of a word.              *)
SwapEndian(a) ==
    WordArray([i \in DOMAIN a.mem |-> a.mem[IF i % 2 = 1 THEN i + 1 ELSE i - 1]],
              a.sig)

Utf16LEStringify(a) == Utf16BEStringify(SwapEndian(a))

Utf16LEParse(s) == SwapEndian(Utf16BEParse(s))

-----------------------------------------------------------------------------
(* Every digit stands for six bits, from the first byte on.                *)
Base64Digit(a, j) ==
    LET byte(k) == At(a, 3 * (j \div 4) + k)
    IN  CASE j % 4 = 0 -> byte(1) \div 4
          [] j % 4 = 1 -> (byte(1) % 4) * 16 + byte(2) \div 16
          [] j % 4 = 2 -> (byte(2) % 16) * 4 + byte(3) \div 64
          [] j % 4 = 3 -> byte(3) % 64

(* Mutant: the digit of the last bits is left out.                         *)
Base64StringifyVariant(a) ==
    LET digits == (4 * a.sig) \div 3
    IN  [i \in 1 .. RoundUp(digits, 4) |->
            IF i <= digits THEN Base64Digit(Clamp(a), i - 1) ELSE PadChar]

Base64Stringify(a) ==
    LET clamped == Clamp(a)
        digits == (4 * a.sig + 2) \div 3
    IN  [i \in 1 .. RoundUp(digits, 4) |->
            IF i <= digits THEN Base64Digit(clamped, i - 1) ELSE PadChar]

(* The text counts up to its first padding character.  Each digit but the  *)
(* first of four completes a byte with the low bits of the one before it.  *)
Base64Parse(s) ==
    LET n == CHOOSE k \in 0 .. Len(s) :
                 /\ k = Len(s) \/ s[k + 1] = PadChar
                 /\ \A j \in 1 .. k : s[j] # PadChar
        shift(i) == CASE (i - 1) % 4 = 1 -> 4 [] (i - 1) % 4 = 2 -> 16
                      [] (i - 1) % 4 = 3 -> 64
        byte(i) == ((s[i - 1] * shift(i)) % 256) + s[i] \div (64 \div shift(i))
    IN  OfBytes([k \in 1 .. n - (n + 3) \div 4 |-> byte(k + 1 + (k - 1) \div 3)])

-----------------------------------------------------------------------------
(* The constructor takes the bytes of an array buffer or of a view on it,  *)
(* whatever the size of the view's elements.                               *)
OfTypedArray(view) ==
    OfBytes(SubSeq(view.buffer, view.byteOffset + 1,
                   view.byteOffset + view.byteLength))

Encoders == {"Hex", "Latin1", "Base64", "Utf16BE", "Utf16LE"}

Stringify(encoder, a) ==
    CASE encoder = "Hex" -> HexStringify(a)
      [] encoder = "Latin1" -> Latin1Stringify(a)
      [] encoder = "Base64" -> Base64Stringify(a)
      [] encoder = "Utf16BE" -> Utf16BEStringify(a)
      [] encoder = "Utf16LE" -> Utf16LEStringify(a)

Parse(encoder, s) ==
    CASE encoder = "Hex" -> HexParse(s)
      [] encoder = "Latin1" -> Latin1Parse(s)
      [] encoder = "Base64" -> Base64Parse(s)
      [] encoder = "Utf16BE" -> Utf16BEParse(s)
      [] encoder = "Utf16LE" -> Utf16LEParse(s)

=============================================================================
