------------------------------- MODULE Padding ------------------------------
(***************************************************************************)
(* The paddings that fill the last block of a message.                     *)
(***************************************************************************)
EXTENDS WordArrays

Paddings == {"Pkcs7", "AnsiX923", "Iso10126", "Iso97971", "ZeroPadding", "NoPadding"}

(* The missing bytes complete the last block; a full block is added when   *)
(* none is missing, except by ZeroPadding.                                 *)
Missing(data, blockBytes) == blockBytes - (data.sig % blockBytes)

Pkcs7Pad(data, blockBytes) ==
    LET n == Missing(data, blockBytes)
    IN  Concat(data, WordArray([i \in 1 .. RoundUp(n, 4) |-> n], n))

AnsiX923Pad(data, blockBytes) ==
    LET n == Missing(data, blockBytes)
        clamped == Clamp(data)
        last == data.sig + n
    IN  WordArray([i \in 1 .. RoundUp(last, 4) |->
                      IF i = last THEN n ELSE At(clamped, i)], last)

(* r is the byte the random filling is made of.                            *)
Iso10126Pad(data, blockBytes, r) ==
    LET n == Missing(data, blockBytes)
    IN  Concat(Concat(data, Random(n - 1, r)), OfBytes(<<n>>))

ZeroPad(data, blockBytes) ==
    WordArray(Clamp(data).mem, RoundUp(data.sig, blockBytes))

(* Mutant: the byte that ends the message is left out.                     *)
Iso97971PadVariant(data, blockBytes) == ZeroPad(data, blockBytes)

Iso97971Pad(data, blockBytes) ==
    ZeroPad(Concat(data, OfBytes(<<128>>)), blockBytes)

Pad(padding, data, blockBytes, r) ==
    CASE padding = "Pkcs7" -> Pkcs7Pad(data, blockBytes)
      [] padding = "AnsiX923" -> AnsiX923Pad(data, blockBytes)
      [] padding = "Iso10126" -> Iso10126Pad(data, blockBytes, r)
      [] padding = "Iso97971" -> Iso97971Pad(data, blockBytes)
      [] padding = "ZeroPadding" -> ZeroPad(data, blockBytes)
      [] padding = "NoPadding" -> data

(* The count is the low byte of the word the last significant byte is in.  *)
CountedUnpad(data) ==
    [data EXCEPT !.sig = @ - (IF @ = 0 THEN 0 ELSE At(data, RoundUp(@, 4)))]

(* The loop walks back to the last byte that is not 0.  Where there is     *)
(* none it runs past the start of the array, where every byte reads as 0.  *)
ZeroUnpadEnds(data) == \E i \in 1 .. data.sig : At(data, i) # 0

ZeroUnpad(data) ==
    [data EXCEPT !.sig =
        CHOOSE i \in 1 .. data.sig :
            /\ At(data, i) # 0
            /\ \A j \in i + 1 .. data.sig : At(data, j) = 0]

UnpadEnds(padding, data) ==
    padding \in {"ZeroPadding", "Iso97971"} => ZeroUnpadEnds(data)

Unpad(padding, data) ==
    CASE padding \in {"Pkcs7", "AnsiX923", "Iso10126"} -> CountedUnpad(data)
      [] padding = "Iso97971" -> [ZeroUnpad(data) EXCEPT !.sig = @ - 1]
      [] padding = "ZeroPadding" -> ZeroUnpad(data)
      [] padding = "NoPadding" -> data

=============================================================================
