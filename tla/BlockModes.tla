------------------------------ MODULE BlockModes ----------------------------
(***************************************************************************)
(* The modes a block cipher runs in.  The block cipher itself is a         *)
(* parameter (AES and DES are two).                                        *)
(*                                                                         *)
(* Every mode keeps one block between calls: the initialisation vector     *)
(* before the first block, which the code removes once it is used, and     *)
(* then the previous block, the keystream or the counter.  The register of *)
(* the model is that block.                                                *)
(***************************************************************************)
EXTENDS BlockBuffer

CONSTANTS EncryptBlock(_, _), DecryptBlock(_, _)  \* the block cipher: key, block

ECBEncrypt(key, reg, block) == Step(EncryptBlock(key, block), reg)

ECBDecrypt(key, reg, block) == Step(DecryptBlock(key, block), reg)

CBCEncrypt(key, reg, block) ==
    LET out == EncryptBlock(key, XorBytes(block, reg)) IN Step(out, out)

CBCDecrypt(key, reg, block) == Step(XorBytes(DecryptBlock(key, block), reg), block)

CFBEncrypt(key, reg, block) ==
    LET out == XorBytes(block, EncryptBlock(key, reg)) IN Step(out, out)

CFBDecrypt(key, reg, block) == Step(XorBytes(block, EncryptBlock(key, reg)), block)

OFBStep(key, reg, block) ==
    LET keystream == EncryptBlock(key, reg)
    IN  Step(XorBytes(block, keystream), keystream)

(* Mutant: the counter of CTR does not carry.                              *)
NextCounterVariant(counter) ==
    [counter EXCEPT ![Len(counter)] = (@ + 1) % 256]

(* The last word counts up, most significant byte first, and wraps.        *)
NextCounter(counter) ==
    LET n == Len(counter)
    IN  [i \in 1 .. n |->
            IF i > n - 4 /\ \A j \in i + 1 .. n : counter[j] = 255
            THEN (counter[i] + 1) % 256 ELSE counter[i]]

CTRStep(key, reg, block) ==
    Step(XorBytes(block, EncryptBlock(key, reg)), NextCounter(reg))

(* incWord: a word counts up with its first byte the least significant.    *)
IncWord(word) ==
    [i \in 1 .. 4 |->
        IF \A j \in 1 .. i - 1 : word[j] = 255
        THEN (word[i] + 1) % 256 ELSE word[i]]

(* incCounter: the second word counts the times the first one wrapped.     *)
IncCounter(counter) ==
    LET first == IncWord(SubSeq(counter, 1, 4))
        second == SubSeq(counter, 5, 8)
        zero == <<0, 0, 0, 0>>
    IN  first \o (IF first = zero THEN IncWord(second) ELSE second)
              \o SubSeq(counter, 9, Len(counter))

CTRGladmanStep(key, reg, block) ==
    LET counter == IncCounter(reg)
    IN  Step(XorBytes(block, EncryptBlock(key, counter)), counter)

Modes == {"ECB", "CBC", "CFB", "OFB", "CTR", "CTRGladman"}

ModeEncrypt(mode, key, reg, block) ==
    CASE mode = "ECB" -> ECBEncrypt(key, reg, block)
      [] mode = "CBC" -> CBCEncrypt(key, reg, block)
      [] mode = "CFB" -> CFBEncrypt(key, reg, block)
      [] mode = "OFB" -> OFBStep(key, reg, block)
      [] mode = "CTR" -> CTRStep(key, reg, block)
      [] mode = "CTRGladman" -> CTRGladmanStep(key, reg, block)

ModeDecrypt(mode, key, reg, block) ==
    CASE mode = "ECB" -> ECBDecrypt(key, reg, block)
      [] mode = "CBC" -> CBCDecrypt(key, reg, block)
      [] mode = "CFB" -> CFBDecrypt(key, reg, block)
      [] OTHER -> ModeEncrypt(mode, key, reg, block)

=============================================================================
