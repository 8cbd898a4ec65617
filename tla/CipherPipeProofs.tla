--------------------------- MODULE CipherPipeProofs -------------------------
(***************************************************************************)
(* Proofs about CipherPipe: for every message, every way of cutting it     *)
(* into pieces, every mode and padding and every block size, whatever the  *)
(* block cipher is, as long as it has an inverse (IsACipher).              *)
(*                                                                         *)
(* The argument, from the bottom up:                                       *)
(*  - one step of the decryptor undoes one step of the encryptor, and      *)
(*    leaves it with the same register (StepsUndo);                        *)
(*  - so the decryptor, over blocks of ciphertext, has the registers of    *)
(*    the encryptor and returns the blocks of the text (DecFollows);       *)
(*  - a buffer is described by what it holds of a text, from the blocks    *)
(*    that went to the bytes that came (Holds), which append and splice    *)
(*    keep true: how the text was cut into pieces is not in it;            *)
(*  - every padding appends the bytes of Padded, and every unpadding finds *)
(*    them (PadIs, UnpadIs);                                               *)
(*  - the inductive invariant PipeInv puts the two ends together: what     *)
(*    each buffer holds, which register it has, and that the output of the *)
(*    encryptor is the cipher of what it was given, however far it got;    *)
(*  - counting up is adding (BigCounterCounts, LittleCounterCounts), so    *)
(*    that the registers in PipeInv are the ones of the textbook.          *)
(***************************************************************************)
EXTENDS CipherPipe, SequenceTheorems, TLAPS

(* What the block cipher has to be: under the key, a permutation of the    *)
(* blocks and its inverse.                                                 *)
Regs == {s \in Seq(Byte) : Len(s) = BlockBytes}

IsACipher ==
    \A b \in Regs :
       /\ EncryptBlock(Key, b) \in Regs /\ DecryptBlock(Key, b) \in Regs
       /\ DecryptBlock(Key, EncryptBlock(Key, b)) = b

(* The steps of the two ends in configuration c.                           *)
SizeOf(c) == IF c.mode = "Stream" THEN 4 ELSE BlockBytes

EncOf(c, reg, block) == DoProcessBlock(Encryptor(c), reg, block)

DecOf(c, reg, block) == DoProcessBlock(Decryptor(c), reg, block)

Run == INSTANCE BlockBufferProofs WITH StepOf <- DoProcessBlock

-----------------------------------------------------------------------------
(* Bytes                                                                   *)

Nibble == 0 .. 15

NibbleOf(a, b, k) == ((a \div k + b \div k) % 2) * k

(* The table of the model has the exclusive or of two nibbles, bit by bit. *)
LEMMA NibbleXorIs ==
  ASSUME NEW a \in Nibble, NEW b \in Nibble
  PROVE  NibbleXor[a][b] =
            NibbleOf(a, b, 1) + NibbleOf(a, b, 2) + NibbleOf(a, b, 4) + NibbleOf(a, b, 8)
BY DEF NibbleXor, Nibble, NibbleOf

(* The exclusive or of nibbles is a nibble and undoes itself.              *)
LEMMA NibbleXorUndone ==
  ASSUME NEW a \in Nibble, NEW b \in Nibble
  PROVE  NibbleXor[a][b] \in Nibble /\ NibbleXor[NibbleXor[a][b]][b] = a
<1> DEFINE x == NibbleXor[a][b]
<1>1. x = NibbleOf(a, b, 1) + NibbleOf(a, b, 2) + NibbleOf(a, b, 4) + NibbleOf(a, b, 8)
  BY NibbleXorIs
<1>2. x \in Nibble
  BY <1>1 DEF Nibble, NibbleOf
<1>3. NibbleXor[x][b] =
        NibbleOf(x, b, 1) + NibbleOf(x, b, 2) + NibbleOf(x, b, 4) + NibbleOf(x, b, 8)
  BY <1>2, NibbleXorIs
<1> HIDE DEF x
<1>4. NibbleOf(x, b, 1) + NibbleOf(x, b, 2) + NibbleOf(x, b, 4) + NibbleOf(x, b, 8) = a
  BY <1>1, <1>2, SMTT(60) DEF Nibble, NibbleOf
<1> QED
  BY <1>2, <1>3, <1>4 DEF x

(* The exclusive or of bytes is a byte and undoes itself.                  *)
LEMMA XorUndone ==
  ASSUME NEW a \in Byte, NEW b \in Byte
  PROVE  Xor(a, b) \in Byte /\ Xor(Xor(a, b), b) = a
<1> DEFINE h == NibbleXor[a \div 16][b \div 16]
           l == NibbleXor[a % 16][b % 16]
           x == Xor(a, b)
<1>1. a \div 16 \in Nibble /\ b \div 16 \in Nibble /\ a % 16 \in Nibble /\ b % 16 \in Nibble
      /\ a = 16 * (a \div 16) + (a % 16)
  BY DEF Byte, Nibble
<1>2. /\ h \in Nibble /\ NibbleXor[h][b \div 16] = a \div 16
      /\ l \in Nibble /\ NibbleXor[l][b % 16] = a % 16
  BY <1>1, NibbleXorUndone
<1>3. x = 16 * h + l
  BY DEF Xor
<1> HIDE DEF x, h, l
<1>4. x \div 16 = h /\ x % 16 = l /\ x \in Byte
  BY <1>2, <1>3 DEF Nibble, Byte
<1>5. Xor(x, b) = a
  BY <1>1, <1>2, <1>4 DEF Xor
<1> QED
  BY <1>4, <1>5 DEF x

(* xorBlock of the modes works byte by byte, and done twice it is undone.  *)
LEMMA XorBytesIs ==
  ASSUME NEW s \in Seq(Byte), NEW t \in Seq(Byte), Len(s) <= Len(t)
  PROVE  /\ XorBytes(s, t) \in Seq(Byte)
         /\ Len(XorBytes(s, t)) = Len(s)
         /\ \A i \in 1 .. Len(s) : XorBytes(s, t)[i] = Xor(s[i], t[i])
         /\ XorBytes(XorBytes(s, t), t) = s
<1> DEFINE u == XorBytes(s, t)
<1>1. \A i \in 1 .. Len(s) : s[i] \in Byte /\ t[i] \in Byte
  OBVIOUS
<1>2. u = [i \in 1 .. Len(s) |-> Xor(s[i], t[i])]
  BY DEF XorBytes
<1>3. \A i \in 1 .. Len(s) : Xor(s[i], t[i]) \in Byte /\ Xor(Xor(s[i], t[i]), t[i]) = s[i]
  BY <1>1, XorUndone
<1>4. u \in Seq(Byte) /\ Len(u) = Len(s) /\ DOMAIN u = 1 .. Len(s)
  BY <1>2, <1>3
<1>5. \A i \in 1 .. Len(s) : u[i] = Xor(s[i], t[i])
  BY <1>2
<1> HIDE DEF u
<1>6. XorBytes(u, t) = [i \in 1 .. Len(s) |-> s[i]]
  BY <1>3, <1>4, <1>5 DEF XorBytes
<1>7. s = [i \in 1 .. Len(s) |-> s[i]]
  OBVIOUS
<1> QED
  BY <1>4, <1>5, <1>6, <1>7 DEF u

-----------------------------------------------------------------------------
(* The steps of the ciphers                                                *)

(* What the assumption about the constants says of the sizes of blocks.    *)
LEMMA Sizes ==
  /\ BlockBytes \in Nat /\ 8 <= BlockBytes /\ BlockBytes <= 252 /\ BlockBytes % 4 = 0
  /\ Iv \in Regs
<1>1. PICK words \in 2 .. 63 : BlockBytes = 4 * words
  BY PipeAssumption DEF PipeAssumption
<1>2. BlockBytes \in Nat /\ 8 <= BlockBytes /\ BlockBytes <= 252 /\ BlockBytes % 4 = 0
  BY <1>1
<1> QED
  BY <1>2, PipeAssumption DEF PipeAssumption, Regs

(* A configuration is a stream or has a mode and a padding; its blocks are *)
(* of whole words.                                                         *)
LEMMA ConfigIs ==
  ASSUME NEW c \in Configs
  PROVE  /\ c.mode \in Modes \cup {"Stream"}
         /\ c.mode = "Stream" => c.padding = "None"
         /\ c.mode # "Stream" => c.mode \in Modes /\ c.padding \in Paddings
         /\ SizeOf(c) \in Nat /\ 4 <= SizeOf(c) /\ SizeOf(c) <= BlockBytes
         /\ SizeOf(c) % 4 = 0
<1>1. /\ c.mode \in Modes \cup {"Stream"}
      /\ c.mode = "Stream" => c.padding = "None"
      /\ c.mode # "Stream" => c.mode \in Modes /\ c.padding \in Paddings
  BY DEF Configs, Modes
<1> QED
  BY <1>1, Sizes DEF SizeOf

(* The counters stay blocks.                                               *)
LEMMA NextCounterIsABlock ==
  ASSUME NEW r \in Regs
  PROVE  NextCounter(r) \in Regs
<1>1. r \in Seq(Byte) /\ Len(r) = BlockBytes /\ BlockBytes \in Nat
  BY Sizes DEF Regs
<1>2. \A i \in 1 .. BlockBytes : r[i] \in 0 .. 255 /\ (r[i] + 1) % 256 \in 0 .. 255
  <2> TAKE i \in 1 .. BlockBytes
  <2>1. r[i] \in Byte
    BY <1>1
  <2> QED
    BY <2>1 DEF Byte
<1> DEFINE next == NextCounter(r)
           byte(i) == IF i > BlockBytes - 4 /\ \A j \in i + 1 .. BlockBytes : r[j] = 255
                      THEN (r[i] + 1) % 256 ELSE r[i]
<1>3. next = [i \in 1 .. BlockBytes |-> byte(i)]
  BY <1>1 DEF NextCounter
<1>4. \A i \in 1 .. BlockBytes : byte(i) \in Byte
  BY <1>2 DEF Byte
<1> HIDE DEF next, byte
<1> QED
  BY <1>1, <1>3, <1>4 DEF Regs, next

Words == {s \in Seq(Byte) : Len(s) = 4}

(* incWord of CTRGladman keeps a word a word.                              *)
LEMMA IncWordIsAWord ==
  ASSUME NEW w \in Words
  PROVE  IncWord(w) \in Words
<1>1. w \in Seq(Byte) /\ Len(w) = 4
  BY DEF Words
<1>2. \A i \in 1 .. 4 : w[i] \in 0 .. 255 /\ (w[i] + 1) % 256 \in 0 .. 255
  <2> TAKE i \in 1 .. 4
  <2>1. w[i] \in Byte
    <3>1. i \in 1 .. Len(w)
      BY <1>1
    <3> QED
      BY <3>1, <1>1, ElementOfSeq
  <2> QED
    BY <2>1 DEF Byte
<1> DEFINE next == IncWord(w)
           byte(i) == IF \A j \in 1 .. i - 1 : w[j] = 255 THEN (w[i] + 1) % 256 ELSE w[i]
<1>3. next = [i \in 1 .. 4 |-> byte(i)]
  BY DEF IncWord
<1>4. \A i \in 1 .. 4 : byte(i) \in Byte
  BY <1>2 DEF Byte
<1> HIDE DEF next, byte
<1> QED
  BY <1>3, <1>4 DEF Words, next

(* incCounter of CTRGladman keeps the counter a block.                     *)
LEMMA IncCounterIsABlock ==
  ASSUME NEW r \in Regs
  PROVE  IncCounter(r) \in Regs
<1>1. r \in Seq(Byte) /\ Len(r) = BlockBytes /\ BlockBytes \in Nat /\ 8 <= BlockBytes
  BY Sizes DEF Regs
<1> DEFINE a == SubSeq(r, 1, 4)
           b == SubSeq(r, 5, 8)
           rest == SubSeq(r, 9, Len(r))
           first == IncWord(a)
           second == IF first = <<0, 0, 0, 0>> THEN IncWord(b) ELSE b
<1>2. a \in Words /\ b \in Words
  BY <1>1 DEF Words
<1>3. rest \in Seq(Byte) /\ Len(rest) = BlockBytes - 8
  BY <1>1
<1>4. IncCounter(r) = (first \o second) \o rest
  BY DEF IncCounter
<1> HIDE DEF a, b, rest
<1>5. first \in Words /\ second \in Words
  BY <1>2, IncWordIsAWord
<1> HIDE DEF first, second
<1>6. first \o second \in Seq(Byte) /\ Len(first \o second) = 8
  <2>1. first \in Seq(Byte) /\ second \in Seq(Byte) /\ Len(first) = 4 /\ Len(second) = 4
    BY <1>5 DEF Words
  <2>2. first \o second \in Seq(Byte) /\ Len(first \o second) = Len(first) + Len(second)
    BY <2>1, ConcatProperties
  <2> QED
    BY <2>1, <2>2
<1> DEFINE both == first \o second
<1> HIDE DEF both
<1>7. both \o rest \in Seq(Byte) /\ Len(both \o rest) = Len(both) + Len(rest)
  BY <1>3, <1>6, ConcatProperties DEF both
<1> QED
  BY <1>1, <1>3, <1>4, <1>6, <1>7 DEF Regs, both

(* The four steps of the modes and of a stream, as far as they matter:     *)
(* what goes out is a block, the register stays a block.                   *)
BlocksOfSize(n) == {s \in Seq(Byte) : Len(s) = n}

IsStep(step, n) == step.reg \in Regs /\ step.out \in BlocksOfSize(n)

(* Which step of BlockModes the encryptor and the decryptor of a           *)
(* configuration take.                                                     *)
LEMMA StepsOfModes ==
  ASSUME NEW c, NEW r, NEW p
  PROVE  /\ c.mode = "Stream" =>
              EncOf(c, r, p) = StreamStep(r, p) /\ DecOf(c, r, p) = StreamStep(r, p)
         /\ c.mode # "Stream" =>
              /\ EncOf(c, r, p) = ModeEncrypt(c.mode, Key, r, p)
              /\ DecOf(c, r, p) = ModeDecrypt(c.mode, Key, r, p)
BY DEF EncOf, DecOf, DoProcessBlock, Encryptor, Decryptor

(* All but ECB and CBC only xor a keystream, which does not depend on the  *)
(* block.                                                                  *)
Xors(c) == c.mode \notin {"ECB", "CBC"}

KeystreamOf(c, r) ==
    IF c.mode = "Stream" THEN SubSeq(EncryptBlock(Key, r), 1, 4)
    ELSE IF c.mode = "CTRGladman" THEN EncryptBlock(Key, IncCounter(r))
    ELSE EncryptBlock(Key, r)

(* The keystream of a block is as long as the block.                       *)
LEMMA KeystreamIs ==
  ASSUME IsACipher, NEW c \in Configs, NEW r \in Regs
  PROVE  KeystreamOf(c, r) \in BlocksOfSize(SizeOf(c))
<1>1. EncryptBlock(Key, r) \in Regs /\ EncryptBlock(Key, IncCounter(r)) \in Regs
  BY IncCounterIsABlock DEF IsACipher
<1>2. CASE c.mode = "Stream"
  <2> DEFINE k == EncryptBlock(Key, r)
  <2>1. k \in Seq(Byte) /\ Len(k) = BlockBytes /\ BlockBytes \in Nat /\ 8 <= BlockBytes
    BY <1>1, Sizes DEF Regs
  <2>2. KeystreamOf(c, r) = SubSeq(k, 1, 4)
    BY <1>2 DEF KeystreamOf
  <2> HIDE DEF k
  <2>3. SubSeq(k, 1, 4) \in Seq(Byte) /\ Len(SubSeq(k, 1, 4)) = 4
    BY <2>1
  <2> QED
    BY <1>2, <2>2, <2>3 DEF BlocksOfSize, SizeOf
<1>3. CASE c.mode # "Stream"
  BY <1>1, <1>3 DEF KeystreamOf, BlocksOfSize, SizeOf, Regs
<1> QED
  BY <1>2, <1>3

(* What such a step returns is the block, xored with the keystream of the  *)
(* register.                                                               *)
LEMMA XorsItsKeystream ==
  ASSUME NEW c \in Configs, Xors(c), NEW r, NEW p
  PROVE  /\ EncOf(c, r, p).out = XorBytes(p, KeystreamOf(c, r))
         /\ DecOf(c, r, p).out = XorBytes(p, KeystreamOf(c, r))
<1>1. c.mode \in {"CFB", "OFB", "CTR", "CTRGladman", "Stream"}
  BY ConfigIs DEF Xors, Modes
<1>2. CASE c.mode = "Stream"
  BY <1>2, StepsOfModes DEF StreamStep, KeystreamOf, Step
<1>3. CASE c.mode = "CFB"
  BY <1>3, StepsOfModes DEF ModeEncrypt, ModeDecrypt, CFBEncrypt, CFBDecrypt, KeystreamOf, Step
<1>4. CASE c.mode = "OFB"
  BY <1>4, StepsOfModes DEF ModeEncrypt, ModeDecrypt, OFBStep, KeystreamOf, Step
<1>5. CASE c.mode = "CTR"
  BY <1>5, StepsOfModes DEF ModeEncrypt, ModeDecrypt, CTRStep, KeystreamOf, Step
<1>6. CASE c.mode = "CTRGladman"
  BY <1>6, StepsOfModes DEF ModeEncrypt, ModeDecrypt, CTRGladmanStep, KeystreamOf, Step
<1> QED
  BY <1>1, <1>2, <1>3, <1>4, <1>5, <1>6

(* The registers of the two ends: what the writer makes of a block leaves  *)
(* both with the same one.                                                 *)
LEMMA RegistersOf ==
  ASSUME NEW c \in Configs, NEW r, NEW p
  PROVE  /\ c.mode = "Stream" =>
              EncOf(c, r, p).reg = NextCounter(r) /\ DecOf(c, r, p).reg = NextCounter(r)
         /\ c.mode = "ECB" => EncOf(c, r, p).reg = r /\ DecOf(c, r, p).reg = r
         /\ c.mode \in {"CBC", "CFB"} =>
              EncOf(c, r, p).reg = EncOf(c, r, p).out /\ DecOf(c, r, p).reg = p
         /\ c.mode = "OFB" =>
              EncOf(c, r, p).reg = KeystreamOf(c, r) /\ DecOf(c, r, p).reg = KeystreamOf(c, r)
         /\ c.mode = "CTR" =>
              EncOf(c, r, p).reg = NextCounter(r) /\ DecOf(c, r, p).reg = NextCounter(r)
         /\ c.mode = "CTRGladman" =>
              EncOf(c, r, p).reg = IncCounter(r) /\ DecOf(c, r, p).reg = IncCounter(r)
<1>1. CASE c.mode = "Stream"
  BY <1>1, StepsOfModes DEF StreamStep, Step
<1>2. CASE c.mode = "ECB"
  BY <1>2, StepsOfModes DEF ModeEncrypt, ModeDecrypt, ECBEncrypt, ECBDecrypt, Step
<1>3. CASE c.mode = "CBC"
  BY <1>3, StepsOfModes DEF ModeEncrypt, ModeDecrypt, CBCEncrypt, CBCDecrypt, Step
<1>4. CASE c.mode = "CFB"
  BY <1>4, StepsOfModes DEF ModeEncrypt, ModeDecrypt, CFBEncrypt, CFBDecrypt, Step
<1>5. CASE c.mode = "OFB"
  BY <1>5, StepsOfModes DEF ModeEncrypt, ModeDecrypt, OFBStep, KeystreamOf, Step
<1>6. CASE c.mode = "CTR"
  BY <1>6, StepsOfModes DEF ModeEncrypt, ModeDecrypt, CTRStep, Step
<1>7. CASE c.mode = "CTRGladman"
  BY <1>7, StepsOfModes DEF ModeEncrypt, ModeDecrypt, CTRGladmanStep, Step
<1> QED
  BY <1>1, <1>2, <1>3, <1>4, <1>5, <1>6, <1>7, ConfigIs DEF Modes

(* Both ends make a block of a block and keep a register that is one.      *)
LEMMA StepsAreTyped ==
  ASSUME IsACipher, NEW c \in Configs, NEW r \in Regs, NEW p \in BlocksOfSize(SizeOf(c))
  PROVE  IsStep(EncOf(c, r, p), SizeOf(c)) /\ IsStep(DecOf(c, r, p), SizeOf(c))
<1>1. /\ EncOf(c, r, p).out \in BlocksOfSize(SizeOf(c))
      /\ DecOf(c, r, p).out \in BlocksOfSize(SizeOf(c))
  <2>1. CASE Xors(c)
    <3> DEFINE k == KeystreamOf(c, r)
    <3>1. k \in Seq(Byte) /\ Len(k) = Len(p) /\ p \in Seq(Byte) /\ Len(p) = SizeOf(c)
      BY KeystreamIs DEF BlocksOfSize
    <3> HIDE DEF k
    <3>2. XorBytes(p, k) \in Seq(Byte) /\ Len(XorBytes(p, k)) = Len(p)
      BY <3>1, XorBytesIs
    <3> QED
      BY <2>1, <3>1, <3>2, XorsItsKeystream DEF k, BlocksOfSize
  <2>2. CASE c.mode = "ECB"
    <3>1. p \in Regs
      BY <2>2 DEF Regs, BlocksOfSize, SizeOf
    <3>2. EncOf(c, r, p).out = EncryptBlock(Key, p) /\ DecOf(c, r, p).out = DecryptBlock(Key, p)
      BY <2>2, StepsOfModes DEF ModeEncrypt, ModeDecrypt, ECBEncrypt, ECBDecrypt, Step
    <3>3. EncryptBlock(Key, p) \in Regs /\ DecryptBlock(Key, p) \in Regs
      BY <3>1 DEF IsACipher
    <3> QED
      BY <2>2, <3>2, <3>3 DEF Regs, BlocksOfSize, SizeOf
  <2>3. CASE c.mode = "CBC"
    <3>1. p \in Regs
      BY <2>3 DEF Regs, BlocksOfSize, SizeOf
    <3>2. /\ EncOf(c, r, p).out = EncryptBlock(Key, XorBytes(p, r))
          /\ DecOf(c, r, p).out = XorBytes(DecryptBlock(Key, p), r)
      BY <2>3, StepsOfModes DEF ModeEncrypt, ModeDecrypt, CBCEncrypt, CBCDecrypt, Step
    <3>3. \A s \in Regs : XorBytes(s, r) \in Regs
      BY XorBytesIs DEF Regs
    <3>4. EncryptBlock(Key, XorBytes(p, r)) \in Regs /\ DecryptBlock(Key, p) \in Regs
      BY <3>1, <3>3 DEF IsACipher
    <3> QED
      BY <2>3, <3>2, <3>3, <3>4 DEF Regs, BlocksOfSize, SizeOf
  <2> QED
    BY <2>1, <2>2, <2>3 DEF Xors
<1>2. NextCounter(r) \in Regs /\ IncCounter(r) \in Regs
  BY NextCounterIsABlock, IncCounterIsABlock
<1>3. c.mode # "Stream" =>
         /\ KeystreamOf(c, r) \in Regs /\ p \in Regs
         /\ EncOf(c, r, p).out \in Regs
  BY <1>1, KeystreamIs DEF BlocksOfSize, SizeOf, Regs
<1>4. EncOf(c, r, p).reg \in Regs /\ DecOf(c, r, p).reg \in Regs
  BY <1>2, <1>3, RegistersOf, ConfigIs DEF Modes
<1> QED
  BY <1>1, <1>4 DEF IsStep

(* What one end has made of a block the other undoes.                      *)
LEMMA StepsUndo ==
  ASSUME IsACipher, NEW c \in Configs, NEW r \in Regs, NEW p \in BlocksOfSize(SizeOf(c))
  PROVE  LET y == EncOf(c, r, p)
         IN  DecOf(c, r, y.out).out = p /\ DecOf(c, r, y.out).reg = y.reg
<1> DEFINE y == EncOf(c, r, p)
<1>1. DecOf(c, r, y.out).out = p
  <2>1. CASE Xors(c)
    <3> DEFINE k == KeystreamOf(c, r)
    <3>1. k \in Seq(Byte) /\ Len(k) = Len(p) /\ p \in Seq(Byte)
      BY KeystreamIs DEF BlocksOfSize
    <3>2. \A q : EncOf(c, r, q).out = XorBytes(q, k) /\ DecOf(c, r, q).out = XorBytes(q, k)
      BY <2>1, XorsItsKeystream
    <3> HIDE DEF k
    <3>3. XorBytes(XorBytes(p, k), k) = p
      BY <3>1, XorBytesIs
    <3> QED
      BY <3>2, <3>3
  <2>2. CASE c.mode = "ECB"
    <3>1. p \in Regs
      BY <2>2 DEF Regs, BlocksOfSize, SizeOf
    <3>2. \A q : /\ EncOf(c, r, q).out = EncryptBlock(Key, q)
                 /\ DecOf(c, r, q).out = DecryptBlock(Key, q)
      BY <2>2, StepsOfModes DEF ModeEncrypt, ModeDecrypt, ECBEncrypt, ECBDecrypt, Step
    <3> QED
      BY <3>1, <3>2 DEF IsACipher
  <2>3. CASE c.mode = "CBC"
    <3>1. p \in Regs
      BY <2>3 DEF Regs, BlocksOfSize, SizeOf
    <3>2. \A q : /\ EncOf(c, r, q).out = EncryptBlock(Key, XorBytes(q, r))
                 /\ DecOf(c, r, q).out = XorBytes(DecryptBlock(Key, q), r)
      BY <2>3, StepsOfModes DEF ModeEncrypt, ModeDecrypt, CBCEncrypt, CBCDecrypt, Step
    <3>3. XorBytes(p, r) \in Regs /\ XorBytes(XorBytes(p, r), r) = p
      BY <3>1, XorBytesIs DEF Regs
    <3>4. DecryptBlock(Key, EncryptBlock(Key, XorBytes(p, r))) = XorBytes(p, r)
      BY <3>3 DEF IsACipher
    <3> QED
      BY <3>2, <3>3, <3>4
  <2> QED
    BY <2>1, <2>2, <2>3 DEF Xors
<1>2. DecOf(c, r, y.out).reg = y.reg
  BY RegistersOf, ConfigIs DEF Modes
<1> QED
  BY <1>1, <1>2

(* Of a partial block only its bytes matter.                               *)
LEMMA PartialBlocks ==
  ASSUME IsACipher, NEW c \in Configs, Xors(c), NEW r \in Regs,
         NEW p \in BlocksOfSize(SizeOf(c)), NEW s \in BlocksOfSize(SizeOf(c)), NEW n \in Nat,
         \A i \in 1 .. SizeOf(c) : i <= n => p[i] = s[i]
  PROVE  \A i \in 1 .. SizeOf(c) : i <= n =>
            /\ EncOf(c, r, p).out[i] = EncOf(c, r, s).out[i]
            /\ DecOf(c, r, p).out[i] = DecOf(c, r, s).out[i]
<1> DEFINE k == KeystreamOf(c, r)
<1>1. /\ k \in Seq(Byte) /\ Len(k) = SizeOf(c)
      /\ p \in Seq(Byte) /\ Len(p) = SizeOf(c)
      /\ s \in Seq(Byte) /\ Len(s) = SizeOf(c)
      /\ SizeOf(c) \in Nat
  BY KeystreamIs, ConfigIs DEF BlocksOfSize
<1>2. \A q : EncOf(c, r, q).out = XorBytes(q, k) /\ DecOf(c, r, q).out = XorBytes(q, k)
  BY XorsItsKeystream
<1> HIDE DEF k
<1>3. \A i \in 1 .. SizeOf(c) : XorBytes(p, k)[i] = Xor(p[i], k[i])
  BY <1>1, XorBytesIs
<1>4. \A i \in 1 .. SizeOf(c) : XorBytes(s, k)[i] = Xor(s[i], k[i])
  BY <1>1, XorBytesIs
<1> QED
  BY <1>2, <1>3, <1>4

-----------------------------------------------------------------------------
(* Word arrays, and what Process makes of them                             *)

(* The bytes of n blocks; a product, under a name that is expanded only    *)
(* where it is computed with.                                              *)
Times(n, size) == n * size

IsArray(a) == a.mem \in Seq(Byte) /\ a.sig \in Nat

(* The operators of the module of the chains are the ones of this module.  *)
LEMMA SameArrays ==
  /\ Run!Byte = Byte
  /\ \A a : Run!IsArray(a) <=> IsArray(a)
  /\ \A a, i : Run!At(a, i) = At(a, i)
  /\ \A n, k : Run!RoundUp(n, k) = RoundUp(n, k)
  /\ \A a : Run!Clamp(a) = Clamp(a)
  /\ \A a, from, to : Run!Slice(a, from, to) = Slice(a, from, to)
  /\ \A s, fill : Run!Filled(s, fill) = Filled(s, fill)
<1>1. Run!Byte = Byte
  BY DEF Byte, Run!Byte
<1>2. \A a : Run!IsArray(a) <=> IsArray(a)
  BY DEF Byte, Run!Byte, IsArray, Run!IsArray
<1>3. \A a, i : Run!At(a, i) = At(a, i)
  BY DEF At, Run!At
<1>4. \A n, k : Run!RoundUp(n, k) = RoundUp(n, k)
  BY DEF RoundUp, Run!RoundUp
<1>5. \A a : Run!Clamp(a) = Clamp(a)
  BY DEF Clamp, Run!Clamp, At, Run!At, RoundUp, Run!RoundUp, WordArray, Run!WordArray
<1>6. \A a, from, to : Run!Slice(a, from, to) = Slice(a, from, to)
  BY DEF Slice, Run!Slice, At, Run!At
<1>7. \A s, fill : Run!Filled(s, fill) = Filled(s, fill)
  BY DEF Filled, Run!Filled, RoundUp, Run!RoundUp, WordArray, Run!WordArray
<1> QED
  BY <1>1, <1>2, <1>3, <1>4, <1>5, <1>6, <1>7

(* The same for the operators of BlockBuffer.                              *)
LEMMA SameBuffers ==
  /\ \A a, b : Run!Concat(a, b) = Concat(a, b)
  /\ \A mem, sig : Run!WordArray(mem, sig) = WordArray(mem, sig)
  /\ \A n, size, minBlocks, flush :
        Run!BlocksReady(n, size, minBlocks, flush) = BlocksReady(n, size, minBlocks, flush)
  /\ \A a, ready, size : Run!Taken(a, ready, size) = Taken(a, ready, size)
  /\ \A a, ready, size : Run!Spliced(a, ready, size) = Spliced(a, ready, size)
<1>1. \A a, b : Run!Concat(a, b) = Concat(a, b)
  BY DEF Concat, Run!Concat, At, Run!At, RoundUp, Run!RoundUp, WordArray, Run!WordArray,
     Clamp, Run!Clamp, Slice, Run!Slice
<1>2. \A mem, sig : Run!WordArray(mem, sig) = WordArray(mem, sig)
  BY DEF WordArray, Run!WordArray
<1>3. \A n, size, minBlocks, flush :
        Run!BlocksReady(n, size, minBlocks, flush) = BlocksReady(n, size, minBlocks, flush)
  BY DEF BlocksReady, Run!BlocksReady, RoundUp, Run!RoundUp
<1>4. \A a, ready, size : Run!Taken(a, ready, size) = Taken(a, ready, size)
  BY DEF Taken, Run!Taken, Least, Run!Least
<1>5. \A a, ready, size : Run!Spliced(a, ready, size) = Spliced(a, ready, size)
  BY DEF Taken, Run!Taken, Least, Run!Least, Spliced, Run!Spliced, WordArray, Run!WordArray
<1> QED
  BY <1>1, <1>2, <1>3, <1>4, <1>5

(* A byte of an array is a byte, 0 past its words.                         *)
LEMMA AtIsAByte ==
  \A a, i : IsArray(a) => At(a, i) \in Byte
BY SameArrays, Run!AtIsAByte, PushLimitAssumption

(* An array that is filled with the bytes of s has them.                   *)
LEMMA FilledIs ==
  \A s, fill : s \in Seq(Byte) /\ fill \in Byte =>
     /\ IsArray(Filled(s, fill))
     /\ Filled(s, fill).sig = Len(s)
     /\ \A i \in 1 .. Len(s) : At(Filled(s, fill), i) = s[i]
BY SameArrays, Run!FilledIs, PushLimitAssumption

(* clamp keeps the significant bytes and makes all others 0.               *)
LEMMA ClampIs ==
  \A a : IsArray(a) =>
     /\ IsArray(Clamp(a))
     /\ Clamp(a).sig = a.sig
     /\ Len(Clamp(a).mem) = RoundUp(a.sig, 4)
     /\ \A i \in Nat \ {0} : At(Clamp(a), i) = IF i <= a.sig THEN At(a, i) ELSE 0
BY SameArrays, Run!ClampIs, PushLimitAssumption

(* A slice has the bytes of the array, from one place to the other.        *)
LEMMA SliceIs ==
  \A a : \A from, to \in Nat : IsArray(a) /\ from <= to =>
     /\ Slice(a, from, to) \in Seq(Byte)
     /\ Len(Slice(a, from, to)) = to - from
     /\ \A i \in 1 .. to - from : Slice(a, from, to)[i] = At(a, from + i)
BY SameArrays, Run!SliceIs, PushLimitAssumption

(* concat appends the significant bytes, by whichever way it copies the    *)
(* words.                                                                  *)
LEMMA ConcatIs ==
  \A a, b : IsArray(a) /\ IsArray(b) =>
     /\ IsArray(Concat(a, b))
     /\ Concat(a, b).sig = a.sig + b.sig
     /\ \A i \in 1 .. a.sig + b.sig :
           At(Concat(a, b), i) = IF i <= a.sig THEN At(a, i) ELSE At(b, i - a.sig)
BY SameArrays, SameBuffers, Run!ConcatIs, PushLimitAssumption

(* b is a without its first blocks.                                        *)
IsRest(b, a, blocks, size) ==
    /\ IsArray(b)
    /\ b.sig = a.sig - Taken(a, blocks, size)
    /\ \A i \in Nat \ {0} : At(b, i) = At(a, Times(blocks, size) + i)

(* What splice leaves is the array without the blocks that went.           *)
LEMMA SplicedIs ==
  ASSUME NEW a, IsArray(a), NEW ready \in Nat, NEW size \in Nat
  PROVE  IsRest(Spliced(a, ready, size), a, ready, size)
<1>1. Run!IsArray(a)
  BY SameArrays
<1>2. /\ Run!IsArray(Run!Spliced(a, ready, size))
      /\ Run!Spliced(a, ready, size).sig = a.sig - Run!Taken(a, ready, size)
      /\ \A i \in Nat \ {0} :
            Run!At(Run!Spliced(a, ready, size), i) = Run!At(a, Run!Times(ready, size) + i)
  BY <1>1, Run!SplicedIs, PushLimitAssumption
<1> QED
  BY <1>2, SameArrays, SameBuffers DEF IsRest, Times, Run!Times

(* The encryptor's calls of Process are runs of its chain of steps ...     *)
LEMMA EncryptorProcesses ==
  ASSUME NEW buffer, NEW reg, NEW minBlocks, NEW flush
  PROVE  Process(buffer, reg, EncryptStep, BlockSize, minBlocks, flush) =
              Run!Proc(Encryptor(config), buffer, reg, BlockSize, minBlocks, flush)
BY DEF EncryptStep, Process, Run!Proc, Run!Process,
   Applied, Run!Applied, Repeat, Run!Repeat, Least, Run!Least, RoundUp, Run!RoundUp,
   BlocksReady, Run!BlocksReady, Spliced, Run!Spliced, Taken, Run!Taken,
   WordArray, Run!WordArray, BlockAt, Run!BlockAt, Slice, Run!Slice, At, Run!At

(* ... and so are the decryptor's.                                         *)
LEMMA DecryptorProcesses ==
  ASSUME NEW buffer, NEW reg, NEW minBlocks, NEW flush
  PROVE  Process(buffer, reg, DecryptStep, BlockSize, minBlocks, flush) =
              Run!Proc(Decryptor(config), buffer, reg, BlockSize, minBlocks, flush)
BY DEF DecryptStep, Process, Run!Proc, Run!Process,
   Applied, Run!Applied, Repeat, Run!Repeat, Least, Run!Least, RoundUp, Run!RoundUp,
   BlocksReady, Run!BlocksReady, Spliced, Run!Spliced, Taken, Run!Taken,
   WordArray, Run!WordArray, BlockAt, Run!BlockAt, Slice, Run!Slice, At, Run!At

-----------------------------------------------------------------------------
(* What either end has made of n blocks of data, starting from reg.        *)

EncChain(c, data, reg, n) == Run!Chain(Encryptor(c), data, SizeOf(c), reg, n)

DecChain(c, data, reg, n) == Run!Chain(Decryptor(c), data, SizeOf(c), reg, n)

Joined(s, t) == s \o t

(* The bytes of n + 1 blocks.                                              *)
LEMMA TimesIs ==
  ASSUME NEW n \in Nat, NEW size \in Nat
  PROVE  /\ Times(n, size) \in Nat
         /\ Times(n + 1, size) = Times(n, size) + size
BY DEF Times

(* No block has no bytes.                                                  *)
LEMMA NoTimes == \A size \in Nat : Times(0, size) = 0
BY DEF Times

(* The bytes of m and of n blocks add up.                                  *)
LEMMA TimesAdd ==
  ASSUME NEW m \in Nat, NEW n \in Nat, NEW size \in Nat
  PROVE  Times(m + n, size) = Times(m, size) + Times(n, size)
BY DEF Times

(* More blocks have not fewer bytes.                                       *)
LEMMA TimesGrow ==
  ASSUME NEW m \in Nat, NEW n \in Nat, NEW size \in Nat, m <= n
  PROVE  Times(m, size) <= Times(n, size)
BY DEF Times

(* The same for the operators the chains are stated with.                  *)
LEMMA SameChains ==
  /\ \A n, size : Run!Times(n, size) = Times(n, size)
  /\ \A s, t : Run!Joined(s, t) = Joined(s, t)
  /\ \A a, k, size : Run!BlockAt(a, k, size) = BlockAt(a, k, size)
<1>1. \A n, size : Run!Times(n, size) = Times(n, size)
  BY DEF Times, Run!Times
<1>2. \A s, t : Run!Joined(s, t) = Joined(s, t)
  BY DEF Joined, Run!Joined
<1>3. \A a, k, size : Run!BlockAt(a, k, size) = BlockAt(a, k, size)
  BY DEF BlockAt, Run!BlockAt, Slice, Run!Slice, At, Run!At
<1> QED
  BY <1>1, <1>2, <1>3

(* Both ends take steps from register to register, a block at a time.      *)
LEMMA EndsStep ==
  ASSUME IsACipher, NEW c \in Configs
  PROVE  /\ Run!Steps(Encryptor(c), SizeOf(c), SizeOf(c), Regs)
         /\ Run!Steps(Decryptor(c), SizeOf(c), SizeOf(c), Regs)
<1>1. \A r \in Regs : \A p \in Seq(Byte) : Len(p) = SizeOf(c) =>
        /\ IsStep(DoProcessBlock(Encryptor(c), r, p), SizeOf(c))
        /\ IsStep(DoProcessBlock(Decryptor(c), r, p), SizeOf(c))
  BY StepsAreTyped DEF EncOf, DecOf, BlocksOfSize
<1> QED
  BY <1>1, SameArrays DEF Run!Steps, IsStep, BlocksOfSize

(* After n blocks the encryptor has a register, and n blocks have come     *)
(* out.                                                                    *)
LEMMA EncRuns ==
  ASSUME IsACipher, NEW c \in Configs, NEW a, IsArray(a), NEW r \in Regs, NEW n \in Nat
  PROVE  /\ EncChain(c, a, r, n).reg \in Regs
         /\ EncChain(c, a, r, n).out \in Seq(Byte)
         /\ Len(EncChain(c, a, r, n).out) = Times(n, SizeOf(c))
<1>1. SizeOf(c) \in Nat /\ Run!IsArray(a)
  BY ConfigIs, SameArrays
<1>2. EncChain(c, a, r, n).reg \in Regs
  BY <1>1, EndsStep, Run!ChainRegister, PushLimitAssumption DEF EncChain
<1>3. /\ EncChain(c, a, r, n).out \in Seq(Byte)
      /\ Len(EncChain(c, a, r, n).out) = Times(n, SizeOf(c))
  BY <1>1, EndsStep, Run!ChainOutput, PushLimitAssumption, SameArrays, SameChains DEF EncChain
<1> QED
  BY <1>2, <1>3

(* a goes on, after q blocks, with n blocks that b has.                    *)
GoesOnAs(c, b, a, q, n) ==
    \A i \in 1 .. Times(n, SizeOf(c)) : At(b, i) = At(a, Times(q, SizeOf(c)) + i)

(* Blocks that go through the encryptor in two runs come out as in one.    *)
LEMMA EncJoins ==
  ASSUME IsACipher, NEW c \in Configs, NEW a, IsArray(a), NEW b, IsArray(b), NEW r \in Regs,
         NEW q \in Nat, NEW n \in Nat, GoesOnAs(c, b, a, q, n)
  PROVE  LET first == EncChain(c, a, r, q)
             rest == EncChain(c, b, first.reg, n)
         IN  /\ EncChain(c, a, r, q + n).reg = rest.reg
             /\ EncChain(c, a, r, q + n).out = Joined(first.out, rest.out)
<1>1. SizeOf(c) \in Nat /\ Run!IsArray(a) /\ Run!IsArray(b)
  BY ConfigIs, SameArrays
<1>2. Run!Continues(b, a, q, n, SizeOf(c))
  BY SameArrays, SameChains DEF GoesOnAs, Run!Continues
<1>3. Run!JoinsAt(Encryptor(c), a, b, SizeOf(c), r, q, n)
  BY <1>1, <1>2, EndsStep, Run!ChainsJoin, PushLimitAssumption
<1> QED
  BY <1>3, SameChains DEF Run!JoinsAt, EncChain

(* Two arrays that begin alike come out alike.                             *)
LEMMA EncAgrees ==
  ASSUME IsACipher, NEW c \in Configs, NEW a, IsArray(a), NEW b, IsArray(b), NEW r \in Regs,
         NEW n \in Nat, GoesOnAs(c, b, a, 0, n)
  PROVE  /\ EncChain(c, a, r, n).reg = EncChain(c, b, r, n).reg
         /\ EncChain(c, a, r, n).out = EncChain(c, b, r, n).out
<1>1. SizeOf(c) \in Nat /\ Run!IsArray(a) /\ Run!IsArray(b)
  BY ConfigIs, SameArrays
<1>2. Run!Continues(b, a, 0, n, SizeOf(c))
  BY SameArrays, SameChains DEF GoesOnAs, Run!Continues
<1> QED
  BY <1>1, <1>2, EndsStep, Run!ChainsAgree, PushLimitAssumption DEF EncChain

Grows(c, a, r, q, n) ==
    \A i \in 1 .. Times(q, SizeOf(c)) :
       EncChain(c, a, r, q + n).out[i] = EncChain(c, a, r, q).out[i]

(* What has come out stays as it is when more blocks go through.           *)
LEMMA EncGrows ==
  ASSUME IsACipher, NEW c \in Configs, NEW a, IsArray(a), NEW r \in Regs,
         NEW q \in Nat, NEW n \in Nat
  PROVE  Grows(c, a, r, q, n)
<1>1. SizeOf(c) \in Nat /\ Run!IsArray(a)
      /\ Run!Steps(Encryptor(c), SizeOf(c), SizeOf(c), Regs)
  BY ConfigIs, SameArrays, EndsStep
<1>2. Run!GrowsAt(Encryptor(c), a, SizeOf(c), SizeOf(c), r, q, n)
  BY <1>1, Run!ChainGrows, PushLimitAssumption
<1> QED
  BY <1>2, SameChains DEF EncChain, Run!GrowsAt, Grows

(* Before the first block the register is the given one and nothing is     *)
(* out.                                                                    *)
LEMMA ChainsStart ==
  ASSUME NEW c, NEW a, NEW r
  PROVE  /\ EncChain(c, a, r, 0).reg = r /\ EncChain(c, a, r, 0).out = << >>
         /\ DecChain(c, a, r, 0).reg = r /\ DecChain(c, a, r, 0).out = << >>
BY Run!ChainStarts, PushLimitAssumption DEF EncChain, DecChain

(* One block more is one step more, at either end.                         *)
LEMMA ChainsGoOn ==
  ASSUME NEW c, NEW a, NEW r, NEW n \in Nat
  PROVE  LET block == BlockAt(a, n, SizeOf(c))
             e == EncOf(c, EncChain(c, a, r, n).reg, block)
             d == DecOf(c, DecChain(c, a, r, n).reg, block)
         IN  /\ EncChain(c, a, r, n + 1).reg = e.reg
             /\ EncChain(c, a, r, n + 1).out = Joined(EncChain(c, a, r, n).out, e.out)
             /\ DecChain(c, a, r, n + 1).reg = d.reg
             /\ DecChain(c, a, r, n + 1).out = Joined(DecChain(c, a, r, n).out, d.out)
BY Run!ChainGoesOn, PushLimitAssumption, SameChains DEF EncChain, DecChain, EncOf, DecOf

(* A block of an array has the bytes of the array at its place.            *)
LEMMA BlockIs ==
  ASSUME NEW a, IsArray(a), NEW k \in Nat, NEW size \in Nat
  PROVE  /\ BlockAt(a, k, size) \in BlocksOfSize(size)
         /\ \A i \in 1 .. size : BlockAt(a, k, size)[i] = At(a, Times(k, size) + i)
<1> DEFINE block == Run!BlockAt(a, k, size)
<1>1. Run!IsArray(a)
  BY SameArrays
<1>2. /\ block \in Seq(Run!Byte) /\ Len(block) = size
      /\ \A i \in 1 .. size : block[i] = Run!At(a, k * size + i)
  BY <1>1, Run!BlockIs, PushLimitAssumption
<1>3. block = BlockAt(a, k, size)
  BY SameChains
<1> HIDE DEF block
<1>4. /\ block \in Seq(Byte) /\ Len(block) = size
      /\ \A i \in 1 .. size : block[i] = At(a, Times(k, size) + i)
  BY <1>2, SameArrays DEF Times
<1> QED
  BY <1>3, <1>4 DEF BlocksOfSize

-----------------------------------------------------------------------------
(* Whole blocks and what is left of them                                   *)

(* A length is its whole blocks and a rest of less than a block.           *)
LEMMA Quotient ==
  ASSUME NEW m \in Nat, NEW size \in Nat \ {0}
  PROVE  /\ m \div size \in Nat /\ m % size \in 0 .. size - 1
         /\ Times(m \div size, size) <= m
         /\ m % size = m - Times(m \div size, size)
         /\ m % size = 0 <=> Times(m \div size, size) = m
<1> DEFINE q == m \div size
           r == m % size
<1>1. q \in Nat /\ r \in 0 .. size - 1 /\ m = size * q + r
  BY Run!Division, PushLimitAssumption
<1> HIDE DEF q, r
<1>2. Times(q, size) = size * q /\ size * q \in Nat
  BY <1>1 DEF Times
<1>3. Times(q, size) <= m /\ r = m - Times(q, size)
  BY <1>1, <1>2
<1> QED
  BY <1>1, <1>2, <1>3 DEF q, r

(* Such a division is unique.                                              *)
LEMMA QuotientIs ==
  ASSUME NEW m \in Nat, NEW size \in Nat \ {0}, NEW q \in Nat,
         Times(q, size) <= m, m < Times(q, size) + size
  PROVE  m \div size = q /\ m % size = m - Times(q, size)
<1> DEFINE r == m - Times(q, size)
<1>1. Times(q, size) = size * q /\ size * q \in Nat /\ Times(q, size) \in Nat
  BY DEF Times
<1>2. r \in 0 .. size - 1 /\ m = size * q + r
  BY <1>1
<1> HIDE DEF r
<1>3. (size * q + r) \div size = q /\ (size * q + r) % size = r
  BY <1>2, Run!DivisionIsUnique, PushLimitAssumption
<1> QED
  BY <1>2, <1>3 DEF r

(* Without its first q blocks a text has q blocks less.                    *)
LEMMA QuotientShifts ==
  ASSUME NEW m \in Nat, NEW size \in Nat \ {0}, NEW q \in Nat, Times(q, size) <= m
  PROVE  /\ q <= m \div size
         /\ (m - Times(q, size)) \div size = (m \div size) - q
         /\ (m - Times(q, size)) % size = m % size
<1> DEFINE k == m \div size
           r == m % size
           n == m - Times(q, size)
<1>1. /\ k \in Nat /\ r \in 0 .. size - 1 /\ Times(k, size) <= m /\ r = m - Times(k, size)
      /\ Times(k, size) \in Nat /\ Times(q, size) \in Nat
  BY Quotient, TimesIs
<1> HIDE DEF k, r
<1>2. q <= k
  <2>1. SUFFICES ASSUME k + 1 <= q PROVE FALSE
    BY <1>1
  <2>2. Times(k + 1, size) <= Times(q, size) /\ Times(k + 1, size) = Times(k, size) + size
    <3>1. k + 1 \in Nat
      BY <1>1
    <3> QED
      BY <1>1, <2>1, <3>1, TimesIs, TimesGrow
  <2> QED
    BY <1>1, <2>2
<1>3. k - q \in Nat /\ Times(k, size) = Times(q, size) + Times(k - q, size)
  <2>1. k - q \in Nat /\ k = q + (k - q)
    BY <1>1, <1>2
  <2> QED
    BY <2>1, TimesAdd
<1>4. Times(k - q, size) \in Nat
  BY <1>3, TimesIs
<1>5. n \in Nat /\ Times(k - q, size) <= n /\ n < Times(k - q, size) + size
      /\ n - Times(k - q, size) = r
  BY <1>1, <1>3, <1>4
<1> HIDE DEF n
<1>6. n \div size = k - q /\ n % size = n - Times(k - q, size)
  BY <1>3, <1>5, QuotientIs
<1> QED
  BY <1>2, <1>5, <1>6 DEF k, r, n

(* Rounding up completes the last block, if there is a partial one.        *)
LEMMA RoundedBlocks ==
  ASSUME NEW m \in Nat, NEW size \in Nat \ {0}
  PROVE  /\ RoundUp(m, size) = Times((m + size - 1) \div size, size)
         /\ RoundUp(m, size) \div size = (m + size - 1) \div size
         /\ m % size = 0 => (m + size - 1) \div size = m \div size
         /\ m % size # 0 => (m + size - 1) \div size = (m \div size) + 1
<1> DEFINE k == m \div size
           j == (m + size - 1) \div size
<1>1. /\ k \in Nat /\ m % size \in 0 .. size - 1 /\ Times(k, size) <= m
      /\ m % size = m - Times(k, size) /\ Times(k, size) \in Nat
      /\ Times(k + 1, size) = Times(k, size) + size
  <2>1. k \in Nat /\ m % size \in 0 .. size - 1 /\ Times(k, size) <= m
        /\ m % size = m - Times(k, size)
    BY Quotient
  <2> HIDE DEF k
  <2> QED
    BY <2>1, TimesIs
<1>2. j \in Nat /\ m + size - 1 \in Nat
  <2>1. m + size - 1 \in Nat
    OBVIOUS
  <2> QED
    BY <2>1, Quotient
<1>3. RoundUp(m, size) = Times(j, size)
  BY DEF RoundUp, Times
<1>4. Times(j, size) \div size = j
  <2>1. Times(j, size) \in Nat /\ Times(j, size) <= Times(j, size)
        /\ Times(j, size) < Times(j, size) + size
    <3>1. Times(j, size) \in Nat
      BY <1>2, TimesIs
    <3> QED
      BY <3>1
  <2> QED
    BY <1>2, <2>1, QuotientIs
<1> HIDE DEF k
<1>5. ASSUME m % size = 0 PROVE (m + size - 1) \div size = k
  <2>1. Times(k, size) <= m + size - 1 /\ m + size - 1 < Times(k, size) + size
    BY <1>1, <1>5
  <2> QED
    BY <1>1, <1>2, <2>1, QuotientIs
<1>6. ASSUME m % size # 0 PROVE (m + size - 1) \div size = k + 1
  <2>1. Times(k + 1, size) <= m + size - 1 /\ m + size - 1 < Times(k + 1, size) + size
    BY <1>1, <1>6
  <2>2. k + 1 \in Nat
    BY <1>1
  <2> QED
    BY <1>2, <2>1, <2>2, QuotientIs
<1> QED
  BY <1>3, <1>4, <1>5, <1>6 DEF k

-----------------------------------------------------------------------------
(* Sequences of bytes                                                      *)

(* The bytes of two sequences one after the other.                         *)
LEMMA JoinedIs ==
  ASSUME NEW s \in Seq(Byte), NEW t \in Seq(Byte)
  PROVE  /\ Joined(s, t) \in Seq(Byte)
         /\ Len(Joined(s, t)) = Len(s) + Len(t)
         /\ \A i \in 1 .. Len(s) + Len(t) :
               Joined(s, t)[i] = IF i <= Len(s) THEN s[i] ELSE t[i - Len(s)]
BY ConcatProperties DEF Joined

(* Joining with nothing changes nothing, and the order of joining does not *)
(* matter.                                                                 *)
LEMMA JoinedEnds ==
  ASSUME NEW s \in Seq(Byte), NEW t \in Seq(Byte), NEW u \in Seq(Byte)
  PROVE  /\ Joined(s, << >>) = s /\ Joined(<< >>, s) = s
         /\ Joined(Joined(s, t), u) = Joined(s, Joined(t, u))
BY ConcatEmptySeq, ConcatAssociative DEF Joined

(* The first n bytes of a sequence.                                        *)
LEMMA PrefixIs ==
  ASSUME NEW s \in Seq(Byte), NEW n \in 0 .. Len(s)
  PROVE  /\ SubSeq(s, 1, n) \in Seq(Byte)
         /\ Len(SubSeq(s, 1, n)) = n
         /\ \A i \in 1 .. n : SubSeq(s, 1, n)[i] = s[i]
OBVIOUS

(* All bytes of a sequence are its first ones.                             *)
LEMMA WholeIsPrefix ==
  ASSUME NEW s \in Seq(Byte)
  PROVE  SubSeq(s, 1, Len(s)) = s
<1>1. Len(s) \in 0 .. Len(s)
  OBVIOUS
<1>2. /\ SubSeq(s, 1, Len(s)) \in Seq(Byte)
      /\ Len(SubSeq(s, 1, Len(s))) = Len(s)
      /\ \A i \in 1 .. Len(s) : SubSeq(s, 1, Len(s))[i] = s[i]
  BY <1>1, PrefixIs
<1> QED
  BY <1>2, SeqEqual

(* The significant bytes of an array that has as many words as it takes.   *)
LEMMA BytesAre ==
  ASSUME NEW mem \in Seq(Byte), NEW n \in 0 .. Len(mem)
  PROVE  Bytes(WordArray(mem, n)) = SubSeq(mem, 1, n)
<1> DEFINE a == WordArray(mem, n)
           b == Slice(a, 0, n)
<1>1. IsArray(a) /\ a.sig = n /\ a.mem = mem /\ n \in Nat
  BY DEF WordArray, IsArray
<1>2. Bytes(a) = b
  BY <1>1 DEF Bytes
<1>3. \A i \in 1 .. n : At(a, i) = mem[i]
  BY <1>1 DEF At
<1> HIDE DEF a
<1>4. b \in Seq(Byte) /\ Len(b) = n - 0 /\ \A i \in 1 .. n - 0 : b[i] = At(a, 0 + i)
  <2>1. 0 \in Nat /\ 0 <= n
    BY <1>1
  <2> QED
    BY <1>1, <2>1, SliceIs
<1> HIDE DEF b
<1>5. \A i \in 1 .. n : b[i] = mem[i]
  BY <1>1, <1>3, <1>4
<1>6. /\ SubSeq(mem, 1, n) \in Seq(Byte) /\ Len(SubSeq(mem, 1, n)) = n
      /\ \A i \in 1 .. n : SubSeq(mem, 1, n)[i] = mem[i]
  BY PrefixIs
<1>7. b = SubSeq(mem, 1, n)
  <2> DEFINE p == SubSeq(mem, 1, n)
  <2>1. p \in Seq(Byte) /\ Len(p) = n /\ \A i \in 1 .. n : p[i] = mem[i]
    BY <1>6
  <2> HIDE DEF p
  <2>2. Len(b) = n
    BY <1>1, <1>4
  <2>3. b = p
    BY <1>4, <1>5, <2>1, <2>2, SeqEqual
  <2> QED
    BY <2>3 DEF p
<1> QED
  BY <1>2, <1>7 DEF a

-----------------------------------------------------------------------------
(* The encryptor                                                           *)

(* The encryptor after k blocks of a text, and all it makes of the text.   *)
Cipher(c, t, k) == EncChain(c, OfBytes(t), Iv, k)

BlocksOf(c, t) == (Len(t) + SizeOf(c) - 1) \div SizeOf(c)

Ciphertext(c, t) == SubSeq(Cipher(c, t, BlocksOf(c, t)).out, 1, Len(t))

(* A buffer has what the text t has after q blocks, up to its byte m.      *)
Holds(c, data, t, q, m) ==
    LET from == Times(q, SizeOf(c))
    IN  /\ IsArray(data)
        /\ from <= m
        /\ data.sig = m - from
        /\ \A i \in 1 .. m - from : At(data, i) = t[from + i]

(* The cipher of a text after k blocks: a register, and k blocks.          *)
LEMMA CipherIs ==
  ASSUME IsACipher, NEW c \in Configs, NEW t \in Seq(Byte), NEW k \in Nat
  PROVE  /\ Cipher(c, t, k).reg \in Regs
         /\ Cipher(c, t, k).out \in Seq(Byte)
         /\ Len(Cipher(c, t, k).out) = Times(k, SizeOf(c))
         /\ Cipher(c, t, 0).reg = Iv /\ Cipher(c, t, 0).out = << >>
         /\ IsArray(OfBytes(t))
         /\ \A i \in 1 .. Len(t) : At(OfBytes(t), i) = t[i]
<1>1. IsArray(OfBytes(t)) /\ \A i \in 1 .. Len(t) : At(OfBytes(t), i) = t[i]
  <2>1. 0 \in Byte
    BY DEF Byte
  <2> QED
    BY <2>1, FilledIs DEF OfBytes
<1>2. Iv \in Regs
  BY Sizes
<1> QED
  BY <1>1, <1>2, EncRuns, ChainsStart DEF Cipher

(* Blocks from the buffer go on with the cipher of the text.               *)
EncGoesOn(c, data, t, q, n) ==
    LET rest == EncChain(c, data, Cipher(c, t, q).reg, n)
    IN  /\ Cipher(c, t, q + n).reg = rest.reg
        /\ Cipher(c, t, q + n).out = Joined(Cipher(c, t, q).out, rest.out)
        /\ rest.reg \in Regs
        /\ rest.out \in Seq(Byte) /\ Len(rest.out) = Times(n, SizeOf(c))

(* It is the buffer, not the calls before, that decides how the cipher     *)
(* goes on.                                                                *)
LEMMA EncContinues ==
  ASSUME IsACipher, NEW c \in Configs, NEW t \in Seq(Byte), NEW data,
         NEW q \in Nat, NEW n \in Nat, NEW m \in 0 .. Len(t),
         Holds(c, data, t, q, m), Times(q + n, SizeOf(c)) <= m
  PROVE  EncGoesOn(c, data, t, q, n)
<1> DEFINE from == Times(q, SizeOf(c))
           width == Times(n, SizeOf(c))
           a == OfBytes(t)
<1>1. /\ from \in Nat /\ width \in Nat /\ Times(q + n, SizeOf(c)) = from + width
      /\ m \in Nat /\ Len(t) \in Nat
  <2>1. SizeOf(c) \in Nat
    BY ConfigIs
  <2>2. from \in Nat /\ width \in Nat
    BY <2>1, TimesIs
  <2>3. Times(q + n, SizeOf(c)) = from + width
    BY <2>1, TimesAdd
  <2> QED
    BY <2>2, <2>3
<1>2. IsArray(a) /\ \A i \in 1 .. Len(t) : At(a, i) = t[i]
  BY CipherIs
<1>3. IsArray(data) /\ \A i \in 1 .. m - from : At(data, i) = t[from + i]
  BY DEF Holds
<1>4. GoesOnAs(c, data, a, q, n)
  <2> HIDE DEF a, from, width
  <2>1. \A i \in 1 .. width : At(data, i) = At(a, from + i)
    <3> TAKE i \in 1 .. width
    <3>1. i \in 1 .. m - from /\ from + i \in 1 .. Len(t)
      BY <1>1
    <3> QED
      BY <1>2, <1>3, <3>1
  <2> QED
    BY <2>1 DEF GoesOnAs, from, width
<1>5. Iv \in Regs /\ Cipher(c, t, q).reg \in Regs
  BY Sizes, CipherIs
<1> HIDE DEF a
<1>6. LET first == EncChain(c, a, Iv, q)
          rest == EncChain(c, data, first.reg, n)
      IN  /\ EncChain(c, a, Iv, q + n).reg = rest.reg
          /\ EncChain(c, a, Iv, q + n).out = Joined(first.out, rest.out)
  BY <1>2, <1>3, <1>4, <1>5, EncJoins
<1>7. LET rest == EncChain(c, data, Cipher(c, t, q).reg, n)
      IN  /\ rest.reg \in Regs
          /\ rest.out \in Seq(Byte) /\ Len(rest.out) = Times(n, SizeOf(c))
  BY <1>3, <1>5, EncRuns
<1> QED
  BY <1>6, <1>7 DEF Cipher, a, EncGoesOn

(* Texts that begin alike are enciphered alike.                            *)
LEMMA CiphersAgree ==
  ASSUME IsACipher, NEW c \in Configs, NEW s \in Seq(Byte), NEW t \in Seq(Byte), NEW k \in Nat,
         Times(k, SizeOf(c)) <= Len(s), Times(k, SizeOf(c)) <= Len(t),
         \A i \in 1 .. Times(k, SizeOf(c)) : s[i] = t[i]
  PROVE  Cipher(c, s, k).reg = Cipher(c, t, k).reg /\ Cipher(c, s, k).out = Cipher(c, t, k).out
<1> DEFINE a == OfBytes(s)
           b == OfBytes(t)
           n == Times(k, SizeOf(c))
<1>1. IsArray(a) /\ \A i \in 1 .. Len(s) : At(a, i) = s[i]
  BY CipherIs
<1>2. IsArray(b) /\ \A i \in 1 .. Len(t) : At(b, i) = t[i]
  BY CipherIs
<1>3. n \in Nat /\ n <= Len(s) /\ n <= Len(t) /\ Times(0, SizeOf(c)) = 0 /\ Iv \in Regs
  BY ConfigIs, TimesIs, NoTimes, Sizes
<1> HIDE DEF a, b
<1>4. GoesOnAs(c, b, a, 0, k)
  <2> HIDE DEF n
  <2>1. \A i \in 1 .. n : At(b, i) = At(a, 0 + i)
    BY <1>1, <1>2, <1>3 DEF n
  <2> QED
    BY <1>3, <2>1 DEF GoesOnAs, n
<1> QED
  BY <1>1, <1>2, <1>3, <1>4, EncAgrees DEF Cipher, a, b

(* What the buffer has after the blocks that went.                         *)
LEMMA HoldsTheRest ==
  ASSUME NEW c \in Configs, NEW t \in Seq(Byte), NEW data,
         NEW q \in Nat, NEW n \in Nat, NEW m \in 0 .. Len(t),
         Holds(c, data, t, q, m), Times(q + n, SizeOf(c)) <= m
  PROVE  Holds(c, Spliced(data, n, SizeOf(c)), t, q + n, m)
<1> DEFINE from == Times(q, SizeOf(c))
           width == Times(n, SizeOf(c))
           rest == Spliced(data, n, SizeOf(c))
<1>1. SizeOf(c) \in Nat
  BY ConfigIs
<1>2. /\ from \in Nat /\ width \in Nat /\ Times(q + n, SizeOf(c)) = from + width
      /\ m \in Nat /\ Len(t) \in Nat /\ width = n * SizeOf(c)
  <2>2. from \in Nat /\ width \in Nat
    BY <1>1, TimesIs
  <2>3. Times(q + n, SizeOf(c)) = from + width
    BY <1>1, TimesAdd
  <2> QED
    BY <2>2, <2>3 DEF Times
<1>3. /\ IsArray(data) /\ data.sig = m - from
      /\ \A i \in 1 .. m - from : At(data, i) = t[from + i]
  BY DEF Holds
<1>4. /\ IsArray(rest) /\ rest.sig = data.sig - Taken(data, n, SizeOf(c))
      /\ \A i \in Nat \ {0} : At(rest, i) = At(data, width + i)
  <2>1. IsArray(data)
    BY <1>3
  <2>2. IsRest(rest, data, n, SizeOf(c))
    BY <1>1, <2>1, SplicedIs
  <2> QED
    BY <2>2 DEF IsRest
<1>5. from + width <= m
  BY <1>2
<1> HIDE DEF rest, from, width
<1>6. Taken(data, n, SizeOf(c)) = width
  BY <1>2, <1>3, <1>5 DEF Taken, Least
<1>7. rest.sig = m - (from + width)
  BY <1>2, <1>3, <1>4, <1>6
<1>8. \A i \in 1 .. m - (from + width) : At(rest, i) = t[(from + width) + i]
  <2> TAKE i \in 1 .. m - (from + width)
  <2>1. i \in Nat \ {0} /\ width + i \in 1 .. m - from /\ from + (width + i) = (from + width) + i
    BY <1>2, <1>5
  <2>2. At(rest, i) = At(data, width + i)
    BY <1>2, <1>4, <2>1
  <2> QED
    BY <1>3, <2>1, <2>2
<1> QED
  BY <1>2, <1>4, <1>5, <1>7, <1>8 DEF Holds, rest

(* A piece that is appended.                                               *)
LEMMA HoldsMore ==
  ASSUME NEW c \in Configs, NEW t \in Seq(Byte), NEW data, NEW piece,
         NEW q \in Nat, NEW m \in 0 .. Len(t), NEW n \in Nat, m + n <= Len(t),
         Holds(c, data, t, q, m),
         IsArray(piece), piece.sig = n, \A i \in 1 .. n : At(piece, i) = t[m + i]
  PROVE  Holds(c, Concat(data, piece), t, q, m + n)
<1> DEFINE from == Times(q, SizeOf(c))
           both == Concat(data, piece)
<1>1. from \in Nat /\ m \in Nat
  <2>1. SizeOf(c) \in Nat /\ m \in Nat
    BY ConfigIs
  <2> QED
    BY <2>1, TimesIs
<1>2. /\ IsArray(data) /\ data.sig = m - from /\ from <= m
      /\ \A i \in 1 .. m - from : At(data, i) = t[from + i]
  BY DEF Holds
<1>3. /\ IsArray(both)
      /\ both.sig = data.sig + n
      /\ \A i \in 1 .. data.sig + n :
            At(both, i) = IF i <= data.sig THEN At(data, i) ELSE At(piece, i - data.sig)
  BY <1>2, ConcatIs
<1> HIDE DEF both, from
<1>4. \A i \in 1 .. (m + n) - from : At(both, i) = t[from + i]
  <2> TAKE i \in 1 .. (m + n) - from
  <2>1. i \in 1 .. data.sig + n
    BY <1>1, <1>2
  <2>2. CASE i <= data.sig
    BY <1>1, <1>2, <1>3, <2>1, <2>2
  <2>3. CASE ~ (i <= data.sig)
    <3>1. i - data.sig \in 1 .. n /\ m + (i - data.sig) = from + i
      BY <1>1, <1>2, <2>1, <2>3
    <3>2. At(both, i) = At(piece, i - data.sig)
      BY <1>3, <2>1, <2>3
    <3> QED
      BY <3>1, <3>2
  <2> QED
    BY <2>2, <2>3
<1> QED
  BY <1>1, <1>2, <1>3, <1>4 DEF Holds, both, from

(* A piece has the bytes of its place, whatever fills up its last word.    *)
LEMMA PieceIs ==
  ASSUME NEW s \in Seq(Byte), NEW from \in Nat, NEW n \in Nat, from + n <= Len(s)
  PROVE  /\ IsArray(Piece(s, from, n)) /\ Piece(s, from, n).sig = n
         /\ \A i \in 1 .. n : At(Piece(s, from, n), i) = s[from + i]
<1> DEFINE p == SubSeq(s, from + 1, from + n)
<1>1. p \in Seq(Byte) /\ Len(p) = n /\ \A i \in 1 .. n : p[i] = s[from + i]
  OBVIOUS
<1> HIDE DEF p
<1>2. Slack \in Byte
  BY PipeAssumption DEF PipeAssumption
<1>3. /\ IsArray(Filled(p, Slack)) /\ Filled(p, Slack).sig = n
      /\ \A i \in 1 .. n : At(Filled(p, Slack), i) = p[i]
  BY <1>1, <1>2, FilledIs
<1>4. Piece(s, from, n) = Filled(p, Slack)
  BY DEF Piece, p
<1> QED
  BY <1>1, <1>3, <1>4

(* A fresh buffer has what any text has before its first byte.             *)
LEMMA HoldsNothing ==
  ASSUME NEW c \in Configs, NEW t
  PROVE  Holds(c, EmptyBuffer.data, t, 0, 0)
<1>1. Times(0, SizeOf(c)) = 0
  BY ConfigIs, NoTimes
<1>2. EmptyBuffer.data = [mem |-> << >>, sig |-> 0]
  BY DEF EmptyBuffer, NoWords, WordArray
<1> QED
  BY <1>1, <1>2 DEF Holds, IsArray

IsBuffer(buffer) == buffer = [data |-> buffer.data, count |-> buffer.count]

(* The size of blocks is the one of the configuration.                     *)
LEMMA SizeOfConfig == BlockSize = SizeOf(config)
BY DEF BlockSize, IsStream, SizeOf

EncCall(buffer, reg, minBlocks, flush) ==
    Process(buffer, reg, EncryptStep, BlockSize, minBlocks, flush)

(* What a call of Process returns and leaves behind, at the encryptor ...  *)
LEMMA EncryptorIs ==
  ASSUME NEW buffer, IsBuffer(buffer),
         NEW reg, NEW minBlocks, NEW flush
  PROVE  LET data == buffer.data
             ready == BlocksReady(data.sig, BlockSize, minBlocks, flush)
             run == EncChain(config, data, reg, ready)
         IN  EncCall(buffer, reg, minBlocks, flush) =
               [buffer |-> [data |-> Spliced(data, ready, BlockSize), count |-> buffer.count],
                reg |-> run.reg,
                result |-> WordArray(run.out, Taken(data, ready, BlockSize))]
<1> DEFINE data == buffer.data
           count == buffer.count
<1>1. EncCall(buffer, reg, minBlocks, flush) =
        Run!Proc(Encryptor(config), buffer, reg, BlockSize, minBlocks, flush)
  BY EncryptorProcesses DEF EncCall
<1>2. LET ready == Run!BlocksReady(data.sig, BlockSize, minBlocks, flush)
          run == Run!Chain(Encryptor(config), data, BlockSize, reg, ready)
      IN  Run!Proc(Encryptor(config), [data |-> data, count |-> count], reg, BlockSize,
                   minBlocks, flush) =
            [buffer |-> [data |-> Run!Spliced(data, ready, BlockSize), count |-> count],
             reg |-> run.reg,
             result |-> Run!WordArray(run.out, Run!Taken(data, ready, BlockSize))]
  BY Run!ProcessIs, PushLimitAssumption
<1>3. buffer = [data |-> data, count |-> count]
  BY DEF IsBuffer
<1> HIDE DEF data, count
<1> QED
  BY <1>1, <1>2, <1>3, SameBuffers, SizeOfConfig DEF EncChain, data, count

DecCall(buffer, reg, minBlocks, flush) ==
    Process(buffer, reg, DecryptStep, BlockSize, minBlocks, flush)

(* ... and at the decryptor.                                               *)
LEMMA DecryptorIs ==
  ASSUME NEW buffer, IsBuffer(buffer),
         NEW reg, NEW minBlocks, NEW flush
  PROVE  LET data == buffer.data
             ready == BlocksReady(data.sig, BlockSize, minBlocks, flush)
             run == DecChain(config, data, reg, ready)
         IN  DecCall(buffer, reg, minBlocks, flush) =
               [buffer |-> [data |-> Spliced(data, ready, BlockSize), count |-> buffer.count],
                reg |-> run.reg,
                result |-> WordArray(run.out, Taken(data, ready, BlockSize))]
<1> DEFINE data == buffer.data
           count == buffer.count
<1>1. DecCall(buffer, reg, minBlocks, flush) =
        Run!Proc(Decryptor(config), buffer, reg, BlockSize, minBlocks, flush)
  BY DecryptorProcesses DEF DecCall
<1>2. LET ready == Run!BlocksReady(data.sig, BlockSize, minBlocks, flush)
          run == Run!Chain(Decryptor(config), data, BlockSize, reg, ready)
      IN  Run!Proc(Decryptor(config), [data |-> data, count |-> count], reg, BlockSize,
                   minBlocks, flush) =
            [buffer |-> [data |-> Run!Spliced(data, ready, BlockSize), count |-> count],
             reg |-> run.reg,
             result |-> Run!WordArray(run.out, Run!Taken(data, ready, BlockSize))]
  BY Run!ProcessIs, PushLimitAssumption
<1>3. buffer = [data |-> data, count |-> count]
  BY DEF IsBuffer
<1> HIDE DEF data, count
<1> QED
  BY <1>1, <1>2, <1>3, SameBuffers, SizeOfConfig DEF DecChain, data, count

(* What a call of process makes of the encryptor.                          *)
LEMMA EncWhole ==
  ASSUME IsACipher, config \in Configs, NEW t \in Seq(Byte), NEW buffer,
         IsBuffer(buffer),
         NEW q \in Nat, NEW m \in 0 .. Len(t), Holds(config, buffer.data, t, q, m)
  PROVE  LET k == m \div BlockSize
             p == EncCall(buffer, Cipher(config, t, q).reg, 0, FALSE)
         IN  /\ IsBuffer(p.buffer)
             /\ Holds(config, p.buffer.data, t, k, m)
             /\ p.reg = Cipher(config, t, k).reg
             /\ Bytes(p.result) \in Seq(Byte)
             /\ Joined(Cipher(config, t, q).out, Bytes(p.result)) = Cipher(config, t, k).out
<1> DEFINE data == buffer.data
           count == buffer.count
           S == BlockSize
           k == m \div S
           n == k - q
           reg == Cipher(config, t, q).reg
           p == EncCall(buffer, reg, 0, FALSE)
           rest == EncChain(config, data, reg, n)
<1>0. Holds(config, data, t, q, m)
  OBVIOUS
<1>1. S = SizeOf(config) /\ S \in Nat \ {0} /\ m \in Nat
  BY ConfigIs, SizeOfConfig
<1>2. IsArray(data) /\ data.sig = m - Times(q, S) /\ Times(q, S) <= m
  BY <1>1 DEF Holds
<1>3. /\ q <= k /\ (m - Times(q, S)) \div S = k - q /\ k \in Nat
      /\ Times(k, S) <= m
  BY <1>1, <1>2, QuotientShifts, Quotient
<1>4. n \in Nat /\ q + n = k
  BY <1>3
<1>5. BlocksReady(data.sig, S, 0, FALSE) = n
  BY <1>2, <1>3, <1>4 DEF BlocksReady
<1>6. /\ p.buffer = [data |-> Spliced(data, n, S), count |-> count]
      /\ p.reg = rest.reg
      /\ p.result = WordArray(rest.out, Taken(data, n, S))
  <2> DEFINE ready == BlocksReady(data.sig, BlockSize, 0, FALSE)
             run == EncChain(config, data, reg, ready)
  <2>1. p = [buffer |-> [data |-> Spliced(data, ready, BlockSize), count |-> count],
             reg |-> run.reg,
             result |-> WordArray(run.out, Taken(data, ready, BlockSize))]
    <3>1. IsBuffer(buffer)
      OBVIOUS
    <3> QED
      BY ONLY <3>1, EncryptorIs
  <2>2. ready = n
    BY <1>5
  <2> HIDE DEF p, n, ready, reg
  <2> QED
    BY <2>1, <2>2
<1>7. /\ Cipher(config, t, q + n).reg = rest.reg
      /\ Cipher(config, t, q + n).out = Joined(Cipher(config, t, q).out, rest.out)
      /\ rest.out \in Seq(Byte) /\ Len(rest.out) = Times(n, S)
  <2> HIDE DEF n, k, S
  <2>1. Times(q + n, SizeOf(config)) <= m
    BY <1>1, <1>3, <1>4
  <2> QED
    <3> HIDE DEF data
    <3>1. EncGoesOn(config, data, t, q, n)
      BY <1>0, <1>1, <1>4, <2>1, EncContinues
    <3> QED
      BY <1>1, <3>1 DEF EncGoesOn
<1>8. Holds(config, Spliced(data, n, S), t, q + n, m)
  <2> HIDE DEF n, k, S
  <2>1. Times(q + n, SizeOf(config)) <= m
    BY <1>1, <1>3, <1>4
  <2> QED
    BY <1>1, <1>4, <2>1, HoldsTheRest
<1>9. Taken(data, n, S) = Len(rest.out)
  <2> HIDE DEF n, k, S, rest
  <2>1. Times(k, S) = Times(q, S) + Times(n, S) /\ Times(n, S) \in Nat /\ Times(q, S) \in Nat
    <3>1. Times(n, S) \in Nat /\ Times(q, S) \in Nat
      BY <1>1, <1>4, TimesIs
    <3>2. Times(q + n, S) = Times(q, S) + Times(n, S)
      BY <1>1, <1>4, TimesAdd
    <3> QED
      BY <1>4, <3>1, <3>2
  <2>2. Times(n, S) <= data.sig
    BY <1>1, <1>2, <1>3, <2>1
  <2>3. Taken(data, n, S) = Times(n, S)
    BY <2>2 DEF Taken, Least, Times
  <2> QED
    BY <1>7, <2>3
<1> HIDE DEF rest, p, n, k, S
<1>10. Bytes(p.result) = rest.out
  <2>1. Len(rest.out) \in 0 .. Len(rest.out)
    BY <1>7
  <2>2. Bytes(WordArray(rest.out, Len(rest.out))) = SubSeq(rest.out, 1, Len(rest.out))
    BY <1>7, <2>1, BytesAre
  <2>3. SubSeq(rest.out, 1, Len(rest.out)) = rest.out
    BY <1>7, WholeIsPrefix
  <2> QED
    BY <1>6, <1>9, <2>2, <2>3
<1>11. /\ IsBuffer(p.buffer)
       /\ Holds(config, p.buffer.data, t, k, m)
  <2> DEFINE d == Spliced(data, n, S)
  <2> HIDE DEF d
  <2>1. p.buffer.data = d /\ p.buffer.count = count
    BY <1>6 DEF d
  <2>2. Holds(config, d, t, k, m)
    BY <1>4, <1>8 DEF d
  <2> QED
    BY <1>6, <2>1, <2>2 DEF d, IsBuffer
<1>12. /\ p.reg = Cipher(config, t, k).reg
       /\ Bytes(p.result) \in Seq(Byte)
       /\ Joined(Cipher(config, t, q).out, Bytes(p.result)) = Cipher(config, t, k).out
  BY <1>4, <1>6, <1>7, <1>10
<1> QED
  BY <1>11, <1>12 DEF p, k, S

JoinPartly(f, r, e, e2, n) ==
    /\ SubSeq(Joined(r, e), 1, Len(r) + n) \in Seq(Byte)
    /\ Joined(f, SubSeq(Joined(r, e), 1, Len(r) + n)) =
          SubSeq(Joined(Joined(f, r), e2), 1, Len(f) + Len(r) + n)

(* Joining the first n bytes of blocks that agree on n bytes.              *)
LEMMA JoinsPartly ==
  ASSUME NEW f \in Seq(Byte), NEW r \in Seq(Byte), NEW e \in Seq(Byte), NEW e2 \in Seq(Byte),
         NEW n \in 0 .. Len(e), n <= Len(e2), \A i \in 1 .. n : e[i] = e2[i]
  PROVE  JoinPartly(f, r, e, e2, n)
<1> DEFINE a == Joined(r, e)
           b == SubSeq(a, 1, Len(r) + n)
           x == Joined(f, b)
           g == Joined(f, r)
           h == Joined(g, e2)
           y == SubSeq(h, 1, Len(f) + Len(r) + n)
<1>1. /\ a \in Seq(Byte) /\ Len(a) = Len(r) + Len(e)
      /\ \A i \in 1 .. Len(r) + Len(e) : a[i] = IF i <= Len(r) THEN r[i] ELSE e[i - Len(r)]
  BY JoinedIs
<1>0. /\ Len(r) \in Nat /\ Len(e) \in Nat /\ Len(f) \in Nat /\ Len(e2) \in Nat /\ n \in Nat
  OBVIOUS
<1> HIDE DEF a
<1>2. /\ b \in Seq(Byte) /\ Len(b) = Len(r) + n
      /\ \A i \in 1 .. Len(r) + n : b[i] = a[i]
  <2>1. Len(r) + n \in 0 .. Len(a)
    BY <1>0, <1>1
  <2> QED
    BY <1>1, <2>1, PrefixIs
<1> HIDE DEF b
<1>3. /\ x \in Seq(Byte) /\ Len(x) = Len(f) + Len(b)
      /\ \A i \in 1 .. Len(f) + Len(b) : x[i] = IF i <= Len(f) THEN f[i] ELSE b[i - Len(f)]
  BY <1>2, JoinedIs
<1>4. /\ g \in Seq(Byte) /\ Len(g) = Len(f) + Len(r)
      /\ \A i \in 1 .. Len(f) + Len(r) : g[i] = IF i <= Len(f) THEN f[i] ELSE r[i - Len(f)]
  BY JoinedIs
<1> HIDE DEF x, g
<1>5. /\ h \in Seq(Byte) /\ Len(h) = Len(g) + Len(e2)
      /\ \A i \in 1 .. Len(g) + Len(e2) : h[i] = IF i <= Len(g) THEN g[i] ELSE e2[i - Len(g)]
  BY <1>4, JoinedIs
<1> HIDE DEF h
<1>6. /\ y \in Seq(Byte) /\ Len(y) = Len(f) + Len(r) + n
      /\ \A i \in 1 .. Len(f) + Len(r) + n : y[i] = h[i]
  <2>1. Len(f) + Len(r) + n \in 0 .. Len(h)
    BY <1>0, <1>4, <1>5
  <2> QED
    BY <1>5, <2>1, PrefixIs
<1> HIDE DEF y
<1> DEFINE F == Len(f)
           R == Len(r)
<1>7. F \in Nat /\ R \in Nat /\ F = Len(f) /\ R = Len(r)
  OBVIOUS
<1> HIDE DEF F, R
<1>8. \A i \in 1 .. F + R + n : x[i] = y[i]
  <2> TAKE i \in 1 .. F + R + n
  <2>1. y[i] = h[i] /\ i \in 1 .. Len(g) + Len(e2) /\ i \in 1 .. Len(f) + Len(b)
    BY <1>0, <1>2, <1>4, <1>6, <1>7
  <2>2. CASE i <= F
    <3>1. i \in 1 .. F + R
      BY <1>7, <2>2
    <3> QED
      BY <1>3, <1>4, <1>5, <1>7, <2>1, <2>2, <3>1
  <2>3. CASE i > F /\ i <= F + R
    <3>1. i \in 1 .. F + R /\ i - F \in 1 .. R + n /\ i - F \in 1 .. R + Len(e) /\ i - F <= R
          /\ ~ (i <= F)
      BY <1>0, <1>7, <2>3
    <3>2. x[i] = b[i - F] /\ b[i - F] = a[i - F] /\ a[i - F] = r[i - F]
      BY <1>1, <1>2, <1>3, <1>7, <2>1, <3>1
    <3>3. h[i] = g[i] /\ g[i] = r[i - F]
      BY <1>4, <1>5, <1>7, <2>1, <3>1, <2>3
    <3> QED
      BY <2>1, <3>2, <3>3
  <2>4. CASE i > F + R
    <3>1. /\ i - F \in 1 .. R + n /\ i - F \in 1 .. R + Len(e) /\ ~ (i - F <= R)
          /\ ~ (i <= F) /\ (i - F) - R \in 1 .. n /\ (i - F) - R = i - (F + R)
          /\ ~ (i <= F + R)
      BY <1>0, <1>7, <2>4
    <3>2. x[i] = b[i - F] /\ b[i - F] = a[i - F] /\ a[i - F] = e[(i - F) - R]
      BY <1>1, <1>2, <1>3, <1>7, <2>1, <3>1
    <3>3. h[i] = e2[i - (F + R)]
      BY <1>4, <1>5, <1>7, <2>1, <3>1
    <3> QED
      BY <2>1, <3>1, <3>2, <3>3
  <2> QED
    BY <1>7, <2>2, <2>3, <2>4
<1>9. x = y
  <2>1. Len(x) = Len(y) /\ Len(x) = F + R + n
    BY <1>0, <1>2, <1>3, <1>6, <1>7
  <2> QED
    BY <1>3, <1>6, <1>8, <2>1, SeqEqual
<1> QED
  BY <1>2, <1>9 DEF x, y, b, a, g, h, JoinPartly
(* The blocks of a text: the whole ones, and one for a rest.               *)
LEMMA BlocksOfIs ==
  ASSUME NEW c \in Configs, NEW t \in Seq(Byte)
  PROVE  LET whole == Len(t) \div SizeOf(c)
             r == Len(t) % SizeOf(c)
         IN  /\ whole \in Nat /\ BlocksOf(c, t) \in Nat
             /\ r \in 0 .. SizeOf(c) - 1 /\ Len(t) = Times(whole, SizeOf(c)) + r
             /\ r = 0 => BlocksOf(c, t) = whole
             /\ r # 0 => BlocksOf(c, t) = whole + 1
             /\ Len(t) <= Times(BlocksOf(c, t), SizeOf(c))
<1> DEFINE S == SizeOf(c)
           whole == Len(t) \div S
           r == Len(t) % S
<1>1. S \in Nat \ {0} /\ Len(t) \in Nat
  BY ConfigIs
<1> HIDE DEF S
<1>2. /\ whole \in Nat /\ r \in 0 .. S - 1 /\ Times(whole, S) <= Len(t)
      /\ r = Len(t) - Times(whole, S)
  BY <1>1, Quotient
<1>3. /\ r = 0 => (Len(t) + S - 1) \div S = whole
      /\ r # 0 => (Len(t) + S - 1) \div S = whole + 1
  BY <1>1, RoundedBlocks
<1>4. BlocksOf(c, t) = (Len(t) + S - 1) \div S
  BY DEF BlocksOf, S
<1> HIDE DEF whole, r
<1>5. Times(whole, S) \in Nat /\ Times(whole + 1, S) = Times(whole, S) + S
  BY <1>1, <1>2, TimesIs
<1>6. BlocksOf(c, t) \in Nat /\ Len(t) <= Times(BlocksOf(c, t), S)
  <2>1. CASE r = 0
    BY <1>2, <1>3, <1>4, <1>5, <1>1, <2>1
  <2>2. CASE r # 0
    BY <1>2, <1>3, <1>4, <1>5, <1>1, <2>2
  <2> QED
    BY <2>1, <2>2
<1>7. Len(t) = Times(whole, S) + r
  BY <1>1, <1>2, <1>5
<1> QED
  BY <1>2, <1>3, <1>4, <1>6, <1>7 DEF S, whole, r

(* A ciphertext is as long as its text.                                    *)
LEMMA CiphertextIs ==
  ASSUME IsACipher, NEW c \in Configs, NEW t \in Seq(Byte)
  PROVE  Ciphertext(c, t) \in Seq(Byte) /\ Len(Ciphertext(c, t)) = Len(t)
<1> DEFINE made == Cipher(c, t, BlocksOf(c, t)).out
<1>1. BlocksOf(c, t) \in Nat /\ Len(t) <= Times(BlocksOf(c, t), SizeOf(c))
  BY BlocksOfIs
<1>2. made \in Seq(Byte) /\ Len(made) = Times(BlocksOf(c, t), SizeOf(c))
  BY <1>1, CipherIs
<1> HIDE DEF made
<1>3. Len(t) \in 0 .. Len(made)
  BY <1>1, <1>2
<1> QED
  BY <1>2, <1>3, PrefixIs DEF Ciphertext, made

(* What finalize makes of the encryptor, once it has all of a text.        *)
LEMMA EncLast ==
  ASSUME IsACipher, config \in Configs, NEW t \in Seq(Byte), NEW buffer,
         IsBuffer(buffer),
         NEW q \in Nat, Holds(config, buffer.data, t, q, Len(t)),
         Xors(config) \/ Len(t) % BlockSize = 0
  PROVE  LET p == EncCall(buffer, Cipher(config, t, q).reg, 0, TRUE)
         IN  /\ Bytes(p.result) \in Seq(Byte)
             /\ Joined(Cipher(config, t, q).out, Bytes(p.result)) = Ciphertext(config, t)
<1> DEFINE data == buffer.data
           count == buffer.count
           S == BlockSize
           m == Len(t)
           k == m \div S
           r == m % S
           n == k - q
           ready == BlocksReady(data.sig, S, 0, TRUE)
           reg == Cipher(config, t, q).reg
           first == Cipher(config, t, q).out
           p == EncCall(buffer, reg, 0, TRUE)
           rest == EncChain(config, data, reg, n)
           all == EncChain(config, data, reg, ready)
<1>0. Holds(config, data, t, q, m)
  OBVIOUS
<1>1. S = SizeOf(config) /\ S \in Nat \ {0} /\ m \in Nat /\ m \in 0 .. Len(t)
  BY ConfigIs, SizeOfConfig
<1>2. IsArray(data) /\ data.sig = m - Times(q, S) /\ Times(q, S) <= m
  BY <1>1 DEF Holds
<1>3. /\ q <= k /\ (m - Times(q, S)) \div S = k - q /\ k \in Nat
      /\ Times(k, S) <= m
      /\ data.sig % S = r /\ r = m - Times(k, S) /\ r \in 0 .. S - 1
  <2> HIDE DEF S, m
  <2>1. /\ q <= m \div S
        /\ (m - Times(q, S)) \div S = (m \div S) - q
        /\ (m - Times(q, S)) % S = m % S
    BY <1>1, <1>2, QuotientShifts
  <2>2. /\ m \div S \in Nat /\ m % S \in 0 .. S - 1 /\ Times(m \div S, S) <= m
        /\ m % S = m - Times(m \div S, S)
    BY <1>1, Quotient
  <2> QED
    BY <1>2, <2>1, <2>2
<1>4. n \in Nat /\ q + n = k /\ data.sig \in Nat
  BY <1>2, <1>3 DEF IsArray
<1>5. (r = 0 => ready = n) /\ (r # 0 => ready = n + 1)
  <2> HIDE DEF S, m, k, r
  <2>1. ready = RoundUp(data.sig, S) \div S
    BY DEF BlocksReady
  <2>2. /\ data.sig % S = 0 => RoundUp(data.sig, S) \div S = data.sig \div S
        /\ data.sig % S # 0 => RoundUp(data.sig, S) \div S = (data.sig \div S) + 1
    <3> DEFINE x == data.sig
    <3>1. x \in Nat
      BY <1>4
    <3> HIDE DEF x
    <3>2. /\ RoundUp(x, S) \div S = (x + S - 1) \div S
          /\ x % S = 0 => (x + S - 1) \div S = x \div S
          /\ x % S # 0 => (x + S - 1) \div S = (x \div S) + 1
      BY <1>1, <3>1, RoundedBlocks
    <3>3. /\ x % S = 0 => RoundUp(x, S) \div S = x \div S
          /\ x % S # 0 => RoundUp(x, S) \div S = (x \div S) + 1
      BY <3>2
    <3> QED
      BY <3>3 DEF x
  <2>3. data.sig \div S = n
    BY <1>2, <1>3
  <2> HIDE DEF n, ready
  <2> QED
    BY <1>3, <2>1, <2>2, <2>3
<1>6. p.result = WordArray(all.out, Taken(data, ready, S))
  <2>1. p = [buffer |-> [data |-> Spliced(data, ready, S), count |-> count],
             reg |-> all.reg,
             result |-> WordArray(all.out, Taken(data, ready, S))]
    <3>1. IsBuffer(buffer)
      OBVIOUS
    <3> QED
      BY ONLY <3>1, EncryptorIs
  <2> HIDE DEF p, ready, all
  <2> QED
    BY <2>1
<1>7. /\ Cipher(config, t, k).reg = rest.reg
      /\ Cipher(config, t, k).out = Joined(first, rest.out)
      /\ rest.reg \in Regs
      /\ rest.out \in Seq(Byte) /\ Len(rest.out) = Times(n, S)
  <2> HIDE DEF n, k, S
  <2>1. Times(q + n, SizeOf(config)) <= m
    BY <1>1, <1>3, <1>4
  <2>2. /\ Cipher(config, t, q + n).reg = rest.reg
        /\ Cipher(config, t, q + n).out = Joined(first, rest.out)
        /\ rest.reg \in Regs
        /\ rest.out \in Seq(Byte) /\ Len(rest.out) = Times(n, S)
    <3> HIDE DEF data
    <3>1. EncGoesOn(config, data, t, q, n)
      BY <1>0, <1>1, <1>4, <2>1, EncContinues
    <3> QED
      BY <1>1, <3>1 DEF EncGoesOn
  <2> QED
    BY <1>4, <2>2
<1>8. first \in Seq(Byte) /\ Len(first) = Times(q, S)
  BY <1>1, CipherIs
<1>9. /\ Times(k, S) = Times(q, S) + Times(n, S) /\ Times(n, S) \in Nat /\ Times(q, S) \in Nat
      /\ data.sig = Times(n, S) + r /\ m = Times(q, S) + Times(n, S) + r
      /\ Times(n + 1, S) = Times(n, S) + S
  <2> HIDE DEF n, k, S, m, r
  <2>1. Times(n, S) \in Nat /\ Times(q, S) \in Nat
    BY <1>1, <1>4, TimesIs
  <2>2. Times(q + n, S) = Times(q, S) + Times(n, S)
    BY <1>1, <1>4, TimesAdd
  <2>3. Times(n + 1, S) = Times(n, S) + S
    BY <1>1, <1>4, TimesIs
  <2>4. Times(k, S) = Times(q, S) + Times(n, S)
    BY <1>4, <2>2
  <2> DEFINE a == Times(q, S)
             b == Times(n, S)
             g == Times(k, S)
  <2>5. a \in Nat /\ b \in Nat /\ g = a + b /\ r = m - g /\ m \in Nat /\ data.sig = m - a
        /\ r \in Nat
    BY <1>1, <1>2, <1>3, <2>1, <2>4
  <2> HIDE DEF a, b, g
  <2>6. data.sig = b + r /\ m = a + b + r
    BY <2>5
  <2> QED
    BY <2>1, <2>3, <2>4, <2>6 DEF a, b
<1>10. BlocksOf(config, t) = (m + S - 1) \div S
  BY <1>1 DEF BlocksOf
<1>11. CASE r = 0
  <2>1. ready = n
    BY <1>5, <1>11
  <2>2. Taken(data, ready, S) = Len(rest.out) /\ data.sig = Len(rest.out)
    <3> HIDE DEF n, k, S, m, r, ready, rest
    <3>1. Times(n, S) = data.sig
      BY <1>9, <1>11
    <3> QED
      BY <1>4, <1>7, <2>1, <3>1 DEF Taken, Least, Times
  <2>3. Bytes(p.result) = rest.out
    <3>1. all = rest
      BY <2>1
    <3> HIDE DEF all, rest, p, ready
    <3>2. Len(rest.out) \in 0 .. Len(rest.out)
      BY <1>7
    <3>3. Bytes(WordArray(rest.out, Len(rest.out))) = SubSeq(rest.out, 1, Len(rest.out))
      BY <1>7, <3>2, BytesAre
    <3>4. SubSeq(rest.out, 1, Len(rest.out)) = rest.out
      BY <1>7, WholeIsPrefix
    <3> QED
      BY <1>6, <2>2, <3>1, <3>3, <3>4
  <2>4. BlocksOf(config, t) = k
    BY <1>1, <1>11, BlocksOfIs
  <2>5. Cipher(config, t, k).out \in Seq(Byte) /\ Len(Cipher(config, t, k).out) = m
    <3> HIDE DEF m, k, r
    <3>1. Times(k, S) = m
      BY <1>1, <1>3, <1>9, <1>11
    <3> QED
      BY <1>1, <1>3, <3>1, CipherIs
  <2>6. SubSeq(Cipher(config, t, k).out, 1, m) = Cipher(config, t, k).out
    BY <2>5, WholeIsPrefix
  <2> HIDE DEF p, k, rest, first
  <2> QED
    <3>1. Bytes(p.result) \in Seq(Byte)
      BY <1>7, <2>3
    <3>2. Joined(first, Bytes(p.result)) = Ciphertext(config, t)
      BY <1>7, <2>3, <2>4, <2>6 DEF Ciphertext
    <3> QED
      BY <3>1, <3>2 DEF p, first
<1>12. CASE r # 0
  <2> DEFINE b == BlockAt(data, n, S)
             b2 == BlockAt(OfBytes(t), k, S)
             e == EncOf(config, rest.reg, b)
             e2 == EncOf(config, rest.reg, b2)
  <2>1. ready = n + 1 /\ BlocksOf(config, t) = k + 1 /\ Xors(config)
    BY <1>1, <1>5, <1>12, BlocksOfIs
  <2>2. all.out = Joined(rest.out, e.out)
    <3>1. EncChain(config, data, reg, n + 1).out = Joined(rest.out, e.out)
      BY <1>1, <1>4, ChainsGoOn
    <3> HIDE DEF rest, e, n, ready
    <3> QED
      BY <2>1, <3>1
  <2>3. Cipher(config, t, k + 1).out = Joined(Joined(first, rest.out), e2.out)
    <3> DEFINE x == EncChain(config, OfBytes(t), Iv, k)
    <3>1. EncChain(config, OfBytes(t), Iv, k + 1).out =
             Joined(x.out, EncOf(config, x.reg, BlockAt(OfBytes(t), k, SizeOf(config))).out)
      BY <1>3, ChainsGoOn
    <3>2. x.reg = rest.reg /\ x.out = Joined(first, rest.out)
      BY <1>7 DEF Cipher
    <3> HIDE DEF rest, x, first, k, S
    <3> QED
      BY <1>1, <3>1, <3>2 DEF Cipher
  <2>4. /\ b \in BlocksOfSize(S) /\ \A i \in 1 .. S : b[i] = At(data, Times(n, S) + i)
        /\ b2 \in BlocksOfSize(S) /\ \A i \in 1 .. S : b2[i] = At(OfBytes(t), Times(k, S) + i)
    <3>1. IsArray(OfBytes(t))
      BY CipherIs
    <3>2. b \in BlocksOfSize(S) /\ \A i \in 1 .. S : b[i] = At(data, Times(n, S) + i)
      BY <1>1, <1>2, <1>4, BlockIs
    <3>3. b2 \in BlocksOfSize(S) /\ \A i \in 1 .. S : b2[i] = At(OfBytes(t), Times(k, S) + i)
      BY <1>1, <1>3, <3>1, BlockIs
    <3> QED
      BY <3>2, <3>3
  <2>5. \A i \in 1 .. S : i <= r => b[i] = b2[i]
    <3> HIDE DEF b, b2, n, k, S, r, m
    <3> TAKE i \in 1 .. S
    <3> HAVE i <= r
    <3> DEFINE j == Times(n, S) + i
               from == Times(q, S)
               width == Times(n, S)
    <3>5. /\ from \in Nat /\ width \in Nat /\ j = width + i /\ m = from + width + r
          /\ Times(k, S) = from + width /\ r \in Nat /\ S \in Nat /\ m = Len(t)
      BY <1>1, <1>3, <1>9 DEF m
    <3> HIDE DEF j, from, width
    <3>1. from + j = Times(k, S) + i /\ j \in 1 .. m - from /\ from + j \in 1 .. Len(t)
      BY <3>5
    <3> USE DEF from
    <3>2. \A h \in 1 .. m - from : At(data, h) = t[from + h]
      BY <1>0, <1>1 DEF Holds, m
    <3>3. \A h \in 1 .. Len(t) : At(OfBytes(t), h) = t[h]
      BY CipherIs
    <3> HIDE DEF j, from
    <3>4. At(data, j) = At(OfBytes(t), from + j)
      BY <3>1, <3>2, <3>3
    <3> QED
      BY <2>4, <3>1, <3>4 DEF j
  <2>6. \A i \in 1 .. S : i <= r => e.out[i] = e2.out[i]
    <3> HIDE DEF b, b2, n, k, r, m, rest, S
    <3> DEFINE u == rest.reg
    <3>1. /\ r \in Nat /\ u \in Regs /\ config \in Configs /\ Xors(config)
          /\ b \in BlocksOfSize(SizeOf(config)) /\ b2 \in BlocksOfSize(SizeOf(config))
          /\ \A i \in 1 .. SizeOf(config) : i <= r => b[i] = b2[i]
      BY <1>1, <1>3, <1>7, <2>1, <2>4, <2>5
    <3> HIDE DEF u
    <3>2. \A i \in 1 .. SizeOf(config) : i <= r =>
             EncOf(config, u, b).out[i] = EncOf(config, u, b2).out[i]
      BY <3>1, PartialBlocks
    <3> QED
      BY <1>1, <3>2 DEF u
  <2>7. /\ e.out \in Seq(Byte) /\ Len(e.out) = S
        /\ e2.out \in Seq(Byte) /\ Len(e2.out) = S
    <3> HIDE DEF b, b2, rest, S
    <3> QED
      BY <1>1, <1>7, <2>4, StepsAreTyped DEF IsStep, BlocksOfSize
  <2> DEFINE f == first
             g == rest.out
             x == e.out
             y == e2.out
  <2> HIDE DEF e, e2, rest, first
  <2>8. Taken(data, ready, S) = Len(g) + r
    <3> HIDE DEF ready, n, S, r
    <3>1. data.sig <= Times(n + 1, S) /\ data.sig = Len(g) + r
      BY <1>1, <1>3, <1>7, <1>9
    <3>2. data.sig <= Times(ready, S)
      BY <2>1, <3>1
    <3>3. Times(n, S) + r = Len(g) + r
      BY <1>7
    <3>4. Times(ready, S) \in Nat
      <4>1. ready \in Nat
        BY <1>4, <2>1
      <4> QED
        BY <1>1, <4>1, TimesIs
    <3> DEFINE T == Times(ready, S)
    <3>5. Taken(data, ready, S) = Least(T, data.sig)
      BY DEF Taken, Times
    <3> HIDE DEF T
    <3>6. Least(T, data.sig) = data.sig
      BY <1>4, <3>2, <3>4 DEF Least, T
    <3> QED
      BY <3>1, <3>5, <3>6
  <2>9. /\ SubSeq(Joined(g, x), 1, Len(g) + r) \in Seq(Byte)
        /\ Joined(f, SubSeq(Joined(g, x), 1, Len(g) + r)) =
              SubSeq(Joined(Joined(f, g), y), 1, Len(f) + Len(g) + r)
    <3> HIDE DEF r, S
    <3>1. f \in Seq(Byte) /\ g \in Seq(Byte) /\ x \in Seq(Byte) /\ y \in Seq(Byte)
      BY <1>7, <1>8, <2>7
    <3>2. r \in 0 .. Len(x) /\ r <= Len(y) /\ \A i \in 1 .. r : x[i] = y[i]
      BY <1>1, <1>3, <2>6, <2>7
    <3> HIDE DEF f, g, x, y
    <3>3. JoinPartly(f, g, x, y, r)
      BY <3>1, <3>2, JoinsPartly
    <3> QED
      BY <3>3 DEF JoinPartly
  <2>10. Bytes(p.result) = SubSeq(Joined(g, x), 1, Len(g) + r)
    <3> DEFINE z == Joined(g, x)
    <3> HIDE DEF p, all, ready
    <3>1. z \in Seq(Byte) /\ Len(z) = Len(g) + S
      <4>1. g \in Seq(Byte) /\ x \in Seq(Byte) /\ Len(x) = S
        BY <1>7, <2>7
      <4> HIDE DEF g, x, S
      <4> QED
        BY <4>1, JoinedIs
    <3>2. p.result = WordArray(z, Len(g) + r)
      BY <1>6, <2>2, <2>8
    <3>3. Len(g) + r \in 0 .. Len(z)
      <4> HIDE DEF S, r, z
      <4>1. Len(g) \in Nat
        BY <1>7
      <4> HIDE DEF g
      <4> QED
        BY <1>1, <1>3, <3>1, <4>1
    <3> HIDE DEF z, r, g
    <3> QED
      BY <3>1, <3>2, <3>3, BytesAre DEF z
  <2>11. Len(f) + Len(g) + r = m
    <3> HIDE DEF r, m, S, n, k
    <3> QED
      BY <1>7, <1>8, <1>9
  <2> HIDE DEF p, m, S, n, k, r
  <2>12. Ciphertext(config, t) = SubSeq(Joined(Joined(f, g), y), 1, m)
    BY <2>1, <2>3 DEF Ciphertext, m
  <2>13. Joined(f, Bytes(p.result)) = Ciphertext(config, t)
    BY <2>9, <2>10, <2>11, <2>12
  <2>14. Bytes(p.result) \in Seq(Byte)
    BY <2>9, <2>10
  <2> QED
    BY <2>13, <2>14 DEF p, first
<1> QED
  BY <1>11, <1>12

-----------------------------------------------------------------------------
(* The paddings                                                            *)

(* What a padding adds to n bytes: how many, and which.                    *)
Short(n) == BlockBytes - (n % BlockBytes)

Added(c, n) ==
    CASE c.padding \in {"None", "NoPadding"} -> 0
      [] c.padding = "ZeroPadding" -> IF n % BlockBytes = 0 THEN 0 ELSE Short(n)
      [] OTHER -> Short(n)

FillByte(c, n, i) ==
    CASE c.padding = "Pkcs7" -> Short(n)
      [] c.padding = "AnsiX923" -> IF i = Short(n) THEN Short(n) ELSE 0
      [] c.padding = "Iso10126" -> IF i = Short(n) THEN Short(n) ELSE Slack
      [] c.padding = "Iso97971" -> IF i = 1 THEN 128 ELSE 0
      [] OTHER -> 0

(* The first n bytes of the message, padded.                               *)
Padded(c, n) ==
    [i \in 1 .. n + Added(c, n) |->
        IF i <= n THEN Message[i] ELSE FillByte(c, n, i - n)]

(* What a length lacks to whole blocks: at least a byte, at most a block.  *)
LEMMA ShortIs ==
  ASSUME NEW n \in Nat
  PROVE  /\ Short(n) \in 1 .. BlockBytes /\ Short(n) \in Byte
         /\ n + Short(n) = Times((n \div BlockBytes) + 1, BlockBytes)
         /\ (n + Short(n)) % BlockBytes = 0
<1> DEFINE S == BlockBytes
           k == n \div S
           r == n % S
<1>1. S \in Nat \ {0} /\ S <= 252
  BY Sizes
<1> HIDE DEF S
<1>2. k \in Nat /\ r \in 0 .. S - 1 /\ Times(k, S) <= n /\ r = n - Times(k, S)
  BY <1>1, Quotient
<1> HIDE DEF k, r
<1>3. Times(k, S) \in Nat /\ Times(k + 1, S) = Times(k, S) + S
  BY <1>1, <1>2, TimesIs
<1>4. Short(n) = S - r
  BY DEF Short, S, r
<1>5. n + Short(n) = Times(k + 1, S)
  BY <1>1, <1>2, <1>3, <1>4
<1>6. k + 1 \in Nat /\ Times(k + 1, S) \in Nat
  BY <1>1, <1>2, <1>3
<1>7. Times(k + 1, S) % S = 0
  <2> DEFINE m == Times(k + 1, S)
  <2>1. m \in Nat /\ Times(k + 1, S) <= m /\ m < Times(k + 1, S) + S
        /\ m - Times(k + 1, S) = 0
    BY <1>1, <1>6
  <2> HIDE DEF m
  <2>2. m % S = m - Times(k + 1, S)
    BY <1>1, <1>6, <2>1, QuotientIs
  <2> QED
    BY <2>1, <2>2 DEF m
<1>8. Short(n) \in 1 .. S /\ Short(n) \in Byte
  BY <1>1, <1>2, <1>4 DEF Byte
<1>9. (n + Short(n)) % S = 0
  BY <1>5, <1>7
<1> QED
  BY <1>5, <1>8, <1>9 DEF S, k

(* It can be written in the padding bytes.                                 *)
LEMMA ShortIsAByte ==
  ASSUME NEW n \in Nat
  PROVE  Short(n) \in 1 .. BlockBytes /\ Short(n) \in Byte /\ Short(n) \in Nat \ {0}
<1>1. Short(n) \in 1 .. BlockBytes /\ Short(n) \in Byte
  BY ShortIs
<1> DEFINE m == Short(n)
<1> HIDE DEF m
<1>2. m \in 1 .. BlockBytes /\ BlockBytes \in Nat
  BY <1>1, Sizes DEF m
<1>3. m \in Nat \ {0}
  BY <1>2
<1> QED
  BY <1>1, <1>3 DEF m

(* An array of one byte.                                                   *)
LEMMA OneByteIs ==
  ASSUME NEW b \in Byte
  PROVE  IsArray(OfBytes(<<b>>)) /\ OfBytes(<<b>>).sig = 1 /\ At(OfBytes(<<b>>), 1) = b
<1> DEFINE s == <<b>>
<1>1. s \in Seq(Byte) /\ Len(s) = 1 /\ s[1] = b
  OBVIOUS
<1>2. 0 \in Byte
  BY DEF Byte
<1> HIDE DEF s
<1>3. /\ IsArray(Filled(s, 0)) /\ Filled(s, 0).sig = Len(s)
      /\ \A i \in 1 .. Len(s) : At(Filled(s, 0), i) = s[i]
  BY <1>1, <1>2, FilledIs
<1> QED
  BY <1>1, <1>3 DEF s, OfBytes

(* What is added are bytes, at most a block.                               *)
LEMMA AddedIs ==
  ASSUME NEW c \in Configs, NEW n \in Nat
  PROVE  /\ Added(c, n) \in 0 .. BlockBytes
         /\ \A i \in 1 .. Added(c, n) : FillByte(c, n, i) \in Byte
         /\ Added(c, n) # 0 => Added(c, n) = Short(n)
<1>1. Short(n) \in 1 .. BlockBytes /\ Short(n) \in Byte /\ BlockBytes \in Nat
  BY ShortIs, Sizes
<1>2. Slack \in Byte /\ 0 \in Byte /\ 128 \in Byte
  BY PipeAssumption DEF PipeAssumption, Byte
<1> HIDE DEF Byte
<1>3. Added(c, n) \in 0 .. BlockBytes /\ (Added(c, n) # 0 => Added(c, n) = Short(n))
  BY <1>1 DEF Added
<1>4. \A i \in 1 .. Added(c, n) : FillByte(c, n, i) \in Byte
  BY <1>1, <1>2 DEF FillByte
<1> QED
  BY <1>3, <1>4

(* They depend on what the last block lacks, not on how many there are.    *)
LEMMA AddedAlike ==
  ASSUME NEW c \in Configs, NEW m, NEW n, m % BlockBytes = n % BlockBytes
  PROVE  /\ Added(c, m) = Added(c, n)
         /\ \A i : FillByte(c, m, i) = FillByte(c, n, i)
<1>1. Short(m) = Short(n)
  BY DEF Short
<1> QED
  BY <1>1 DEF Added, FillByte

PadsTo(c, data, p) ==
    /\ IsArray(p)
    /\ p.sig = data.sig + Added(c, data.sig)
    /\ \A i \in 1 .. data.sig : At(p, i) = At(data, i)
    /\ \A i \in 1 .. Added(c, data.sig) : At(p, data.sig + i) = FillByte(c, data.sig, i)

(* Rounding up to words does not shorten.                                  *)
LEMMA RoundedWords ==
  ASSUME NEW n \in Nat
  PROVE  RoundUp(n, 4) \in Nat /\ n <= RoundUp(n, 4)
BY DEF RoundUp

(* concat, with the two arrays told apart.                                 *)
LEMMA Concatenated ==
  ASSUME NEW a, NEW b, IsArray(a), IsArray(b)
  PROVE  LET p == Concat(a, b)
         IN  /\ IsArray(p) /\ p.sig = a.sig + b.sig
             /\ \A i \in 1 .. a.sig : At(p, i) = At(a, i)
             /\ \A i \in 1 .. b.sig : At(p, a.sig + i) = At(b, i)
<1> DEFINE p == Concat(a, b)
<1>1. /\ IsArray(p)
      /\ p.sig = a.sig + b.sig
      /\ \A i \in 1 .. a.sig + b.sig :
            At(p, i) = IF i <= a.sig THEN At(a, i) ELSE At(b, i - a.sig)
  BY ConcatIs
<1>2. a.sig \in Nat /\ b.sig \in Nat
  BY DEF IsArray
<1> HIDE DEF p
<1>3. \A i \in 1 .. a.sig : At(p, i) = At(a, i)
  BY <1>1, <1>2
<1>4. \A i \in 1 .. b.sig : At(p, a.sig + i) = At(b, i)
  <2> TAKE i \in 1 .. b.sig
  <2>1. a.sig + i \in 1 .. a.sig + b.sig /\ ~ (a.sig + i <= a.sig) /\ (a.sig + i) - a.sig = i
    BY <1>2
  <2> QED
    BY <1>1, <2>1
<1> QED
  BY <1>1, <1>3, <1>4 DEF p

(* Pkcs7 appends the count of the missing bytes, that many times.          *)
LEMMA Pkcs7Pads ==
  ASSUME NEW c \in Configs, c.padding = "Pkcs7", NEW data, IsArray(data)
  PROVE  PadsTo(c, data, Pkcs7Pad(data, BlockBytes))
<1> DEFINE n == Short(data.sig)
           fill == WordArray([i \in 1 .. RoundUp(n, 4) |-> n], n)
           p == Concat(data, fill)
<1>1. data.sig \in Nat /\ n \in 1 .. BlockBytes /\ n \in Byte /\ n \in Nat
  <2>1. data.sig \in Nat
    BY DEF IsArray
  <2> QED
    BY <2>1, ShortIsAByte
<1>2. Pkcs7Pad(data, BlockBytes) = p
  BY DEF Pkcs7Pad, Missing, Short
<1>3. RoundUp(n, 4) \in Nat /\ n <= RoundUp(n, 4)
  BY <1>1, RoundedWords
<1>4. IsArray(fill) /\ fill.sig = n /\ \A i \in 1 .. n : At(fill, i) = n
  <2> HIDE DEF n
  <2> QED
    BY <1>1, <1>3 DEF IsArray, WordArray, At
<1> HIDE DEF fill
<1>5. /\ IsArray(p) /\ p.sig = data.sig + fill.sig
      /\ \A i \in 1 .. data.sig : At(p, i) = At(data, i)
      /\ \A i \in 1 .. fill.sig : At(p, data.sig + i) = At(fill, i)
  BY <1>4, Concatenated
<1>6. Added(c, data.sig) = n /\ \A i : FillByte(c, data.sig, i) = n
  BY DEF Added, FillByte
<1> HIDE DEF p, n
<1> QED
  BY <1>2, <1>4, <1>5, <1>6 DEF PadsTo

(* AnsiX923 appends zeros and the count.                                   *)
LEMMA AnsiX923Pads ==
  ASSUME NEW c \in Configs, c.padding = "AnsiX923", NEW data, IsArray(data)
  PROVE  PadsTo(c, data, AnsiX923Pad(data, BlockBytes))
<1> DEFINE n == Short(data.sig)
           last == data.sig + n
           mem == [i \in 1 .. RoundUp(last, 4) |->
                      IF i = last THEN n ELSE At(Clamp(data), i)]
           p == WordArray(mem, last)
<1>1. data.sig \in Nat /\ n \in 1 .. BlockBytes /\ n \in Byte /\ n \in Nat \ {0}
  <2>1. data.sig \in Nat
    BY DEF IsArray
  <2> QED
    BY <2>1, ShortIsAByte
<1>2. AnsiX923Pad(data, BlockBytes) = p
  BY DEF AnsiX923Pad, Missing, Short
<1> HIDE DEF n
<1>3. last \in Nat /\ RoundUp(last, 4) \in Nat /\ last <= RoundUp(last, 4)
  <2>1. last \in Nat
    BY <1>1
  <2> QED
    BY <2>1, RoundedWords
<1>4. /\ IsArray(Clamp(data))
      /\ \A i \in Nat \ {0} : At(Clamp(data), i) = IF i <= data.sig THEN At(data, i) ELSE 0
  BY ClampIs
<1>5. \A i : At(Clamp(data), i) \in Byte
  BY <1>4, AtIsAByte
<1>6. mem \in Seq(Byte) /\ Len(mem) = RoundUp(last, 4)
  BY <1>1, <1>3, <1>5
<1>7. \A i \in 1 .. last : mem[i] = IF i = last THEN n ELSE At(Clamp(data), i)
  BY <1>3
<1>8. p.mem = mem /\ p.sig = last
  BY DEF WordArray
<1> HIDE DEF mem, p
<1>9. \A i \in 1 .. last : At(p, i) = mem[i]
  BY <1>3, <1>6, <1>8 DEF At
<1>10. Added(c, data.sig) = n /\ \A i : FillByte(c, data.sig, i) = IF i = n THEN n ELSE 0
  BY DEF Added, FillByte, n
<1>11. \A i \in 1 .. data.sig : At(p, i) = At(data, i)
  BY <1>1, <1>4, <1>7, <1>9
<1>12. \A i \in 1 .. n : At(p, data.sig + i) = IF i = n THEN n ELSE 0
  <2> TAKE i \in 1 .. n
  <2>1. data.sig + i \in 1 .. last /\ data.sig + i \in Nat \ {0} /\ ~ (data.sig + i <= data.sig)
        /\ (data.sig + i = last <=> i = n)
    BY <1>1
  <2> QED
    BY <1>4, <1>7, <1>9, <2>1
<1> QED
  BY <1>2, <1>3, <1>6, <1>8, <1>10, <1>11, <1>12 DEF PadsTo, IsArray

(* Iso10126 appends random bytes and the count.                            *)
LEMMA Iso10126Pads ==
  ASSUME NEW c \in Configs, c.padding = "Iso10126", NEW data, IsArray(data)
  PROVE  PadsTo(c, data, Iso10126Pad(data, BlockBytes, Slack))
<1> DEFINE n == Short(data.sig)
           fill == Random(n - 1, Slack)
           a == Concat(data, fill)
           end == OfBytes(<<n>>)
           p == Concat(a, end)
<1>1. data.sig \in Nat /\ n \in 1 .. BlockBytes /\ n \in Byte /\ n \in Nat \ {0}
  <2>1. data.sig \in Nat
    BY DEF IsArray
  <2> QED
    BY <2>1, ShortIsAByte
<1>2. Iso10126Pad(data, BlockBytes, Slack) = p
  BY DEF Iso10126Pad, Missing, Short
<1>10. Added(c, data.sig) = n /\ \A i : FillByte(c, data.sig, i) = IF i = n THEN n ELSE Slack
  BY DEF Added, FillByte
<1> HIDE DEF n
<1>3. RoundUp(n - 1, 4) \in Nat /\ n - 1 <= RoundUp(n - 1, 4) /\ n - 1 \in Nat
  <2>1. n - 1 \in Nat
    BY <1>1
  <2> QED
    BY <2>1, RoundedWords
<1>4. IsArray(fill) /\ fill.sig = n - 1 /\ \A i \in 1 .. n - 1 : At(fill, i) = Slack
  <2>1. Slack \in Byte
    BY PipeAssumption DEF PipeAssumption
  <2> QED
    BY <1>1, <1>3, <2>1 DEF IsArray, WordArray, At, Random
<1> HIDE DEF fill
<1>5. /\ IsArray(a) /\ a.sig = data.sig + fill.sig
      /\ \A i \in 1 .. data.sig : At(a, i) = At(data, i)
      /\ \A i \in 1 .. fill.sig : At(a, data.sig + i) = At(fill, i)
  BY <1>4, Concatenated
<1> HIDE DEF a
<1>6. IsArray(end) /\ end.sig = 1 /\ At(end, 1) = n
  BY <1>1, OneByteIs
<1> HIDE DEF end
<1>7. /\ IsArray(p) /\ p.sig = a.sig + end.sig
      /\ \A i \in 1 .. a.sig : At(p, i) = At(a, i)
      /\ \A i \in 1 .. end.sig : At(p, a.sig + i) = At(end, i)
  BY <1>5, <1>6, Concatenated
<1> HIDE DEF p
<1>8. p.sig = data.sig + n /\ a.sig = data.sig + (n - 1)
  BY <1>1, <1>4, <1>5, <1>6, <1>7
<1>9. \A i \in 1 .. data.sig : At(p, i) = At(data, i)
  BY <1>1, <1>5, <1>7, <1>8
<1>11. \A i \in 1 .. n : At(p, data.sig + i) = IF i = n THEN n ELSE Slack
  <2> TAKE i \in 1 .. n
  <2>1. CASE i = n
    <3>1. data.sig + i = a.sig + 1 /\ 1 \in 1 .. end.sig
      BY <1>1, <1>6, <1>8, <2>1
    <3> QED
      BY <1>6, <1>7, <2>1, <3>1
  <2>2. CASE i # n
    <3>1. i \in 1 .. n - 1 /\ data.sig + i \in 1 .. a.sig
      BY <1>1, <1>8, <2>2
    <3> QED
      BY <1>4, <1>5, <1>7, <2>2, <3>1
  <2> QED
    BY <2>1, <2>2
<1> QED
  BY <1>2, <1>7, <1>8, <1>9, <1>10, <1>11 DEF PadsTo

(* ZeroPad makes whole blocks; what it adds is 0.                          *)
LEMMA ZeroPads ==
  ASSUME NEW data, IsArray(data)
  PROVE  LET p == ZeroPad(data, BlockBytes)
         IN  /\ IsArray(p) /\ p.sig = RoundUp(data.sig, BlockBytes)
             /\ \A i \in 1 .. data.sig : At(p, i) = At(data, i)
             /\ \A i \in Nat : i > data.sig => At(p, i) = 0
<1> DEFINE p == ZeroPad(data, BlockBytes)
<1>1. data.sig \in Nat
  BY DEF IsArray
<1>2. /\ IsArray(Clamp(data))
      /\ \A i \in Nat \ {0} : At(Clamp(data), i) = IF i <= data.sig THEN At(data, i) ELSE 0
  BY ClampIs
<1>3. p.mem = Clamp(data).mem /\ p.sig = RoundUp(data.sig, BlockBytes)
  BY DEF ZeroPad, WordArray
<1> HIDE DEF p
<1>4. p.sig \in Nat
  <2> DEFINE j == (data.sig + BlockBytes - 1) \div BlockBytes
  <2>1. BlockBytes \in Nat \ {0}
    BY Sizes
  <2>2. data.sig + BlockBytes - 1 \in Nat
    BY <1>1, <2>1
  <2>3. j \in Nat
    BY <2>1, <2>2, Quotient
  <2>4. RoundUp(data.sig, BlockBytes) = Times(j, BlockBytes)
    BY DEF RoundUp, Times
  <2> HIDE DEF j
  <2> QED
    BY <1>3, <2>1, <2>3, <2>4, TimesIs
<1>5. \A i : At(p, i) = At(Clamp(data), i)
  BY <1>3 DEF At
<1>6. \A i \in 1 .. data.sig : At(p, i) = At(data, i)
  BY <1>1, <1>2, <1>5
<1>7. \A i \in Nat : i > data.sig => At(p, i) = 0
  BY <1>1, <1>2, <1>5
<1> QED
  BY <1>2, <1>3, <1>4, <1>6, <1>7 DEF p, IsArray

(* ZeroPadding completes the last block with zeros.                        *)
LEMMA ZeroPaddingPads ==
  ASSUME NEW c \in Configs, c.padding = "ZeroPadding", NEW data, IsArray(data)
  PROVE  PadsTo(c, data, ZeroPad(data, BlockBytes))
<1> DEFINE m == data.sig
           S == BlockBytes
           k == m \div S
           p == ZeroPad(data, S)
<1>1. m \in Nat /\ S \in Nat \ {0}
  BY Sizes DEF IsArray
<1>2. /\ IsArray(p) /\ p.sig = RoundUp(m, S)
      /\ \A i \in 1 .. m : At(p, i) = At(data, i)
      /\ \A i \in Nat : i > m => At(p, i) = 0
  BY ZeroPads
<1> HIDE DEF p
<1>3. /\ Added(c, m) = IF m % S = 0 THEN 0 ELSE Short(m)
      /\ \A i : FillByte(c, m, i) = 0
  BY DEF Added, FillByte
<1>4. RoundUp(m, S) = m + Added(c, m)
  <2>1. /\ RoundUp(m, S) = Times((m + S - 1) \div S, S)
        /\ m % S = 0 => (m + S - 1) \div S = k
        /\ m % S # 0 => (m + S - 1) \div S = k + 1
    <3> HIDE DEF m, S
    <3> QED
      BY <1>1, RoundedBlocks DEF k
  <2>2. m % S = 0 <=> Times(k, S) = m
    <3> HIDE DEF m, S
    <3> QED
      BY <1>1, Quotient DEF k
  <2>3. m + Short(m) = Times(k + 1, S)
    BY <1>1, ShortIs
  <2> HIDE DEF m, S, k
  <2>4. m + 0 = m
    BY <1>1
  <2> QED
    BY <1>3, <2>1, <2>2, <2>3, <2>4
<1>5. Added(c, m) \in Nat
  BY <1>1, AddedIs
<1>6. \A i \in 1 .. Added(c, m) : At(p, m + i) = 0
  <2> TAKE i \in 1 .. Added(c, m)
  <2>1. m + i \in Nat /\ m + i > m
    <3> HIDE DEF m
    <3> QED
      BY <1>1, <1>5
  <2> QED
    BY <1>2, <2>1
<1> QED
  BY <1>2, <1>3, <1>4, <1>6 DEF PadsTo, p

(* Iso97971 appends the byte 128 and completes the block with zeros.       *)
LEMMA Iso97971Pads ==
  ASSUME NEW c \in Configs, c.padding = "Iso97971", NEW data, IsArray(data)
  PROVE  PadsTo(c, data, Iso97971Pad(data, BlockBytes))
<1> DEFINE m == data.sig
           S == BlockBytes
           k == m \div S
           end == OfBytes(<<128>>)
           a == Concat(data, end)
           p == ZeroPad(a, S)
<1>1. m \in Nat /\ S \in Nat \ {0}
  BY Sizes DEF IsArray
<1>2. IsArray(end) /\ end.sig = 1 /\ At(end, 1) = 128
  <2>1. 128 \in Byte
    BY DEF Byte
  <2> QED
    BY <2>1, OneByteIs
<1> HIDE DEF end
<1>3. /\ IsArray(a) /\ a.sig = m + 1
      /\ \A i \in 1 .. m : At(a, i) = At(data, i)
      /\ At(a, m + 1) = 128
  <2>1. /\ IsArray(a) /\ a.sig = data.sig + end.sig
        /\ \A i \in 1 .. data.sig : At(a, i) = At(data, i)
        /\ \A i \in 1 .. end.sig : At(a, data.sig + i) = At(end, i)
    BY <1>2, Concatenated
  <2>2. 1 \in 1 .. end.sig
    BY <1>2
  <2> HIDE DEF a
  <2> QED
    BY <1>2, <2>1, <2>2
<1> HIDE DEF a
<1>4. /\ IsArray(p) /\ p.sig = RoundUp(a.sig, S)
      /\ \A i \in 1 .. a.sig : At(p, i) = At(a, i)
      /\ \A i \in Nat : i > a.sig => At(p, i) = 0
  BY <1>3, ZeroPads
<1> HIDE DEF p
<1>5. Added(c, m) = Short(m) /\ \A i : FillByte(c, m, i) = IF i = 1 THEN 128 ELSE 0
  BY DEF Added, FillByte
<1>6. Short(m) \in Nat /\ m + Short(m) = Times(k + 1, S)
  <2>1. Short(m) \in Nat
    BY <1>1, ShortIsAByte
  <2>2. m + Short(m) = Times(k + 1, S)
    BY <1>1, ShortIs
  <2> QED
    BY <2>1, <2>2
<1>7. RoundUp(m + 1, S) = m + Short(m)
  <2> HIDE DEF m, S
  <2>1. k \in Nat /\ m % S \in 0 .. S - 1 /\ Times(k, S) <= m /\ m % S = m - Times(k, S)
    BY <1>1, Quotient DEF k
  <2> HIDE DEF k
  <2>2. Times(k, S) \in Nat /\ Times(k + 1, S) = Times(k, S) + S /\ k + 1 \in Nat
    BY <1>1, <2>1, TimesIs
  <2>3. (m + 1) + S - 1 \in Nat /\ Times(k + 1, S) <= (m + 1) + S - 1
        /\ (m + 1) + S - 1 < Times(k + 1, S) + S
    BY <1>1, <2>1, <2>2
  <2>4. ((m + 1) + S - 1) \div S = k + 1
    BY <1>1, <2>2, <2>3, QuotientIs
  <2>5. RoundUp(m + 1, S) = Times(((m + 1) + S - 1) \div S, S)
    BY DEF RoundUp, Times
  <2> QED
    BY <1>6, <2>4, <2>5
<1>8. \A i \in 1 .. m : At(p, i) = At(data, i)
  <2> TAKE i \in 1 .. m
  <2>1. i \in 1 .. a.sig
    BY <1>1, <1>3
  <2> QED
    BY <1>3, <1>4, <2>1
<1>9. \A i \in 1 .. Short(m) : At(p, m + i) = IF i = 1 THEN 128 ELSE 0
  <2> TAKE i \in 1 .. Short(m)
  <2>1. CASE i = 1
    <3>1. m + i \in 1 .. a.sig /\ m + i = m + 1
      BY <1>1, <1>3, <2>1
    <3> QED
      BY <1>3, <1>4, <2>1, <3>1
  <2>2. CASE i # 1
    <3>1. m + i \in Nat /\ m + i > a.sig
      <4> HIDE DEF m
      <4> QED
        BY <1>1, <1>3, <1>6, <2>2
    <3> QED
      BY <1>4, <2>2, <3>1
  <2> QED
    BY <2>1, <2>2
<1>10. p.sig = m + Short(m)
  BY <1>3, <1>4, <1>7
<1>11. Iso97971Pad(data, BlockBytes) = p
  BY DEF Iso97971Pad, p, a, end
<1> QED
  BY <1>4, <1>5, <1>8, <1>9, <1>10, <1>11 DEF PadsTo

(* Whichever padding it is, pad appends the bytes of Padded.               *)
LEMMA PadIs ==
  ASSUME NEW c \in Configs, c.mode # "Stream", NEW data, IsArray(data)
  PROVE  PadsTo(c, data, Pad(c.padding, data, BlockBytes, Slack))
<1>1. c.padding \in Paddings
  BY ConfigIs
<1>2. CASE c.padding = "Pkcs7"
  BY <1>2, Pkcs7Pads DEF Pad
<1>3. CASE c.padding = "AnsiX923"
  BY <1>3, AnsiX923Pads DEF Pad
<1>4. CASE c.padding = "Iso10126"
  BY <1>4, Iso10126Pads DEF Pad
<1>5. CASE c.padding = "Iso97971"
  BY <1>5, Iso97971Pads DEF Pad
<1>6. CASE c.padding = "ZeroPadding"
  BY <1>6, ZeroPaddingPads DEF Pad
<1>7. CASE c.padding = "NoPadding"
  <2>1. Pad(c.padding, data, BlockBytes, Slack) = data
    BY <1>7 DEF Pad
  <2>2. Added(c, data.sig) = 0
    BY <1>7 DEF Added
  <2>3. data.sig \in Nat
    BY DEF IsArray
  <2> QED
    BY <2>1, <2>2, <2>3 DEF PadsTo
<1> QED
  BY <1>1, <1>2, <1>3, <1>4, <1>5, <1>6, <1>7 DEF Paddings

(* The padded message begins with the message, and is whole blocks         *)
(* wherever the mode needs them.                                           *)
LEMMA PaddedIs ==
  ASSUME config \in Configs, NEW n \in 0 .. Len(Message)
  PROVE  LET t == Padded(config, n)
         IN  /\ t \in Seq(Byte) /\ Len(t) = n + Added(config, n)
             /\ \A i \in 1 .. n : t[i] = Message[i]
             /\ \A i \in 1 .. Added(config, n) : t[n + i] = FillByte(config, n, i)
             /\ CallerFits(n) => Xors(config) \/ Len(t) % BlockSize = 0
<1> DEFINE t == Padded(config, n)
           more == Added(config, n)
           byte(i) == IF i <= n THEN Message[i] ELSE FillByte(config, n, i - n)
<1>1. n \in Nat /\ Message \in Seq(Byte) /\ n <= Len(Message)
  BY PipeAssumption DEF PipeAssumption
<1>2. /\ more \in Nat
      /\ \A i \in 1 .. more : FillByte(config, n, i) \in Byte
      /\ more # 0 => more = Short(n)
  BY <1>1, AddedIs, Sizes
<1>3. t = [i \in 1 .. n + more |-> byte(i)]
  BY DEF Padded
<1> HIDE DEF t, more
<1>4. \A i \in 1 .. n + more : byte(i) \in Byte
  <2> TAKE i \in 1 .. n + more
  <2>1. CASE i <= n
    <3>1. i \in 1 .. Len(Message)
      BY <1>1, <1>2, <2>1
    <3>2. Message[i] \in Byte
      BY <1>1, <3>1, ElementOfSeq
    <3> QED
      BY <2>1, <3>2
  <2>2. CASE ~ (i <= n)
    <3>1. i - n \in 1 .. more
      BY <1>1, <1>2, <2>2
    <3> QED
      BY <1>2, <2>2, <3>1
  <2> QED
    BY <2>1, <2>2
<1>5. t \in Seq(Byte) /\ Len(t) = n + more
  <2> HIDE DEF byte
  <2> QED
    BY <1>1, <1>2, <1>3, <1>4
<1>6. \A i \in 1 .. n : t[i] = Message[i]
  BY <1>1, <1>2, <1>3
<1>7. \A i \in 1 .. more : t[n + i] = FillByte(config, n, i)
  <2> TAKE i \in 1 .. more
  <2>1. n + i \in 1 .. n + more /\ ~ (n + i <= n) /\ (n + i) - n = i
    BY <1>1, <1>2
  <2> QED
    BY <1>3, <2>1
<1>8. ASSUME CallerFits(n), ~ Xors(config) PROVE Len(t) % BlockSize = 0
  <2>1. config.mode \in {"ECB", "CBC"} /\ config.mode # "Stream" /\ BlockSize = BlockBytes
        /\ config.padding \in Paddings
    BY <1>8, ConfigIs DEF Xors, BlockSize, IsStream
  <2>2. CASE more = 0
    <3>1. n % BlockBytes = 0
      <4>1. CASE config.padding = "NoPadding"
        BY <1>8, <2>1, <4>1 DEF CallerFits
      <4>2. CASE config.padding # "NoPadding"
        <5>1. Short(n) # 0
          BY <1>1, ShortIsAByte
        <5> QED
          BY <2>1, <2>2, <4>2, <5>1 DEF Added, more, Paddings
      <4> QED
        BY <4>1, <4>2
    <3>2. n + more = n
      BY <1>1, <2>2
    <3> QED
      BY <1>5, <2>1, <3>1, <3>2
  <2>3. CASE more # 0
    <3>1. (n + Short(n)) % BlockBytes = 0
      BY <1>1, ShortIs
    <3> QED
      BY <1>2, <1>5, <2>1, <2>3, <3>1
  <2> QED
    BY <2>2, <2>3
<1>9. CallerFits(n) => Xors(config) \/ Len(t) % BlockSize = 0
  BY <1>8
<1> QED
  BY <1>5, <1>6, <1>7, <1>9 DEF t, more

(* What process makes of an encryptor that is after q blocks and was given *)
(* m bytes, when it gets n more.                                           *)
EncGoesTo(end, q, m, n) ==
    LET p == Encrypted(end, Piece(Message, m, n))
        k == (m + n) \div BlockSize
    IN  /\ IsBuffer(p.buffer)
        /\ Holds(config, p.buffer.data, Message, k, m + n)
        /\ p.reg = Cipher(config, Message, k).reg
        /\ Bytes(p.result) \in Seq(Byte)
        /\ Joined(Cipher(config, Message, q).out, Bytes(p.result)) =
              Cipher(config, Message, k).out

(* process takes the encryptor to the blocks that are whole with the new   *)
(* piece, whatever it held before.                                         *)
LEMMA EncryptedIs ==
  ASSUME IsACipher, config \in Configs, NEW end,
         IsBuffer(end.buffer),
         NEW q \in Nat, NEW m \in Nat, NEW n \in Nat, m + n <= Len(Message),
         Holds(config, end.buffer.data, Message, q, m),
         end.reg = Cipher(config, Message, q).reg
  PROVE  EncGoesTo(end, q, m, n)
<1> DEFINE piece == Piece(Message, m, n)
           data == Concat(end.buffer.data, piece)
           count == end.buffer.count + piece.sig
           p == Encrypted(end, piece)
           buffer == [data |-> data, count |-> count]
           call == EncCall(buffer, Cipher(config, Message, q).reg, 0, FALSE)
<1>1. Message \in Seq(Byte) /\ m \in 0 .. Len(Message) /\ m + n \in 0 .. Len(Message)
  BY PipeAssumption DEF PipeAssumption
<1>2. IsArray(piece) /\ piece.sig = n /\ \A i \in 1 .. n : At(piece, i) = Message[m + i]
  BY <1>1, PieceIs
<1>3. Holds(config, data, Message, q, m + n)
  <2> HIDE DEF piece
  <2> QED
    BY <1>1, <1>2, HoldsMore
<1>7. IsBuffer(buffer) /\ buffer.data = data
  BY DEF IsBuffer
<1>4. p = EncCall(buffer, end.reg, 0, FALSE)
  BY DEF Encrypted, EncCall, AppendTo
<1>5. p = call
  <2> HIDE DEF p, buffer
  <2> QED
    BY <1>4
<1> HIDE DEF data, count, p, buffer
<1>6. LET k == (m + n) \div BlockSize
      IN  /\ IsBuffer(call.buffer)
          /\ Holds(config, call.buffer.data, Message, k, m + n)
          /\ call.reg = Cipher(config, Message, k).reg
          /\ Bytes(call.result) \in Seq(Byte)
          /\ Joined(Cipher(config, Message, q).out, Bytes(call.result)) =
                Cipher(config, Message, k).out
  <2>1. Holds(config, buffer.data, Message, q, m + n)
    BY <1>3, <1>7
  <2> QED
    BY <1>1, <1>7, <2>1, EncWhole
<1> HIDE DEF call
<1> QED
  BY <1>5, <1>6 DEF EncGoesTo, p, piece

(* A piece is appended by finalize as by process, when there is one.       *)
LEMMA WithLastIs ==
  ASSUME NEW c \in Configs, NEW t \in Seq(Byte), NEW buffer, NEW piece,
         IsBuffer(buffer),
         NEW q \in Nat, NEW m \in Nat, NEW n \in Nat, m + n <= Len(t),
         Holds(c, buffer.data, t, q, m),
         IsArray(piece), piece.sig = n, \A i \in 1 .. n : At(piece, i) = t[m + i]
  PROVE  LET last == WithLast(buffer, piece)
         IN  /\ IsBuffer(last)
             /\ Holds(c, last.data, t, q, m + n)
<1> DEFINE last == WithLast(buffer, piece)
           all == AppendTo(buffer, piece)
<1>1. CASE n = 0
  <2>1. last = buffer /\ m + n = m
    BY <1>1 DEF WithLast
  <2> HIDE DEF last
  <2> QED
    BY <2>1 DEF last
<1>2. CASE n # 0
  <2>1. last = all
    BY <1>2 DEF WithLast
  <2>2. all = [data |-> Concat(buffer.data, piece), count |-> buffer.count + piece.sig]
    BY DEF AppendTo
  <2>3. m \in 0 .. Len(t)
    OBVIOUS
  <2>4. Holds(c, Concat(buffer.data, piece), t, q, m + n)
    BY <2>3, HoldsMore
  <2> HIDE DEF last, all
  <2>5. IsBuffer(last) /\ last.data = Concat(buffer.data, piece)
    BY <2>1, <2>2 DEF IsBuffer
  <2> QED
    BY <2>4, <2>5 DEF last
<1> QED
  BY <1>1, <1>2

(* A buffer that is padded has the rest of the padded message.             *)
LEMMA HoldsPadded ==
  ASSUME config \in Configs, NEW data, NEW q \in Nat, NEW m \in 0 .. Len(Message),
         Holds(config, data, Message, q, m)
  PROVE  LET t == Padded(config, m)
             padded == IF IsStream THEN data
                       ELSE Pad(config.padding, data, BlockSize, Slack)
         IN  Holds(config, padded, t, q, Len(t))
<1> DEFINE t == Padded(config, m)
           more == Added(config, m)
           S == SizeOf(config)
           from == Times(q, S)
           pad == Pad(config.padding, data, BlockSize, Slack)
<1>1. /\ t \in Seq(Byte) /\ Len(t) = m + more
      /\ \A i \in 1 .. m : t[i] = Message[i]
      /\ \A i \in 1 .. more : t[m + i] = FillByte(config, m, i)
  BY PaddedIs
<1>2. S \in Nat \ {0} /\ m \in Nat /\ more \in Nat /\ from \in Nat
  <2>1. S \in Nat \ {0} /\ m \in Nat
    BY ConfigIs
  <2>2. more \in Nat
    BY <2>1, AddedIs, Sizes
  <2> QED
    BY <2>1, <2>2, TimesIs
<1>3. /\ IsArray(data) /\ from <= m /\ data.sig = m - from
      /\ \A i \in 1 .. m - from : At(data, i) = Message[from + i]
  BY DEF Holds
<1>4. CASE IsStream
  <2>1. more = 0
    BY <1>4, ConfigIs DEF IsStream, Added
  <2> HIDE DEF t, more, from
  <2>2. Len(t) = m
    BY <1>1, <1>2, <2>1
  <2>3. \A i \in 1 .. m - from : At(data, i) = t[from + i]
    <3> TAKE i \in 1 .. m - from
    <3>1. from + i \in 1 .. m
      BY <1>2, <1>3
    <3> QED
      BY <1>1, <1>3, <3>1
  <2>4. Holds(config, data, t, q, Len(t))
    BY <1>3, <2>2, <2>3 DEF Holds, from
  <2> QED
    BY <1>4, <2>4 DEF t
<1>5. CASE ~ IsStream
  <2>1. config.mode # "Stream" /\ BlockSize = BlockBytes /\ S = BlockBytes
    BY <1>5 DEF IsStream, BlockSize, SizeOf
  <2>2. PadsTo(config, data, pad)
    BY <1>3, <2>1, PadIs
  <2>3. data.sig % BlockBytes = m % BlockBytes
    <3> HIDE DEF from
    <3>1. (m - from) % S = m % S
      <4> HIDE DEF S
      <4> QED
        BY <1>2, <1>3, QuotientShifts DEF from
    <3> QED
      BY <1>3, <2>1, <3>1
  <2>4. /\ Added(config, data.sig) = more
        /\ \A i : FillByte(config, data.sig, i) = FillByte(config, m, i)
    BY <2>3, AddedAlike
  <2>5. /\ IsArray(pad) /\ pad.sig = data.sig + more
        /\ \A i \in 1 .. data.sig : At(pad, i) = At(data, i)
        /\ \A i \in 1 .. more : At(pad, data.sig + i) = FillByte(config, m, i)
    BY <2>2, <2>4 DEF PadsTo
  <2> HIDE DEF pad, t, more, from
  <2>6. pad.sig = Len(t) - from /\ from <= Len(t)
    BY <1>1, <1>2, <1>3, <2>5
  <2>7. \A i \in 1 .. Len(t) - from : At(pad, i) = t[from + i]
    <3> TAKE i \in 1 .. Len(t) - from
    <3>1. i \in 1 .. (m + more) - from
      BY <1>1
    <3>2. CASE i <= data.sig
      <4>1. i \in 1 .. data.sig /\ i \in 1 .. m - from /\ from + i \in 1 .. m
        BY <1>2, <1>3, <3>1, <3>2
      <4> QED
        BY <1>1, <1>3, <2>5, <4>1
    <3>3. CASE ~ (i <= data.sig)
      <4> DEFINE j == i - data.sig
      <4>1. j \in 1 .. more /\ data.sig + j = i /\ from + i = m + j
        BY <1>2, <1>3, <3>1, <3>3
      <4> HIDE DEF j
      <4>2. At(pad, data.sig + j) = FillByte(config, m, j) /\ t[m + j] = FillByte(config, m, j)
        BY <1>1, <2>5, <4>1
      <4> QED
        BY <4>1, <4>2
    <3> QED
      BY <3>2, <3>3
  <2>8. Holds(config, pad, t, q, Len(t))
    BY <2>5, <2>6, <2>7 DEF Holds, from
  <2> QED
    BY <1>5, <2>8 DEF t, pad
<1> QED
  BY <1>4, <1>5

(* What finalize makes of the encryptor.                                   *)
LEMMA EncryptedLastIs ==
  ASSUME IsACipher, config \in Configs, NEW end,
         IsBuffer(end.buffer),
         NEW q \in Nat, NEW m \in Nat, NEW n \in Nat, m + n <= Len(Message),
         Holds(config, end.buffer.data, Message, q, m),
         end.reg = Cipher(config, Message, q).reg,
         CallerFits(m + n)
  PROVE  LET p == EncryptedLast(end, Piece(Message, m, n))
         IN  /\ Bytes(p.result) \in Seq(Byte)
             /\ Joined(Cipher(config, Message, q).out, Bytes(p.result)) =
                   Ciphertext(config, Padded(config, m + n))
<1> DEFINE piece == Piece(Message, m, n)
           t == Padded(config, m + n)
           last == WithLast(end.buffer, piece)
           padded == IF IsStream THEN last.data
                     ELSE Pad(config.padding, last.data, BlockSize, Slack)
           count == last.count
           p == EncryptedLast(end, piece)
           buffer == [data |-> padded, count |-> count]
           call == EncCall(buffer, Cipher(config, t, q).reg, 0, TRUE)
<1>1. Message \in Seq(Byte) /\ m \in 0 .. Len(Message) /\ m + n \in 0 .. Len(Message)
  BY PipeAssumption DEF PipeAssumption
<1>2. IsArray(piece) /\ piece.sig = n /\ \A i \in 1 .. n : At(piece, i) = Message[m + i]
  BY <1>1, PieceIs
<1>3. IsBuffer(last) /\ Holds(config, last.data, Message, q, m + n)
  <2> HIDE DEF piece
  <2> QED
    BY <1>1, <1>2, WithLastIs
<1>4. Holds(config, padded, t, q, Len(t))
  <2> HIDE DEF last
  <2> QED
    BY <1>1, <1>3, HoldsPadded
<1>5. /\ t \in Seq(Byte) /\ Len(t) = (m + n) + Added(config, m + n)
      /\ \A i \in 1 .. m + n : t[i] = Message[i]
      /\ Xors(config) \/ Len(t) % BlockSize = 0
  BY <1>1, PaddedIs
<1>6. /\ Cipher(config, t, q).reg = Cipher(config, Message, q).reg
      /\ Cipher(config, t, q).out = Cipher(config, Message, q).out
  <2> DEFINE from == Times(q, SizeOf(config))
  <2>1. from <= m
    BY DEF Holds
  <2>2. from \in Nat /\ Added(config, m + n) \in Nat
    <3>1. SizeOf(config) \in Nat /\ m + n \in Nat
      BY ConfigIs
    <3>2. from \in Nat
      BY <3>1, TimesIs
    <3>3. Added(config, m + n) \in 0 .. BlockBytes /\ BlockBytes \in Nat
      BY <3>1, AddedIs, Sizes
    <3> HIDE DEF from
    <3> QED
      BY <3>2, <3>3
  <2> HIDE DEF from, t
  <2>3. from <= Len(t) /\ from <= Len(Message) /\ \A i \in 1 .. from : t[i] = Message[i]
    BY <1>1, <1>5, <2>1, <2>2
  <2> QED
    BY <1>1, <1>5, <2>3, CiphersAgree DEF from
<1>7. p = EncCall([last EXCEPT !.data = padded], end.reg, 0, TRUE)
  BY DEF EncryptedLast, EncCall
<1>8. [last EXCEPT !.data = padded] = buffer
  <2> DEFINE d == padded
  <2> HIDE DEF d, last
  <2>1. [last EXCEPT !.data = d] = [data |-> d, count |-> last.count]
    BY <1>3 DEF IsBuffer
  <2> QED
    BY <2>1 DEF d
<1>9. p = call
  <2> HIDE DEF p, padded, count, t, last, buffer
  <2> QED
    BY <1>6, <1>7, <1>8
<1>10. /\ Bytes(call.result) \in Seq(Byte)
       /\ Joined(Cipher(config, t, q).out, Bytes(call.result)) = Ciphertext(config, t)
  <2>1. IsBuffer(buffer) /\ buffer.data = padded
    <3> DEFINE d == padded
    <3> HIDE DEF d, count
    <3>1. IsBuffer([data |-> d, count |-> count])
      BY DEF IsBuffer
    <3> QED
      BY <3>1 DEF d
  <2> HIDE DEF padded, t, buffer
  <2>2. Holds(config, buffer.data, t, q, Len(t))
    BY <1>4, <2>1
  <2> QED
    BY <1>5, <2>1, <2>2, EncLast
<1> HIDE DEF call, p, t
<1> QED
  BY <1>6, <1>9, <1>10 DEF p, piece, t

-----------------------------------------------------------------------------
(* The decryptor                                                           *)

PlainBlock(c, t, k) == BlockAt(OfBytes(t), k, SizeOf(c))

CipherBlock(c, t, k) == EncOf(c, Cipher(c, t, k).reg, PlainBlock(c, t, k))

(* One block more of the cipher of a text.                                 *)
StepsOn(c, t, k) ==
    /\ PlainBlock(c, t, k) \in BlocksOfSize(SizeOf(c))
    /\ \A i \in 1 .. SizeOf(c) : Times(k, SizeOf(c)) + i <= Len(t) =>
          PlainBlock(c, t, k)[i] = t[Times(k, SizeOf(c)) + i]
    /\ CipherBlock(c, t, k).out \in BlocksOfSize(SizeOf(c))
    /\ Cipher(c, t, k + 1).reg = CipherBlock(c, t, k).reg
    /\ \A i \in 1 .. SizeOf(c) :
          Cipher(c, t, k + 1).out[Times(k, SizeOf(c)) + i] = CipherBlock(c, t, k).out[i]

(* The cipher of any text takes one step of the encryptor a block.         *)
LEMMA CipherSteps ==
  ASSUME IsACipher, NEW c \in Configs, NEW t \in Seq(Byte), NEW k \in Nat
  PROVE  StepsOn(c, t, k)
<1> DEFINE S == SizeOf(c)
           block == PlainBlock(c, t, k)
           e == CipherBlock(c, t, k)
           from == Times(k, S)
           before == Cipher(c, t, k)
<1>1. S \in Nat \ {0} /\ from \in Nat
  <2>1. S \in Nat \ {0}
    BY ConfigIs
  <2> QED
    BY <2>1, TimesIs
<1>2. /\ before.reg \in Regs /\ before.out \in Seq(Byte) /\ Len(before.out) = from
      /\ IsArray(OfBytes(t)) /\ \A i \in 1 .. Len(t) : At(OfBytes(t), i) = t[i]
  BY CipherIs
<1>3. /\ block \in BlocksOfSize(S)
      /\ \A i \in 1 .. S : block[i] = At(OfBytes(t), from + i)
  BY <1>1, <1>2, BlockIs DEF PlainBlock
<1> HIDE DEF from, block
<1>4. \A i \in 1 .. S : from + i <= Len(t) => block[i] = t[from + i]
  <2> TAKE i \in 1 .. S
  <2> HAVE from + i <= Len(t)
  <2>1. from + i \in 1 .. Len(t)
    BY <1>1
  <2> QED
    BY <1>2, <1>3, <2>1
<1>5. e = EncOf(c, before.reg, block)
  BY DEF CipherBlock, block
<1>6. e.out \in BlocksOfSize(S)
  <2> HIDE DEF e, before
  <2> QED
    BY <1>2, <1>3, <1>5, StepsAreTyped DEF IsStep
<1>7. /\ Cipher(c, t, k + 1).reg = e.reg
      /\ Cipher(c, t, k + 1).out = Joined(before.out, e.out)
  BY ChainsGoOn DEF Cipher, CipherBlock, PlainBlock
<1> DEFINE made == Cipher(c, t, k + 1).out
<1>8. \A i \in 1 .. S : made[from + i] = e.out[i]
  <2> DEFINE x == before.out
             y == e.out
  <2>1. x \in Seq(Byte) /\ Len(x) = from /\ y \in Seq(Byte) /\ Len(y) = S /\ made = Joined(x, y)
    BY <1>2, <1>6, <1>7 DEF BlocksOfSize
  <2> HIDE DEF x, y, made, S
  <2>2. \A i \in 1 .. from + S : made[i] = IF i <= from THEN x[i] ELSE y[i - from]
    BY <2>1, JoinedIs
  <2>3. \A i \in 1 .. S : from + i \in 1 .. from + S /\ ~ (from + i <= from)
                          /\ (from + i) - from = i
    BY <1>1
  <2>4. \A i \in 1 .. S : made[from + i] = y[i]
    BY <2>2, <2>3
  <2> QED
    BY <2>4 DEF y
<1> QED
  BY <1>3, <1>4, <1>6, <1>7, <1>8 DEF StepsOn, from, block

(* Its first blocks do not change when it goes on.                         *)
LEMMA CipherGrows ==
  ASSUME IsACipher, NEW c \in Configs, NEW t \in Seq(Byte), NEW q \in Nat, NEW n \in Nat
  PROVE  \A i \in 1 .. Times(q, SizeOf(c)) : Cipher(c, t, q + n).out[i] = Cipher(c, t, q).out[i]
<1>1. IsArray(OfBytes(t)) /\ Iv \in Regs
  BY CipherIs, Sizes
<1>2. Grows(c, OfBytes(t), Iv, q, n)
  BY <1>1, EncGrows
<1> QED
  BY <1>2 DEF Cipher, Grows

(* d is what the decryptor makes of the j blocks of ciphertext after the   *)
(* first g: the text, and the register of the encryptor.                   *)
Follows(c, t, g, j, d) ==
    /\ d.reg = Cipher(c, t, g + j).reg
    /\ d.out \in Seq(Byte) /\ Len(d.out) = Times(j, SizeOf(c))
    /\ \A i \in 1 .. Times(j, SizeOf(c)) : d.out[i] = t[Times(g, SizeOf(c)) + i]

(* data has n blocks of the ciphertext of t, after the first g.            *)
HasBlocks(c, data, t, g, n) ==
    \A i \in 1 .. Times(n, SizeOf(c)) :
       At(data, i) = Cipher(c, t, g + n).out[Times(g, SizeOf(c)) + i]

(* The decryptor goes through the blocks of the ciphertext after the       *)
(* encryptor: it has its registers, and the text comes out.                *)
LEMMA DecFollows ==
  ASSUME IsACipher, NEW c \in Configs, NEW t \in Seq(Byte), NEW data, IsArray(data),
         NEW g \in Nat, NEW n \in Nat, Times(g + n, SizeOf(c)) <= Len(t),
         HasBlocks(c, data, t, g, n)
  PROVE  Follows(c, t, g, n, DecChain(c, data, Cipher(c, t, g).reg, n))
<1> DEFINE S == SizeOf(c)
           reg == Cipher(c, t, g).reg
           D(j) == DecChain(c, data, reg, j)
           T == {j \in Nat : j <= n => Follows(c, t, g, j, D(j))}
<1>1. S \in Nat \ {0}
  BY ConfigIs
<1>2. 0 \in T
  <2>1. D(0).reg = reg /\ D(0).out = << >>
    BY ChainsStart
  <2>2. Times(0, S) = 0 /\ g + 0 = g
    BY <1>1, NoTimes
  <2>3. << >> \in Seq(Byte) /\ Len(<< >>) = 0
    OBVIOUS
  <2> HIDE DEF D
  <2>4. \A i \in 1 .. Times(0, S) : D(0).out[i] = t[Times(g, S) + i]
    BY <2>2
  <2>5. Follows(c, t, g, 0, D(0))
    BY <2>1, <2>2, <2>3, <2>4 DEF Follows
  <2> QED
    BY <2>5
<1>3. ASSUME NEW j \in Nat, j \in T PROVE j + 1 \in T
  <2>1. SUFFICES ASSUME j + 1 <= n PROVE Follows(c, t, g, j + 1, D(j + 1))
    BY <1>3
  <2> DEFINE k == g + j
             from == Times(g, S)
             block == BlockAt(data, j, S)
             e == CipherBlock(c, t, k)
             p == PlainBlock(c, t, k)
             d == DecOf(c, D(j).reg, block)
  <2>2. Follows(c, t, g, j, D(j))
    BY <1>3, <2>1
  <2>3. k \in Nat /\ k + 1 = g + (j + 1) /\ n - (j + 1) \in Nat /\ (k + 1) + (n - (j + 1)) = g + n
        /\ j + 1 \in Nat
    BY <2>1
  <2>4. StepsOn(c, t, k)
    BY <2>3, CipherSteps
  <2>5. /\ from \in Nat /\ Times(j, S) \in Nat
        /\ Times(k, S) = from + Times(j, S)
        /\ Times(k + 1, S) = Times(k, S) + S
        /\ Times(j + 1, S) = Times(j, S) + S
        /\ Times(j + 1, S) <= Times(n, S)
        /\ Times(k + 1, S) <= Len(t)
    <3>1. from \in Nat /\ Times(j, S) \in Nat /\ Times(j + 1, S) = Times(j, S) + S
      BY <1>1, TimesIs
    <3>2. Times(k + 1, S) = Times(k, S) + S
      BY <1>1, <2>3, TimesIs
    <3>3. Times(k, S) = from + Times(j, S)
      BY <1>1, TimesAdd
    <3>4. Times(j + 1, S) <= Times(n, S)
      BY <1>1, <2>1, <2>3, TimesGrow
    <3>5. Times(k + 1, S) <= Times(g + n, S)
      <4>1. k + 1 <= g + n /\ k + 1 \in Nat /\ g + n \in Nat
        BY <2>1, <2>3
      <4> HIDE DEF k
      <4> QED
        BY <1>1, <4>1, TimesGrow
    <3>6. Times(g + n, S) \in Nat /\ Times(k + 1, S) \in Nat /\ Len(t) \in Nat
      <4>1. g + n \in Nat /\ k + 1 \in Nat
        BY <2>3
      <4> HIDE DEF k, S
      <4>2. Times(g + n, S) \in Nat
        BY <1>1, <4>1, TimesIs
      <4>3. Times(k + 1, S) \in Nat
        BY <1>1, <4>1, TimesIs
      <4> QED
        BY <4>2, <4>3
    <3>7. Times(k + 1, S) <= Len(t)
      <4> DEFINE x == Times(k + 1, S)
                 y == Times(g + n, S)
      <4>1. x \in Nat /\ y \in Nat /\ x <= y /\ y <= Len(t) /\ Len(t) \in Nat
        BY <3>5, <3>6
      <4> HIDE DEF x, y
      <4>2. x <= Len(t)
        BY <4>1
      <4> QED
        BY <4>2 DEF x
    <3> QED
      BY <3>1, <3>2, <3>3, <3>4, <3>7
  <2>6. block \in BlocksOfSize(S) /\ \A i \in 1 .. S : block[i] = At(data, Times(j, S) + i)
    BY <1>1, BlockIs
  <2>7. /\ p \in BlocksOfSize(S) /\ e.out \in BlocksOfSize(S)
        /\ \A i \in 1 .. S : Times(k, S) + i <= Len(t) => p[i] = t[Times(k, S) + i]
        /\ Cipher(c, t, k + 1).reg = e.reg
        /\ \A i \in 1 .. S : Cipher(c, t, k + 1).out[Times(k, S) + i] = e.out[i]
    BY <2>4 DEF StepsOn
  <2>8. \A i \in 1 .. S : block[i] = e.out[i]
    <3> HIDE DEF block, e, from, p, d, S, D, k
    <3> TAKE i \in 1 .. S
    <3>1. /\ Times(j, S) + i \in 1 .. Times(n, S)
          /\ from + (Times(j, S) + i) = Times(k, S) + i
          /\ Times(k, S) + i \in 1 .. Times(k + 1, S)
      <4> DEFINE a == Times(j, S)
                 b == Times(k, S)
                 h == Times(n, S)
                 l == Times(k + 1, S)
      <4>1. /\ a \in Nat /\ b = from + a /\ from \in Nat /\ a + S <= h /\ S \in Nat
            /\ l = b + S /\ h \in Nat
        <5>1. h \in Nat
          BY <1>1, TimesIs
        <5> QED
          BY <1>1, <2>5, <5>1
      <4> HIDE DEF a, b, h, l
      <4>2. a + i \in 1 .. h /\ from + (a + i) = b + i /\ b + i \in 1 .. l
        BY <4>1
      <4> QED
        BY <4>2 DEF a, b, h, l
    <3>2. At(data, Times(j, S) + i) = Cipher(c, t, g + n).out[from + (Times(j, S) + i)]
      BY <3>1 DEF HasBlocks, from, S
    <3>3. Cipher(c, t, g + n).out[Times(k, S) + i] = Cipher(c, t, k + 1).out[Times(k, S) + i]
      <4> DEFINE q == k + 1
                 r == n - (j + 1)
      <4>1. q \in Nat /\ r \in Nat /\ q + r = g + n
        BY <2>3
      <4> HIDE DEF q, r
      <4>2. \A h \in 1 .. Times(q, SizeOf(c)) : Cipher(c, t, q + r).out[h] = Cipher(c, t, q).out[h]
        BY <4>1, CipherGrows
      <4> QED
        BY <3>1, <4>1, <4>2 DEF q, S
    <3> QED
      BY <2>6, <2>7, <3>1, <3>2, <3>3
  <2>9. block = e.out
    <3> HIDE DEF block, e
    <3> QED
      BY <2>6, <2>7, <2>8, SeqEqual DEF BlocksOfSize
  <2>10. D(j).reg = Cipher(c, t, k).reg /\ Cipher(c, t, k).reg \in Regs
    <3>1. D(j).reg = Cipher(c, t, k).reg
      BY <2>2 DEF Follows
    <3>2. Cipher(c, t, k).reg \in Regs
      BY <2>3, CipherIs
    <3> QED
      BY <3>1, <3>2
  <2>11. d.out = p /\ d.reg = e.reg
    <3> DEFINE r == Cipher(c, t, k).reg
    <3>1. e = EncOf(c, r, p) /\ d = DecOf(c, r, e.out)
      BY <2>9, <2>10 DEF CipherBlock
    <3>2. r \in Regs /\ p \in BlocksOfSize(SizeOf(c))
      BY <2>7, <2>10
    <3> HIDE DEF r, p, e, d
    <3>3. DecOf(c, r, EncOf(c, r, p).out).out = p
          /\ DecOf(c, r, EncOf(c, r, p).out).reg = EncOf(c, r, p).reg
      BY <3>2, StepsUndo
    <3> QED
      BY <3>1, <3>3
  <2>12. D(j + 1).reg = d.reg /\ D(j + 1).out = Joined(D(j).out, d.out)
    BY ChainsGoOn
  <2> HIDE DEF d, D, p, e, block, from
  <2>13. /\ D(j).out \in Seq(Byte) /\ Len(D(j).out) = Times(j, S)
         /\ \A i \in 1 .. Times(j, S) : D(j).out[i] = t[from + i]
    BY <2>2 DEF Follows, from
  <2>14. /\ D(j + 1).out \in Seq(Byte) /\ Len(D(j + 1).out) = Times(j + 1, S)
         /\ \A i \in 1 .. Times(j + 1, S) : D(j + 1).out[i] = t[from + i]
    <3> DEFINE x == D(j).out
               z == D(j + 1).out
               w == Times(j, S)
    <3>1. /\ x \in Seq(Byte) /\ Len(x) = w /\ p \in Seq(Byte) /\ Len(p) = S /\ z = Joined(x, p)
          /\ w \in Nat
      BY <2>5, <2>7, <2>11, <2>12, <2>13 DEF BlocksOfSize
    <3>2. \A i \in 1 .. w : x[i] = t[from + i]
      BY <2>13
    <3>3. \A i \in 1 .. S : p[i] = t[from + (w + i)]
      <4> TAKE i \in 1 .. S
      <4> DEFINE l == Times(k, S)
      <4>1. l = from + w /\ l + S <= Len(t) /\ from \in Nat /\ w \in Nat /\ S \in Nat
            /\ Len(t) \in Nat
        BY <1>1, <2>5
      <4>3. \A h \in 1 .. S : l + h <= Len(t) => p[h] = t[l + h]
        BY <2>7
      <4> HIDE DEF l, w, S
      <4>2. l + i <= Len(t) /\ l + i = from + (w + i)
        BY <4>1
      <4> QED
        BY <4>2, <4>3
    <3>4. Times(j + 1, S) = w + S
      BY <2>5
    <3> HIDE DEF x, z, w, S
    <3>5. /\ z \in Seq(Byte) /\ Len(z) = w + S
          /\ \A i \in 1 .. w + S : z[i] = IF i <= w THEN x[i] ELSE p[i - w]
      BY <3>1, JoinedIs
    <3>6. \A i \in 1 .. w + S : z[i] = t[from + i]
      <4> TAKE i \in 1 .. w + S
      <4>1. CASE i <= w
        BY <3>1, <3>2, <3>5, <4>1
      <4>2. CASE ~ (i <= w)
        <5>1. i - w \in 1 .. S /\ w + (i - w) = i
          BY <1>1, <3>1, <4>2
        <5> QED
          BY <3>3, <3>5, <4>2, <5>1
      <4> QED
        BY <4>1, <4>2
    <3> QED
      BY <3>4, <3>5, <3>6 DEF z
  <2>15. D(j + 1).reg = Cipher(c, t, g + (j + 1)).reg
    BY <2>3, <2>7, <2>11, <2>12
  <2> QED
    BY <2>14, <2>15 DEF Follows, from
<1>4. \A j \in Nat : j \in T
  <2> HIDE DEF T
  <2> QED
    BY <1>2, <1>3, Run!SetOfAllNumbers, PushLimitAssumption
<1> QED
  BY <1>4

(* The text before the buffer and the buffer make the text.                *)
LEMMA HeldBytes ==
  ASSUME NEW c \in Configs, NEW t \in Seq(Byte), NEW data, NEW q \in Nat, NEW m \in 0 .. Len(t),
         Holds(c, data, t, q, m)
  PROVE  /\ Bytes(data) \in Seq(Byte)
         /\ Joined(SubSeq(t, 1, Times(q, SizeOf(c))), Bytes(data)) = SubSeq(t, 1, m)
<1> DEFINE from == Times(q, SizeOf(c))
           b == Bytes(data)
           first == SubSeq(t, 1, from)
           all == SubSeq(t, 1, m)
           both == Joined(first, b)
<1>1. SizeOf(c) \in Nat /\ from \in Nat
  <2>1. SizeOf(c) \in Nat
    BY ConfigIs
  <2> QED
    BY <2>1, TimesIs
<1>2. /\ IsArray(data) /\ data.sig = m - from /\ from <= m
      /\ \A i \in 1 .. m - from : At(data, i) = t[from + i]
  BY DEF Holds
<1> HIDE DEF from
<1>3. /\ b \in Seq(Byte) /\ Len(b) = m - from
      /\ \A i \in 1 .. m - from : b[i] = t[from + i]
  <2>1. b = Slice(data, 0, data.sig)
    BY DEF Bytes
  <2>2. 0 \in Nat /\ data.sig \in Nat /\ 0 <= data.sig /\ data.sig - 0 = data.sig
    BY <1>2 DEF IsArray
  <2> HIDE DEF b
  <2>3. /\ b \in Seq(Byte) /\ Len(b) = data.sig
        /\ \A i \in 1 .. data.sig : b[i] = At(data, 0 + i)
    <3> DEFINE n == data.sig
    <3>1. b = Slice(data, 0, n) /\ 0 \in Nat /\ n \in Nat /\ 0 <= n /\ n - 0 = n /\ IsArray(data)
      BY <1>2, <2>1, <2>2
    <3> HIDE DEF n
    <3>2. /\ Slice(data, 0, n) \in Seq(Byte) /\ Len(Slice(data, 0, n)) = n - 0
          /\ \A i \in 1 .. n - 0 : Slice(data, 0, n)[i] = At(data, 0 + i)
      BY <3>1, SliceIs
    <3>3. /\ b \in Seq(Byte) /\ Len(b) = n /\ \A i \in 1 .. n : b[i] = At(data, 0 + i)
      BY <3>1, <3>2
    <3> QED
      BY <3>3 DEF n
  <2>4. \A i \in 1 .. m - from : b[i] = t[from + i]
    <3> TAKE i \in 1 .. m - from
    <3>1. i \in 1 .. data.sig /\ 0 + i = i
      BY <1>2
    <3>2. b[i] = At(data, i)
      BY <2>3, <3>1
    <3> QED
      BY <1>2, <3>2
  <2>5. Len(b) = m - from
    BY <1>2, <2>3
  <2> QED
    BY <2>3, <2>4, <2>5
<1> HIDE DEF b
<1>4. from \in 0 .. Len(t)
  BY <1>1, <1>2
<1>5. /\ first \in Seq(Byte) /\ Len(first) = from
      /\ \A i \in 1 .. from : first[i] = t[i]
  BY <1>4, PrefixIs
<1>6. /\ all \in Seq(Byte) /\ Len(all) = m
      /\ \A i \in 1 .. m : all[i] = t[i]
  BY PrefixIs
<1> HIDE DEF first, all
<1>7. /\ both \in Seq(Byte) /\ Len(both) = Len(first) + Len(b)
      /\ \A i \in 1 .. Len(first) + Len(b) :
            both[i] = IF i <= Len(first) THEN first[i] ELSE b[i - Len(first)]
  BY <1>3, <1>5, JoinedIs
<1> HIDE DEF both
<1>8. m \in Nat
  OBVIOUS
<1>9. Len(first) + Len(b) = m
  BY <1>1, <1>2, <1>3, <1>5, <1>8
<1>10. \A i \in 1 .. m : both[i] = all[i]
  <2> TAKE i \in 1 .. m
  <2>0. both[i] = (IF i <= from THEN first[i] ELSE b[i - from]) /\ all[i] = t[i]
    BY <1>5, <1>6, <1>7, <1>9
  <2>1. CASE i <= from
    <3>1. i \in 1 .. from
      BY <1>1, <2>1
    <3> QED
      BY <1>5, <2>0, <2>1, <3>1
  <2>2. CASE ~ (i <= from)
    <3>1. i - from \in 1 .. m - from /\ from + (i - from) = i
      BY <1>1, <1>2, <1>8, <2>2
    <3> QED
      BY <1>3, <2>0, <2>2, <3>1
  <2> QED
    BY <2>1, <2>2
<1>11. both = all
  <2>1. Len(both) = Len(all) /\ Len(both) = m
    BY <1>6, <1>7, <1>9
  <2> QED
    BY <1>6, <1>7, <1>10, <2>1, SeqEqual
<1> QED
  BY <1>3, <1>11 DEF both, all, first, b, from

(* What a call of process makes of a decryptor that is after g blocks of t *)
(* and holds what s has up to the byte m: it is after k blocks.            *)
DecGoesTo(buffer, t, s, g, k, m) ==
    LET p == DecCall(buffer, Cipher(config, t, g).reg, MinBufferSize, FALSE)
    IN  /\ IsBuffer(p.buffer)
        /\ Holds(config, p.buffer.data, s, k, m)
        /\ p.reg = Cipher(config, t, k).reg
        /\ Bytes(p.result) \in Seq(Byte)
        /\ Joined(SubSeq(t, 1, Times(g, BlockSize)), Bytes(p.result)) =
              SubSeq(t, 1, Times(k, BlockSize))

(* process takes a decryptor that is after g blocks to the k blocks that   *)
(* are ready with the new piece.                                           *)
LEMMA DecWhole ==
  ASSUME IsACipher, config \in Configs, NEW t \in Seq(Byte), NEW s \in Seq(Byte),
         NEW buffer, IsBuffer(buffer), NEW g \in Nat, NEW m \in 0 .. Len(s),
         Holds(config, buffer.data, s, g, m), NEW k \in Nat, g <= k,
         BlocksReady(buffer.data.sig, BlockSize, MinBufferSize, FALSE) = k - g,
         Times(k, BlockSize) <= m, Times(k, BlockSize) <= Len(t),
         \A i \in 1 .. Times(k, BlockSize) : s[i] = Cipher(config, t, k).out[i]
  PROVE  DecGoesTo(buffer, t, s, g, k, m)
<1> DEFINE S == SizeOf(config)
           data == buffer.data
           n == k - g
           reg == Cipher(config, t, g).reg
           p == DecCall(buffer, reg, MinBufferSize, FALSE)
           rest == DecChain(config, data, reg, n)
           from == Times(g, S)
           width == Times(n, S)
<1>1. S = BlockSize /\ S \in Nat \ {0} /\ n \in Nat /\ g + n = k
  <2>1. S = BlockSize
    BY SizeOfConfig
  <2>2. n \in Nat /\ g + n = k
    OBVIOUS
  <2> QED
    BY <2>1, <2>2, ConfigIs
<1>2. /\ IsArray(data) /\ data.sig = m - from /\ from <= m
      /\ \A i \in 1 .. m - from : At(data, i) = s[from + i]
  BY DEF Holds
<1>3. /\ from \in Nat /\ width \in Nat /\ Times(k, S) = from + width
      /\ Times(k, S) <= m /\ Times(k, S) <= Len(t) /\ m \in Nat /\ Len(t) \in Nat
  <2> HIDE DEF S, n
  <2>1. from \in Nat /\ width \in Nat
    BY <1>1, TimesIs
  <2>2. Times(g + n, S) = from + width
    BY <1>1, TimesAdd
  <2> QED
    BY <1>1, <2>1, <2>2
<1> DEFINE to == Times(k, S)
<1>4. /\ IsBuffer(p.buffer)
      /\ p.buffer.data = Spliced(data, n, S)
      /\ p.reg = rest.reg
      /\ p.result = WordArray(rest.out, Taken(data, n, S))
  <2> DEFINE ready == BlocksReady(data.sig, BlockSize, MinBufferSize, FALSE)
             run == DecChain(config, data, reg, ready)
  <2>1. p = [buffer |-> [data |-> Spliced(data, ready, BlockSize), count |-> buffer.count],
             reg |-> run.reg,
             result |-> WordArray(run.out, Taken(data, ready, BlockSize))]
    <3> HIDE DEF reg
    <3>1. IsBuffer(buffer)
      OBVIOUS
    <3> QED
      BY ONLY <3>1, DecryptorIs
  <2>2. ready = n
    OBVIOUS
  <2> HIDE DEF p, n, ready, reg, data
  <2> QED
    BY <1>1, <2>1, <2>2 DEF IsBuffer
<1>5. HasBlocks(config, data, t, g, n)
  <2> HIDE DEF data, from, width, n, to
  <2>1. \A i \in 1 .. width : At(data, i) = Cipher(config, t, k).out[from + i]
    <3> TAKE i \in 1 .. width
    <3>1. i \in 1 .. m - from /\ from + i \in 1 .. to
      BY <1>3 DEF to
    <3>2. At(data, i) = s[from + i]
      BY <1>2, <3>1
    <3>3. s[from + i] = Cipher(config, t, k).out[from + i]
      BY <1>1, <3>1 DEF to
    <3> QED
      BY <3>2, <3>3
  <2> QED
    BY <1>1, <2>1 DEF HasBlocks, from, width
<1>6. Follows(config, t, g, n, rest)
  <2> HIDE DEF data, n
  <2>1. Times(g + n, SizeOf(config)) <= Len(t)
    BY <1>1
  <2> QED
    BY <1>1, <1>2, <1>5, <2>1, DecFollows
<1>7. /\ rest.reg = Cipher(config, t, k).reg
      /\ rest.out \in Seq(Byte) /\ Len(rest.out) = width
      /\ \A i \in 1 .. width : rest.out[i] = t[from + i]
  <2> HIDE DEF rest, n
  <2> QED
    BY <1>1, <1>6 DEF Follows
<1>8. Holds(config, Spliced(data, n, S), s, k, m)
  <2> HIDE DEF n, data
  <2>1. Times(g + n, SizeOf(config)) <= m /\ Holds(config, data, s, g, m)
    BY <1>1 DEF data
  <2>2. Holds(config, Spliced(data, n, SizeOf(config)), s, g + n, m)
    BY <1>1, <2>1, HoldsTheRest
  <2> QED
    BY <1>1, <2>2
<1>9. Taken(data, n, S) = width
  <2> HIDE DEF data, n, S
  <2>1. Taken(data, n, S) = Least(width, data.sig)
    BY DEF Taken, Times
  <2> HIDE DEF width, from, to
  <2>2. width <= data.sig /\ data.sig \in Nat
    BY <1>2, <1>3 DEF IsArray
  <2> QED
    BY <1>3, <2>1, <2>2 DEF Least
<1>10. Holds(config, p.result, t, g, to)
  <2> DEFINE r == rest.out
  <2> HIDE DEF rest, p, data, n, from, width, to
  <2>1. p.result.mem = r /\ p.result.sig = width
    BY <1>4, <1>9 DEF WordArray
  <2> HIDE DEF r
  <2>2. r \in Seq(Byte) /\ Len(r) = width /\ \A i \in 1 .. width : r[i] = t[from + i]
    BY <1>7 DEF r
  <2>3. IsArray(p.result) /\ \A i \in 1 .. width : At(p.result, i) = r[i]
    BY <1>3, <2>1, <2>2 DEF IsArray, At
  <2>4. to - from = width /\ from <= to
    BY <1>3 DEF to
  <2> QED
    BY <2>1, <2>2, <2>3, <2>4 DEF Holds, from
<1>11. /\ Bytes(p.result) \in Seq(Byte)
       /\ Joined(SubSeq(t, 1, from), Bytes(p.result)) = SubSeq(t, 1, to)
  <2> DEFINE r == p.result
  <2>1. to \in 0 .. Len(t)
    <3> HIDE DEF to
    <3> QED
      BY <1>3 DEF to
  <2>2. Holds(config, r, t, g, to)
    BY <1>10
  <2> HIDE DEF r, to
  <2>3. Bytes(r) \in Seq(Byte)
        /\ Joined(SubSeq(t, 1, Times(g, SizeOf(config))), Bytes(r)) = SubSeq(t, 1, to)
    BY <2>1, <2>2, HeldBytes
  <2> QED
    BY <2>3 DEF r, from
<1>12. Holds(config, p.buffer.data, s, k, m)
  <2> HIDE DEF p, data, n
  <2> QED
    BY <1>4, <1>8
<1>13. p.reg = Cipher(config, t, k).reg
  BY <1>4, <1>7
<1> HIDE DEF p
<1> QED
  BY <1>1, <1>4, <1>11, <1>12, <1>13 DEF DecGoesTo, p, from, to

(* The ciphertext begins with the whole blocks of the cipher.              *)
LEMMA CiphertextBlocks ==
  ASSUME IsACipher, NEW c \in Configs, NEW t \in Seq(Byte), NEW k \in Nat,
         Times(k, SizeOf(c)) <= Len(t)
  PROVE  \A i \in 1 .. Times(k, SizeOf(c)) : Ciphertext(c, t)[i] = Cipher(c, t, k).out[i]
<1> DEFINE S == SizeOf(c)
           B == BlocksOf(c, t)
           h == Len(t) \div S
           all == Cipher(c, t, B).out
           m == Len(t)
<1>1. S \in Nat \ {0} /\ m \in Nat
  BY ConfigIs
<1>2. /\ h \in Nat /\ B \in Nat /\ m <= Times(B, S)
      /\ m % S = 0 => B = h
      /\ m % S # 0 => B = h + 1
  BY BlocksOfIs
<1>3. k <= h
  <2> HIDE DEF m, S, h
  <2>1. k <= m \div S
    BY <1>1, QuotientShifts DEF m, S
  <2> QED
    BY <2>1 DEF h, m
<1>4. B - k \in Nat /\ k + (B - k) = B
  <2> HIDE DEF B, h, m, S
  <2> QED
    BY <1>2, <1>3
<1>5. all \in Seq(Byte) /\ Len(all) = Times(B, S)
  BY <1>2, CipherIs
<1>6. \A i \in 1 .. Times(k, S) : all[i] = Cipher(c, t, k).out[i]
  <2> DEFINE d == B - k
  <2> HIDE DEF B, d
  <2>1. d \in Nat /\ k + d = B
    BY <1>4 DEF d
  <2> QED
    BY <2>1, CipherGrows
<1>7. Ciphertext(c, t) = SubSeq(all, 1, m)
  BY DEF Ciphertext
<1> HIDE DEF all, m, S, B
<1>8. m \in 0 .. Len(all)
  BY <1>1, <1>2, <1>5
<1>9. \A i \in 1 .. m : SubSeq(all, 1, m)[i] = all[i]
  BY <1>5, <1>8, PrefixIs
<1>10. Times(k, S) \in Nat /\ Times(k, S) <= m
  BY <1>1, TimesIs DEF S, m
<1>11. \A i \in 1 .. Times(k, S) : i \in 1 .. m
  BY <1>1, <1>10
<1> QED
  BY <1>6, <1>7, <1>9, <1>11 DEF S

(* A ciphertext is the cipher of the text, cut to its length.              *)
LEMMA CiphertextBytes ==
  ASSUME IsACipher, NEW c \in Configs, NEW t \in Seq(Byte)
  PROVE  \A i \in 1 .. Len(t) :
            Ciphertext(c, t)[i] = Cipher(c, t, BlocksOf(c, t)).out[i]
<1> DEFINE all == Cipher(c, t, BlocksOf(c, t)).out
<1>1. BlocksOf(c, t) \in Nat /\ Len(t) <= Times(BlocksOf(c, t), SizeOf(c))
  BY BlocksOfIs
<1>2. all \in Seq(Byte) /\ Len(all) = Times(BlocksOf(c, t), SizeOf(c))
  BY <1>1, CipherIs
<1>3. Ciphertext(c, t) = SubSeq(all, 1, Len(t))
  BY DEF Ciphertext
<1> HIDE DEF all
<1>4. Len(t) \in 0 .. Len(all)
  BY <1>1, <1>2
<1>5. \A i \in 1 .. Len(t) : SubSeq(all, 1, Len(t))[i] = all[i]
  BY <1>2, <1>4, PrefixIs
<1> QED
  BY <1>3, <1>5 DEF all

(* What finalize makes of a decryptor that is after g blocks of t and has  *)
(* the rest of its ciphertext: the rest of t.                              *)
IsRecord(a) == a = WordArray(a.mem, a.sig)

DecEnds(buffer, t, g) ==
    LET p == DecCall(buffer, Cipher(config, t, g).reg, MinBufferSize, TRUE)
    IN  IsRecord(p.result) /\ Holds(config, p.result, t, g, Len(t))

(* finalize of the decryptor finds the rest of the text.                   *)
LEMMA DecLast ==
  ASSUME IsACipher, config \in Configs, NEW t \in Seq(Byte), NEW buffer, IsBuffer(buffer),
         NEW g \in Nat, Holds(config, buffer.data, Ciphertext(config, t), g, Len(t)),
         Xors(config) \/ Len(t) % BlockSize = 0
  PROVE  DecEnds(buffer, t, g)
<1> DEFINE S == SizeOf(config)
           s == Ciphertext(config, t)
           data == buffer.data
           m == Len(t)
           k == m \div S
           r == m % S
           n == k - g
           ready == BlocksReady(data.sig, S, MinBufferSize, TRUE)
           reg == Cipher(config, t, g).reg
           p == DecCall(buffer, reg, MinBufferSize, TRUE)
           rest == DecChain(config, data, reg, n)
           all == DecChain(config, data, reg, ready)
           from == Times(g, S)
           width == Times(n, S)
<1>1. S = BlockSize /\ S \in Nat \ {0} /\ m \in Nat /\ m = Len(t)
  BY ConfigIs, SizeOfConfig
<1>2. /\ IsArray(data) /\ data.sig = m - from /\ from <= m /\ data.sig \in Nat
      /\ \A i \in 1 .. m - from : At(data, i) = s[from + i]
  BY DEF Holds, IsArray
<1>3. /\ g <= k /\ k \in Nat /\ Times(k, S) <= m
      /\ data.sig \div S = n
      /\ data.sig % S = r /\ r = m - Times(k, S) /\ r \in 0 .. S - 1
  <2> HIDE DEF S, m, data
  <2>1. /\ g <= m \div S
        /\ (m - Times(g, S)) \div S = (m \div S) - g
        /\ (m - Times(g, S)) % S = m % S
    BY <1>1, <1>2, QuotientShifts
  <2>2. /\ m \div S \in Nat /\ m % S \in 0 .. S - 1 /\ Times(m \div S, S) <= m
        /\ m % S = m - Times(m \div S, S)
    BY <1>1, Quotient
  <2> QED
    BY <1>2, <2>1, <2>2
<1>4. n \in Nat /\ g + n = k
  BY <1>3
<1>5. (r = 0 => ready = n) /\ (r # 0 => ready = n + 1)
  <2> DEFINE x == data.sig
  <2>1. x \in Nat
    BY <1>2
  <2>2. ready = RoundUp(x, S) \div S
    BY DEF BlocksReady
  <2> HIDE DEF S, m, k, r, x
  <2>3. /\ RoundUp(x, S) \div S = (x + S - 1) \div S
        /\ x % S = 0 => (x + S - 1) \div S = x \div S
        /\ x % S # 0 => (x + S - 1) \div S = (x \div S) + 1
    BY <1>1, <2>1, RoundedBlocks
  <2>4. x \div S = n /\ x % S = r
    BY <1>3 DEF x
  <2> HIDE DEF n, ready
  <2> QED
    BY <2>2, <2>3, <2>4
<1>6. p.result = WordArray(all.out, Taken(data, ready, S))
  <2> DEFINE now == BlocksReady(data.sig, BlockSize, MinBufferSize, TRUE)
             run == DecChain(config, data, reg, now)
  <2>1. p = [buffer |-> [data |-> Spliced(data, now, BlockSize), count |-> buffer.count],
             reg |-> run.reg,
             result |-> WordArray(run.out, Taken(data, now, BlockSize))]
    <3> HIDE DEF reg
    <3>1. IsBuffer(buffer)
      OBVIOUS
    <3> QED
      BY ONLY <3>1, DecryptorIs
  <2>2. now = ready
    BY <1>1
  <2> HIDE DEF p, now, ready, reg, data, S
  <2> QED
    BY <1>1, <2>1, <2>2
<1>13. IsRecord(p.result)
  <2> DEFINE z == all.out
             v == Taken(data, ready, S)
  <2>1. p.result = WordArray(z, v)
    BY <1>6
  <2> HIDE DEF p, z, v
  <2> QED
    BY <2>1 DEF IsRecord, WordArray
<1>7. /\ from \in Nat /\ width \in Nat /\ Times(k, S) = from + width
      /\ data.sig = width + r /\ m = from + width + r
      /\ Times(n + 1, S) = width + S
  <2> HIDE DEF S, n, m, k, r, data
  <2>1. from \in Nat /\ width \in Nat /\ Times(n + 1, S) = width + S
    BY <1>1, <1>4, TimesIs
  <2>2. Times(g + n, S) = from + width
    BY <1>1, <1>4, TimesAdd
  <2>3. Times(k, S) = from + width
    BY <1>4, <2>2
  <2> DEFINE to == Times(k, S)
  <2> HIDE DEF from, width, to
  <2>4. r = m - to /\ to = from + width /\ data.sig = m - from /\ m \in Nat /\ r \in Nat
    BY <1>1, <1>2, <1>3, <2>3 DEF to
  <2>5. data.sig = width + r /\ m = from + width + r
    BY <2>1, <2>4
  <2> QED
    BY <2>1, <2>3, <2>5
<1>8. Follows(config, t, g, n, rest)
  <2> HIDE DEF data, n, m, k, S, s, r
  <2>1. \A i \in 1 .. Times(k, S) : s[i] = Cipher(config, t, k).out[i]
    BY <1>1, <1>3, CiphertextBlocks DEF S, s
  <2>2. HasBlocks(config, data, t, g, n)
    <3>1. \A i \in 1 .. width : At(data, i) = Cipher(config, t, g + n).out[from + i]
      <4> TAKE i \in 1 .. width
      <4> DEFINE to == Times(k, S)
      <4> HIDE DEF from, width, to
      <4>1. i \in 1 .. m - from /\ from + i \in 1 .. to
        <5>1. /\ to = from + width /\ m = from + width + r
              /\ from \in Nat /\ width \in Nat /\ r \in Nat
          BY <1>1, <1>3, <1>7 DEF to
        <5> QED
          BY <5>1
      <4>2. At(data, i) = s[from + i]
        BY <1>2, <4>1
      <4>3. s[from + i] = Cipher(config, t, k).out[from + i]
        BY <2>1, <4>1 DEF to
      <4> QED
        BY <1>4, <4>2, <4>3
    <3> QED
      BY <3>1 DEF HasBlocks, from, width, S
  <2>3. Times(g + n, SizeOf(config)) <= Len(t)
    BY <1>1, <1>3, <1>4 DEF S, m
  <2> QED
    BY <1>2, <1>4, <2>2, <2>3, DecFollows
<1>9. /\ rest.reg = Cipher(config, t, k).reg
      /\ rest.out \in Seq(Byte) /\ Len(rest.out) = width
      /\ \A i \in 1 .. width : rest.out[i] = t[from + i]
  <2> HIDE DEF rest, n
  <2> QED
    BY <1>4, <1>8 DEF Follows
<1>10. Taken(data, ready, S) = width + r
  <2> DEFINE T == Times(ready, S)
  <2>1. Taken(data, ready, S) = Least(T, data.sig)
    BY DEF Taken, Times
  <2> HIDE DEF data, n, S, r, ready, m, k, from
  <2>2. T = width \/ T = width + S
    BY <1>5, <1>7
  <2>3. r = 0 => T = width
    BY <1>5
  <2> HIDE DEF T, width
  <2>4. /\ r \in Nat /\ r <= S /\ S \in Nat /\ width \in Nat /\ data.sig = width + r
        /\ (T = width + S \/ (T = width /\ r = 0))
    <3>1. r # 0 => T = width + S
      BY <1>5, <1>7 DEF T, width
    <3> QED
      BY <1>1, <1>3, <1>7, <2>3, <3>1
  <2>5. Least(T, data.sig) = width + r
    BY <2>4 DEF Least
  <2> QED
    BY <2>1, <2>5
<1>11. /\ all.out \in Seq(Byte) /\ width + r <= Len(all.out)
       /\ \A i \in 1 .. width + r : all.out[i] = t[from + i]
  <2>1. CASE r = 0
    <3>1. all = rest
      BY <1>5, <2>1
    <3> HIDE DEF all, rest, r
    <3>2. width + r = width
      BY <1>7, <2>1
    <3> HIDE DEF width
    <3> QED
      BY <1>7, <1>9, <2>1, <3>1, <3>2
  <2>2. CASE r # 0
    <3> DEFINE block == BlockAt(data, n, S)
               e == CipherBlock(config, t, k)
               u == Cipher(config, t, k).reg
               d == DecOf(config, u, block)
               pb == PlainBlock(config, t, k)
    <3>1. Xors(config) /\ BlocksOf(config, t) = k + 1
      <4>1. Len(t) % SizeOf(config) = r /\ Len(t) \div SizeOf(config) = k /\ Len(t) % BlockSize = r
        BY <1>1
      <4> HIDE DEF r, k
      <4> QED
        BY <2>2, <4>1, BlocksOfIs
    <3>2. StepsOn(config, t, k) /\ u \in Regs
      <4> HIDE DEF k
      <4> QED
        BY <1>3, CipherSteps, CipherIs
    <3>3. /\ pb \in BlocksOfSize(S) /\ e.out \in BlocksOfSize(S)
          /\ \A i \in 1 .. S : Times(k, S) + i <= Len(t) => pb[i] = t[Times(k, S) + i]
          /\ \A i \in 1 .. S : Cipher(config, t, k + 1).out[Times(k, S) + i] = e.out[i]
      BY <3>2 DEF StepsOn
    <3>4. block \in BlocksOfSize(S) /\ \A i \in 1 .. S : block[i] = At(data, Times(n, S) + i)
      <4> HIDE DEF n, data, S
      <4> QED
        BY <1>1, <1>2, <1>4, BlockIs
    <3>5. all.out = Joined(rest.out, d.out)
      <4>1. DecChain(config, data, reg, n + 1).out =
               Joined(rest.out, DecOf(config, rest.reg, BlockAt(data, n, SizeOf(config))).out)
        BY <1>4, ChainsGoOn
      <4>2. ready = n + 1
        BY <1>5, <2>2
      <4> HIDE DEF rest, n, ready, u, data, k, r
      <4>3. rest.reg = u
        BY <1>9 DEF u
      <4> QED
        BY <4>1, <4>2, <4>3
    <3>6. \A i \in 1 .. S : i <= r => block[i] = e.out[i]
      <4> HIDE DEF block, e, n, data, S, k, r, m, s
      <4> TAKE i \in 1 .. S
      <4> HAVE i <= r
      <4> DEFINE to == Times(k, S)
                 j == width + i
      <4> HIDE DEF to, width, from
      <4>1. j \in 1 .. m - from /\ from + j = to + i /\ to + i \in 1 .. m
        <5>1. /\ to = from + width /\ m = from + width + r
              /\ from \in Nat /\ width \in Nat /\ r \in Nat
          BY <1>1, <1>3, <1>7 DEF to
        <5> QED
          BY <5>1
      <4>2. block[i] = At(data, j)
        BY <3>4 DEF width
      <4>3. At(data, j) = s[from + j]
        BY <1>2, <4>1
      <4>4. s[to + i] = Cipher(config, t, k + 1).out[to + i]
        BY <1>1, <3>1, <4>1, CiphertextBytes DEF s
      <4>5. Cipher(config, t, k + 1).out[to + i] = e.out[i]
        BY <3>3 DEF to
      <4> QED
        BY <4>1, <4>2, <4>3, <4>4, <4>5
    <3>7. \A i \in 1 .. S : i <= r => d.out[i] = DecOf(config, u, e.out).out[i]
      <4>1. r \in Nat
        BY <1>3
      <4> DEFINE eo == e.out
      <4> HIDE DEF r, u, block, e, eo, S
      <4>2. /\ block \in BlocksOfSize(SizeOf(config)) /\ eo \in BlocksOfSize(SizeOf(config))
            /\ \A i \in 1 .. SizeOf(config) : i <= r => block[i] = eo[i]
        BY <3>3, <3>4, <3>6 DEF S, eo
      <4>3. \A i \in 1 .. SizeOf(config) : i <= r =>
               DecOf(config, u, block).out[i] = DecOf(config, u, eo).out[i]
        BY <3>1, <3>2, <4>1, <4>2, PartialBlocks
      <4> QED
        BY <4>3 DEF S, eo
    <3>8. DecOf(config, u, e.out).out = pb
      <4>1. e = EncOf(config, u, pb)
        BY DEF CipherBlock
      <4>2. pb \in BlocksOfSize(SizeOf(config))
        BY <3>3
      <4> HIDE DEF e, u, pb
      <4>3. DecOf(config, u, EncOf(config, u, pb).out).out = pb
        BY <3>2, <4>2, StepsUndo
      <4> QED
        BY <4>1, <4>3
    <3>9. d.out \in Seq(Byte) /\ Len(d.out) = S
      <4> HIDE DEF u, block
      <4>1. block \in BlocksOfSize(SizeOf(config))
        BY <3>4
      <4> QED
        BY <3>2, <4>1, StepsAreTyped DEF IsStep, BlocksOfSize
    <3> DEFINE x == rest.out
               y == d.out
               z == all.out
    <3>10. \A i \in 1 .. S : i <= r => y[i] = t[from + (width + i)]
      <4> TAKE i \in 1 .. S
      <4> HAVE i <= r
      <4> DEFINE to == Times(k, S)
      <4>1. y[i] = pb[i]
        BY <3>7, <3>8
      <4>2. to + i <= Len(t) => pb[i] = t[to + i]
        BY <3>3
      <4>3. /\ to = from + width /\ m = from + width + r /\ from \in Nat /\ width \in Nat
            /\ r \in Nat /\ m = Len(t)
        BY <1>1, <1>3, <1>7
      <4> HIDE DEF to, width, from, y, pb, m, r, S
      <4>4. to + i <= Len(t) /\ to + i = from + (width + i)
        BY <4>3
      <4> QED
        BY <4>1, <4>2, <4>4
    <3>11. x \in Seq(Byte) /\ Len(x) = width /\ y \in Seq(Byte) /\ Len(y) = S /\ z = Joined(x, y)
           /\ \A i \in 1 .. width : x[i] = t[from + i]
      BY <1>9, <3>5, <3>9
    <3>12. width \in Nat /\ r \in 0 .. S - 1 /\ S \in Nat
      BY <1>1, <1>3, <1>7
    <3> HIDE DEF x, y, z, width, r, S, from
    <3>13. /\ z \in Seq(Byte) /\ Len(z) = width + S
           /\ \A i \in 1 .. width + S : z[i] = IF i <= width THEN x[i] ELSE y[i - width]
      BY <3>11, JoinedIs
    <3>14. \A i \in 1 .. width + r : z[i] = t[from + i]
      <4> TAKE i \in 1 .. width + r
      <4>0. i \in 1 .. width + S
        BY <3>12
      <4>1. CASE i <= width
        <5>1. i \in 1 .. width
          BY <3>12, <4>1
        <5> QED
          BY <3>11, <3>13, <4>0, <4>1, <5>1
      <4>2. CASE ~ (i <= width)
        <5>1. i - width \in 1 .. S /\ i - width <= r /\ width + (i - width) = i
          BY <3>12, <4>2
        <5> QED
          BY <3>10, <3>13, <4>0, <4>2, <5>1
      <4> QED
        BY <4>1, <4>2
    <3>15. width + r <= Len(z)
      BY <3>12, <3>13
    <3> QED
      BY <3>13, <3>14, <3>15 DEF z
  <2> QED
    BY <2>1, <2>2
<1>12. Holds(config, p.result, t, g, m)
  <2> DEFINE z == all.out
             w == width + r
  <2>1. p.result.mem = z /\ p.result.sig = w
    <3> DEFINE v == Taken(data, ready, S)
    <3>2. p.result = WordArray(z, v) /\ v = w
      BY <1>6, <1>10
    <3> HIDE DEF p, z, w, v
    <3>1. p.result = WordArray(z, w)
      BY <3>2
    <3> QED
      BY <3>1 DEF WordArray
  <2>2. z \in Seq(Byte) /\ w <= Len(z) /\ \A i \in 1 .. w : z[i] = t[from + i]
    BY <1>11
  <2>3. w \in Nat /\ m - from = w /\ from <= m
    <3> HIDE DEF width, from, m, r
    <3>1. r \in Nat
      BY <1>1, <1>3
    <3> QED
      BY <1>1, <1>7, <3>1
  <2> HIDE DEF z, w, p, m, from
  <2>4. IsArray(p.result) /\ \A i \in 1 .. w : At(p.result, i) = z[i]
    BY <2>1, <2>2, <2>3 DEF IsArray, At
  <2> QED
    BY <2>1, <2>2, <2>3, <2>4 DEF Holds, from
<1> HIDE DEF p
<1> QED
  BY <1>12, <1>13 DEF DecEnds, p

(* A word array with another number of significant bytes.                  *)
LEMMA Resized ==
  ASSUME NEW a, IsRecord(a), NEW n
  PROVE  [a EXCEPT !.sig = n] = WordArray(a.mem, n)
BY DEF IsRecord, WordArray

(* Whole blocks are whole words.                                           *)
LEMMA TimesFour ==
  ASSUME NEW n \in Nat, NEW size \in Nat, size % 4 = 0
  PROVE  Times(n, size) \in Nat /\ Times(n, size) % 4 = 0
<1> DEFINE w == size \div 4
           x == n * w
<1>1. w \in Nat /\ size = 4 * w
  OBVIOUS
<1>2. x \in Nat
  BY <1>1
<1>3. Times(n, size) = 4 * x
  BY <1>1 DEF Times
<1> HIDE DEF x
<1> QED
  BY <1>2, <1>3

(* Whole words are not rounded up.                                         *)
LEMMA WholeWords ==
  ASSUME NEW n \in Nat, n % 4 = 0
  PROVE  RoundUp(n, 4) = n
BY DEF RoundUp

(* r is the rest of the padded message, after g blocks of it.              *)
HasTheRest(r, g, n) ==
    /\ IsRecord(r)
    /\ Holds(config, r, Padded(config, n), g, Len(Padded(config, n)))
    /\ Times(g, BlockSize) <= n

(* Such a rest has the rest of the message, and then the padding.          *)
LEMMA RestIs ==
  ASSUME config \in Configs, NEW n \in 0 .. Len(Message), NEW g \in Nat, NEW r,
         HasTheRest(r, g, n)
  PROVE  LET from == Times(g, BlockSize)
         IN  /\ from \in Nat /\ from <= n /\ n \in Nat /\ Added(config, n) \in Nat
             /\ IsArray(r) /\ r.sig = (n - from) + Added(config, n)
             /\ \A i \in 1 .. n - from : At(r, i) = Message[from + i]
             /\ \A i \in 1 .. Added(config, n) :
                   At(r, (n - from) + i) = FillByte(config, n, i)
<1> DEFINE t == Padded(config, n)
           more == Added(config, n)
           S == BlockSize
           from == Times(g, S)
<1>1. /\ t \in Seq(Byte) /\ Len(t) = n + more
      /\ \A i \in 1 .. n : t[i] = Message[i]
      /\ \A i \in 1 .. more : t[n + i] = FillByte(config, n, i)
  BY PaddedIs
<1>2. S = SizeOf(config) /\ S \in Nat \ {0} /\ n \in Nat
  BY ConfigIs, SizeOfConfig
<1>3. more \in Nat
  BY <1>2, AddedIs, Sizes
<1>4. from \in Nat /\ from <= n
  <2>1. from <= n
    BY DEF HasTheRest
  <2> HIDE DEF S
  <2> QED
    BY <1>2, <2>1, TimesIs
<1>5. /\ IsArray(r) /\ r.sig = Len(t) - from
      /\ \A i \in 1 .. Len(t) - from : At(r, i) = t[from + i]
  BY <1>2 DEF HasTheRest, Holds
<1> HIDE DEF t, more, from, S
<1>6. r.sig = (n - from) + more
  BY <1>1, <1>2, <1>3, <1>4, <1>5
<1>7. \A i \in 1 .. n - from : At(r, i) = Message[from + i]
  <2> TAKE i \in 1 .. n - from
  <2>1. i \in 1 .. Len(t) - from /\ from + i \in 1 .. n
    BY <1>1, <1>2, <1>3, <1>4
  <2> QED
    BY <1>1, <1>5, <2>1
<1>8. \A i \in 1 .. more : At(r, (n - from) + i) = FillByte(config, n, i)
  <2> TAKE i \in 1 .. more
  <2>1. (n - from) + i \in 1 .. Len(t) - from /\ from + ((n - from) + i) = n + i
    BY <1>1, <1>2, <1>3, <1>4
  <2> QED
    BY <1>1, <1>5, <2>1
<1> QED
  BY <1>2, <1>3, <1>4, <1>5, <1>6, <1>7, <1>8 DEF from, more, S

(* What an unpadding has to find.                                          *)
LEMMA CutToTheMessage ==
  ASSUME config \in Configs, NEW n \in 0 .. Len(Message), NEW g \in Nat, NEW r,
         HasTheRest(r, g, n)
  PROVE  Holds(config, WordArray(r.mem, n - Times(g, BlockSize)), Message, g, n)
<1> DEFINE from == Times(g, BlockSize)
           a == WordArray(r.mem, n - from)
<1>1. /\ from \in Nat /\ from <= n /\ n \in Nat
      /\ IsArray(r) /\ \A i \in 1 .. n - from : At(r, i) = Message[from + i]
  BY RestIs
<1>2. a.mem = r.mem /\ a.sig = n - from
  BY DEF WordArray
<1> HIDE DEF a
<1>3. \A i : At(a, i) = At(r, i)
  BY <1>2 DEF At
<1>4. from = Times(g, SizeOf(config))
  BY SizeOfConfig
<1> HIDE DEF from
<1>5. IsArray(a)
  BY <1>1, <1>2 DEF IsArray
<1>6. Holds(config, a, Message, g, n)
  BY <1>1, <1>2, <1>3, <1>4, <1>5 DEF Holds
<1> QED
  BY <1>6 DEF a, from

(* The three paddings that end with their count are taken off: the count   *)
(* is the last byte, which is the last of its word.                        *)
LEMMA CountedUnpads ==
  ASSUME config \in Configs, ~ IsStream, NEW n \in 0 .. Len(Message), NEW g \in Nat, NEW r,
         HasTheRest(r, g, n), config.padding \in {"Pkcs7", "AnsiX923", "Iso10126"}
  PROVE  CountedUnpad(r) = WordArray(r.mem, n - Times(g, BlockSize))
<1> DEFINE from == Times(g, BlockSize)
           m == Short(n)
<1>1. Added(config, n) = m /\ FillByte(config, n, m) = m
  BY DEF Added, FillByte
<1>2. m \in Nat \ {0} /\ (n + m) % BlockBytes = 0
      /\ n + m = Times((n \div BlockBytes) + 1, BlockBytes)
  <2>1. m \in Nat \ {0}
    BY ShortIsAByte
  <2>2. (n + m) % BlockBytes = 0 /\ n + m = Times((n \div BlockBytes) + 1, BlockBytes)
    BY ShortIs
  <2> QED
    BY <2>1, <2>2
<1>3. /\ from \in Nat /\ from <= n /\ n \in Nat
      /\ IsArray(r) /\ r.sig = (n - from) + m
      /\ \A i \in 1 .. m : At(r, (n - from) + i) = FillByte(config, n, i)
  <2> HIDE DEF m
  <2> QED
    BY <1>1, RestIs
<1>4. r.sig \in Nat /\ r.sig # 0 /\ m \in 1 .. m
  <2> HIDE DEF m, from
  <2> QED
    BY <1>2, <1>3
<1>5. r.sig % 4 = 0
  <2> DEFINE j == (n \div BlockBytes) + 1
             to == Times(j, BlockBytes)
  <2>1. BlockBytes \in Nat /\ BlockBytes % 4 = 0 /\ BlockBytes # 0 /\ BlockSize = BlockBytes
    BY Sizes DEF BlockSize
  <2>2. j \in Nat
    <3>1. n \in Nat /\ BlockBytes \in Nat \ {0}
      BY <2>1
    <3>2. n \div BlockBytes \in Nat
      BY <3>1, Quotient
    <3> QED
      BY <3>2
  <2> HIDE DEF j
  <2>3. to \in Nat /\ to % 4 = 0
    BY <2>1, <2>2, TimesFour
  <2>4. from % 4 = 0
    BY <2>1, TimesFour
  <2>5. n + m = to
    BY <1>2 DEF j
  <2> HIDE DEF from, to, m
  <2>6. r.sig = to - from
    BY <1>2, <1>3, <2>3, <2>5
  <2>7. from <= to
    BY <1>2, <1>3, <2>5
  <2> QED
    BY <1>3, <2>3, <2>4, <2>6, <2>7
<1>6. RoundUp(r.sig, 4) = r.sig
  BY <1>4, <1>5, WholeWords
<1>7. At(r, r.sig) = m
  <2> HIDE DEF m, from
  <2> QED
    BY <1>1, <1>3, <1>4
<1>8. CountedUnpad(r) = [r EXCEPT !.sig = r.sig - m]
  <2> HIDE DEF m, from
  <2> QED
    BY <1>4, <1>6, <1>7 DEF CountedUnpad
<1>9. r.sig - m = n - from
  <2> HIDE DEF m, from
  <2> QED
    BY <1>2, <1>3
<1>10. IsRecord(r)
  BY DEF HasTheRest
<1> HIDE DEF m, from
<1>11. CountedUnpad(r) = WordArray(r.mem, r.sig - m)
  BY <1>8, <1>10, Resized
<1> QED
  BY <1>9, <1>11 DEF from

(* Walking back ends at the last byte that is not 0.                       *)
LEMMA ZeroUnpads ==
  ASSUME NEW r, IsRecord(r), NEW l \in 1 .. r.sig, r.sig \in Nat, At(r, l) # 0,
         \A i \in l + 1 .. r.sig : At(r, i) = 0
  PROVE  ZeroUnpadEnds(r) /\ ZeroUnpad(r) = WordArray(r.mem, l)
<1> DEFINE Last(i) == At(r, i) # 0 /\ \A j \in i + 1 .. r.sig : At(r, j) = 0
           x == CHOOSE i \in 1 .. r.sig : Last(i)
<1>1. ZeroUnpadEnds(r)
  BY DEF ZeroUnpadEnds
<1>2. x \in 1 .. r.sig /\ Last(x)
  OBVIOUS
<1>3. ASSUME NEW i \in 1 .. r.sig, Last(i) PROVE i = l
  <2>1. ~ (i < l)
    BY <1>3
  <2>2. ~ (l < i)
    BY <1>3
  <2> QED
    BY <2>1, <2>2
<1>4. x = l
  <2> HIDE DEF x, Last
  <2> QED
    BY <1>2, <1>3
<1>5. ZeroUnpad(r) = [r EXCEPT !.sig = x]
  BY DEF ZeroUnpad
<1> HIDE DEF x
<1> QED
  BY <1>1, <1>4, <1>5, Resized

(* Iso97971 is taken off: walking back ends at the byte 128.               *)
LEMMA Iso97971Unpads ==
  ASSUME config \in Configs, ~ IsStream, NEW n \in 0 .. Len(Message), NEW g \in Nat, NEW r,
         HasTheRest(r, g, n), config.padding = "Iso97971"
  PROVE  /\ ZeroUnpadEnds(r)
         /\ [ZeroUnpad(r) EXCEPT !.sig = @ - 1] = WordArray(r.mem, n - Times(g, BlockSize))
<1> DEFINE from == Times(g, BlockSize)
           m == Short(n)
           l == (n - from) + 1
<1>1. Added(config, n) = m /\ \A i : FillByte(config, n, i) = IF i = 1 THEN 128 ELSE 0
  BY DEF Added, FillByte
<1>2. m \in Nat \ {0}
  BY ShortIsAByte
<1>3. /\ from \in Nat /\ from <= n /\ n \in Nat
      /\ IsArray(r) /\ r.sig = (n - from) + m
      /\ \A i \in 1 .. m : At(r, (n - from) + i) = FillByte(config, n, i)
  <2> HIDE DEF m
  <2> QED
    BY <1>1, RestIs
<1> HIDE DEF m, from
<1>4. l \in 1 .. r.sig /\ r.sig \in Nat /\ 1 \in 1 .. m /\ l - 1 = n - from
  BY <1>2, <1>3
<1>5. At(r, l) # 0
  BY <1>1, <1>3, <1>4
<1>6. \A i \in l + 1 .. r.sig : At(r, i) = 0
  <2> TAKE i \in l + 1 .. r.sig
  <2> DEFINE j == i - (n - from)
  <2>1. j \in 1 .. m /\ j # 1 /\ (n - from) + j = i
    BY <1>2, <1>3
  <2> HIDE DEF j
  <2>2. At(r, (n - from) + j) = FillByte(config, n, j)
    BY <1>3, <2>1
  <2> QED
    BY <1>1, <2>1, <2>2
<1>7. IsRecord(r)
  BY DEF HasTheRest
<1> HIDE DEF l
<1>8. ZeroUnpadEnds(r) /\ ZeroUnpad(r) = WordArray(r.mem, l)
  BY <1>4, <1>5, <1>6, <1>7, ZeroUnpads
<1>9. [WordArray(r.mem, l) EXCEPT !.sig = @ - 1] = WordArray(r.mem, l - 1)
  BY DEF WordArray
<1> QED
  BY <1>4, <1>8, <1>9 DEF from

(* ZeroPadding is taken off where the rest of the message does not end     *)
(* with a 0; of an empty message the walk does not end.                    *)
LEMMA ZeroPaddingUnpads ==
  ASSUME config \in Configs, NEW n \in 0 .. Len(Message), NEW g \in Nat, NEW r,
         HasTheRest(r, g, n), config.padding = "ZeroPadding"
  PROVE  /\ Message[n] # 0 /\ Times(g, BlockSize) < n =>
              /\ ZeroUnpadEnds(r)
              /\ ZeroUnpad(r) = WordArray(r.mem, n - Times(g, BlockSize))
         /\ n = 0 => ~ ZeroUnpadEnds(r)
<1> DEFINE from == Times(g, BlockSize)
           m == Added(config, n)
           l == n - from
<1>1. \A i : FillByte(config, n, i) = 0
  BY DEF FillByte
<1>2. /\ from \in Nat /\ from <= n /\ n \in Nat /\ m \in Nat
      /\ IsArray(r) /\ r.sig = l + m
      /\ \A i \in 1 .. l : At(r, i) = Message[from + i]
      /\ \A i \in 1 .. m : At(r, l + i) = FillByte(config, n, i)
  BY RestIs
<1>3. IsRecord(r)
  BY DEF HasTheRest
<1>4. n = 0 => m = 0
  <2>1. 0 % BlockBytes = 0
    <3>1. BlockBytes \in Nat \ {0}
      BY Sizes
    <3>2. Times(0, BlockBytes) = 0
      BY <3>1, NoTimes
    <3>3. 0 % BlockBytes = 0 - Times(0, BlockBytes)
      BY <3>1, <3>2, QuotientIs
    <3> QED
      BY <3>2, <3>3
  <2> QED
    BY <2>1 DEF Added
<1>5. ASSUME Message[n] # 0, from < n
      PROVE  ZeroUnpadEnds(r) /\ ZeroUnpad(r) = WordArray(r.mem, l)
  <2> HIDE DEF from, m
  <2>1. l \in 1 .. l /\ l \in 1 .. r.sig /\ r.sig \in Nat /\ from + l = n
    BY <1>2, <1>5
  <2>2. At(r, l) # 0
    BY <1>2, <1>5, <2>1
  <2>3. \A i \in l + 1 .. r.sig : At(r, i) = 0
    <3> TAKE i \in l + 1 .. r.sig
    <3> DEFINE j == i - l
    <3>1. j \in 1 .. m /\ l + j = i
      BY <1>2
    <3> HIDE DEF j
    <3> QED
      BY <1>1, <1>2, <3>1
  <2> HIDE DEF l
  <2> QED
    BY <1>3, <2>1, <2>2, <2>3, ZeroUnpads
<1>6. ASSUME n = 0 PROVE ~ ZeroUnpadEnds(r)
  <2> HIDE DEF from, m
  <2>1. r.sig = 0
    BY <1>2, <1>4, <1>6
  <2> QED
    BY <2>1 DEF ZeroUnpadEnds
<1> QED
  BY <1>5, <1>6

(* What comes of the rest of a padded message.                             *)
LEMMA UnpadIs ==
  ASSUME config \in Configs, NEW n \in 0 .. Len(Message), NEW g \in Nat, NEW r,
         HasTheRest(r, g, n), CallerFits(n),
         n > 0 => Times(g, BlockSize) < n \/ config.padding # "ZeroPadding"
  PROVE  LET returns == IsStream \/ UnpadEnds(config.padding, r)
             data == IF IsStream THEN r ELSE Unpad(config.padding, r)
         IN  /\ returns <=> ~ (config.padding = "ZeroPadding" /\ n = 0)
             /\ returns => Holds(config, data, Message, g, n)
<1> DEFINE cut == WordArray(r.mem, n - Times(g, BlockSize))
           data == IF IsStream THEN r ELSE Unpad(config.padding, r)
           ends == IsStream \/ UnpadEnds(config.padding, r)
<1>1. Holds(config, cut, Message, g, n)
  BY CutToTheMessage
<1>2. CASE IsStream \/ config.padding = "NoPadding"
  <2>1. data = r /\ ends
    BY <1>2 DEF Unpad, UnpadEnds
  <2>2. Added(config, n) = 0 /\ config.padding # "ZeroPadding"
    BY <1>2, ConfigIs DEF IsStream, Added
  <2>3. r = cut
    <3>1. /\ Times(g, BlockSize) \in Nat /\ n \in Nat
          /\ r.sig = (n - Times(g, BlockSize)) + Added(config, n)
      BY RestIs
    <3> DEFINE l == n - Times(g, BlockSize)
    <3>2. r.sig = l
      BY <2>2, <3>1
    <3> HIDE DEF l
    <3> QED
      BY <3>2 DEF HasTheRest, IsRecord, l
  <2> HIDE DEF cut, data, ends
  <2> QED
    BY <1>1, <2>1, <2>2, <2>3 DEF data, ends
<1>3. CASE ~ IsStream /\ config.padding \in {"Pkcs7", "AnsiX923", "Iso10126"}
  <2>1. data = CountedUnpad(r) /\ ends /\ config.padding # "ZeroPadding"
    BY <1>3 DEF Unpad, UnpadEnds
  <2>2. CountedUnpad(r) = cut
    BY <1>3, CountedUnpads
  <2> HIDE DEF cut, data, ends
  <2> QED
    BY <1>1, <2>1, <2>2 DEF data, ends
<1>4. CASE ~ IsStream /\ config.padding = "Iso97971"
  <2>1. data = [ZeroUnpad(r) EXCEPT !.sig = @ - 1] /\ (ends <=> ZeroUnpadEnds(r))
    BY <1>4 DEF Unpad, UnpadEnds
  <2>2. ZeroUnpadEnds(r) /\ [ZeroUnpad(r) EXCEPT !.sig = @ - 1] = cut
    BY <1>4, Iso97971Unpads
  <2> HIDE DEF cut, data, ends
  <2> QED
    BY <1>1, <1>4, <2>1, <2>2 DEF data, ends
<1>5. CASE ~ IsStream /\ config.padding = "ZeroPadding"
  <2>1. data = ZeroUnpad(r) /\ (ends <=> ZeroUnpadEnds(r))
    BY <1>5 DEF Unpad, UnpadEnds
  <2>2. n > 0 => ZeroUnpadEnds(r) /\ ZeroUnpad(r) = cut
    <3>1. n > 0 => Message[n] # 0 /\ Times(g, BlockSize) < n
      BY <1>5 DEF CallerFits
    <3> QED
      BY <1>5, <3>1, ZeroPaddingUnpads
  <2>3. n = 0 => ~ ZeroUnpadEnds(r)
    BY <1>5, ZeroPaddingUnpads
  <2>4. n > 0 \/ n = 0
    OBVIOUS
  <2> HIDE DEF cut, data, ends
  <2> QED
    BY <1>1, <1>5, <2>1, <2>2, <2>3, <2>4 DEF data, ends
<1> QED
  BY <1>2, <1>3, <1>4, <1>5, ConfigIs DEF IsStream, Paddings

-----------------------------------------------------------------------------
(* The two ends together                                                   *)

(* How many blocks a decryptor keeps back, and how many are gone once n    *)
(* bytes were handed over.                                                 *)
Lag(c) == IF c.mode = "Stream" THEN 0 ELSE 1

Gone(c, n) == BlocksReady(n, SizeOf(c), Lag(c), FALSE)

(* It is the count that the code calls _minBufferSize.                     *)
LEMMA LagIs == Lag(config) = MinBufferSize
  BY DEF Lag, MinBufferSize, IsStream

(* Less than a block is left in the buffer besides those that are kept     *)
(* back.                                                                   *)
LEMMA GoneIs ==
  ASSUME NEW c \in Configs, NEW n \in Nat
  PROVE  /\ Gone(c, n) \in Nat
         /\ Times(Gone(c, n), SizeOf(c)) <= n
         /\ n - Times(Gone(c, n), SizeOf(c)) < Times(Lag(c), SizeOf(c)) + SizeOf(c)
         /\ Gone(c, n) # 0 =>
               Times(Gone(c, n), SizeOf(c)) + Times(Lag(c), SizeOf(c)) <= n
<1> DEFINE size == SizeOf(c)
           whole == n \div size
           g == Gone(c, n)
           lag == Lag(c)
           rest == n % size
<1>1. size \in Nat \ {0}
  BY ConfigIs
<1>2. lag \in Nat
  BY DEF Lag
<1> HIDE DEF size, lag
<1>3. /\ whole \in Nat /\ rest \in 0 .. size - 1
      /\ Times(whole, size) <= n /\ rest = n - Times(whole, size)
  BY <1>1, Quotient
<1>4. Gone(c, n) = IF whole > lag THEN whole - lag ELSE 0
  BY DEF Gone, BlocksReady, size, lag
<1> HIDE DEF whole, rest, g
<1>5. Times(lag, size) \in Nat /\ Times(whole, size) \in Nat
  <2>1. size \in Nat
    BY <1>1
  <2>2. Times(lag, size) \in Nat
    BY <1>2, <2>1, TimesIs
  <2>3. Times(whole, size) \in Nat
    BY <1>3, <2>1, TimesIs
  <2> QED
    BY <2>2, <2>3
<1>6. CASE whole > lag
  <2>1. g = whole - lag /\ g \in Nat /\ whole = g + lag
    BY <1>2, <1>3, <1>4, <1>6 DEF g
  <2>2. Times(whole, size) = Times(g, size) + Times(lag, size)
    BY <1>1, <1>2, <2>1, TimesAdd
  <2>3. Times(g, size) \in Nat
    BY <1>1, <2>1, TimesIs
  <2>4. /\ Times(g, size) <= n /\ n - Times(g, size) < Times(lag, size) + size
        /\ Times(g, size) + Times(lag, size) <= n
    BY <1>1, <1>3, <1>5, <2>2, <2>3
  <2> QED
    BY <2>1, <2>4 DEF g, size, lag
<1>7. CASE ~ (whole > lag)
  <2>1. g = 0 /\ Times(g, size) = 0
    <3>1. g = 0
      BY <1>4, <1>7 DEF g
    <3> QED
      BY <1>1, <3>1, NoTimes
  <2>2. Times(whole, size) <= Times(lag, size)
    BY <1>1, <1>2, <1>3, <1>7, TimesGrow
  <2>3. 0 <= n /\ n - 0 < Times(lag, size) + size
    BY <1>1, <1>3, <1>5, <2>2
  <2> QED
    BY <2>1, <2>3 DEF g, size, lag
<1> QED
  BY <1>6, <1>7

(* Pieces add up: the blocks that are ready in the buffer are those that   *)
(* are gone with the new piece and were not before.                        *)
LEMMA GoneGrows ==
  ASSUME NEW c \in Configs, NEW m \in Nat, NEW n \in Nat, m <= n
  PROVE  /\ Gone(c, m) <= Gone(c, n)
         /\ BlocksReady(n - Times(Gone(c, m), SizeOf(c)), SizeOf(c), Lag(c), FALSE) =
               Gone(c, n) - Gone(c, m)
<1> DEFINE size == SizeOf(c)
           lag == Lag(c)
           g == Gone(c, m)
           k == Gone(c, n)
           left == n - Times(g, size)
           a == m \div size
           b == n \div size
<1>1. size \in Nat \ {0} /\ size \in Nat
  BY ConfigIs
<1>2. lag \in Nat
  BY DEF Lag
<1>3. g \in Nat /\ Times(g, size) <= m
  BY GoneIs
<1>4. /\ g = IF a > lag THEN a - lag ELSE 0
      /\ k = IF b > lag THEN b - lag ELSE 0
  BY DEF Gone, BlocksReady
<1>5. BlocksReady(left, size, lag, FALSE) =
        IF left \div size > lag THEN (left \div size) - lag ELSE 0
  BY DEF BlocksReady
<1> HIDE DEF size, lag, g, k
<1>6. Times(g, size) \in Nat /\ Times(g, size) <= n
  BY <1>1, <1>3, TimesIs
<1>7. left \div size = b - g /\ g <= b
  BY <1>1, <1>3, <1>6, QuotientShifts
<1>8. a \in Nat /\ b \in Nat /\ a <= b
  <2>1. a \in Nat /\ Times(a, size) <= m
    BY <1>1, Quotient
  <2>2. Times(a, size) <= n
    <3>1. Times(a, size) \in Nat
      BY <1>1, <2>1, TimesIs
    <3> QED
      BY <2>1, <3>1
  <2>3. a <= b
    BY <1>1, <2>1, <2>2, QuotientShifts
  <2>4. b \in Nat
    BY <1>1, Quotient
  <2> QED
    BY <2>1, <2>3, <2>4
<1> DEFINE w == left \div size
           ready == BlocksReady(left, size, lag, FALSE)
<1>9. w = b - g /\ ready = IF w > lag THEN w - lag ELSE 0
  BY <1>5, <1>7
<1> HIDE DEF a, b, w, ready
<1>10. g <= k /\ ready = k - g
  BY <1>2, <1>3, <1>4, <1>7, <1>8, <1>9
<1> QED
  BY <1>10 DEF size, lag, g, k, left, ready

(* What the two ends have, as long as they are open: the encryptor was     *)
(* given n bytes and has returned o; of that the decryptor was given m     *)
(* bytes and has returned p.                                               *)
EncHas(c, e, n, o) ==
    LET q == n \div SizeOf(c)
    IN  /\ IsBuffer(e.buffer)
        /\ Holds(c, e.buffer.data, Message, q, n)
        /\ e.reg = Cipher(c, Message, q).reg
        /\ o = Cipher(c, Message, q).out

DecHas(c, d, o, m, p, n) ==
    LET g == Gone(c, m)
    IN  /\ IsBuffer(d.buffer)
        /\ Holds(c, d.buffer.data, o, g, m)
        /\ d.reg = Cipher(c, Message, g).reg
        /\ p = SubSeq(Message, 1, Times(g, SizeOf(c)))
        /\ Times(g, SizeOf(c)) <= n

(* Two ends that are fresh have nothing of a message.                      *)
LEMMA BothStart ==
  ASSUME IsACipher, NEW c \in Configs
  PROVE  EncHas(c, Fresh, 0, << >>) /\ DecHas(c, Fresh, << >>, 0, << >>, 0)
<1> DEFINE size == SizeOf(c)
<1>1. size \in Nat \ {0} /\ size \in Nat
  BY ConfigIs
<1>2. Times(0, size) = 0
  BY <1>1, NoTimes
<1> HIDE DEF size
<1>3. 0 \div size = 0
  <2>1. 0 <= 0 /\ 0 < 0 + size
    BY <1>1
  <2> QED
    BY <1>1, <1>2, <2>1, QuotientIs
<1>4. Gone(c, 0) = 0
  BY <1>3 DEF Gone, BlocksReady, Lag, size
<1>5. Fresh.buffer = EmptyBuffer /\ Fresh.reg = Iv /\ IsBuffer(EmptyBuffer)
  BY DEF Fresh, IsBuffer, EmptyBuffer
<1>6. Cipher(c, Message, 0).reg = Iv /\ Cipher(c, Message, 0).out = << >>
  BY CipherIs, PipeAssumption
<1>7. /\ Holds(c, EmptyBuffer.data, Message, 0, 0)
      /\ Holds(c, EmptyBuffer.data, << >>, 0, 0)
  BY HoldsNothing
<1>8. SubSeq(Message, 1, 0) = << >>
  BY PipeAssumption
<1>9. EncHas(c, Fresh, 0, << >>)
  BY <1>3, <1>5, <1>6, <1>7 DEF EncHas, size
<1>10. DecHas(c, Fresh, << >>, 0, << >>, 0)
  BY <1>2, <1>4, <1>5, <1>6, <1>7, <1>8 DEF DecHas, size
<1> QED
  BY <1>9, <1>10

(* The encryptor's output, as far as it is ciphertext of the n bytes given *)
(* to it: at most a padding is more.                                       *)
IsOutput(c, o, n) ==
    /\ o \in Seq(Byte)
    /\ Len(o) <= n + Times(Lag(c), SizeOf(c))
    /\ \A k \in Nat : Times(k, SizeOf(c)) <= n /\ Times(k, SizeOf(c)) <= Len(o) =>
          \A i \in 1 .. Times(k, SizeOf(c)) : o[i] = Cipher(c, Message, k).out[i]

(* While it is open the encryptor has returned the whole blocks of what it *)
(* was given ...                                                           *)
LEMMA OpenOutput ==
  ASSUME IsACipher, NEW c \in Configs, NEW n \in 0 .. Len(Message)
  PROVE  /\ IsOutput(c, Cipher(c, Message, n \div SizeOf(c)).out, n)
         /\ n - Len(Cipher(c, Message, n \div SizeOf(c)).out) \in 0 .. SizeOf(c) - 1
<1> DEFINE size == SizeOf(c)
           q == n \div size
           o == Cipher(c, Message, q).out
<1>1. size \in Nat \ {0} /\ size \in Nat /\ n \in Nat
  BY ConfigIs
<1> HIDE DEF size
<1>2. q \in Nat /\ Times(q, size) <= n /\ Times(q, size) \in Nat
      /\ n - Times(q, size) \in 0 .. size - 1
  <2>1. q \in Nat /\ Times(q, size) <= n /\ n - Times(q, size) \in 0 .. size - 1
    BY <1>1, Quotient
  <2> QED
    BY <1>1, <2>1, TimesIs
<1> HIDE DEF q
<1>3. o \in Seq(Byte) /\ Len(o) = Times(q, size)
  BY <1>2, CipherIs, PipeAssumption DEF size
<1>4. Times(Lag(c), size) \in Nat
  <2>1. Lag(c) \in Nat
    BY DEF Lag
  <2> QED
    BY <1>1, <2>1, TimesIs
<1>5. ASSUME NEW k \in Nat, Times(k, size) <= n
      PROVE  \A i \in 1 .. Times(k, size) : o[i] = Cipher(c, Message, k).out[i]
  <2>1. k <= q
    BY <1>1, <1>5, QuotientShifts DEF q
  <2>2. q - k \in Nat /\ q = k + (q - k)
    BY <1>2, <2>1
  <2>3. \A i \in 1 .. Times(k, size) :
           Cipher(c, Message, k + (q - k)).out[i] = Cipher(c, Message, k).out[i]
    BY <2>2, CipherGrows, PipeAssumption DEF size
  <2> QED
    BY <2>2, <2>3
<1> HIDE DEF o
<1>6. Len(o) <= n + Times(Lag(c), size)
  BY <1>1, <1>2, <1>3, <1>4
<1> QED
  BY <1>2, <1>3, <1>5, <1>6 DEF IsOutput, size, q, o

(* ... and in the end the ciphertext of the padded message.                *)
LEMMA DoneOutput ==
  ASSUME IsACipher, config \in Configs, NEW n \in 0 .. Len(Message)
  PROVE  IsOutput(config, Ciphertext(config, Padded(config, n)), n)
<1> DEFINE size == SizeOf(config)
           t == Padded(config, n)
           o == Ciphertext(config, t)
           added == Added(config, n)
<1>1. size \in Nat \ {0} /\ size \in Nat /\ n \in Nat
  BY ConfigIs
<1>2. t \in Seq(Byte) /\ Len(t) = n + added /\ \A i \in 1 .. n : t[i] = Message[i]
  BY PaddedIs
<1>3. added \in Nat /\ added <= Times(Lag(config), size)
  <2>1. CASE config.mode = "Stream"
    <3>1. added = 0 /\ Lag(config) = 0
      BY <2>1, ConfigIs DEF Added, Lag
    <3> QED
      BY <1>1, <3>1, NoTimes
  <2>2. CASE config.mode # "Stream"
    <3>1. added \in 0 .. BlockBytes /\ BlockBytes \in Nat
      BY <1>1, AddedIs, Sizes
    <3>2. Times(1, BlockBytes) = BlockBytes
      BY <3>1 DEF Times
    <3>3. Lag(config) = 1 /\ size = BlockBytes
      BY <2>2 DEF Lag, SizeOf
    <3> HIDE DEF added
    <3> QED
      BY <3>1, <3>2, <3>3
  <2> QED
    BY <2>1, <2>2
<1> HIDE DEF added, t
<1>4. o \in Seq(Byte) /\ Len(o) = n + added
  BY <1>2, CiphertextIs
<1>5. ASSUME NEW k \in Nat, Times(k, size) <= n
      PROVE  \A i \in 1 .. Times(k, size) : o[i] = Cipher(config, Message, k).out[i]
  <2>1. Times(k, size) \in Nat
    BY <1>1, TimesIs
  <2>2. Times(k, size) <= Len(t) /\ Times(k, size) <= Len(Message)
        /\ \A i \in 1 .. Times(k, size) : t[i] = Message[i]
    <3>1. Len(Message) \in Nat
      BY PipeAssumption
    <3> HIDE DEF size
    <3> QED
      BY <1>1, <1>2, <1>3, <1>5, <2>1, <3>1
  <2>3. Cipher(config, t, k).out = Cipher(config, Message, k).out
    BY <1>2, <2>2, CiphersAgree, PipeAssumption
  <2>4. \A i \in 1 .. Times(k, size) : o[i] = Cipher(config, t, k).out[i]
    BY <1>2, <2>2, CiphertextBlocks
  <2> QED
    BY <2>3, <2>4
<1>6. Times(Lag(config), size) \in Nat
  <2>1. Lag(config) \in Nat
    BY DEF Lag
  <2> QED
    BY <1>1, <2>1, TimesIs
<1> HIDE DEF o
<1>7. Len(o) <= n + Times(Lag(config), size)
  <2> HIDE DEF size
  <2> QED
    BY <1>1, <1>3, <1>4, <1>6
<1> QED
  BY <1>4, <1>5, <1>7 DEF IsOutput, o, t

(* o2 is o, or goes on where o ends.                                       *)
GoesOn(o, o2) == Len(o) <= Len(o2) /\ \A i \in 1 .. Len(o) : o2[i] = o[i]

(* What more the encryptor returns changes nothing for the decryptor.      *)
LEMMA DecryptorWaits ==
  ASSUME NEW c \in Configs, NEW d, NEW o \in Seq(Byte), NEW o2 \in Seq(Byte), NEW p,
         NEW m \in 0 .. Len(o), NEW n \in Nat, NEW n2 \in Nat, n <= n2,
         GoesOn(o, o2), DecHas(c, d, o, m, p, n)
  PROVE  DecHas(c, d, o2, m, p, n2)
<1> DEFINE g == Gone(c, m)
           from == Times(g, SizeOf(c))
<1>1. m \in Nat /\ g \in Nat /\ from \in Nat
  <2>1. m \in Nat
    OBVIOUS
  <2>2. SizeOf(c) \in Nat
    BY ConfigIs
  <2>3. g \in Nat
    BY <2>1, GoneIs
  <2> HIDE DEF g
  <2> QED
    BY <2>1, <2>2, <2>3, TimesIs
<1>2. Holds(c, d.buffer.data, o, g, m) /\ from <= n
  BY DEF DecHas
<1> HIDE DEF g
<1>3. Holds(c, d.buffer.data, o2, g, m)
  <2>1. /\ IsArray(d.buffer.data) /\ from <= m /\ d.buffer.data.sig = m - from
        /\ \A i \in 1 .. m - from : At(d.buffer.data, i) = o[from + i]
    BY <1>2 DEF Holds
  <2> HIDE DEF from
  <2>2. ASSUME NEW i \in 1 .. m - from PROVE o2[from + i] = o[from + i]
    <3>1. from + i \in 1 .. Len(o)
      BY <1>1
    <3> QED
      BY <3>1 DEF GoesOn
  <2>3. \A i \in 1 .. m - from : At(d.buffer.data, i) = o2[from + i]
    BY <2>1, <2>2
  <2> QED
    BY <2>1, <2>3 DEF Holds, from
<1>4. from <= n2
  <2> HIDE DEF from
  <2> QED
    BY <1>1, <1>2
<1> QED
  BY <1>3, <1>4 DEF DecHas, g

(* process of the encryptor, in terms of the bytes that were given.        *)
LEMMA EncryptorGoesOn ==
  ASSUME IsACipher, config \in Configs, NEW e, NEW o, NEW m \in Nat, NEW n \in Nat,
         m + n <= Len(Message), EncHas(config, e, m, o)
  PROVE  LET x == Encrypted(e, Piece(Message, m, n))
         IN  /\ Bytes(x.result) \in Seq(Byte)
             /\ EncHas(config, After(x, "open"), m + n, Joined(o, Bytes(x.result)))
<1> DEFINE q == m \div BlockSize
           k == (m + n) \div BlockSize
           x == Encrypted(e, Piece(Message, m, n))
<1>1. BlockSize = SizeOf(config) /\ BlockSize \in Nat \ {0}
  BY SizeOfConfig, ConfigIs
<1>2. q \in Nat
  BY <1>1, Quotient
<1>3. /\ IsBuffer(e.buffer) /\ Holds(config, e.buffer.data, Message, q, m)
      /\ e.reg = Cipher(config, Message, q).reg /\ o = Cipher(config, Message, q).out
  BY <1>1 DEF EncHas
<1> HIDE DEF q
<1>7. EncGoesTo(e, q, m, n)
  BY <1>2, <1>3, EncryptedIs
<1>4. /\ IsBuffer(x.buffer) /\ Holds(config, x.buffer.data, Message, k, m + n)
      /\ x.reg = Cipher(config, Message, k).reg /\ Bytes(x.result) \in Seq(Byte)
      /\ Joined(Cipher(config, Message, q).out, Bytes(x.result)) = Cipher(config, Message, k).out
  BY <1>7 DEF EncGoesTo
<1> HIDE DEF x
<1>5. /\ After(x, "open").buffer = x.buffer /\ After(x, "open").reg = x.reg
  BY DEF After
<1>6. EncHas(config, After(x, "open"), m + n, Joined(o, Bytes(x.result)))
  BY <1>1, <1>3, <1>4, <1>5 DEF EncHas
<1> QED
  BY <1>4, <1>6 DEF x

(* finalize of the encryptor: with what came before, the ciphertext is     *)
(* complete.                                                               *)
LEMMA EncryptorEnds ==
  ASSUME IsACipher, config \in Configs, NEW e, NEW o, NEW m \in Nat, NEW n \in Nat,
         m + n <= Len(Message), EncHas(config, e, m, o), CallerFits(m + n)
  PROVE  LET x == EncryptedLast(e, Piece(Message, m, n))
         IN  /\ Bytes(x.result) \in Seq(Byte)
             /\ Joined(o, Bytes(x.result)) = Ciphertext(config, Padded(config, m + n))
<1> DEFINE q == m \div BlockSize
<1>1. BlockSize = SizeOf(config) /\ BlockSize \in Nat \ {0}
  BY SizeOfConfig, ConfigIs
<1>2. q \in Nat
  BY <1>1, Quotient
<1>3. /\ IsBuffer(e.buffer) /\ Holds(config, e.buffer.data, Message, q, m)
      /\ e.reg = Cipher(config, Message, q).reg /\ o = Cipher(config, Message, q).out
  BY <1>1 DEF EncHas
<1> HIDE DEF q
<1> DEFINE x == EncryptedLast(e, Piece(Message, m, n))
<1>4. /\ Bytes(x.result) \in Seq(Byte)
      /\ Joined(Cipher(config, Message, q).out, Bytes(x.result)) =
            Ciphertext(config, Padded(config, m + n))
  BY <1>2, <1>3, EncryptedLastIs
<1> HIDE DEF x
<1>5. Joined(o, Bytes(x.result)) = Ciphertext(config, Padded(config, m + n))
  BY <1>3, <1>4
<1> QED
  BY <1>4, <1>5 DEF x

(* process of the decryptor: what comes out continues the message.         *)
LEMMA DecryptorGoesOn ==
  ASSUME IsACipher, config \in Configs, NEW d, NEW o, NEW p, NEW n \in 0 .. Len(Message),
         NEW m \in Nat, NEW j \in Nat, m + j <= Len(o),
         IsOutput(config, o, n), DecHas(config, d, o, m, p, n)
  PROVE  LET x == Decrypted(d, Piece(o, m, j))
         IN  DecHas(config, After(x, "open"), o, m + j, Joined(p, Bytes(x.result)), n)
<1> DEFINE g == Gone(config, m)
           k == Gone(config, m + j)
           size == SizeOf(config)
           piece == Piece(o, m, j)
           buffer == AppendTo(d.buffer, piece)
           x == DecCall(buffer, d.reg, MinBufferSize, FALSE)
<1>1. size \in Nat /\ BlockSize = size /\ o \in Seq(Byte) /\ Len(o) \in Nat
  BY SizeOfConfig, ConfigIs DEF IsOutput
<1>2. /\ IsBuffer(d.buffer) /\ Holds(config, d.buffer.data, o, g, m)
      /\ d.reg = Cipher(config, Message, g).reg
      /\ p = SubSeq(Message, 1, Times(g, size)) /\ Times(g, size) <= n
  BY DEF DecHas
<1>3. /\ g \in Nat /\ k \in Nat /\ Times(k, size) <= m + j
      /\ k # 0 => Times(k, size) + Times(Lag(config), size) <= m + j
      /\ m + j \in Nat
  <2>1. m + j \in Nat
    OBVIOUS
  <2>2. k \in Nat /\ Times(k, size) <= m + j
        /\ (k # 0 => Times(k, size) + Times(Lag(config), size) <= m + j)
    BY <2>1, GoneIs
  <2>3. g \in Nat
    BY GoneIs
  <2> QED
    BY <2>1, <2>2, <2>3
<1>4. g <= k /\ BlocksReady((m + j) - Times(g, size), size, Lag(config), FALSE) = k - g
  <2>1. m <= m + j /\ m + j \in Nat
    OBVIOUS
  <2> QED
    BY <2>1, GoneGrows
<1> HIDE DEF g, k
<1>5. m \in 0 .. Len(o)
  BY <1>1
<1>6. Holds(config, Concat(d.buffer.data, piece), o, g, m + j)
  <2>1. IsArray(piece) /\ piece.sig = j /\ \A i \in 1 .. j : At(piece, i) = o[m + i]
    BY <1>1, PieceIs
  <2> HIDE DEF piece
  <2> QED
    BY <1>1, <1>2, <1>3, <1>5, <2>1, HoldsMore
<1>7. /\ buffer.data = Concat(d.buffer.data, piece) /\ IsBuffer(buffer)
      /\ buffer.data.sig = (m + j) - Times(g, size)
  <2>1. buffer.data = Concat(d.buffer.data, piece)
    BY DEF AppendTo
  <2>2. IsBuffer(buffer)
    BY DEF AppendTo, IsBuffer
  <2>3. buffer.data.sig = (m + j) - Times(g, size)
    BY <1>6, <2>1 DEF Holds
  <2> QED
    BY <2>1, <2>2, <2>3
<1>8. Times(k, size) <= n /\ Times(k, size) <= Len(o) /\ Times(k, size) \in Nat
  <2>1. Times(k, size) \in Nat
    BY <1>1, <1>3, TimesIs
  <2>2. Times(Lag(config), size) \in Nat
    <3>1. Lag(config) \in Nat
      BY DEF Lag
    <3> QED
      BY <1>1, <3>1, TimesIs
  <2>3. Len(o) <= n + Times(Lag(config), size)
    BY DEF IsOutput
  <2>4. k = 0 => Times(k, size) = 0
    BY <1>1, NoTimes
  <2> HIDE DEF size
  <2> QED
    BY <1>1, <1>3, <2>1, <2>2, <2>3, <2>4
<1>9. \A i \in 1 .. Times(k, size) : o[i] = Cipher(config, Message, k).out[i]
  BY <1>3, <1>8 DEF IsOutput
<1>10. DecGoesTo(buffer, Message, o, g, k, m + j)
  <2>1. BlocksReady(buffer.data.sig, BlockSize, MinBufferSize, FALSE) = k - g
    BY <1>1, <1>4, <1>7, LagIs
  <2>2. m + j \in 0 .. Len(o)
    BY <1>1, <1>3
  <2>3. Times(k, BlockSize) <= m + j /\ Times(k, BlockSize) <= Len(Message)
        /\ \A i \in 1 .. Times(k, BlockSize) : o[i] = Cipher(config, Message, k).out[i]
    <3>1. n <= Len(Message) /\ n \in Nat /\ Len(Message) \in Nat
      BY PipeAssumption
    <3> HIDE DEF size
    <3> QED
      BY <1>1, <1>3, <1>8, <1>9, <3>1
  <2>4. Holds(config, buffer.data, o, g, m + j)
    BY <1>6, <1>7
  <2> HIDE DEF buffer, size
  <2> QED
    BY <1>1, <1>3, <1>4, <1>7, <2>1, <2>2, <2>3, <2>4, DecWhole, PipeAssumption
<1>11. Decrypted(d, piece) = x
  BY DEF Decrypted, DecCall
<1>12. /\ IsBuffer(x.buffer) /\ Holds(config, x.buffer.data, o, k, m + j)
       /\ x.reg = Cipher(config, Message, k).reg
       /\ Joined(SubSeq(Message, 1, Times(g, size)), Bytes(x.result)) =
             SubSeq(Message, 1, Times(k, size))
  <2> HIDE DEF buffer, size
  <2> QED
    BY <1>1, <1>2, <1>10 DEF DecGoesTo
<1> HIDE DEF x
<1>13. After(x, "open").buffer = x.buffer /\ After(x, "open").reg = x.reg
  BY DEF After
<1>14. DecHas(config, After(x, "open"), o, m + j, Joined(p, Bytes(x.result)), n)
  BY <1>2, <1>8, <1>12, <1>13 DEF DecHas, k
<1> QED
  BY <1>11, <1>14

(* The last call finds the rest of the padded message, takes the padding   *)
(* off and returns; unless there is nothing but zeros.                     *)
LEMMA DecryptorEnds ==
  ASSUME IsACipher, config \in Configs, NEW d, NEW p, NEW n \in 0 .. Len(Message), NEW o,
         o = Ciphertext(config, Padded(config, n)), CallerFits(n),
         NEW m \in 0 .. Len(o), DecHas(config, d, o, m, p, n)
  PROVE  LET x == DecryptedLast(d, Piece(o, m, Len(o) - m)).result
             returns == IsStream \/ UnpadEnds(config.padding, x)
             data == IF IsStream THEN x ELSE Unpad(config.padding, x)
         IN  /\ returns <=> ~ (config.padding = "ZeroPadding" /\ n = 0)
             /\ returns => Joined(p, Bytes(data)) = SubSeq(Message, 1, n)
             /\ n = 0 => p = << >>
<1> DEFINE g == Gone(config, m)
           size == SizeOf(config)
           t == Padded(config, n)
           j == Len(o) - m
           piece == Piece(o, m, j)
           buffer == WithLast(d.buffer, piece)
           x == DecryptedLast(d, piece).result
<1>1. size \in Nat /\ BlockSize = size /\ n \in Nat
  BY SizeOfConfig, ConfigIs
<1>2. /\ t \in Seq(Byte) /\ Len(t) = n + Added(config, n)
      /\ \A i \in 1 .. n : t[i] = Message[i]
      /\ Xors(config) \/ Len(t) % BlockSize = 0
      /\ Added(config, n) \in Nat
  <2>1. Added(config, n) \in Nat
    BY <1>1, AddedIs, Sizes
  <2> QED
    BY <2>1, PaddedIs
<1>3. o \in Seq(Byte) /\ Len(o) = Len(t) /\ Len(o) \in Nat
  BY <1>2, CiphertextIs
<1>4. m \in Nat /\ m <= Len(o) /\ j \in Nat /\ m + j = Len(o)
  BY <1>3
<1>5. /\ IsBuffer(d.buffer) /\ Holds(config, d.buffer.data, o, g, m)
      /\ d.reg = Cipher(config, Message, g).reg
      /\ p = SubSeq(Message, 1, Times(g, size)) /\ Times(g, size) <= n
  BY DEF DecHas
<1>6. /\ g \in Nat
      /\ g # 0 => Times(g, size) + Times(Lag(config), size) <= m
  BY <1>4, GoneIs
<1>7. Times(g, size) \in Nat
  <2> HIDE DEF g
  <2> QED
    BY <1>1, <1>6, TimesIs
<1> HIDE DEF g, j
<1>8. IsBuffer(buffer) /\ Holds(config, buffer.data, o, g, Len(o))
  <2>1. IsArray(piece) /\ piece.sig = j /\ \A i \in 1 .. j : At(piece, i) = o[m + i]
    BY <1>3, <1>4, PieceIs
  <2> HIDE DEF piece
  <2>2. m + j <= Len(o)
    BY <1>3, <1>4
  <2>3. IsBuffer(buffer) /\ Holds(config, buffer.data, o, g, m + j)
    BY <1>3, <1>4, <1>5, <1>6, <2>1, <2>2, WithLastIs, Zenon
  <2> QED
    BY <1>4, <2>3
<1>9. d.reg = Cipher(config, t, g).reg
  <2>1. /\ Times(g, size) <= Len(t) /\ Times(g, size) <= Len(Message)
        /\ \A i \in 1 .. Times(g, size) : t[i] = Message[i]
    <3>1. n <= Len(Message) /\ Len(Message) \in Nat
      BY PipeAssumption
    <3> HIDE DEF size, t
    <3> QED
      BY <1>1, <1>2, <1>5, <1>7, <3>1
  <2> HIDE DEF t
  <2>2. Cipher(config, t, g).reg = Cipher(config, Message, g).reg
    BY <1>2, <1>6, <2>1, CiphersAgree, PipeAssumption
  <2> QED
    BY <1>5, <2>2
<1>10. DecEnds(buffer, t, g)
  <2> HIDE DEF buffer
  <2>1. Holds(config, buffer.data, Ciphertext(config, t), g, Len(t))
    BY <1>3, <1>8
  <2> HIDE DEF t
  <2> QED
    BY <1>2, <1>6, <1>8, <2>1, DecLast
<1>11. x = DecCall(buffer, d.reg, MinBufferSize, TRUE).result
  BY DEF DecryptedLast, DecCall
<1>12. HasTheRest(x, g, n)
  <2> HIDE DEF buffer, x, t
  <2>1. IsRecord(x) /\ Holds(config, x, t, g, Len(t))
    BY <1>9, <1>10, <1>11 DEF DecEnds
  <2> QED
    BY <1>1, <1>5, <2>1 DEF HasTheRest, t
<1>13. n > 0 => Times(g, BlockSize) < n \/ config.padding # "ZeroPadding"
  <2> SUFFICES ASSUME n > 0, config.padding = "ZeroPadding" PROVE Times(g, size) < n
    BY <1>1
  <2>1. CASE g = 0
    BY <1>1, <2>1, NoTimes
  <2>2. CASE g # 0
    <3>1. config.mode # "Stream"
      BY ConfigIs
    <3>2. size = BlockBytes /\ Lag(config) = 1
      BY <3>1 DEF SizeOf, Lag
    <3>3. Times(1, BlockBytes) = BlockBytes /\ BlockBytes \in Nat /\ BlockBytes > 0
      BY Sizes DEF Times
    <3>4. Added(config, n) < BlockBytes
      <4>1. Added(config, n) = IF n % BlockBytes = 0 THEN 0 ELSE Short(n)
        BY DEF Added
      <4>2. n % BlockBytes \in 0 .. BlockBytes - 1
        <5>1. BlockBytes \in Nat \ {0}
          BY <3>3
        <5> QED
          BY <1>1, <5>1, Quotient
      <4> QED
        BY <3>3, <4>1, <4>2 DEF Short
    <3>5. Times(g, size) + BlockBytes <= m
      BY <1>6, <2>2, <3>2, <3>3
    <3> HIDE DEF size, t
    <3> QED
      BY <1>1, <1>2, <1>3, <1>4, <1>7, <3>3, <3>4, <3>5
  <2> QED
    BY <2>1, <2>2
<1> DEFINE returns == IsStream \/ UnpadEnds(config.padding, x)
           data == IF IsStream THEN x ELSE Unpad(config.padding, x)
<1> HIDE DEF x, buffer, t, size
<1>14. /\ returns <=> ~ (config.padding = "ZeroPadding" /\ n = 0)
       /\ returns => Holds(config, data, Message, g, n)
  BY <1>6, <1>12, <1>13, UnpadIs
<1>15. returns => Joined(p, Bytes(data)) = SubSeq(Message, 1, n)
  <2> HIDE DEF data, returns
  <2>1. Holds(config, data, Message, g, n) =>
          Joined(SubSeq(Message, 1, Times(g, SizeOf(config))), Bytes(data)) =
             SubSeq(Message, 1, n)
    BY <1>6, HeldBytes, PipeAssumption
  <2> QED
    BY <1>5, <1>14, <2>1 DEF size
<1>16. n = 0 => p = << >>
  <2>1. SubSeq(Message, 1, 0) = << >>
    BY PipeAssumption
  <2>2. n = 0 => Times(g, size) = 0
    BY <1>5, <1>7
  <2> QED
    BY <1>5, <2>1, <2>2
<1> QED
  BY <1>14, <1>15, <1>16 DEF x, j

-----------------------------------------------------------------------------
(* The inductive invariant                                                 *)

PipeType ==
    /\ config \in Configs
    /\ enc.status \in {"open", "done"} /\ dec.status \in {"open", "done", "hung"}
    /\ sent \in 0 .. Len(Message)
    /\ out \in Seq(Byte) /\ read \in 0 .. Len(out)

EncOpen == enc.status = "open" => EncHas(config, enc, sent, out)

EncDone ==
    enc.status = "done" =>
       CallerFits(sent) /\ out = Ciphertext(config, Padded(config, sent))

DecOpen == dec.status = "open" => DecHas(config, dec, out, read, plain, sent)

DecClosed ==
    /\ dec.status # "open" => enc.status = "done"
    /\ dec.status = "done" =>
          plain = SentBytes /\ ~ (config.padding = "ZeroPadding" /\ sent = 0)
    /\ dec.status = "hung" =>
          plain = << >> /\ config.padding = "ZeroPadding" /\ sent = 0

PipeInv == PipeType /\ EncOpen /\ EncDone /\ DecOpen /\ DecClosed

(* What is ciphertext at all is ciphertext of the message.                 *)
LEMMA OutputIs ==
  ASSUME IsACipher, PipeInv
  PROVE  IsOutput(config, out, sent)
<1>1. config \in Configs /\ sent \in 0 .. Len(Message) /\ enc.status \in {"open", "done"}
  BY DEF PipeInv, PipeType
<1>2. CASE enc.status = "open"
  <2>1. out = Cipher(config, Message, sent \div SizeOf(config)).out
    BY <1>2 DEF PipeInv, EncOpen, EncHas
  <2> QED
    BY <1>1, <2>1, OpenOutput
<1>3. CASE enc.status = "done"
  <2>1. out = Ciphertext(config, Padded(config, sent))
    BY <1>3 DEF PipeInv, EncDone
  <2> QED
    BY <1>1, <2>1, DoneOutput
<1> QED
  BY <1>1, <1>2, <1>3

(* The encryptor's output only gets longer.                                *)
LEMMA OutputGrows ==
  ASSUME IsACipher, NEW c \in Configs, NEW m \in Nat, NEW n \in 0 .. Len(Message), m <= n,
         NEW o, o = Cipher(c, Message, m \div SizeOf(c)).out,
         NEW o2, IsOutput(c, o2, n), Len(o) <= Len(o2)
  PROVE  GoesOn(o, o2)
<1> DEFINE size == SizeOf(c)
           q == m \div size
<1>1. size \in Nat \ {0} /\ size \in Nat
  BY ConfigIs
<1> HIDE DEF size
<1>2. q \in Nat /\ Times(q, size) <= m
  BY <1>1, Quotient
<1>3. o = Cipher(c, Message, q).out
  BY DEF size
<1> HIDE DEF q
<1>4. Len(o) = Times(q, size)
  BY <1>2, <1>3, CipherIs, PipeAssumption DEF size
<1>5. Times(q, size) \in Nat
  BY <1>1, <1>2, TimesIs
<1>6. Times(q, size) <= n
  BY <1>2, <1>5
<1>7. \A i \in 1 .. Times(q, size) : o2[i] = Cipher(c, Message, q).out[i]
  BY <1>2, <1>4, <1>6 DEF IsOutput, size
<1> QED
  BY <1>3, <1>4, <1>7 DEF GoesOn

(* The encryptor has returned less than it was given, or was given it all. *)
LEMMA OutputOf ==
  ASSUME IsACipher, config \in Configs, NEW m \in Nat, NEW n \in 0 .. Len(Message), m <= n
  PROVE  LET size == SizeOf(config)
             o == Cipher(config, Message, m \div size).out
         IN  /\ Len(o) <= Len(Cipher(config, Message, n \div size).out)
             /\ Len(o) <= Len(Ciphertext(config, Padded(config, n)))
<1> DEFINE size == SizeOf(config)
           q == m \div size
           k == n \div size
           t == Padded(config, n)
<1>1. size \in Nat \ {0} /\ size \in Nat
  BY ConfigIs
<1> HIDE DEF size
<1>2. n \in Nat /\ q \in Nat /\ Times(q, size) <= m /\ Times(q, size) \in Nat
  <2>1. q \in Nat /\ Times(q, size) <= m
    BY <1>1, Quotient
  <2>2. Times(q, size) \in Nat
    BY <1>1, <2>1, TimesIs
  <2>3. n \in Nat
    OBVIOUS
  <2> QED
    BY <2>1, <2>2, <2>3
<1>3. k \in Nat
  BY <1>1, <1>2, Quotient
<1>4. q <= k
  <2>1. Times(q, size) <= n
    BY <1>2
  <2> QED
    BY <1>1, <1>2, <2>1, QuotientShifts
<1> HIDE DEF q, k
<1>5. /\ Len(Cipher(config, Message, q).out) = Times(q, size)
      /\ Len(Cipher(config, Message, k).out) = Times(k, size)
  BY <1>2, <1>3, CipherIs, PipeAssumption DEF size
<1>6. Times(q, size) <= Times(k, size)
  BY <1>1, <1>2, <1>3, <1>4, TimesGrow
<1>7. t \in Seq(Byte) /\ Len(t) = n + Added(config, n) /\ Added(config, n) \in Nat
  <2>1. Added(config, n) \in Nat
    BY <1>2, AddedIs, Sizes
  <2> QED
    BY <2>1, PaddedIs
<1> HIDE DEF t
<1>8. Len(Ciphertext(config, t)) = Len(t)
  BY <1>7, CiphertextIs
<1>9. Times(q, size) <= Len(t)
  BY <1>2, <1>7
<1> QED
  BY <1>5, <1>6, <1>8, <1>9 DEF q, k, t, size

(* The invariant holds at the start ...                                    *)
LEMMA PipeInit ==
  ASSUME IsACipher, Init
  PROVE  PipeInv
<1>1. config \in Configs /\ enc = Fresh /\ dec = Fresh /\ sent = 0 /\ read = 0
      /\ out = << >> /\ plain = << >>
  BY DEF Init
<1>2. Fresh.status = "open" /\ << >> \in Seq(Byte) /\ Len(<< >>) = 0
  BY DEF Fresh
<1>3. 0 \in 0 .. Len(Message)
  BY PipeAssumption
<1>4. EncHas(config, enc, sent, out) /\ DecHas(config, dec, out, read, plain, sent)
  BY <1>1, BothStart
<1>5. PipeType
  <2>1. enc.status = "open" /\ dec.status = "open"
    BY <1>1, <1>2
  <2>2. read \in 0 .. Len(out) /\ out \in Seq(Byte) /\ sent \in 0 .. Len(Message)
    BY <1>1, <1>2, <1>3
  <2> QED
    BY <1>1, <2>1, <2>2 DEF PipeType
<1> QED
  BY <1>1, <1>2, <1>4, <1>5 DEF PipeInv, EncOpen, EncDone, DecOpen, DecClosed

(* ... and reset ...                                                       *)
LEMMA ResetKeeps ==
  ASSUME IsACipher, PipeInv, Reset
  PROVE  PipeInv'
<1>1. config' = config /\ enc' = Fresh /\ dec' = Fresh /\ sent' = 0 /\ read' = 0
      /\ out' = << >> /\ plain' = << >> /\ config \in Configs
  BY DEF Reset, PipeInv, PipeType
<1>2. Fresh.status = "open" /\ << >> \in Seq(Byte) /\ Len(<< >>) = 0
  BY DEF Fresh
<1>3. 0 \in 0 .. Len(Message)
  BY PipeAssumption
<1>4. EncHas(config, Fresh, 0, << >>) /\ DecHas(config, Fresh, << >>, 0, << >>, 0)
  BY <1>1, BothStart
<1>5. PipeType'
  <2>1. enc'.status = "open" /\ dec'.status = "open"
    BY <1>1, <1>2
  <2>2. read' \in 0 .. Len(out') /\ out' \in Seq(Byte) /\ sent' \in 0 .. Len(Message)
    BY <1>1, <1>2, <1>3
  <2> QED
    BY <1>1, <2>1, <2>2 DEF PipeType
<1>6. EncOpen' /\ DecOpen'
  BY <1>1, <1>4 DEF EncOpen, DecOpen
<1>7. EncDone' /\ DecClosed'
  BY <1>1, <1>2 DEF EncDone, DecClosed
<1> QED
  BY <1>5, <1>6, <1>7 DEF PipeInv

(* ... process of the encryptor ...                                        *)
LEMMA EncProcessKeeps ==
  ASSUME IsACipher, PipeInv, NEW n \in Pieces, EncProcess(n)
  PROVE  PipeInv'
<1> DEFINE x == Encrypted(enc, Piece(Message, sent, n))
           o == Joined(out, Bytes(x.result))
           m == sent + n
<1>1. /\ config \in Configs /\ sent \in 0 .. Len(Message) /\ out \in Seq(Byte)
      /\ read \in 0 .. Len(out) /\ dec.status \in {"open", "done", "hung"}
  BY DEF PipeInv, PipeType
<1>2. /\ enc.status = "open" /\ sent + n <= Len(Message)
      /\ enc' = After(x, "open") /\ out' = o /\ sent' = m
      /\ UNCHANGED <<config, dec, read, plain>>
  BY DEF EncProcess, Joined
<1>3. sent \in Nat /\ n \in Nat /\ m \in 0 .. Len(Message) /\ m \in Nat /\ sent <= m
  <2>1. n \in Nat
    BY PipeAssumption
  <2>2. Len(Message) \in Nat
    BY PipeAssumption
  <2> QED
    BY <1>1, <1>2, <2>1, <2>2
<1>4. EncHas(config, enc, sent, out)
  BY <1>2 DEF PipeInv, EncOpen
<1>5. EncHas(config, After(x, "open"), m, o)
  BY <1>1, <1>2, <1>3, <1>4, EncryptorGoesOn
<1> HIDE DEF x, o, m
<1>6. /\ out = Cipher(config, Message, sent \div SizeOf(config)).out
      /\ o = Cipher(config, Message, m \div SizeOf(config)).out
  BY <1>4, <1>5 DEF EncHas
<1>7. IsOutput(config, o, m)
  BY <1>1, <1>3, <1>6, OpenOutput
<1>8. Len(out) <= Len(o)
  BY <1>1, <1>3, <1>6, OutputOf
<1>9. GoesOn(out, o)
  BY <1>1, <1>3, <1>6, <1>7, <1>8, OutputGrows
<1>10. o \in Seq(Byte) /\ read \in 0 .. Len(o)
  <2>1. o \in Seq(Byte)
    BY <1>7 DEF IsOutput
  <2>2. Len(out) \in Nat /\ Len(o) \in Nat
    BY <1>1, <2>1
  <2> QED
    BY <1>1, <1>8, <2>1, <2>2
<1>11. dec.status = "open" => DecHas(config, dec, o, read, plain, m)
  <2> SUFFICES ASSUME dec.status = "open" PROVE DecHas(config, dec, o, read, plain, m)
    OBVIOUS
  <2>1. DecHas(config, dec, out, read, plain, sent)
    BY DEF PipeInv, DecOpen
  <2> QED
    BY <1>1, <1>3, <1>9, <1>10, <2>1, DecryptorWaits
<1>12. dec.status = "open"
  BY <1>1, <1>2 DEF PipeInv, DecClosed
<1>13. enc'.status = "open"
  BY <1>2 DEF After
<1>14. PipeType'
  BY <1>1, <1>2, <1>3, <1>10, <1>13 DEF PipeType
<1>15. EncOpen' /\ DecOpen'
  BY <1>2, <1>5, <1>11 DEF EncOpen, DecOpen
<1>16. EncDone' /\ DecClosed'
  BY <1>2, <1>12, <1>13 DEF EncDone, DecClosed
<1> QED
  BY <1>14, <1>15, <1>16 DEF PipeInv

(* ... and its finalize ...                                                *)
LEMMA EncFinalizeKeeps ==
  ASSUME IsACipher, PipeInv, NEW n \in Pieces \cup {0}, EncFinalize(n)
  PROVE  PipeInv'
<1> DEFINE x == EncryptedLast(enc, Piece(Message, sent, n))
           o == Joined(out, Bytes(x.result))
           m == sent + n
<1>1. /\ config \in Configs /\ sent \in 0 .. Len(Message) /\ out \in Seq(Byte)
      /\ read \in 0 .. Len(out) /\ dec.status \in {"open", "done", "hung"}
  BY DEF PipeInv, PipeType
<1>2. /\ enc.status = "open" /\ sent + n <= Len(Message) /\ CallerFits(m)
      /\ enc' = After(x, "done") /\ out' = o /\ sent' = m
      /\ UNCHANGED <<config, dec, read, plain>>
  BY DEF EncFinalize, Joined
<1>3. sent \in Nat /\ n \in Nat /\ m \in 0 .. Len(Message) /\ m \in Nat /\ sent <= m
  <2>1. n \in Nat
    BY PipeAssumption
  <2>2. Len(Message) \in Nat
    BY PipeAssumption
  <2> QED
    BY <1>1, <1>2, <2>1, <2>2
<1>4. EncHas(config, enc, sent, out)
  BY <1>2 DEF PipeInv, EncOpen
<1>5. o = Ciphertext(config, Padded(config, m))
  BY <1>1, <1>2, <1>3, <1>4, EncryptorEnds
<1> HIDE DEF x, o, m
<1>6. out = Cipher(config, Message, sent \div SizeOf(config)).out
  BY <1>4 DEF EncHas
<1>7. IsOutput(config, o, m)
  BY <1>1, <1>3, <1>5, DoneOutput
<1>8. Len(out) <= Len(o)
  BY <1>1, <1>3, <1>5, <1>6, OutputOf
<1>9. GoesOn(out, o)
  BY <1>1, <1>3, <1>6, <1>7, <1>8, OutputGrows
<1>10. o \in Seq(Byte) /\ read \in 0 .. Len(o)
  <2>1. o \in Seq(Byte)
    BY <1>7 DEF IsOutput
  <2>2. Len(out) \in Nat /\ Len(o) \in Nat
    BY <1>1, <2>1
  <2> QED
    BY <1>1, <1>8, <2>1, <2>2
<1>11. dec.status = "open" => DecHas(config, dec, o, read, plain, m)
  <2> SUFFICES ASSUME dec.status = "open" PROVE DecHas(config, dec, o, read, plain, m)
    OBVIOUS
  <2>1. DecHas(config, dec, out, read, plain, sent)
    BY DEF PipeInv, DecOpen
  <2> QED
    BY <1>1, <1>3, <1>9, <1>10, <2>1, DecryptorWaits
<1>12. dec.status = "open"
  BY <1>1, <1>2 DEF PipeInv, DecClosed
<1>13. enc'.status = "done"
  BY <1>2 DEF After
<1>14. PipeType'
  BY <1>1, <1>2, <1>3, <1>10, <1>13 DEF PipeType
<1>15. EncOpen' /\ DecOpen'
  BY <1>2, <1>13, <1>11 DEF EncOpen, DecOpen
<1>16. EncDone'
  <2>1. CallerFits(sent)'
    BY <1>2 DEF CallerFits
  <2>2. out' = Ciphertext(config', Padded(config', sent'))
    BY <1>2, <1>5
  <2> QED
    BY <2>1, <2>2 DEF EncDone
<1>17. DecClosed'
  BY <1>2, <1>12 DEF DecClosed
<1> QED
  BY <1>14, <1>15, <1>16, <1>17 DEF PipeInv

(* ... and process of the decryptor keep it.                               *)
LEMMA DecProcessKeeps ==
  ASSUME IsACipher, PipeInv, NEW n \in Pieces, DecProcess(n)
  PROVE  PipeInv'
<1> DEFINE x == Decrypted(dec, Piece(out, read, n))
           p == Joined(plain, Bytes(x.result))
           m == read + n
<1>1. /\ config \in Configs /\ sent \in 0 .. Len(Message) /\ out \in Seq(Byte)
      /\ read \in 0 .. Len(out) /\ enc.status \in {"open", "done"}
  BY DEF PipeInv, PipeType
<1>2. /\ dec.status = "open" /\ read + n <= Len(out)
      /\ dec' = After(x, "open") /\ plain' = p /\ read' = m
      /\ UNCHANGED <<config, enc, sent, out>>
  BY DEF DecProcess, Joined
<1>3. read \in Nat /\ n \in Nat /\ m \in 0 .. Len(out)
  <2>1. n \in Nat
    BY PipeAssumption
  <2>2. Len(out) \in Nat
    BY <1>1
  <2> QED
    BY <1>1, <1>2, <2>1, <2>2
<1>4. DecHas(config, dec, out, read, plain, sent)
  BY <1>2 DEF PipeInv, DecOpen
<1>5. DecHas(config, After(x, "open"), out, m, p, sent)
  BY <1>1, <1>2, <1>3, <1>4, OutputIs, DecryptorGoesOn
<1> HIDE DEF x, p, m
<1>6. dec'.status = "open"
  BY <1>2 DEF After
<1>7. PipeType'
  BY <1>1, <1>2, <1>3, <1>6 DEF PipeType
<1>8. DecOpen'
  BY <1>2, <1>5 DEF DecOpen
<1>9. EncOpen' /\ EncDone'
  BY <1>2 DEF PipeInv, EncOpen, EncDone, CallerFits
<1>10. DecClosed'
  BY <1>6 DEF DecClosed
<1> QED
  BY <1>7, <1>8, <1>9, <1>10 DEF PipeInv

(* The last call of the decryptor: what it returns completes the message.  *)
LEMMA DecFinalizeEnds ==
  ASSUME IsACipher, PipeInv, DecFinalize
  PROVE  LET hangs == config.padding = "ZeroPadding" /\ sent = 0
         IN  /\ dec'.status = IF hangs THEN "hung" ELSE "done"
             /\ plain' = IF hangs THEN << >> ELSE SentBytes
<1> DEFINE hangs == config.padding = "ZeroPadding" /\ sent = 0
           call == DecryptedLast(dec, Piece(out, read, Len(out) - read))
           x == call.result
           returns == IsStream \/ UnpadEnds(config.padding, x)
           data == IF IsStream THEN x ELSE Unpad(config.padding, x)
<1>1. /\ config \in Configs /\ sent \in 0 .. Len(Message) /\ out \in Seq(Byte)
      /\ read \in 0 .. Len(out)
  BY DEF PipeInv, PipeType
<1>2. /\ dec.status = "open" /\ enc.status = "done"
      /\ returns => dec' = After(call, "done") /\ plain' = Joined(plain, Bytes(data))
      /\ ~ returns => dec' = After(call, "hung") /\ plain' = plain
  BY DEF DecFinalize, Joined
<1>3. /\ DecHas(config, dec, out, read, plain, sent)
      /\ CallerFits(sent) /\ out = Ciphertext(config, Padded(config, sent))
  BY <1>2 DEF PipeInv, DecOpen, EncDone
<1>4. /\ returns <=> ~ hangs
      /\ returns => Joined(plain, Bytes(data)) = SubSeq(Message, 1, sent)
      /\ sent = 0 => plain = << >>
  BY <1>1, <1>3, DecryptorEnds
<1> HIDE DEF returns, data, x, call
<1>5. After(call, "done").status = "done" /\ After(call, "hung").status = "hung"
  BY DEF After
<1> QED
  BY <1>2, <1>4, <1>5 DEF SentBytes

(* So the invariant is kept by finalize of the decryptor as well.          *)
LEMMA DecFinalizeKeeps ==
  ASSUME IsACipher, PipeInv, DecFinalize
  PROVE  PipeInv'
<1>1. /\ config \in Configs /\ sent \in 0 .. Len(Message) /\ out \in Seq(Byte)
      /\ enc.status = "done"
  BY DEF PipeInv, PipeType, DecFinalize
<1>2. read' = Len(out) /\ UNCHANGED <<config, enc, sent, out>>
  BY DEF DecFinalize
<1>3. LET hangs == config.padding = "ZeroPadding" /\ sent = 0
      IN  /\ dec'.status = IF hangs THEN "hung" ELSE "done"
          /\ plain' = IF hangs THEN << >> ELSE SentBytes
  BY DecFinalizeEnds
<1>4. Len(out) \in 0 .. Len(out)
  BY <1>1
<1>5. PipeType'
  BY <1>1, <1>2, <1>3, <1>4 DEF PipeType
<1>6. EncOpen' /\ EncDone'
  BY <1>2 DEF PipeInv, EncOpen, EncDone, CallerFits
<1>7. DecOpen' /\ DecClosed'
  BY <1>1, <1>2, <1>3 DEF DecOpen, DecClosed, SentBytes
<1> QED
  BY <1>5, <1>6, <1>7 DEF PipeInv

(* The inductive invariant holds.                                          *)
THEOREM PipeInvariant ==
  ASSUME IsACipher
  PROVE  Spec => []PipeInv
<1>1. Init => PipeInv
  BY PipeInit
<1>2. PipeInv /\ [Next]_vars => PipeInv'
  <2> SUFFICES ASSUME PipeInv, [Next]_vars PROVE PipeInv'
    OBVIOUS
  <2>1. ASSUME NEW n \in Pieces, EncProcess(n) PROVE PipeInv'
    BY <2>1, EncProcessKeeps
  <2>2. ASSUME NEW n \in Pieces, DecProcess(n) PROVE PipeInv'
    BY <2>2, DecProcessKeeps
  <2>3. ASSUME NEW n \in Pieces \cup {0}, EncFinalize(n) PROVE PipeInv'
    BY <2>3, EncFinalizeKeeps
  <2>4. CASE DecFinalize
    BY <2>4, DecFinalizeKeeps
  <2>5. CASE Reset
    BY <2>5, ResetKeeps
  <2>6. CASE UNCHANGED vars
    BY <2>6 DEF vars, PipeInv, PipeType, EncOpen, EncDone, DecOpen, DecClosed, CallerFits,
                SentBytes
  <2> QED
    BY <2>1, <2>2, <2>3, <2>4, <2>5, <2>6 DEF Next
<1> QED
  BY <1>1, <1>2, PTL DEF Spec

-----------------------------------------------------------------------------
(* The properties                                                          *)

(* Nothing before a sequence changes nothing.                              *)
LEMMA NothingBefore ==
  ASSUME NEW s \in Seq(Byte)
  PROVE  Joined(<< >>, s) = s
BY JoinedEnds

(* However the message was cut into pieces, what the encryptor returned is *)
(* what one call gives: the code's process and finalize do not show how    *)
(* often they were called.                                                 *)
THEOREM CutsDoNotShow ==
  ASSUME IsACipher
  PROVE  Spec => []PiecesAreInvisible
<1>1. ASSUME PipeInv PROVE PiecesAreInvisible
  <2> DEFINE whole == Piece(Message, 0, sent)
  <2>1. /\ config \in Configs /\ sent \in Nat /\ 0 + sent = sent /\ sent <= Len(Message)
        /\ enc.status \in {"open", "done"}
    <3>1. sent \in 0 .. Len(Message) /\ Len(Message) \in Nat
      BY <1>1, PipeAssumption DEF PipeInv, PipeType
    <3> QED
      BY <1>1, <3>1 DEF PipeInv, PipeType
  <2>2. EncHas(config, Fresh, 0, << >>)
    BY <2>1, BothStart
  <2>3. CASE enc.status = "open"
    <3> DEFINE x == Encrypted(Fresh, whole)
    <3>1. /\ Bytes(x.result) \in Seq(Byte)
          /\ EncHas(config, After(x, "open"), 0 + sent, Joined(<< >>, Bytes(x.result)))
      BY <2>1, <2>2, EncryptorGoesOn
    <3> HIDE DEF x
    <3>2. Joined(<< >>, Bytes(x.result)) = Bytes(x.result)
      BY <3>1, NothingBefore
    <3>3. Bytes(x.result) = Cipher(config, Message, sent \div SizeOf(config)).out
      BY <2>1, <3>1, <3>2 DEF EncHas
    <3>4. out = Cipher(config, Message, sent \div SizeOf(config)).out
      BY <1>1, <2>3 DEF PipeInv, EncOpen, EncHas
    <3> QED
      BY <2>3, <3>3, <3>4 DEF PiecesAreInvisible, x
  <2>4. CASE enc.status = "done"
    <3> DEFINE x == EncryptedLast(Fresh, whole)
    <3>1. CallerFits(sent) /\ out = Ciphertext(config, Padded(config, sent))
      BY <1>1, <2>4 DEF PipeInv, EncDone
    <3>2. CallerFits(0 + sent) /\ 0 + sent <= Len(Message)
      BY <2>1, <3>1
    <3>3. /\ Bytes(x.result) \in Seq(Byte)
          /\ Joined(<< >>, Bytes(x.result)) = Ciphertext(config, Padded(config, 0 + sent))
      BY <2>1, <2>2, <3>2, EncryptorEnds
    <3> HIDE DEF x
    <3>4. Bytes(x.result) = out
      BY <2>1, <3>1, <3>3, NothingBefore
    <3> QED
      BY <2>4, <3>4 DEF PiecesAreInvisible, x
  <2> QED
    BY <2>1, <2>3, <2>4
<1> QED
  BY <1>1, PipeInvariant, PTL

(* An encryptor and a stream cipher keep back less than a block, and a     *)
(* decryptor less than two, as long as they are open.                      *)
THEOREM LagIsBounded ==
  ASSUME IsACipher
  PROVE  Spec => []LagBounded
<1>1. ASSUME PipeInv PROVE LagBounded
  <2>1. /\ config \in Configs /\ sent \in 0 .. Len(Message) /\ out \in Seq(Byte)
        /\ read \in 0 .. Len(out) /\ BlockSize = SizeOf(config) /\ BlockSize \in Nat
    BY <1>1, SizeOfConfig, ConfigIs DEF PipeInv, PipeType
  <2>2. enc.status = "open" => sent - Len(out) \in 0 .. BlockSize - 1
    <3> SUFFICES ASSUME enc.status = "open" PROVE sent - Len(out) \in 0 .. BlockSize - 1
      OBVIOUS
    <3>1. out = Cipher(config, Message, sent \div SizeOf(config)).out
      BY <1>1 DEF PipeInv, EncOpen, EncHas
    <3> QED
      BY <2>1, <3>1, OpenOutput
  <2>3. dec.status = "open" =>
          read - Len(plain) \in 0 .. (IF IsStream THEN 1 ELSE 2) * BlockSize - 1
    <3> SUFFICES ASSUME dec.status = "open"
                 PROVE  read - Len(plain) \in 0 .. (IF IsStream THEN 1 ELSE 2) * BlockSize - 1
      OBVIOUS
    <3> DEFINE size == BlockSize
               from == Times(Gone(config, read), size)
               lag == Times(Lag(config), size)
    <3>1. plain = SubSeq(Message, 1, from) /\ from <= sent
      BY <1>1, <2>1 DEF PipeInv, DecOpen, DecHas
    <3>2. read \in Nat
      BY <2>1
    <3>3. Gone(config, read) \in Nat /\ from <= read /\ read - from < lag + size
      BY <2>1, <3>2, GoneIs
    <3>4. from \in Nat
      BY <2>1, <3>3, TimesIs
    <3>5. lag = IF IsStream THEN 0 ELSE size
      <4>1. Times(0, size) = 0 /\ Times(1, size) = size
        BY <2>1 DEF Times
      <4> QED
        BY <4>1 DEF Lag, IsStream
    <3>6. (IF IsStream THEN 1 ELSE 2) * size = IF IsStream THEN size ELSE size + size
      BY <2>1
    <3> HIDE DEF from, size, lag
    <3>7. Len(plain) = from
      <4>1. from \in 0 .. Len(Message)
        BY <2>1, <3>1, <3>4, PipeAssumption
      <4> QED
        BY <3>1, <4>1, PrefixIs, PipeAssumption
    <3>8. size \in Nat
      BY <2>1 DEF size
    <3>9. read - Len(plain) \in 0 .. (IF IsStream THEN size ELSE size + size) - 1
      BY <3>2, <3>3, <3>4, <3>5, <3>7, <3>8
    <3> QED
      BY <3>6, <3>9 DEF size
  <2> QED
    BY <2>2, <2>3 DEF LagBounded
<1> QED
  BY <1>1, PipeInvariant, PTL

(* Of the messages a caller may send only the empty one keeps the          *)
(* decryptor's finalize from returning, and only under ZeroPadding.        *)
THEOREM HangsOnNothingElse ==
  ASSUME IsACipher
  PROVE  Spec => []HangsOnlyOnNothing
<1>1. ASSUME PipeInv PROVE HangsOnlyOnNothing
  <2>1. config \in Configs /\ dec.status \in {"open", "done", "hung"}
    BY <1>1 DEF PipeInv, PipeType
  <2>2. config.padding = "ZeroPadding" => ~ IsStream
    BY <2>1, ConfigIs DEF IsStream
  <2>3. DecClosed
    BY <1>1 DEF PipeInv
  <2> QED
    BY <2>1, <2>2, <2>3 DEF HangsOnlyOnNothing, DecClosed
<1> QED
  BY <1>1, PipeInvariant, PTL

-----------------------------------------------------------------------------
(* The counters of the modes                                               *)

(* Adding one to a number carries out of its lowest byte where that is     *)
(* full.                                                                   *)
LEMMA AddingOne ==
  ASSUME NEW n \in Nat
  PROVE  /\ n \div 256 \in Nat /\ n % 256 \in Byte
         /\ (n + 1) % 256 = ((n % 256) + 1) % 256
         /\ (n + 1) \div 256 = IF n % 256 = 255 THEN n \div 256 + 1 ELSE n \div 256
         /\ n \div 65536 = (n \div 256) \div 256
BY DEF Byte

(* A sum of two bytes and a number, in bytes; and what is carried.         *)
LowPart(w, k) == w[1] + 256 * w[2] + k

HighPart(w, k) == w[3] + 256 * w[4] + LowPart(w, k) \div 65536

(* Such sums are numbers, and count.                                       *)
LEMMA SumOfBytes ==
  ASSUME NEW a \in Byte, NEW b \in Byte, NEW k \in Nat
  PROVE  /\ a + 256 * b + k \in Nat
         /\ a + 256 * b + (k + 1) = (a + 256 * b + k) + 1
BY DEF Byte

(* Two bytes are a number.                                                 *)
LEMMA TwoBytesAre ==
  ASSUME NEW a \in Byte, NEW b \in Byte
  PROVE  a + 256 * b \in Nat
BY DEF Byte

(* The bytes of a number below 65536.                                      *)
LEMMA TwoBytes ==
  ASSUME NEW a \in Byte, NEW b \in Byte
  PROVE  LET n == a + 256 * b
         IN  n % 256 = a /\ (n \div 256) % 256 = b /\ n \div 65536 = 0
BY DEF Byte

(* The bytes of a word.                                                    *)
LEMMA WordIs ==
  ASSUME NEW w \in Words
  PROVE  w[1] \in Byte /\ w[2] \in Byte /\ w[3] \in Byte /\ w[4] \in Byte
<1>1. w \in Seq(Byte) /\ Len(w) = 4
  BY DEF Words
<1>2. \A i \in 1 .. 4 : w[i] \in Byte
  BY <1>1, ElementOfSeq
<1> QED
  BY <1>2

(* Halves, in terms of its two parts.                                      *)
Unfolds(w, k) ==
    LET low == LowPart(w, k)
        high == HighPart(w, k)
    IN  /\ low \in Nat /\ high \in Nat
        /\ Halves(w, k).bytes = <<low % 256, (low \div 256) % 256,
                                  high % 256, (high \div 256) % 256>>
        /\ Halves(w, k).carry = high \div 65536

(* That is what Halves of a word comes to.                                 *)
LEMMA HalvesAre ==
  ASSUME NEW w \in Words, NEW k \in Nat
  PROVE  Unfolds(w, k)
<1> DEFINE low == LowPart(w, k)
           high == HighPart(w, k)
           carried == low \div 65536
<1>1. low \in Nat
  BY WordIs, SumOfBytes DEF LowPart
<1>2. high \in Nat
  <2>1. carried \in Nat
    <3> HIDE DEF low
    <3> QED
      BY <1>1
  <2>2. high = w[3] + 256 * w[4] + carried
    BY DEF HighPart
  <2> HIDE DEF carried, high
  <2> QED
    BY <2>1, <2>2, WordIs, SumOfBytes
<1>3. /\ Halves(w, k).bytes = <<low % 256, (low \div 256) % 256,
                                high % 256, (high \div 256) % 256>>
      /\ Halves(w, k).carry = high \div 65536
  BY DEF Halves, LowPart, HighPart
<1> QED
  BY <1>1, <1>2, <1>3 DEF Unfolds

(* incWord, byte by byte.                                                  *)
LEMMA IncWordIs ==
  ASSUME NEW a, NEW b, NEW c, NEW d
  PROVE  IncWord(<<a, b, c, d>>) =
            <<(a + 1) % 256,
              IF a = 255 THEN (b + 1) % 256 ELSE b,
              IF a = 255 /\ b = 255 THEN (c + 1) % 256 ELSE c,
              IF a = 255 /\ b = 255 /\ c = 255 THEN (d + 1) % 256 ELSE d>>
<1> DEFINE w == <<a, b, c, d>>
           byte(i) == IF \A j \in 1 .. i - 1 : w[j] = 255 THEN (w[i] + 1) % 256 ELSE w[i]
<1>1. IncWord(w) = [i \in 1 .. 4 |-> byte(i)]
  BY DEF IncWord
<1>2. byte(1) = (a + 1) % 256
  OBVIOUS
<1>3. byte(2) = IF a = 255 THEN (b + 1) % 256 ELSE b
  <2>1. \A j : j \in 1 .. 2 - 1 <=> j = 1
    OBVIOUS
  <2> QED
    BY <2>1
<1>4. byte(3) = IF a = 255 /\ b = 255 THEN (c + 1) % 256 ELSE c
  <2>1. \A j : j \in 1 .. 3 - 1 <=> j = 1 \/ j = 2
    OBVIOUS
  <2> QED
    BY <2>1
<1>5. byte(4) = IF a = 255 /\ b = 255 /\ c = 255 THEN (d + 1) % 256 ELSE d
  <2>1. \A j : j \in 1 .. 4 - 1 <=> j = 1 \/ j = 2 \/ j = 3
    OBVIOUS
  <2> QED
    BY <2>1
<1> HIDE DEF byte
<1>6. [i \in 1 .. 4 |-> byte(i)] = <<byte(1), byte(2), byte(3), byte(4)>>
  OBVIOUS
<1> QED
  BY <1>1, <1>2, <1>3, <1>4, <1>5, <1>6

Full == <<255, 255, 255, 255>>

(* The sum counts as incWord does, and carries where the word was full.    *)
LEMMA HalvesCount ==
  ASSUME NEW w \in Words, NEW k \in Nat
  PROVE  LET h == Halves(w, k)
             next == Halves(w, k + 1)
         IN  /\ h.bytes \in Words /\ h.carry \in Nat
             /\ next.bytes = IncWord(h.bytes)
             /\ next.carry = IF h.bytes = Full THEN h.carry + 1 ELSE h.carry
<1> DEFINE low == LowPart(w, k)
           high == HighPart(w, k)
           more == LowPart(w, k + 1)
           over == HighPart(w, k + 1)
           a == low % 256
           b == (low \div 256) % 256
           c == high % 256
           d == (high \div 256) % 256
<1> HIDE DEF a, b, c, d
<1>0. Unfolds(w, k) /\ Unfolds(w, k + 1)
  BY HalvesAre
<1>1. /\ low \in Nat /\ high \in Nat /\ more \in Nat /\ over \in Nat
      /\ Halves(w, k).bytes = <<a, b, c, d>>
      /\ Halves(w, k).carry = high \div 65536
      /\ Halves(w, k + 1).bytes = <<more % 256, (more \div 256) % 256,
                                    over % 256, (over \div 256) % 256>>
      /\ Halves(w, k + 1).carry = over \div 65536
  BY <1>0 DEF Unfolds, a, b, c, d
<1>2. more = low + 1
  BY WordIs, SumOfBytes DEF LowPart
<1>3. PICK base \in Nat : over = base + more \div 65536 /\ high = base + low \div 65536
  <2> DEFINE base == w[3] + 256 * w[4]
  <2>1. base \in Nat
    BY WordIs, TwoBytesAre
  <2>2. over = base + more \div 65536 /\ high = base + low \div 65536
    BY DEF HighPart
  <2> HIDE DEF base, over, high, more, low
  <2> QED
    BY <2>1, <2>2
<1> HIDE DEF low, high, more, over
<1>4. /\ more % 256 = (a + 1) % 256
      /\ (more \div 256) % 256 = IF a = 255 THEN (b + 1) % 256 ELSE b
      /\ more \div 65536 = IF a = 255 /\ b = 255 THEN low \div 65536 + 1 ELSE low \div 65536
  <2> DEFINE m == low \div 256
  <2>1. m \in Nat /\ more % 256 = (a + 1) % 256
        /\ more \div 256 = (IF a = 255 THEN m + 1 ELSE m) /\ low \div 65536 = m \div 256
        /\ more \div 65536 = (more \div 256) \div 256
    BY <1>1, <1>2, AddingOne DEF a
  <2> HIDE DEF m
  <2>2. (m + 1) % 256 = ((m % 256) + 1) % 256
        /\ (m + 1) \div 256 = IF m % 256 = 255 THEN m \div 256 + 1 ELSE m \div 256
    BY <2>1, AddingOne
  <2>3. b = m % 256
    BY DEF m, b
  <2> QED
    BY <2>1, <2>2, <2>3
<1>5. over = IF a = 255 /\ b = 255 THEN high + 1 ELSE high
  <2>1. low \div 65536 \in Nat
    BY <1>1
  <2> QED
    BY <1>1, <1>3, <1>4, <2>1
<1>6. /\ (high + 1) % 256 = (c + 1) % 256
      /\ ((high + 1) \div 256) % 256 = IF c = 255 THEN (d + 1) % 256 ELSE d
      /\ (high + 1) \div 65536 =
            IF c = 255 /\ d = 255 THEN high \div 65536 + 1 ELSE high \div 65536
  <2> DEFINE m == high \div 256
             up == high + 1
  <2>1. m \in Nat /\ up % 256 = (c + 1) % 256
        /\ up \div 256 = (IF c = 255 THEN m + 1 ELSE m) /\ high \div 65536 = m \div 256
        /\ up \div 65536 = (up \div 256) \div 256
    <3>1. up \in Nat
      BY <1>1
    <3> QED
      BY <1>1, <3>1, AddingOne DEF c
  <2> HIDE DEF m, up
  <2>2. (m + 1) % 256 = ((m % 256) + 1) % 256
        /\ (m + 1) \div 256 = IF m % 256 = 255 THEN m \div 256 + 1 ELSE m \div 256
    BY <2>1, AddingOne
  <2>3. d = m % 256
    BY DEF m, d
  <2> QED
    BY <2>1, <2>2, <2>3 DEF up
<1>7. a \in Byte /\ b \in Byte /\ c \in Byte /\ d \in Byte /\ high \div 65536 \in Nat
  BY <1>1 DEF Byte, a, b, c, d
<1>12. c = high % 256 /\ d = (high \div 256) % 256
  BY DEF c, d
<1>8. /\ over % 256 = IF a = 255 /\ b = 255 THEN (c + 1) % 256 ELSE c
      /\ (over \div 256) % 256 = IF a = 255 /\ b = 255 /\ c = 255 THEN (d + 1) % 256 ELSE d
      /\ over \div 65536 = IF a = 255 /\ b = 255 /\ c = 255 /\ d = 255
                           THEN high \div 65536 + 1 ELSE high \div 65536
  BY <1>5, <1>6, <1>12
<1>9. <<a, b, c, d>> \in Words
  BY <1>7 DEF Words
<1>10. <<a, b, c, d>> = Full <=> a = 255 /\ b = 255 /\ c = 255 /\ d = 255
  BY DEF Full
<1>11. Halves(w, k + 1).bytes = IncWord(<<a, b, c, d>>)
  <2>1. IncWord(<<a, b, c, d>>) =
            <<(a + 1) % 256,
              IF a = 255 THEN (b + 1) % 256 ELSE b,
              IF a = 255 /\ b = 255 THEN (c + 1) % 256 ELSE c,
              IF a = 255 /\ b = 255 /\ c = 255 THEN (d + 1) % 256 ELSE d>>
    BY IncWordIs
  <2> QED
    BY <1>1, <1>4, <1>8, <2>1
<1> QED
  BY <1>1, <1>7, <1>8, <1>9, <1>10, <1>11

(* Nothing added, nothing changes.                                         *)
LEMMA HalvesStart ==
  ASSUME NEW w \in Words
  PROVE  Halves(w, 0).bytes = w /\ Halves(w, 0).carry = 0
<1> DEFINE low == LowPart(w, 0)
           high == HighPart(w, 0)
<1>1. w[1] \in Byte /\ w[2] \in Byte /\ w[3] \in Byte /\ w[4] \in Byte
  BY WordIs
<1>2. low = w[1] + 256 * w[2]
  <2> DEFINE sum == w[1] + 256 * w[2]
  <2>1. low = sum + 0
    BY DEF LowPart
  <2>2. sum \in Nat
    BY <1>1, TwoBytesAre
  <2> HIDE DEF low, sum
  <2>3. low = sum
    BY <2>1, <2>2
  <2> QED
    BY <2>3 DEF sum
<1>3. low % 256 = w[1] /\ (low \div 256) % 256 = w[2] /\ low \div 65536 = 0
  BY <1>1, <1>2, TwoBytes
<1>4. high = w[3] + 256 * w[4]
  <2> DEFINE sum == w[3] + 256 * w[4]
  <2>1. high = sum + 0
    BY <1>3 DEF HighPart
  <2>2. sum \in Nat
    BY <1>1, TwoBytesAre
  <2> HIDE DEF high, sum
  <2>3. high = sum
    BY <2>1, <2>2
  <2> QED
    BY <2>3 DEF sum
<1>5. high % 256 = w[3] /\ (high \div 256) % 256 = w[4] /\ high \div 65536 = 0
  BY <1>1, <1>4, TwoBytes
<1>6. Unfolds(w, 0)
  BY HalvesAre
<1> HIDE DEF low, high
<1>7. Halves(w, 0).bytes = <<w[1], w[2], w[3], w[4]>> /\ Halves(w, 0).carry = 0
  BY <1>3, <1>5, <1>6 DEF Unfolds, low, high
<1>8. w = <<w[1], w[2], w[3], w[4]>>
  BY DEF Words
<1> QED
  BY <1>7, <1>8

-----------------------------------------------------------------------------
(* The counters of CTR and of the stream: the last word of the iv and k,   *)
(* most significant byte first.                                            *)
LastWord == <<Iv[BlockBytes], Iv[BlockBytes - 1], Iv[BlockBytes - 2], Iv[BlockBytes - 3]>>

Before == SubSeq(Iv, 1, BlockBytes - 4)

BigEndian(w) == <<w[4], w[3], w[2], w[1]>>

BigCounter(k) == Joined(Before, BigEndian(Halves(LastWord, k).bytes))

(* The parts of the iv.                                                    *)
LEMMA LastWordIs ==
  /\ LastWord \in Words
  /\ Before \in Seq(Byte) /\ Len(Before) = BlockBytes - 4 /\ BlockBytes - 4 \in Nat
  /\ Iv = Joined(Before, BigEndian(LastWord))
<1>1. Iv \in Seq(Byte) /\ Len(Iv) = BlockBytes /\ BlockBytes \in Nat /\ 8 <= BlockBytes
  BY Sizes DEF Regs
<1>2. \A i \in 1 .. BlockBytes : Iv[i] \in Byte
  BY <1>1, ElementOfSeq
<1> DEFINE n == BlockBytes
<1>3. n \in 1 .. n /\ n - 1 \in 1 .. n /\ n - 2 \in 1 .. n /\ n - 3 \in 1 .. n /\ n - 4 \in 0 .. n
  BY <1>1
<1>4. Iv[n] \in Byte /\ Iv[n - 1] \in Byte /\ Iv[n - 2] \in Byte /\ Iv[n - 3] \in Byte
  BY <1>2, <1>3
<1>5. LastWord \in Words
  BY <1>4 DEF LastWord, Words
<1>6. Before \in Seq(Byte) /\ Len(Before) = n - 4 /\ \A i \in 1 .. n - 4 : Before[i] = Iv[i]
  BY <1>1, <1>3, PrefixIs DEF Before
<1> DEFINE last == BigEndian(LastWord)
           all == Joined(Before, last)
<1>7. last \in Seq(Byte) /\ Len(last) = 4
      /\ last[1] = Iv[n - 3] /\ last[2] = Iv[n - 2] /\ last[3] = Iv[n - 1] /\ last[4] = Iv[n]
  BY <1>4 DEF BigEndian, LastWord
<1> HIDE DEF last
<1>8. /\ all \in Seq(Byte) /\ Len(all) = n
      /\ \A i \in 1 .. n : all[i] = IF i <= n - 4 THEN Before[i] ELSE last[i - (n - 4)]
  <2>1. all \in Seq(Byte) /\ Len(all) = Len(Before) + Len(last)
        /\ \A i \in 1 .. Len(Before) + Len(last) :
              all[i] = IF i <= Len(Before) THEN Before[i] ELSE last[i - Len(Before)]
    BY <1>6, <1>7, JoinedIs
  <2>2. Len(Before) = n - 4 /\ Len(last) = 4 /\ (n - 4) + 4 = n
    BY <1>1, <1>6, <1>7
  <2> HIDE DEF all
  <2> QED
    BY <2>1, <2>2
<1> HIDE DEF all
<1>9. \A i \in 1 .. n : all[i] = Iv[i]
  <2> TAKE i \in 1 .. n
  <2>1. CASE i <= n - 4
    BY <1>1, <1>6, <1>8, <2>1
  <2>2. CASE ~ (i <= n - 4)
    <3>1. i = n - 3 \/ i = n - 2 \/ i = n - 1 \/ i = n
      BY <1>1, <2>2
    <3>2. /\ i = n - 3 => i - (n - 4) = 1
          /\ i = n - 2 => i - (n - 4) = 2
          /\ i = n - 1 => i - (n - 4) = 3
          /\ i = n => i - (n - 4) = 4
      BY <1>1
    <3> QED
      BY <1>7, <1>8, <2>2, <3>1, <3>2
  <2> QED
    BY <2>1, <2>2
<1>10. all = Iv
  BY <1>1, <1>8, <1>9, SeqEqual
<1> QED
  BY <1>1, <1>3, <1>5, <1>6, <1>10 DEF all, last

(* NextCounter counts in the last word as incWord does, with the bytes     *)
(* the other way round.                                                    *)
LEMMA NextCounterIs ==
  ASSUME NEW s \in Seq(Byte), NEW w \in Words
  PROVE  NextCounter(Joined(s, BigEndian(w))) = Joined(s, BigEndian(IncWord(w)))
<1> DEFINE m == Len(s)
           last == BigEndian(w)
           up == BigEndian(IncWord(w))
           r == Joined(s, last)
           next == Joined(s, up)
<1>1. m \in Nat
  OBVIOUS
<1>2. w[1] \in Byte /\ w[2] \in Byte /\ w[3] \in Byte /\ w[4] \in Byte
      /\ w = <<w[1], w[2], w[3], w[4]>>
  BY WordIs DEF Words
<1>3. last \in Seq(Byte) /\ Len(last) = 4
      /\ last[1] = w[4] /\ last[2] = w[3] /\ last[3] = w[2] /\ last[4] = w[1]
  BY <1>2 DEF BigEndian
<1>4. IncWord(w) \in Words
  BY IncWordIsAWord
<1>5. /\ IncWord(w)[1] = (w[1] + 1) % 256
      /\ IncWord(w)[2] = IF w[1] = 255 THEN (w[2] + 1) % 256 ELSE w[2]
      /\ IncWord(w)[3] = IF w[1] = 255 /\ w[2] = 255 THEN (w[3] + 1) % 256 ELSE w[3]
      /\ IncWord(w)[4] = IF w[1] = 255 /\ w[2] = 255 /\ w[3] = 255 THEN (w[4] + 1) % 256
                         ELSE w[4]
  <2> DEFINE v == IncWord(<<w[1], w[2], w[3], w[4]>>)
  <2>1. IncWord(w) = v
    BY <1>2
  <2>2. v = <<(w[1] + 1) % 256,
              IF w[1] = 255 THEN (w[2] + 1) % 256 ELSE w[2],
              IF w[1] = 255 /\ w[2] = 255 THEN (w[3] + 1) % 256 ELSE w[3],
              IF w[1] = 255 /\ w[2] = 255 /\ w[3] = 255 THEN (w[4] + 1) % 256 ELSE w[4]>>
    BY IncWordIs
  <2> HIDE DEF v
  <2> QED
    BY <2>1, <2>2
<1> DEFINE v == IncWord(w)
<1> HIDE DEF v
<1>6. up \in Seq(Byte) /\ Len(up) = 4
      /\ up[1] = v[4] /\ up[2] = v[3] /\ up[3] = v[2] /\ up[4] = v[1]
  <2>1. v[1] \in Byte /\ v[2] \in Byte /\ v[3] \in Byte /\ v[4] \in Byte
    BY <1>4, WordIs DEF v
  <2>2. up = <<v[4], v[3], v[2], v[1]>>
    BY DEF BigEndian, v
  <2> HIDE DEF up
  <2> QED
    BY <2>1, <2>2
<1> HIDE DEF last, up
<1>7. /\ r \in Seq(Byte) /\ Len(r) = m + 4
      /\ \A i \in 1 .. m + 4 : r[i] = IF i <= m THEN s[i] ELSE last[i - m]
  <2>1. r \in Seq(Byte) /\ Len(r) = Len(s) + Len(last)
        /\ \A i \in 1 .. Len(s) + Len(last) :
              r[i] = IF i <= Len(s) THEN s[i] ELSE last[i - Len(s)]
    BY <1>3, JoinedIs
  <2>2. Len(s) = m /\ Len(last) = 4
    BY <1>3
  <2> HIDE DEF r, m
  <2> QED
    BY <2>1, <2>2
<1>8. /\ next \in Seq(Byte) /\ Len(next) = m + 4
      /\ \A i \in 1 .. m + 4 : next[i] = IF i <= m THEN s[i] ELSE up[i - m]
  <2>1. next \in Seq(Byte) /\ Len(next) = Len(s) + Len(up)
        /\ \A i \in 1 .. Len(s) + Len(up) :
              next[i] = IF i <= Len(s) THEN s[i] ELSE up[i - Len(s)]
    BY <1>6, JoinedIs
  <2>2. Len(s) = m /\ Len(up) = 4
    BY <1>6
  <2> HIDE DEF next, m
  <2> QED
    BY <2>1, <2>2
<1> HIDE DEF r, next, m
<1>9. r[m + 1] = w[4] /\ r[m + 2] = w[3] /\ r[m + 3] = w[2] /\ r[m + 4] = w[1]
  <2>1. /\ m + 1 \in 1 .. m + 4 /\ ~ (m + 1 <= m) /\ (m + 1) - m = 1
        /\ m + 2 \in 1 .. m + 4 /\ ~ (m + 2 <= m) /\ (m + 2) - m = 2
        /\ m + 3 \in 1 .. m + 4 /\ ~ (m + 3 <= m) /\ (m + 3) - m = 3
        /\ m + 4 \in 1 .. m + 4 /\ ~ (m + 4 <= m) /\ (m + 4) - m = 4
    BY <1>1
  <2> QED
    BY <1>3, <1>7, <2>1
<1> DEFINE n == Len(r)
           carries(i) == \A j \in i + 1 .. n : r[j] = 255
           byte(i) == IF i > n - 4 /\ carries(i) THEN (r[i] + 1) % 256 ELSE r[i]
<1>10. NextCounter(r) = [i \in 1 .. n |-> byte(i)]
  BY DEF NextCounter
<1>15. n = m + 4
  BY <1>7
<1> HIDE DEF n
<1>11. /\ carries(m + 4)
       /\ carries(m + 3) <=> w[1] = 255
       /\ carries(m + 2) <=> w[1] = 255 /\ w[2] = 255
       /\ carries(m + 1) <=> w[1] = 255 /\ w[2] = 255 /\ w[3] = 255
  <2>1. carries(m + 4)
    BY <1>1, <1>15
  <2>2. carries(m + 3) <=> r[m + 4] = 255
    <3>1. m + 4 \in m + 3 + 1 .. n /\ \A j \in m + 3 + 1 .. n : j = m + 4
      BY <1>1, <1>15
    <3> QED
      BY <3>1
  <2>3. carries(m + 2) <=> r[m + 4] = 255 /\ r[m + 3] = 255
    <3>1. m + 4 \in m + 2 + 1 .. n /\ m + 3 \in m + 2 + 1 .. n
          /\ \A j \in m + 2 + 1 .. n : j = m + 4 \/ j = m + 3
      BY <1>1, <1>15
    <3> QED
      BY <3>1
  <2>4. carries(m + 1) <=> r[m + 4] = 255 /\ r[m + 3] = 255 /\ r[m + 2] = 255
    <3>1. m + 4 \in m + 1 + 1 .. n /\ m + 3 \in m + 1 + 1 .. n /\ m + 2 \in m + 1 + 1 .. n
          /\ \A j \in m + 1 + 1 .. n : j = m + 4 \/ j = m + 3 \/ j = m + 2
      BY <1>1, <1>15
    <3> QED
      BY <3>1
  <2> HIDE DEF carries
  <2> QED
    BY <1>9, <2>1, <2>2, <2>3, <2>4
<1> HIDE DEF carries
<1>12. \A i \in 1 .. m + 4 : byte(i) = next[i]
  <2> TAKE i \in 1 .. m + 4
  <2>1. CASE i <= m
    <3>1. ~ (i > n - 4)
      BY <1>1, <1>15, <2>1
    <3> QED
      BY <1>7, <1>8, <2>1, <3>1
  <2>2. CASE ~ (i <= m)
    <3>1. i = m + 1 \/ i = m + 2 \/ i = m + 3 \/ i = m + 4
      BY <1>1, <2>2
    <3>2. i > n - 4
      BY <1>1, <1>15, <2>2
    <3>3. /\ i = m + 1 => i - m = 1
          /\ i = m + 2 => i - m = 2
          /\ i = m + 3 => i - m = 3
          /\ i = m + 4 => i - m = 4
      BY <1>1
    <3>4. byte(i) = IF carries(i) THEN (r[i] + 1) % 256 ELSE r[i]
      BY <3>2
    <3>5. next[i] = up[i - m]
      BY <1>8, <2>2
    <3> HIDE DEF byte
    <3>6. CASE i = m + 1
      BY <1>5, <1>6, <1>9, <1>11, <3>3, <3>4, <3>5, <3>6 DEF v
    <3>7. CASE i = m + 2
      BY <1>5, <1>6, <1>9, <1>11, <3>3, <3>4, <3>5, <3>7 DEF v
    <3>8. CASE i = m + 3
      BY <1>5, <1>6, <1>9, <1>11, <3>3, <3>4, <3>5, <3>8 DEF v
    <3>9. CASE i = m + 4
      BY <1>5, <1>6, <1>9, <1>11, <3>3, <3>4, <3>5, <3>9 DEF v
    <3> QED
      BY <3>1, <3>6, <3>7, <3>8, <3>9
  <2> QED
    BY <2>1, <2>2
<1>13. next = [i \in 1 .. m + 4 |-> next[i]]
  BY <1>1, <1>8
<1> HIDE DEF byte
<1>14. NextCounter(r) = next
  BY <1>10, <1>12, <1>13, <1>15
<1> QED
  BY <1>14 DEF r, next, last, up

(* The counter starts at the iv ...                                        *)
LEMMA BigCounterStarts == BigCounter(0) = Iv
  BY LastWordIs, HalvesStart DEF BigCounter

(* ... and each step of CTR makes it the next sum.                         *)
LEMMA BigCounterCounts ==
  ASSUME NEW k \in Nat
  PROVE  NextCounter(BigCounter(k)) = BigCounter(k + 1)
<1> DEFINE w == Halves(LastWord, k).bytes
<1>1. w \in Words /\ Halves(LastWord, k + 1).bytes = IncWord(w)
  BY LastWordIs, HalvesCount
<1>2. Before \in Seq(Byte)
  BY LastWordIs
<1> HIDE DEF w
<1>3. NextCounter(Joined(Before, BigEndian(w))) = Joined(Before, BigEndian(IncWord(w)))
  BY <1>1, <1>2, NextCounterIs
<1> QED
  BY <1>1, <1>3 DEF BigCounter, w

-----------------------------------------------------------------------------
(* The counters of CTRGladman: k and the first two words of the iv.        *)
FirstWord == SubSeq(Iv, 1, 4)

SecondWord == SubSeq(Iv, 5, 8)

Behind == SubSeq(Iv, 9, BlockBytes)

Counter(u, v, s) == Joined(Joined(u, v), s)

LittleCounter(k) ==
    LET first == Halves(FirstWord, k)
    IN  Counter(first.bytes, Halves(SecondWord, first.carry).bytes, Behind)

(* A part of a sequence, by its bytes.                                     *)
LEMMA PartIs ==
  ASSUME NEW r \in Seq(Byte), NEW t \in Seq(Byte), NEW m \in Nat, m + Len(t) <= Len(r),
         \A i \in 1 .. Len(t) : r[m + i] = t[i]
  PROVE  SubSeq(r, m + 1, m + Len(t)) = t
<1> DEFINE n == Len(t)
           part == SubSeq(r, m + 1, m + n)
<1>1. n \in Nat /\ Len(r) \in Nat
  OBVIOUS
<1>2. part = [i \in 1 .. n |-> r[m + i]]
  <2>1. (m + n) - (m + 1) + 1 = n /\ \A i \in 1 .. n : (m + 1) + i - 1 = m + i
    BY <1>1
  <2> QED
    BY <1>1, <2>1
<1>3. t = [i \in 1 .. n |-> t[i]]
  OBVIOUS
<1> HIDE DEF part
<1> QED
  BY <1>2, <1>3 DEF part

(* The parts of a counter.                                                 *)
LEMMA CounterParts ==
  ASSUME NEW u \in Words, NEW v \in Words, NEW s \in Seq(Byte)
  PROVE  LET r == Counter(u, v, s)
         IN  /\ r \in Seq(Byte) /\ Len(r) = 8 + Len(s)
             /\ SubSeq(r, 1, 4) = u /\ SubSeq(r, 5, 8) = v /\ SubSeq(r, 9, Len(r)) = s
<1> DEFINE both == Joined(u, v)
           r == Joined(both, s)
           n == Len(s)
<1>1. u \in Seq(Byte) /\ Len(u) = 4 /\ v \in Seq(Byte) /\ Len(v) = 4 /\ n \in Nat
  BY DEF Words
<1>2. both \in Seq(Byte) /\ Len(both) = 8
      /\ \A i \in 1 .. 8 : both[i] = IF i <= 4 THEN u[i] ELSE v[i - 4]
  <2>1. both \in Seq(Byte) /\ Len(both) = Len(u) + Len(v)
        /\ \A i \in 1 .. Len(u) + Len(v) :
              both[i] = IF i <= Len(u) THEN u[i] ELSE v[i - Len(u)]
    BY <1>1, JoinedIs
  <2> HIDE DEF both
  <2> QED
    BY <1>1, <2>1
<1> HIDE DEF both
<1>3. r \in Seq(Byte) /\ Len(r) = 8 + n
      /\ \A i \in 1 .. 8 + n : r[i] = IF i <= 8 THEN both[i] ELSE s[i - 8]
  <2>1. r \in Seq(Byte) /\ Len(r) = Len(both) + Len(s)
        /\ \A i \in 1 .. Len(both) + Len(s) :
              r[i] = IF i <= Len(both) THEN both[i] ELSE s[i - Len(both)]
    BY <1>2, JoinedIs
  <2> HIDE DEF r
  <2> QED
    BY <1>2, <2>1
<1> HIDE DEF r
<1>4. \A i \in 1 .. 4 : r[0 + i] = u[i] /\ r[4 + i] = v[i]
  <2> TAKE i \in 1 .. 4
  <2>1. /\ 0 + i = i /\ i \in 1 .. 8 /\ i \in 1 .. 8 + n /\ i <= 4 /\ i <= 8
        /\ 4 + i \in 1 .. 8 /\ 4 + i \in 1 .. 8 + n /\ ~ (4 + i <= 4) /\ 4 + i <= 8
        /\ (4 + i) - 4 = i
    BY <1>1
  <2> QED
    BY <1>2, <1>3, <2>1
<1>5. \A i \in 1 .. n : r[8 + i] = s[i]
  <2> TAKE i \in 1 .. n
  <2>1. 8 + i \in 1 .. 8 + n /\ ~ (8 + i <= 8) /\ (8 + i) - 8 = i
    BY <1>1
  <2> QED
    BY <1>3, <2>1
<1>6. SubSeq(r, 0 + 1, 0 + Len(u)) = u /\ SubSeq(r, 4 + 1, 4 + Len(v)) = v
  <2>1. 0 \in Nat /\ 4 \in Nat /\ 0 + Len(u) <= Len(r) /\ 4 + Len(v) <= Len(r)
    BY <1>1, <1>3
  <2>2. \A i \in 1 .. Len(u) : r[0 + i] = u[i]
    BY <1>1, <1>4
  <2>3. \A i \in 1 .. Len(v) : r[4 + i] = v[i]
    BY <1>1, <1>4
  <2> QED
    BY <1>1, <1>3, <2>1, <2>2, <2>3, PartIs
<1>7. SubSeq(r, 8 + 1, 8 + Len(s)) = s
  <2>1. 8 \in Nat /\ 8 + Len(s) <= Len(r)
    BY <1>1, <1>3
  <2> QED
    BY <1>3, <1>5, <2>1, PartIs
<1>8. 0 + 1 = 1 /\ 0 + Len(u) = 4 /\ 4 + 1 = 5 /\ 4 + Len(v) = 8 /\ 8 + 1 = 9
      /\ 8 + Len(s) = Len(r)
  BY <1>1, <1>3
<1>9. SubSeq(r, 1, 4) = u /\ SubSeq(r, 5, 8) = v /\ SubSeq(r, 9, Len(r)) = s
  BY <1>6, <1>7, <1>8
<1> QED
  BY <1>3, <1>9 DEF Counter, r, both

(* A word that counts up to nothing was full.                              *)
LEMMA FullWraps ==
  ASSUME NEW w \in Words
  PROVE  IncWord(w) = <<0, 0, 0, 0>> <=> w = Full
<1> DEFINE a == w[1]
           b == w[2]
           c == w[3]
           d == w[4]
<1>1. a \in Byte /\ b \in Byte /\ c \in Byte /\ d \in Byte
  BY WordIs
<1>2. w = <<a, b, c, d>>
  BY DEF Words
<1> HIDE DEF a, b, c, d
<1>3. IncWord(w) =
            <<(a + 1) % 256,
              IF a = 255 THEN (b + 1) % 256 ELSE b,
              IF a = 255 /\ b = 255 THEN (c + 1) % 256 ELSE c,
              IF a = 255 /\ b = 255 /\ c = 255 THEN (d + 1) % 256 ELSE d>>
  <2>1. IncWord(<<a, b, c, d>>) =
            <<(a + 1) % 256,
              IF a = 255 THEN (b + 1) % 256 ELSE b,
              IF a = 255 /\ b = 255 THEN (c + 1) % 256 ELSE c,
              IF a = 255 /\ b = 255 /\ c = 255 THEN (d + 1) % 256 ELSE d>>
    BY IncWordIs
  <2> QED
    BY <1>2, <2>1
<1>4. \A n \in Byte : (n + 1) % 256 = 0 <=> n = 255
  BY DEF Byte
<1>5. IncWord(w) = <<0, 0, 0, 0>> <=> a = 255 /\ b = 255 /\ c = 255 /\ d = 255
  <2>1. IncWord(w) = <<0, 0, 0, 0>> <=>
          /\ (a + 1) % 256 = 0
          /\ (IF a = 255 THEN (b + 1) % 256 ELSE b) = 0
          /\ (IF a = 255 /\ b = 255 THEN (c + 1) % 256 ELSE c) = 0
          /\ (IF a = 255 /\ b = 255 /\ c = 255 THEN (d + 1) % 256 ELSE d) = 0
    BY <1>3
  <2> QED
    BY <1>1, <1>4, <2>1
<1>6. w = Full <=> a = 255 /\ b = 255 /\ c = 255 /\ d = 255
  BY <1>2 DEF Full
<1> QED
  BY <1>5, <1>6

(* incCounter counts in the first word, and in the second where that       *)
(* wraps.                                                                  *)
LEMMA IncCounterIs ==
  ASSUME NEW u \in Words, NEW v \in Words, NEW s \in Seq(Byte)
  PROVE  IncCounter(Counter(u, v, s)) =
            Counter(IncWord(u), IF u = Full THEN IncWord(v) ELSE v, s)
<1> DEFINE r == Counter(u, v, s)
<1>1. SubSeq(r, 1, 4) = u /\ SubSeq(r, 5, 8) = v /\ SubSeq(r, 9, Len(r)) = s
  BY CounterParts
<1> HIDE DEF r
<1>2. IncCounter(r) =
        Counter(IncWord(u), IF IncWord(u) = <<0, 0, 0, 0>> THEN IncWord(v) ELSE v, s)
  BY <1>1 DEF IncCounter, Counter, Joined
<1> QED
  BY <1>2, FullWraps DEF r

(* The parts of the iv.                                                    *)
LEMMA FirstWordsAre ==
  /\ FirstWord \in Words /\ SecondWord \in Words /\ Behind \in Seq(Byte)
  /\ Iv = Counter(FirstWord, SecondWord, Behind)
<1> DEFINE n == BlockBytes
           both == Joined(FirstWord, SecondWord)
           all == Joined(both, Behind)
<1>1. Iv \in Seq(Byte) /\ Len(Iv) = n /\ n \in Nat /\ 8 <= n
  BY Sizes DEF Regs
<1> HIDE DEF n
<1>2. /\ FirstWord \in Seq(Byte) /\ Len(FirstWord) = 4
      /\ \A i \in 1 .. 4 : FirstWord[i] = Iv[i]
  BY <1>1 DEF FirstWord
<1>3. /\ SecondWord \in Seq(Byte) /\ Len(SecondWord) = 4
      /\ \A i \in 1 .. 4 : SecondWord[i] = Iv[4 + i]
  BY <1>1 DEF SecondWord
<1>4. /\ Behind \in Seq(Byte) /\ Len(Behind) = n - 8
      /\ \A i \in 1 .. n - 8 : Behind[i] = Iv[8 + i]
  BY <1>1 DEF Behind, n
<1>5. both \in Seq(Byte) /\ Len(both) = 8
      /\ \A i \in 1 .. 8 : both[i] = IF i <= 4 THEN FirstWord[i] ELSE SecondWord[i - 4]
  <2>1. both \in Seq(Byte) /\ Len(both) = Len(FirstWord) + Len(SecondWord)
        /\ \A i \in 1 .. Len(FirstWord) + Len(SecondWord) :
              both[i] = IF i <= Len(FirstWord) THEN FirstWord[i]
                        ELSE SecondWord[i - Len(FirstWord)]
    BY <1>2, <1>3, JoinedIs
  <2> HIDE DEF both
  <2> QED
    BY <1>2, <1>3, <2>1
<1> HIDE DEF both
<1>6. all \in Seq(Byte) /\ Len(all) = n
      /\ \A i \in 1 .. n : all[i] = IF i <= 8 THEN both[i] ELSE Behind[i - 8]
  <2>1. all \in Seq(Byte) /\ Len(all) = Len(both) + Len(Behind)
        /\ \A i \in 1 .. Len(both) + Len(Behind) :
              all[i] = IF i <= Len(both) THEN both[i] ELSE Behind[i - Len(both)]
    BY <1>4, <1>5, JoinedIs
  <2>2. Len(both) = 8 /\ Len(both) + Len(Behind) = n
    BY <1>1, <1>4, <1>5
  <2> HIDE DEF all
  <2> QED
    BY <2>1, <2>2
<1> HIDE DEF all
<1>7. \A i \in 1 .. n : all[i] = Iv[i]
  <2> TAKE i \in 1 .. n
  <2>1. CASE i <= 4
    <3>1. i \in 1 .. 4 /\ i \in 1 .. 8 /\ i <= 8
      BY <1>1, <2>1
    <3> QED
      BY <1>2, <1>5, <1>6, <2>1, <3>1
  <2>2. CASE ~ (i <= 4) /\ i <= 8
    <3>1. i - 4 \in 1 .. 4 /\ i \in 1 .. 8 /\ 4 + (i - 4) = i
      BY <1>1, <2>2
    <3> QED
      BY <1>3, <1>5, <1>6, <2>2, <3>1
  <2>3. CASE ~ (i <= 8)
    <3>1. i - 8 \in 1 .. n - 8 /\ 8 + (i - 8) = i
      BY <1>1, <2>3
    <3> QED
      BY <1>4, <1>6, <2>3, <3>1
  <2> QED
    BY <1>1, <2>1, <2>2, <2>3
<1>8. all = Iv
  BY <1>1, <1>6, <1>7, SeqEqual
<1> QED
  BY <1>2, <1>3, <1>4, <1>8 DEF Words, Counter, all, both

(* The counter starts at the iv ...                                        *)
LEMMA LittleCounterStarts == LittleCounter(0) = Iv
  BY FirstWordsAre, HalvesStart DEF LittleCounter

(* ... and each step of CTRGladman makes it the next sum.                  *)
LEMMA LittleCounterCounts ==
  ASSUME NEW k \in Nat
  PROVE  IncCounter(LittleCounter(k)) = LittleCounter(k + 1)
<1> DEFINE h == Halves(FirstWord, k)
           next == Halves(FirstWord, k + 1)
           v == Halves(SecondWord, h.carry).bytes
<1>1. /\ h.bytes \in Words /\ h.carry \in Nat
      /\ next.bytes = IncWord(h.bytes)
      /\ next.carry = IF h.bytes = Full THEN h.carry + 1 ELSE h.carry
  BY FirstWordsAre, HalvesCount
<1>2. v \in Words /\ Halves(SecondWord, h.carry + 1).bytes = IncWord(v)
  <2> HIDE DEF h
  <2> QED
    BY <1>1, FirstWordsAre, HalvesCount
<1>3. Behind \in Seq(Byte)
  BY FirstWordsAre
<1>4. LittleCounter(k) = Counter(h.bytes, v, Behind)
      /\ LittleCounter(k + 1) =
            Counter(next.bytes, Halves(SecondWord, next.carry).bytes, Behind)
  BY DEF LittleCounter
<1> HIDE DEF h, next
<1>5. Halves(SecondWord, next.carry).bytes = IF h.bytes = Full THEN IncWord(v) ELSE v
  BY <1>1, <1>2
<1> HIDE DEF v
<1>6. IncCounter(Counter(h.bytes, v, Behind)) =
        Counter(IncWord(h.bytes), IF h.bytes = Full THEN IncWord(v) ELSE v, Behind)
  BY <1>1, <1>2, <1>3, IncCounterIs
<1> QED
  BY <1>1, <1>4, <1>5, <1>6

-----------------------------------------------------------------------------
(* The modes                                                               *)

(* The order of an exclusive or does not matter.                           *)
LEMMA XorCommutes ==
  ASSUME NEW a \in Byte, NEW b \in Byte
  PROVE  Xor(a, b) = Xor(b, a)
<1>1. \A m, n \in Nibble : NibbleXor[m][n] = NibbleXor[n][m]
  <2> TAKE m, n \in Nibble
  <2>1. \A k \in {1, 2, 4, 8} : NibbleOf(m, n, k) = NibbleOf(n, m, k)
    BY DEF NibbleOf, Nibble
  <2> QED
    BY <2>1, NibbleXorIs
<1>2. a \div 16 \in Nibble /\ b \div 16 \in Nibble /\ a % 16 \in Nibble /\ b % 16 \in Nibble
  BY DEF Byte, Nibble
<1>3. NibbleXor[a \div 16][b \div 16] = NibbleXor[b \div 16][a \div 16]
      /\ NibbleXor[a % 16][b % 16] = NibbleXor[b % 16][a % 16]
  BY <1>1, <1>2
<1> QED
  BY <1>3 DEF Xor

(* So a block and what became of it give the keystream.                    *)
LEMMA XorBytesTurned ==
  ASSUME NEW s \in Seq(Byte), NEW t \in Seq(Byte), Len(s) = Len(t)
  PROVE  XorBytes(XorBytes(s, t), s) = t
<1>1. XorBytes(s, t) = XorBytes(t, s)
  <2>1. /\ XorBytes(s, t) \in Seq(Byte) /\ Len(XorBytes(s, t)) = Len(s)
        /\ \A i \in 1 .. Len(s) : XorBytes(s, t)[i] = Xor(s[i], t[i])
    BY XorBytesIs
  <2>2. /\ XorBytes(t, s) \in Seq(Byte) /\ Len(XorBytes(t, s)) = Len(s)
        /\ \A i \in 1 .. Len(s) : XorBytes(t, s)[i] = Xor(t[i], s[i])
    BY XorBytesIs
  <2>3. \A i \in 1 .. Len(s) : XorBytes(s, t)[i] = XorBytes(t, s)[i]
    <3> TAKE i \in 1 .. Len(s)
    <3>1. s[i] \in Byte /\ t[i] \in Byte
      BY ElementOfSeq
    <3> QED
      BY <2>1, <2>2, <3>1, XorCommutes
  <2> QED
    BY <2>1, <2>2, <2>3, SeqEqual
<1>2. XorBytes(XorBytes(t, s), s) = t
  BY XorBytesIs
<1> QED
  BY <1>1, <1>2

(* The register of the modes that count.                                   *)
RegisterAt(c, k) ==
    LET reg == Cipher(c, Message, k).reg
    IN  /\ c.mode \in {"CTR", "Stream"} => reg = BigCounter(k)
        /\ c.mode = "CTRGladman" => reg = LittleCounter(k)

(* The register is never anything but the sum, however often it was        *)
(* counted up.                                                             *)
LEMMA CountersAreSums ==
  ASSUME IsACipher, NEW c \in Configs, NEW n \in Nat
  PROVE  RegisterAt(c, n)
<1> DEFINE T == {k \in Nat : RegisterAt(c, k)}
<1>1. Message \in Seq(Byte)
  BY PipeAssumption
<1>2. 0 \in T
  <2>1. Cipher(c, Message, 0).reg = Iv
    BY <1>1, CipherIs
  <2> QED
    BY <2>1, BigCounterStarts, LittleCounterStarts DEF RegisterAt
<1>3. \A k \in Nat : k \in T => k + 1 \in T
  <2> SUFFICES ASSUME NEW k \in Nat, RegisterAt(c, k) PROVE RegisterAt(c, k + 1)
    OBVIOUS
  <2> DEFINE r == Cipher(c, Message, k).reg
             p == PlainBlock(c, Message, k)
             next == Cipher(c, Message, k + 1).reg
  <2>1. next = EncOf(c, r, p).reg
    BY <1>1, CipherSteps DEF StepsOn, CipherBlock
  <2> HIDE DEF p
  <2>2. /\ c.mode \in {"CTR", "Stream"} => EncOf(c, r, p).reg = NextCounter(r)
        /\ c.mode = "CTRGladman" => EncOf(c, r, p).reg = IncCounter(r)
    <3> HIDE DEF r
    <3> QED
      BY RegistersOf
  <2>3. /\ c.mode \in {"CTR", "Stream"} => r = BigCounter(k)
        /\ c.mode = "CTRGladman" => r = LittleCounter(k)
    BY DEF RegisterAt
  <2> HIDE DEF r, next
  <2>4. /\ c.mode \in {"CTR", "Stream"} => next = BigCounter(k + 1)
        /\ c.mode = "CTRGladman" => next = LittleCounter(k + 1)
    BY <2>1, <2>2, <2>3, BigCounterCounts, LittleCounterCounts
  <2> QED
    BY <2>4 DEF RegisterAt, next
<1> HIDE DEF T
<1>4. n \in T
  BY <1>2, <1>3, Run!SetOfAllNumbers, PushLimitAssumption
<1> QED
  BY <1>4 DEF T

(* These are the counters of the property.                                 *)
LEMMA CounterAfterIs ==
  ASSUME NEW k \in Nat
  PROVE  /\ config.mode = "CTRGladman" => CounterAfter(k) = LittleCounter(k + 1)
         /\ config.mode # "CTRGladman" => CounterAfter(k) = BigCounter(k)
<1>1. Len(Iv) = BlockBytes
  BY Sizes DEF Regs
<1>2. CASE config.mode = "CTRGladman"
  BY <1>1, <1>2 DEF CounterAfter, LittleCounter, FirstWord, SecondWord, Behind, Counter, Joined
<1>3. CASE config.mode # "CTRGladman"
  BY <1>1, <1>3 DEF CounterAfter, BigCounter, LastWord, Before, BigEndian, Joined
<1> QED
  BY <1>2, <1>3

BlockIn(s, k) == SubSeq(s, k * BlockSize + 1, (k + 1) * BlockSize)

(* The blocks of what was sent and of what came of it are the ones the     *)
(* steps of the encryptor take and make.                                   *)
LEMMA BlocksAre ==
  ASSUME IsACipher, PipeInv, NEW k \in Nat,
         Times(k + 1, BlockSize) <= sent, Times(k + 1, BlockSize) <= Len(out)
  PROVE  /\ BlockIn(Message, k) = PlainBlock(config, Message, k)
         /\ BlockIn(out, k) = CipherBlock(config, Message, k).out
<1> DEFINE S == BlockSize
           from == Times(k, S)
           p == PlainBlock(config, Message, k)
           e == CipherBlock(config, Message, k).out
           whole == Cipher(config, Message, k + 1).out
<1>1. /\ config \in Configs /\ sent \in 0 .. Len(Message) /\ out \in Seq(Byte)
      /\ Message \in Seq(Byte)
  BY PipeAssumption DEF PipeInv, PipeType
<1>2. S = SizeOf(config) /\ S \in Nat
  BY <1>1, ConfigIs, SizeOfConfig
<1>3. from \in Nat /\ Times(k + 1, S) = from + S
  BY <1>2, TimesIs
<1>4. k * BlockSize = from /\ (k + 1) * BlockSize = from + S
  BY <1>3 DEF Times
<1>5. StepsOn(config, Message, k)
  BY <1>1, CipherSteps
<1>6. /\ p \in Seq(Byte) /\ Len(p) = S /\ e \in Seq(Byte) /\ Len(e) = S
      /\ \A i \in 1 .. S : from + i <= Len(Message) => p[i] = Message[from + i]
      /\ \A i \in 1 .. S : whole[from + i] = e[i]
  BY <1>2, <1>5 DEF StepsOn, BlocksOfSize
<1>7. \A i \in 1 .. from + S : out[i] = whole[i]
  <2>1. IsOutput(config, out, sent)
    BY OutputIs
  <2>2. k + 1 \in Nat /\ Times(k + 1, SizeOf(config)) = from + S
        /\ from + S <= sent /\ from + S <= Len(out)
    BY <1>2, <1>3
  <2> QED
    BY <2>1, <2>2 DEF IsOutput
<1> HIDE DEF S, from, p, e, whole
<1>8. from + S <= Len(Message) /\ from + S <= Len(out)
  BY <1>1, <1>2, <1>3 DEF S
<1>9. \A i \in 1 .. S : Message[from + i] = p[i] /\ out[from + i] = e[i]
  <2> TAKE i \in 1 .. S
  <2>1. from + i \in 1 .. from + S /\ from + i <= Len(Message)
    BY <1>1, <1>2, <1>3, <1>8
  <2> QED
    BY <1>6, <1>7, <2>1
<1>10. SubSeq(Message, from + 1, from + S) = p /\ SubSeq(out, from + 1, from + S) = e
  <2>1. SubSeq(Message, from + 1, from + Len(p)) = p
    BY <1>1, <1>3, <1>6, <1>8, <1>9, PartIs
  <2>2. SubSeq(out, from + 1, from + Len(e)) = e
    BY <1>1, <1>3, <1>6, <1>8, <1>9, PartIs
  <2> QED
    BY <1>6, <2>1, <2>2
<1> QED
  BY <1>4, <1>10 DEF BlockIn, p, e, S

(* A block of ciphertext c comes of a block of text p, with the register   *)
(* the step before left: the definition of the mode, about registers.      *)
LEMMA BlockOfMode ==
  ASSUME IsACipher, NEW cfg \in Configs, NEW r \in Regs, NEW p \in BlocksOfSize(SizeOf(cfg))
  PROVE  LET c == EncOf(cfg, r, p).out
             keystream == XorBytes(c, p)
         IN  /\ cfg.mode = "ECB" => DecryptBlock(Key, c) = p
             /\ cfg.mode = "CBC" => DecryptBlock(Key, c) = XorBytes(p, r)
             /\ Xors(cfg) => keystream = KeystreamOf(cfg, r)
             /\ cfg.mode \in {"CFB", "OFB", "CTR"} => DecryptBlock(Key, keystream) = r
             /\ cfg.mode = "CTRGladman" => DecryptBlock(Key, keystream) = IncCounter(r)
<1> DEFINE c == EncOf(cfg, r, p).out
           keystream == XorBytes(c, p)
<1>1. CASE cfg.mode = "ECB"
  <2>1. c = EncryptBlock(Key, p)
    BY <1>1, StepsOfModes DEF ModeEncrypt, ECBEncrypt, Step
  <2>2. p \in Regs
    BY <1>1 DEF BlocksOfSize, SizeOf, Regs
  <2> QED
    BY <1>1, <2>1, <2>2 DEF IsACipher, Xors
<1>2. CASE cfg.mode = "CBC"
  <2>1. c = EncryptBlock(Key, XorBytes(p, r))
    BY <1>2, StepsOfModes DEF ModeEncrypt, CBCEncrypt, Step
  <2>2. p \in Seq(Byte) /\ Len(p) = BlockBytes /\ r \in Seq(Byte) /\ Len(r) = BlockBytes
    BY <1>2 DEF BlocksOfSize, SizeOf, Regs
  <2>3. Len(p) <= Len(r)
    BY <2>2, Sizes
  <2>4. XorBytes(p, r) \in Regs
    BY <2>2, <2>3, XorBytesIs DEF Regs
  <2> QED
    BY <1>2, <2>1, <2>4 DEF IsACipher, Xors
<1>3. CASE Xors(cfg)
  <2> DEFINE ks == KeystreamOf(cfg, r)
  <2>1. c = XorBytes(p, ks)
    BY <1>3, XorsItsKeystream
  <2>2. ks \in Seq(Byte) /\ p \in Seq(Byte) /\ Len(p) = Len(ks)
    BY KeystreamIs DEF BlocksOfSize
  <2>3. keystream = ks
    <3> HIDE DEF ks, c
    <3> QED
      BY <2>1, <2>2, XorBytesTurned
  <2>4. cfg.mode \in {"CFB", "OFB", "CTR"} => ks = EncryptBlock(Key, r)
    BY DEF KeystreamOf
  <2>5. cfg.mode = "CTRGladman" => ks = EncryptBlock(Key, IncCounter(r))
    BY DEF KeystreamOf
  <2>6. IncCounter(r) \in Regs
    BY IncCounterIsABlock
  <2>7. DecryptBlock(Key, EncryptBlock(Key, r)) = r
        /\ DecryptBlock(Key, EncryptBlock(Key, IncCounter(r))) = IncCounter(r)
    BY <2>6 DEF IsACipher
  <2>8. cfg.mode # "ECB" /\ cfg.mode # "CBC"
    BY <1>3 DEF Xors
  <2> HIDE DEF ks, c, keystream
  <2> QED
    BY <2>3, <2>4, <2>5, <2>7, <2>8 DEF ks, c, keystream
<1> QED
  BY <1>1, <1>2, <1>3 DEF Xors

(* The register before a block, from what is in the line.                  *)
LEMMA RegisterIs ==
  ASSUME IsACipher, PipeInv, NEW k \in Nat,
         Times(k + 1, BlockSize) <= sent, Times(k + 1, BlockSize) <= Len(out)
  PROVE  LET reg == Cipher(config, Message, k).reg
         IN  /\ k = 0 => reg = Iv
             /\ k # 0 /\ config.mode \in {"CBC", "CFB"} => reg = BlockIn(out, k - 1)
             /\ k # 0 /\ config.mode = "OFB" =>
                   reg = XorBytes(BlockIn(out, k - 1), BlockIn(Message, k - 1))
<1> DEFINE reg == Cipher(config, Message, k).reg
<1>1. config \in Configs /\ Message \in Seq(Byte) /\ sent \in Nat /\ Len(out) \in Nat
  BY PipeAssumption DEF PipeInv, PipeType
<1>2. k = 0 => reg = Iv
  BY <1>1, CipherIs
<1>3. CASE k # 0
  <2> DEFINE j == k - 1
             r == Cipher(config, Message, j).reg
             p == PlainBlock(config, Message, j)
             e == EncOf(config, r, p)
  <2>1. j \in Nat /\ j + 1 = k
    BY <1>3
  <2> HIDE DEF j
  <2>2. Times(j + 1, BlockSize) <= sent /\ Times(j + 1, BlockSize) <= Len(out)
    <3>1. BlockSize \in Nat
      BY <1>1, ConfigIs, SizeOfConfig
    <3>2. Times(k + 1, BlockSize) = Times(k, BlockSize) + BlockSize
          /\ Times(k, BlockSize) \in Nat
      BY <3>1, TimesIs
    <3> QED
      BY <1>1, <2>1, <3>1, <3>2
  <2>3. BlockIn(Message, j) = p /\ BlockIn(out, j) = e.out
    BY <2>1, <2>2, BlocksAre DEF CipherBlock
  <2>4. r \in Regs /\ p \in BlocksOfSize(SizeOf(config)) /\ reg = e.reg
    BY <1>1, <2>1, CipherIs, CipherSteps DEF StepsOn, CipherBlock
  <2> HIDE DEF r, p, reg
  <2>5. config.mode \in {"CBC", "CFB"} => e.reg = e.out
    BY <1>1, RegistersOf
  <2>6. config.mode = "OFB" => e.reg = XorBytes(e.out, p)
    <3>1. config.mode = "OFB" => e.reg = KeystreamOf(config, r) /\ Xors(config)
      BY <1>1, RegistersOf DEF Xors
    <3> QED
      BY <1>1, <2>4, <3>1, BlockOfMode
  <2> HIDE DEF e
  <2>7. /\ config.mode \in {"CBC", "CFB"} => reg = BlockIn(out, j)
        /\ config.mode = "OFB" => reg = XorBytes(BlockIn(out, j), BlockIn(Message, j))
    BY <2>3, <2>4, <2>5, <2>6
  <2> QED
    BY <1>3, <2>7 DEF j, reg
<1> QED
  BY <1>2, <1>3

(* The modes of the code are the ones of the textbook, for every block     *)
(* that is in the line: block chaining, feedback and counters that are     *)
(* sums.                                                                   *)
THEOREM ModesAreTheStandards ==
  ASSUME IsACipher
  PROVE  Spec => []ModesAreStandard
<1>1. ASSUME PipeInv PROVE ModesAreStandard
  <2>1. /\ config \in Configs /\ config.mode \in Modes \cup {"Stream"}
        /\ sent \in Nat /\ Message \in Seq(Byte)
    BY <1>1, ConfigIs, PipeAssumption DEF PipeInv, PipeType
  <2>2. BlockSize = SizeOf(config) /\ BlockSize \in Nat \ {0}
    BY <2>1, ConfigIs, SizeOfConfig
  <2> SUFFICES ASSUME NEW k \in 0 .. (sent \div BlockSize) - 1,
                      (k + 1) * BlockSize <= Len(out)
               PROVE  LET block(s, j) ==
                              IF j < 0 THEN Iv
                              ELSE SubSeq(s, j * BlockSize + 1, (j + 1) * BlockSize)
                          c == block(out, k)
                          p == block(Message, k)
                          keystream == XorBytes(c, p)
                      IN  CASE config.mode = "ECB" -> DecryptBlock(Key, c) = p
                            [] config.mode = "CBC" ->
                                 DecryptBlock(Key, c) = XorBytes(p, block(out, k - 1))
                            [] config.mode = "CFB" ->
                                 DecryptBlock(Key, keystream) = block(out, k - 1)
                            [] config.mode = "OFB" ->
                                 DecryptBlock(Key, keystream) =
                                     IF k = 0 THEN Iv
                                     ELSE XorBytes(block(out, k - 1), block(Message, k - 1))
                            [] config.mode = "Stream" ->
                                 keystream = SubSeq(EncryptBlock(Key, CounterAfter(k)), 1, 4)
                            [] OTHER -> DecryptBlock(Key, keystream) = CounterAfter(k)
    BY DEF ModesAreStandard
  <2> DEFINE block(s, j) ==
                 IF j < 0 THEN Iv
                 ELSE SubSeq(s, j * BlockSize + 1, (j + 1) * BlockSize)
             c == block(out, k)
             p == block(Message, k)
             keystream == XorBytes(c, p)
             reg == Cipher(config, Message, k).reg
  <2>3. k \in Nat /\ Times(k + 1, BlockSize) <= sent /\ Times(k + 1, BlockSize) <= Len(out)
    <3> DEFINE q == sent \div BlockSize
    <3>1. q \in Nat /\ Times(q, BlockSize) <= sent /\ Times(q, BlockSize) \in Nat
      BY <2>1, <2>2, Quotient, TimesIs
    <3> HIDE DEF q
    <3>2. k \in Nat /\ k + 1 \in Nat /\ k + 1 <= q
      BY <3>1 DEF q
    <3>3. Times(k + 1, BlockSize) <= Times(q, BlockSize) /\ Times(k + 1, BlockSize) \in Nat
      BY <2>2, <3>1, <3>2, TimesGrow, TimesIs
    <3>4. Times(k + 1, BlockSize) <= Len(out)
      BY DEF Times
    <3> QED
      BY <2>1, <3>1, <3>2, <3>3, <3>4
  <2>4. /\ c = BlockIn(out, k) /\ p = BlockIn(Message, k)
        /\ k = 0 => block(out, k - 1) = Iv
        /\ k # 0 => /\ block(out, k - 1) = BlockIn(out, k - 1)
                    /\ block(Message, k - 1) = BlockIn(Message, k - 1)
    <3>1. ~ (k < 0) /\ (k = 0 => k - 1 < 0) /\ (k # 0 => ~ (k - 1 < 0))
      BY <2>3
    <3>2. \A s : block(s, k) = BlockIn(s, k)
      BY <3>1 DEF BlockIn
    <3>3. k = 0 => \A s : block(s, k - 1) = Iv
      BY <3>1
    <3>4. k # 0 => \A s : block(s, k - 1) = BlockIn(s, k - 1)
      BY <3>1 DEF BlockIn
    <3> HIDE DEF block
    <3> QED
      BY <3>2, <3>3, <3>4
  <2> DEFINE back == block(out, k - 1)
             source == block(Message, k - 1)
  <2>5. c = EncOf(config, reg, p).out /\ p \in BlocksOfSize(SizeOf(config)) /\ reg \in Regs
    <3>1. BlockIn(Message, k) = PlainBlock(config, Message, k)
          /\ BlockIn(out, k) = CipherBlock(config, Message, k).out
      BY <1>1, <2>3, BlocksAre
    <3>2. PlainBlock(config, Message, k) \in BlocksOfSize(SizeOf(config))
      BY <2>1, <2>3, CipherSteps DEF StepsOn
    <3>3. reg \in Regs
      BY <2>1, <2>3, CipherIs
    <3> HIDE DEF c, p
    <3> QED
      BY <2>4, <3>1, <3>2, <3>3 DEF CipherBlock
  <2>6. /\ k = 0 => reg = Iv
        /\ k # 0 /\ config.mode \in {"CBC", "CFB"} => reg = BlockIn(out, k - 1)
        /\ k # 0 /\ config.mode = "OFB" =>
              reg = XorBytes(BlockIn(out, k - 1), BlockIn(Message, k - 1))
    BY <1>1, <2>3, RegisterIs
  <2>7. RegisterAt(config, k)
    BY <2>1, <2>3, CountersAreSums
  <2> HIDE DEF block, c, p, reg, back, source
  <2>8. /\ config.mode \in {"CBC", "CFB"} => reg = back
        /\ config.mode = "OFB" => reg = IF k = 0 THEN Iv ELSE XorBytes(back, source)
    BY <2>4, <2>6 DEF back, source
  <2>9. /\ config.mode \in {"CTR", "Stream"} => reg = CounterAfter(k)
        /\ config.mode = "CTRGladman" => IncCounter(reg) = CounterAfter(k)
    <3>1. /\ config.mode \in {"CTR", "Stream"} => reg = BigCounter(k)
          /\ config.mode = "CTRGladman" => reg = LittleCounter(k)
      BY <2>7 DEF RegisterAt, reg
    <3> QED
      BY <2>3, <3>1, CounterAfterIs, LittleCounterCounts
  <2>10. /\ config.mode = "ECB" => DecryptBlock(Key, c) = p
         /\ config.mode = "CBC" => DecryptBlock(Key, c) = XorBytes(p, reg)
         /\ Xors(config) => keystream = KeystreamOf(config, reg)
         /\ config.mode \in {"CFB", "OFB", "CTR"} => DecryptBlock(Key, keystream) = reg
         /\ config.mode = "CTRGladman" => DecryptBlock(Key, keystream) = IncCounter(reg)
    BY <2>1, <2>5, BlockOfMode
  <2>11. config.mode = "Stream" => keystream = SubSeq(EncryptBlock(Key, reg), 1, 4)
    BY <2>10 DEF Xors, KeystreamOf
  <2> HIDE DEF keystream
  <2>12. CASE config.mode = "ECB"
    BY <2>10, <2>12 DEF block, c, p
  <2>13. CASE config.mode = "CBC"
    BY <2>8, <2>10, <2>13 DEF block, c, p, back
  <2>14. CASE config.mode = "CFB"
    BY <2>8, <2>10, <2>14 DEF block, c, p, back, keystream
  <2>15. CASE config.mode = "OFB"
    BY <2>8, <2>10, <2>15 DEF block, c, p, back, source, keystream
  <2>16. CASE config.mode = "Stream"
    BY <2>9, <2>11, <2>16 DEF block, c, p, keystream
  <2>17. CASE config.mode = "CTR"
    BY <2>9, <2>10, <2>17 DEF block, c, p, keystream
  <2>18. CASE config.mode = "CTRGladman"
    BY <2>9, <2>10, <2>18 DEF block, c, p, keystream
  <2> QED
    BY <2>1, <2>12, <2>13, <2>14, <2>15, <2>16, <2>17, <2>18 DEF Modes
<1> QED
  BY <1>1, PipeInvariant, PTL

-----------------------------------------------------------------------------
(* The refinement                                                          *)

(* The beginning of a beginning is a beginning.                            *)
LEMMA PrefixOfPrefix ==
  ASSUME NEW s \in Seq(Byte), NEW n \in 0 .. Len(s), NEW k \in 0 .. n
  PROVE  /\ SubSeq(SubSeq(s, 1, n), 1, k) = SubSeq(s, 1, k)
         /\ Len(SubSeq(s, 1, n)) = n
<1> DEFINE u == SubSeq(s, 1, n)
           a == SubSeq(u, 1, k)
           b == SubSeq(s, 1, k)
<1>1. u \in Seq(Byte) /\ Len(u) = n /\ \A i \in 1 .. n : u[i] = s[i]
  BY PrefixIs
<1>2. k \in 0 .. Len(s) /\ \A i \in 1 .. k : i \in 1 .. n
  OBVIOUS
<1> HIDE DEF u
<1>3. a \in Seq(Byte) /\ Len(a) = k /\ \A i \in 1 .. k : a[i] = u[i]
  BY <1>1, PrefixIs
<1>4. b \in Seq(Byte) /\ Len(b) = k /\ \A i \in 1 .. k : b[i] = s[i]
  BY <1>2, PrefixIs
<1> HIDE DEF a, b
<1>5. \A i \in 1 .. k : a[i] = b[i]
  BY <1>1, <1>2, <1>3, <1>4
<1>6. a = b
  <2>1. Len(a) = Len(b) /\ \A i \in 1 .. Len(a) : a[i] = b[i]
    BY <1>3, <1>4, <1>5
  <2> QED
    BY <1>3, <1>4, <2>1, SeqEqual
<1> QED
  BY <1>1, <1>6 DEF u, a, b

(* What the decryptor has returned is the beginning of the message.        *)
Got(n) == plain = SubSeq(SentBytes, 1, n) /\ n \in 0 .. sent /\ Len(plain) = n

(* While it is open the decryptor has returned the blocks that are gone.   *)
LEMMA GotIs ==
  ASSUME IsACipher, PipeInv
  PROVE  /\ dec.status = "open" => Got(Times(Gone(config, read), SizeOf(config)))
         /\ SentBytes \in Seq(Byte) /\ Len(SentBytes) = sent
<1>1. /\ config \in Configs /\ sent \in 0 .. Len(Message) /\ out \in Seq(Byte)
      /\ read \in 0 .. Len(out) /\ Message \in Seq(Byte)
  BY PipeAssumption DEF PipeInv, PipeType
<1>2. SentBytes \in Seq(Byte) /\ Len(SentBytes) = sent
  BY <1>1, PrefixIs DEF SentBytes
<1>3. ASSUME dec.status = "open"
      PROVE  Got(Times(Gone(config, read), SizeOf(config)))
  <2> DEFINE from == Times(Gone(config, read), SizeOf(config))
  <2>1. plain = SubSeq(Message, 1, from) /\ from <= sent
    BY <1>3 DEF PipeInv, DecOpen, DecHas
  <2>2. from \in Nat
    <3>1. read \in Nat
      BY <1>1
    <3>2. Gone(config, read) \in Nat
      BY <1>1, <3>1, GoneIs
    <3>3. SizeOf(config) \in Nat
      BY <1>1, ConfigIs
    <3> QED
      BY <3>2, <3>3, TimesIs
  <2> HIDE DEF from
  <2>3. from \in 0 .. sent /\ from \in 0 .. Len(Message)
    BY <1>1, <2>1, <2>2
  <2>4. SubSeq(SentBytes, 1, from) = SubSeq(Message, 1, from)
    BY <1>1, <2>3, PrefixOfPrefix DEF SentBytes
  <2>5. Len(SubSeq(Message, 1, from)) = from
    BY <1>1, <2>3, PrefixIs
  <2> QED
    BY <2>1, <2>3, <2>4, <2>5 DEF Got, from
<1> QED
  BY <1>2, <1>3

(* The message of no bytes is empty.                                       *)
LEMMA NoBytes ==
  /\ SubSeq(Message, 1, 0) = << >>
  /\ \A s \in Seq(Byte) : Len(s) = 0 => s = << >>
BY PipeAssumption

(* More of the message has been sent.                                      *)
LEMMA MoreIsSent ==
  ASSUME IsACipher, PipeInv, PipeInv', sent <= sent'
  PROVE  SentBytes' \in {m \in {SubSeq(Message, 1, n) : n \in 0 .. Len(Message)} :
                            /\ Len(SentBytes) <= Len(m)
                            /\ SubSeq(m, 1, Len(SentBytes)) = SentBytes}
<1>1. sent \in 0 .. Len(Message) /\ sent' \in 0 .. Len(Message) /\ Message \in Seq(Byte)
  BY PipeAssumption DEF PipeInv, PipeType
<1>2. sent \in 0 .. sent'
  BY <1>1
<1>3. SentBytes' = SubSeq(Message, 1, sent') /\ SentBytes = SubSeq(Message, 1, sent)
  BY DEF SentBytes
<1>4. /\ SubSeq(SubSeq(Message, 1, sent'), 1, sent) = SubSeq(Message, 1, sent)
      /\ Len(SubSeq(Message, 1, sent')) = sent'
  BY <1>1, <1>2, PrefixOfPrefix
<1>5. Len(SubSeq(Message, 1, sent)) = sent
  BY <1>1, PrefixIs
<1> QED
  BY <1>1, <1>3, <1>4, <1>5

(* The two ends implement the pipe of MessagePipe: every step is one of    *)
(* the pipe or none.                                                       *)
THEOREM EndsImplementPipe ==
  ASSUME IsACipher
  PROVE  Spec => ImplementsPipe
<1>1. Init => Pipe!Init
  <2> SUFFICES ASSUME Init PROVE Pipe!Init
    OBVIOUS
  <2>1. sent = 0 /\ plain = << >> /\ enc.status = "open"
    BY DEF Init, Fresh
  <2> QED
    BY <2>1, NoBytes DEF Pipe!Init, SentBytes
<1>2. PipeInv /\ PipeInv' /\ [Next]_vars => [Pipe!Next]_(Pipe!vars)
  <2> SUFFICES ASSUME PipeInv, PipeInv', [Next]_vars PROVE [Pipe!Next]_(Pipe!vars)
    OBVIOUS
  <2>1. /\ sent \in Nat /\ sent' \in Nat
        /\ enc.status \in {"open", "done"} /\ dec.status \in {"open", "done", "hung"}
        /\ config \in Configs /\ read \in Nat /\ out \in Seq(Byte)
    BY DEF PipeInv, PipeType
  <2>2. dec.status # "open" => enc.status = "done"
    BY DEF PipeInv, DecClosed
  <2>3. ASSUME NEW n \in Pieces, EncProcess(n) PROVE Pipe!Send
    <3>1. /\ sent' = sent + n /\ n \in Nat /\ UNCHANGED plain
          /\ enc.status = "open" /\ enc'.status = "open"
      BY <2>3, PipeAssumption DEF EncProcess, After
    <3>2. sent <= sent'
      BY <2>1, <3>1
    <3> QED
      BY <3>1, <3>2, MoreIsSent DEF Pipe!Send, Pipe!Prefix
  <2>4. ASSUME NEW n \in Pieces \cup {0}, EncFinalize(n) PROVE Pipe!EndSend
    <3>1. /\ sent' = sent + n /\ n \in Nat /\ UNCHANGED <<plain, dec>>
          /\ enc.status = "open" /\ enc'.status = "done"
      BY <2>4, PipeAssumption DEF EncFinalize, After
    <3>2. sent <= sent'
      BY <2>1, <3>1
    <3>3. dec'.status = "open"
      BY <2>1, <2>2, <3>1
    <3> QED
      BY <3>1, <3>2, <3>3, MoreIsSent DEF Pipe!EndSend, Pipe!Prefix
  <2>5. ASSUME NEW n \in Pieces, DecProcess(n) PROVE Pipe!Deliver
    <3> DEFINE from == Times(Gone(config, read), SizeOf(config))
               to == Times(Gone(config, read'), SizeOf(config))
    <3>1. /\ read' = read + n /\ n \in Nat /\ UNCHANGED <<enc, sent, config>>
          /\ dec.status = "open" /\ dec'.status = "open"
      BY <2>5, PipeAssumption DEF DecProcess, After
    <3>2. Got(from) /\ Len(SentBytes) = sent
      BY <3>1, GotIs
    <3>3. plain' = SubSeq(Message, 1, to) /\ to <= sent
      BY <3>1 DEF PipeInv, DecOpen, DecHas
    <3>4. from <= to /\ to \in Nat
      <4>1. read' \in Nat /\ read <= read'
        BY <2>1, <3>1
      <4>2. Gone(config, read) \in Nat /\ Gone(config, read') \in Nat
        BY <2>1, <4>1, GoneIs
      <4>3. Gone(config, read) <= Gone(config, read')
        BY <2>1, <4>1, GoneGrows
      <4>4. SizeOf(config) \in Nat
        BY <2>1, ConfigIs
      <4>5. to \in Nat
        BY <4>2, <4>4, TimesIs
      <4> QED
        BY <4>2, <4>3, <4>4, <4>5, TimesGrow
    <3> HIDE DEF from, to
    <3>5. to \in Len(plain) .. Len(SentBytes)
      BY <2>1, <3>2, <3>3, <3>4 DEF Got
    <3>6. plain' = SubSeq(SentBytes, 1, to)
      <4>1. sent \in 0 .. Len(Message) /\ to \in 0 .. sent
        BY <2>1, <3>3, <3>4 DEF PipeInv, PipeType
      <4> QED
        BY <3>3, <4>1, PrefixOfPrefix, PipeAssumption DEF SentBytes
    <3>7. SentBytes' = SentBytes
      BY <3>1 DEF SentBytes
    <3> QED
      BY <3>1, <3>5, <3>6, <3>7 DEF Pipe!Deliver, Pipe!Prefix
  <2>6. ASSUME DecFinalize PROVE [Pipe!Next]_(Pipe!vars)
    <3> DEFINE hangs == config.padding = "ZeroPadding" /\ sent = 0
    <3>1. /\ dec'.status = IF hangs THEN "hung" ELSE "done"
          /\ plain' = IF hangs THEN << >> ELSE SentBytes
      BY <2>6, DecFinalizeEnds
    <3>2. enc.status = "done" /\ dec.status = "open" /\ UNCHANGED <<enc, sent>>
      BY <2>6 DEF DecFinalize
    <3>3. SentBytes' = SentBytes
      BY <3>2 DEF SentBytes
    <3>4. CASE hangs
      <4>1. plain = << >>
        <5>1. Got(Times(Gone(config, read), SizeOf(config))) /\ SentBytes \in Seq(Byte)
          BY <3>2, GotIs
        <5>2. SentBytes = << >>
          BY <3>4, NoBytes DEF SentBytes
        <5>3. plain = SubSeq(SentBytes, 1, 0)
          BY <3>4, <5>1 DEF Got
        <5> QED
          BY <5>2, <5>3
      <4> QED
        BY <3>1, <3>2, <3>3, <3>4, <4>1 DEF Pipe!vars
    <3>5. CASE ~ hangs
      <4>1. Pipe!EndReceive
        BY <3>1, <3>2, <3>3, <3>5 DEF Pipe!EndReceive
      <4> QED
        BY <4>1 DEF Pipe!Next
    <3> QED
      BY <3>4, <3>5
  <2>7. ASSUME Reset PROVE Pipe!Restart
    <3>1. sent' = 0 /\ plain' = << >> /\ enc'.status = "open"
      BY <2>7 DEF Reset, Fresh
    <3>2. SentBytes' = << >>
      BY <3>1, NoBytes DEF SentBytes
    <3> QED
      BY <3>1, <3>2 DEF Pipe!Restart
  <2>8. ASSUME UNCHANGED vars PROVE UNCHANGED Pipe!vars
    BY <2>8 DEF vars, Pipe!vars, SentBytes
  <2> QED
    BY <2>3, <2>4, <2>5, <2>6, <2>7, <2>8 DEF Next, Pipe!Next
<1> QED
  BY <1>1, <1>2, PipeInvariant, PTL DEF Spec, ImplementsPipe, Pipe!Spec

=============================================================================
