----------------------------- MODULE CipherPipe -----------------------------
(***************************************************************************)
(* An encryptor and the decryptor that reads what it writes: Cipher,       *)
(* StreamCipher and BlockCipher over one buffer each.  The caller hands    *)
(* over data in pieces of any length with process, ends with finalize and  *)
(* may start again with reset.                                             *)
(*                                                                         *)
(* The caller respects what the library leaves to it: data is handed over  *)
(* after finalize only once the cipher has been reset, and the message     *)
(* fits its padding (CallerFits).                                          *)
(***************************************************************************)
EXTENDS BlockModes, Padding

CONSTANTS Message,      \* the bytes a caller may send, from the first on
          Pieces,       \* the lengths of the pieces
          Key, Iv,      \* the key and the initialisation vector of both ends
          BlockBytes,   \* of the block cipher
          Slack         \* what fills up the last word of a piece

(* Blocks are of whole words, of two at least (DES) and of fewer than the  *)
(* 256 bytes a padding byte can count; both ends are given one iv of a     *)
(* block.                                                                  *)
ASSUME PipeAssumption ==
    /\ Message \in Seq(Byte)
    /\ Pieces \subseteq Nat
    /\ BlockBytes \in {4 * words : words \in 2 .. 63}
    /\ Iv \in Seq(Byte) /\ Len(Iv) = BlockBytes
    /\ Slack \in Byte

VARIABLES config,       \* [mode, padding] of both ends
          enc, dec,     \* each end: [buffer, reg, status]
          sent,         \* how many bytes of Message the encryptor was given
          read,         \* how many bytes of out the decryptor was given
          out,          \* what the encryptor has returned
          plain         \* what the decryptor has returned

vars == <<config, enc, dec, sent, read, out, plain>>

Configs ==
    [mode : Modes, padding : Paddings] \cup {[mode |-> "Stream", padding |-> "None"]}

IsStream == config.mode = "Stream"

(* A stream cipher works on blocks of one word.                            *)
BlockSize == IF IsStream THEN 4 ELSE BlockBytes

(* A stream cipher xors a word of its keystream; here the keystream is the *)
(* block cipher applied to a counter.                                      *)
StreamStep(reg, block) ==
    Step(XorBytes(block, SubSeq(EncryptBlock(Key, reg), 1, 4)), NextCounter(reg))

(* A cipher is made for one direction, its xform mode.                     *)
Encryptor(cfg) == [xform |-> "encrypt", cfg |-> cfg]
Decryptor(cfg) == [xform |-> "decrypt", cfg |-> cfg]

DoProcessBlock(cipher, reg, block) ==
    IF cipher.cfg.mode = "Stream" THEN StreamStep(reg, block)
    ELSE IF cipher.xform = "encrypt" THEN ModeEncrypt(cipher.cfg.mode, Key, reg, block)
    ELSE ModeDecrypt(cipher.cfg.mode, Key, reg, block)

EncryptStep(reg, block) == DoProcessBlock(Encryptor(config), reg, block)

DecryptStep(reg, block) == DoProcessBlock(Decryptor(config), reg, block)

(* Only a block cipher's decryptor keeps a block back, for the unpadding.  *)
MinBufferSize == IF IsStream THEN 0 ELSE 1

Fresh == [buffer |-> EmptyBuffer, reg |-> Iv, status |-> "open"]

Piece(s, from, n) == Filled(SubSeq(s, from + 1, from + n), Slack)

(* Mutant: the piece given to finalize is dropped.                         *)
WithLastVariant(buffer, piece) == buffer

(* finalize may be called without data: then nothing is appended.          *)
WithLast(buffer, piece) ==
    IF piece.sig = 0 THEN buffer ELSE AppendTo(buffer, piece)

(* What process and finalize of either end come to.                        *)
Encrypted(end, piece) ==
    Process(AppendTo(end.buffer, piece), end.reg, EncryptStep, BlockSize, 0, FALSE)

EncryptedLast(end, piece) ==
    LET buffer == WithLast(end.buffer, piece)
        padded == IF IsStream THEN buffer.data
                  ELSE Pad(config.padding, buffer.data, BlockSize, Slack)
    IN  Process([buffer EXCEPT !.data = padded], end.reg, EncryptStep,
                BlockSize, 0, TRUE)

Decrypted(end, piece) ==
    Process(AppendTo(end.buffer, piece), end.reg, DecryptStep, BlockSize,
            MinBufferSize, FALSE)

DecryptedLast(end, piece) ==
    Process(WithLast(end.buffer, piece), end.reg, DecryptStep, BlockSize,
            MinBufferSize, TRUE)

After(processed, status) ==
    [buffer |-> processed.buffer, reg |-> processed.reg, status |-> status]

-----------------------------------------------------------------------------
(* Ciphers that only xor a keystream take any length.  Otherwise, without  *)
(* a padding, the message has to be whole blocks; and bytes that are 0 at  *)
(* the end of a message would be taken for zero padding.                   *)
CallerFits(n) ==
    /\ config.padding = "NoPadding" /\ config.mode \in {"ECB", "CBC"} =>
          n % BlockBytes = 0
    /\ config.padding = "ZeroPadding" /\ n > 0 => Message[n] # 0

Init ==
    /\ config \in Configs
    /\ enc = Fresh /\ dec = Fresh
    /\ sent = 0 /\ read = 0
    /\ out = << >> /\ plain = << >>

EncProcess(n) ==
    /\ enc.status = "open"
    /\ sent + n <= Len(Message)
    /\ LET processed == Encrypted(enc, Piece(Message, sent, n))
       IN  /\ enc' = After(processed, "open")
           /\ out' = out \o Bytes(processed.result)
    /\ sent' = sent + n
    /\ UNCHANGED <<config, dec, read, plain>>

EncFinalize(n) ==
    /\ enc.status = "open"
    /\ sent + n <= Len(Message)
    /\ CallerFits(sent + n)
    /\ LET processed == EncryptedLast(enc, Piece(Message, sent, n))
       IN  /\ enc' = After(processed, "done")
           /\ out' = out \o Bytes(processed.result)
    /\ sent' = sent + n
    /\ UNCHANGED <<config, dec, read, plain>>

DecProcess(n) ==
    /\ dec.status = "open"
    /\ read + n <= Len(out)
    /\ LET processed == Decrypted(dec, Piece(out, read, n))
       IN  /\ dec' = After(processed, "open")
           /\ plain' = plain \o Bytes(processed.result)
    /\ read' = read + n
    /\ UNCHANGED <<config, enc, sent, out>>

(* The last piece is all that is left of a finished ciphertext.  When the  *)
(* unpadding does not end, neither does the call, and it returns nothing.  *)
DecFinalize ==
    /\ enc.status = "done"
    /\ dec.status = "open"
    /\ LET processed == DecryptedLast(dec, Piece(out, read, Len(out) - read))
           returns == IsStream \/ UnpadEnds(config.padding, processed.result)
           data == IF IsStream THEN processed.result
                   ELSE Unpad(config.padding, processed.result)
       IN  IF returns
           THEN /\ dec' = After(processed, "done")
                /\ plain' = plain \o Bytes(data)
           ELSE /\ dec' = After(processed, "hung")
                /\ UNCHANGED plain
    /\ read' = Len(out)
    /\ UNCHANGED <<config, enc, sent, out>>

(* Both ends start the next message.  A call that does not return cannot   *)
(* be followed by one.                                                     *)
Reset ==
    /\ dec.status # "hung"
    /\ enc' = Fresh /\ dec' = Fresh
    /\ sent' = 0 /\ read' = 0
    /\ out' = << >> /\ plain' = << >>
    /\ UNCHANGED config

Next ==
    \/ \E n \in Pieces : EncProcess(n) \/ DecProcess(n)
    \/ \E n \in Pieces \cup {0} : EncFinalize(n)
    \/ DecFinalize
    \/ Reset

Spec == Init /\ [][Next]_vars

-----------------------------------------------------------------------------
(* Properties                                                              *)

SentBytes == SubSeq(Message, 1, sent)

(* The pieces cannot be told from the ciphertext: it is the one that a     *)
(* single call of the helper encrypt gives for the whole message.  What    *)
(* the words of a piece hold past its significant bytes does not matter.   *)
PiecesAreInvisible ==
    LET whole == Piece(Message, 0, sent)
        atOnce == IF enc.status = "open" THEN Encrypted(Fresh, whole)
                  ELSE EncryptedLast(Fresh, whole)
    IN  out = Bytes(atOnce.result)

(* The padding calls of ZeroPadding and Iso97971 walk back to a byte that  *)
(* is not 0.  Of the messages a caller may send, only the empty one leaves *)
(* the decryptor's finalize looping, and only under ZeroPadding.           *)
HangsOnlyOnNothing ==
    dec.status = "hung" <=>
        /\ config.padding = "ZeroPadding" /\ ~IsStream
        /\ sent = 0 /\ enc.status = "done"
        /\ dec.status # "open"

(* While open an encryptor and a stream cipher hold back less than a block *)
(* and a decryptor less than two: a caller who has handed n bytes over     *)
(* knows what it has got back.                                             *)
LagBounded ==
    /\ enc.status = "open" => sent - Len(out) \in 0 .. BlockSize - 1
    /\ dec.status = "open" =>
          read - Len(plain) \in 0 .. (IF IsStream THEN 1 ELSE 2) * BlockSize - 1

(* The counter after k blocks, as a sum: CTR counts in the last word, most *)
(* significant byte first, and Gladman's in the first two words, least     *)
(* significant byte first.  Halves keep the numbers small.                 *)
Halves(bytes, k) ==
    LET low == bytes[1] + 256 * bytes[2] + k
        high == bytes[3] + 256 * bytes[4] + low \div 65536
    IN  [bytes |-> <<low % 256, (low \div 256) % 256, high % 256, (high \div 256) % 256>>,
         carry |-> high \div 65536]

CounterAfter(k) ==
    IF config.mode = "CTRGladman"
    THEN LET first == Halves(SubSeq(Iv, 1, 4), k + 1)
         IN  first.bytes \o Halves(SubSeq(Iv, 5, 8), first.carry).bytes
                         \o SubSeq(Iv, 9, Len(Iv))
    ELSE LET n == Len(Iv)
             last == Halves(<<Iv[n], Iv[n - 1], Iv[n - 2], Iv[n - 3]>>, k).bytes
         IN  SubSeq(Iv, 1, n - 4) \o <<last[4], last[3], last[2], last[1]>>

(* The modes are the ones of the textbook: every whole block of ciphertext *)
(* is related to its block of plaintext and to the block before as the     *)
(* definition of the mode has it, the counters being sums that wrap.       *)
ModesAreStandard ==
    \A k \in 0 .. (sent \div BlockSize) - 1 :
        (k + 1) * BlockSize <= Len(out) =>
            LET block(s, j) ==
                    IF j < 0 THEN Iv
                    ELSE SubSeq(s, j * BlockSize + 1, (j + 1) * BlockSize)
                c == block(out, k)
                p == block(Message, k)
                keystream == XorBytes(c, p)
            IN  CASE config.mode = "ECB" -> DecryptBlock(Key, c) = p
                  [] config.mode = "CBC" ->
                       DecryptBlock(Key, c) = XorBytes(p, block(out, k - 1))
                  [] config.mode = "CFB" ->
                       DecryptBlock(Key, keystream) = block(out, k - 1)
                  [] config.mode = "OFB" ->
                       DecryptBlock(Key, keystream) =
                           IF k = 0 THEN Iv
                           ELSE XorBytes(block(out, k - 1), block(Message, k - 1))
                  [] config.mode = "Stream" ->
                       keystream = SubSeq(EncryptBlock(Key, CounterAfter(k)), 1, 4)
                  [] OTHER -> DecryptBlock(Key, keystream) = CounterAfter(k)

(* The pipe of MessagePipe is what the two ends implement: a decryptor     *)
(* that does not return has not received.                                  *)
Pipe == INSTANCE MessagePipe WITH
            Messages <- {SubSeq(Message, 1, n) : n \in 0 .. Len(Message)},
            sent <- SentBytes,
            got <- plain,
            phase <- IF enc.status = "open" THEN "open"
                     ELSE IF dec.status = "done" THEN "received" ELSE "ended"

(* Every step of the two ends is a step of the pipe or none at all.        *)
ImplementsPipe == Pipe!Spec

=============================================================================
