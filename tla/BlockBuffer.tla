----------------------------- MODULE BlockBuffer ----------------------------
(***************************************************************************)
(* BufferedBlockAlgorithm, the part of the library that hashers and        *)
(* ciphers share: data is appended in pieces of any length and processed   *)
(* in whole blocks, less the blocks that must stay in the buffer.          *)
(* A buffer is its data (a word array) and the count of bytes ever given.  *)
(***************************************************************************)
EXTENDS WordArrays

EmptyBuffer == [data |-> NoWords, count |-> 0]

(* _append: the piece joins the data; the count grows by its bytes.        *)
AppendTo(buffer, piece) ==
    [data |-> Concat(buffer.data, piece), count |-> buffer.count + piece.sig]

(* Mutant: a block that is just complete waits for another byte.           *)
BlocksReadyVariant(sig, blockBytes, minBlocks, flush) ==
    LET whole == (sig - 1) \div blockBytes
    IN  IF flush THEN RoundUp(sig, blockBytes) \div blockBytes
        ELSE IF whole > minBlocks THEN whole - minBlocks ELSE 0

(* Flushing takes a partial block too; otherwise minBlocks stay behind.    *)
BlocksReady(sig, blockBytes, minBlocks, flush) ==
    LET whole == sig \div blockBytes
    IN  IF flush THEN RoundUp(sig, blockBytes) \div blockBytes
        ELSE IF whole > minBlocks THEN whole - minBlocks ELSE 0

BlockAt(data, k, blockBytes) == Slice(data, k * blockBytes, (k + 1) * blockBytes)

(* One block has been processed: what came out, and the next register.     *)
Step(out, reg) == [out |-> out, reg |-> reg]

(* What the blocks that are ready have in significant bytes ...            *)
Taken(data, ready, blockBytes) == Least(ready * blockBytes, data.sig)

(* ... and what they leave behind.                                         *)
Spliced(data, ready, blockBytes) ==
    WordArray(SubSeq(data.mem, ready * blockBytes + 1, Len(data.mem)),
              data.sig - Taken(data, ready, blockBytes))

(* _process: the blocks that are ready go one after the other through      *)
(* step(reg, block), which yields the processed block and the next         *)
(* register; they leave the buffer and are returned.                       *)
Process(buffer, reg, step(_, _), blockBytes, minBlocks, flush) ==
    LET data == buffer.data
        ready == BlocksReady(data.sig, blockBytes, minBlocks, flush)
    IN  Applied(
            LAMBDA run :
                [buffer |-> [buffer EXCEPT !.data = Spliced(data, ready, blockBytes)],
                 reg |-> run.reg,
                 result |-> WordArray(run.out, Taken(data, ready, blockBytes))],
            Repeat(LAMBDA before, k :
                       Applied(LAMBDA after : [reg |-> after.reg,
                                               out |-> before.out \o after.out],
                               step(before.reg, BlockAt(data, k - 1, blockBytes))),
                   [reg |-> reg, out |-> << >>], ready))

=============================================================================
