---------------------------- MODULE MCCipherPipe ----------------------------
(***************************************************************************)
(* A block cipher of eight bytes that is small enough to compute with: the *)
(* bytes rotate and a different multiple of the key is added to each.      *)
(***************************************************************************)
EXTENDS CipherPipe

Blocks == 1 .. 8

ToyEncrypt(key, block) ==
    [i \in Blocks |-> (block[(i % 8) + 1] + key * i) % 256]

ToyDecrypt(key, block) ==
    [i \in Blocks |->
        LET j == IF i = 1 THEN 8 ELSE i - 1 IN (block[j] + 256 - key * j) % 256]

(* Two blocks and a byte, with bytes a padding could be taken for.         *)
MCMessage == <<0, 128, 5, 6, 1, 8, 0, 255, 2, 128, 0, 0, 3, 200, 7, 9, 1>>

MCPieces == {1, 3, 8, 11}

(* Both counters wrap within the message.                                  *)
MCIv == <<254, 255, 255, 255, 255, 255, 255, 255>>

=============================================================================
