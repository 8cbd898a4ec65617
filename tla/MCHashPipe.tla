----------------------------- MODULE MCHashPipe -----------------------------
(***************************************************************************)
(* A compression function small enough to compute with: the state is a     *)
(* number that depends on every byte of the block and on its place.        *)
(***************************************************************************)
EXTENDS HashPipe, Functions

ToyState == 4711

ToyCompress(state, block) ==
    (state * 31 + SumFunction([i \in DOMAIN block |-> block[i] * (i * i + 7)])) % 65521

ToyBytes(state, n) == [i \in 1 .. n |-> (state \div i + state * i) % 256]

MCMessage == [i \in 1 .. 128 |-> (37 * i) % 256]

(* A short key, and one longer than every block, with slack and without.   *)
MCKeys == {Filled(<<1, 2, 3>>, 9), OfBytes([i \in 1 .. 145 |-> i]),
           Filled([i \in 1 .. 145 |-> i], 9)}

MCAlgos == {MD5, SHA1, SHA224, SHA512, SHA384, RIPEMD160, SHA3(64), SHA3(28)}

=============================================================================
