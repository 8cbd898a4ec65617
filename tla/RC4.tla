--------------------------------- MODULE RC4 --------------------------------
(***************************************************************************)
(* The stream cipher RC4 and its variant that drops the first words of the *)
(* keystream.  The state is a permutation of the bytes and two places.     *)
(***************************************************************************)
EXTENDS WordArrays

Swap(s, i, j) == [s EXCEPT ![i] = s[j], ![j] = s[i]]

RC4Reset(key) ==
    LET setup(at, n) ==
            LET i == n - 1
                j == (at.j + at.s[i] + At(key, (i % key.sig) + 1)) % 256
            IN  [s |-> Swap(at.s, i, j), j |-> j]
    IN  [s |-> Repeat(setup, [s |-> [b \in Byte |-> b], j |-> 0], 256).s,
         i |-> 0, j |-> 0, word |-> << >>]

(* One word of keystream, in word.                                         *)
KeystreamWord(state) ==
    LET next(at, n) ==
            LET i == (at.i + 1) % 256
                j == (at.j + at.s[i]) % 256
                s == Swap(at.s, i, j)
            IN  [s |-> s, i |-> i, j |-> j,
                 word |-> Append(at.word, s[(s[i] + s[j]) % 256])]
    IN  Repeat(next, [state EXCEPT !.word = << >>], 4)

RC4DropReset(key, drop) ==
    LET dropped(state, n) == KeystreamWord(state)
    IN  Repeat(dropped, RC4Reset(key), drop)

(* The keystream of n words.                                               *)
Keystream(state, n) ==
    LET more(at, k) ==
            LET state2 == KeystreamWord(at.state)
            IN  [state |-> state2, stream |-> at.stream \o state2.word]
    IN  Repeat(more, [state |-> state, stream |-> << >>], n).stream

=============================================================================
