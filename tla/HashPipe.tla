------------------------------ MODULE HashPipe ------------------------------
(***************************************************************************)
(* A hasher, alone or inside an HMAC, that a caller feeds with update in   *)
(* pieces of any length, ends with finalize and starts again with reset.   *)
(* The caller resets after finalize, which is read-once.                   *)
(***************************************************************************)
EXTENDS HashStandards

CONSTANTS Message,  \* the bytes a caller may feed, from the first on
          Pieces,   \* the lengths of the pieces
          Fills,    \* what may fill up the last word of a piece
          Algos,    \* the hashers
          Keys      \* the keys of an HMAC, as word arrays

(* The length of a message is noted in the bits of three bytes.            *)
LengthLimit == 2097152

(* What the hashers, messages and keys have in common: blocks of whole     *)
(* words with room for the length, which is noted low end first in MD5 and *)
(* RIPEMD-160 alone, and a final state of whole words that is no longer    *)
(* than a block; keys have as many words as their bytes take, as every     *)
(* encoder makes them, and nothing that is hashed is longer than the       *)
(* limit.                                                                  *)
IsHasher(a) ==
    /\ a.block \in {8 * words : words \in 8 .. 64}
    /\ a.full \in {4 * words : words \in 1 .. 64} /\ a.full <= a.block
    /\ a.size \in 1 .. a.full
    /\ a.length \in {"big", "little", "low", "none"}
    /\ a.length \in {"little", "low"} => a.block = 64

ASSUME HashAssumption ==
    /\ Message \in Seq(Byte)
    /\ Pieces \subseteq Nat /\ Fills \subseteq Byte
    /\ \A a \in Algos : IsHasher(a) /\ a.block + Len(Message) < LengthLimit
    /\ \A k \in Keys : /\ k.mem \in Seq(Byte) /\ k.sig \in Nat /\ k.sig < LengthLimit
                       /\ Len(k.mem) = RoundUp(k.sig, 4)

NoKey == [none |-> TRUE]

VARIABLES algo, key,  \* key is NoKey for a hasher on its own
          object,     \* the hasher or the HMAC
          given,      \* how many bytes it was given since the last reset
          loose,      \* finalize met bytes past the significant ones
          result      \* the hash, or NoWords before finalize

vars == <<algo, key, object, given, loose, result>>

IsMac == key # NoKey

Created(a, k) == IF k = NoKey THEN NewHasher ELSE NewMac(a, k)

Inner(o) == IF IsMac THEN o.hasher ELSE o

Given(o, piece) ==
    IF IsMac THEN MacUpdate(algo, o, piece) ELSE Update(algo, o, piece)

(* finalize without data appends nothing.                                  *)
Last(o, piece) ==
    IF piece.sig = 0 THEN o
    ELSE IF IsMac THEN [o EXCEPT !.hasher = WithPiece(@, piece)]
    ELSE WithPiece(o, piece)

IsLoose(data) == \E i \in data.sig + 1 .. Len(data.mem) : data.mem[i] # 0

Piece(n, fill) == Filled(SubSeq(Message, given + 1, given + n), fill)

-----------------------------------------------------------------------------
Init ==
    /\ algo \in Algos
    /\ key \in Keys \cup {NoKey}
    /\ object = Created(algo, key)
    /\ given = 0
    /\ loose = FALSE
    /\ result = NoWords

Feed(n, fill) ==
    /\ result = NoWords
    /\ given + n <= Len(Message)
    /\ object' = Given(object, Piece(n, fill))
    /\ given' = given + n
    /\ UNCHANGED <<algo, key, loose, result>>

Finalize(n, fill) ==
    /\ result = NoWords
    /\ given + n <= Len(Message)
    /\ given' = given + n
    /\ LET last == Last(object, Piece(n, fill))
           after == IF IsMac THEN MacFinalized(algo, last)
                    ELSE Finalized(algo, last)
       IN  /\ object' = after
           /\ loose' = IsLoose(Inner(last).buffer.data)
           /\ result' = DigestOf(algo, Inner(after))
    /\ UNCHANGED <<algo, key>>

Reset ==
    /\ object' = IF IsMac THEN MacReset(algo, object) ELSE NewHasher
    /\ given' = 0
    /\ loose' = FALSE
    /\ result' = NoWords
    /\ UNCHANGED <<algo, key>>

(* A piece of whole words has nothing to fill up.                          *)
FillsOf(n) == IF n % 4 = 0 THEN {0} ELSE Fills

Next ==
    \/ \E n \in Pieces : \E fill \in FillsOf(n) : Feed(n, fill)
    \/ \E n \in Pieces \cup {0} : \E fill \in FillsOf(n) : Finalize(n, fill)
    \/ Reset

Spec == Init /\ [][Next]_vars

-----------------------------------------------------------------------------
Fed == SubSeq(Message, 1, given)

-----------------------------------------------------------------------------
(* A hash is the standard one of all that was fed since the last reset,    *)
(* however it was cut into pieces, unless the last piece was given         *)
(* unclamped and lies on a word boundary.                                  *)
HashIsStandard ==
    result # NoWords /\ ~IsMac /\ ~loose => Bytes(result) = StandardHash(algo, Fed)

(* What an HMAC needs to be the standard one besides: a key that has to be *)
(* hashed meets the same condition, and the digest is all of the final     *)
(* state.  The digests of SHA-224, SHA-384 and 224-bit SHA-3 are cut by    *)
(* sigBytes alone, and the outer hash takes in what was cut off.           *)
MacKeyFits ==
    /\ key.sig > algo.block => ~IsLoose(key)
    /\ algo.size = algo.full

(* Then an HMAC is the standard one of all that was fed since the last     *)
(* reset, however it was cut into pieces (HMAC.init to HMAC.finalize).     *)
MacIsStandard ==
    result # NoWords /\ IsMac /\ ~loose /\ MacKeyFits =>
        Bytes(result) = StandardMac(algo, Bytes(key), Fed)

(* And only then: bytes past the significant ones that are hashed too      *)
(* (concat, _doFinalize, HMAC.init) show in what comes out, for a function *)
(* that tells the messages apart.                                          *)
SlackShows ==
    result # NoWords =>
        IF IsMac
        THEN loose \/ ~MacKeyFits =>
                 Bytes(result) # StandardMac(algo, Bytes(key), Fed)
        ELSE loose => Bytes(result) # StandardHash(algo, Fed)

=============================================================================
