----------------------------- MODULE MessagePipe ----------------------------
(***************************************************************************)
(* What a caller is promised by an encryptor and the decryptor that reads  *)
(* its output: a pipe.  Pieces of any length go in at one end; at the      *)
(* other end what has gone in comes out, in order, late but unchanged; and *)
(* when both ends have been finished all of it is there.                   *)
(***************************************************************************)
EXTENDS Integers, Sequences

CONSTANT Messages  \* the messages a sender may have sent so far

VARIABLES sent, got, phase

vars == <<sent, got, phase>>

Prefix(s, n) == SubSeq(s, 1, n)

Init == sent = << >> /\ got = << >> /\ phase = "open"

Send ==
    /\ phase = "open"
    /\ sent' \in {m \in Messages :
                    Len(sent) <= Len(m) /\ Prefix(m, Len(sent)) = sent}
    /\ UNCHANGED <<got, phase>>

(* The sender ends the message, with a last piece or without one.          *)
EndSend ==
    /\ phase = "open"
    /\ sent' \in {m \in Messages :
                    Len(sent) <= Len(m) /\ Prefix(m, Len(sent)) = sent}
    /\ phase' = "ended"
    /\ UNCHANGED got

Deliver ==
    /\ phase # "received"
    /\ \E n \in Len(got) .. Len(sent) : got' = Prefix(sent, n)
    /\ UNCHANGED <<sent, phase>>

EndReceive ==
    /\ phase = "ended"
    /\ phase' = "received"
    /\ got' = sent
    /\ UNCHANGED sent

Restart == sent' = << >> /\ got' = << >> /\ phase' = "open"

Next == Send \/ EndSend \/ Deliver \/ EndReceive \/ Restart

Spec == Init /\ [][Next]_vars

=============================================================================
