----------------------------- MODULE Messages ------------------------------
(* What a websocket promises: messages arrive whole, once and in order,      *)
(* until the connection breaks.                                              *)
EXTENDS Naturals, Sequences
CONSTANT Message
VARIABLES sent, got
Init == sent = <<>> /\ got = <<>>
Send == \E m \in Message : sent' = Append(sent, m) /\ UNCHANGED got
Take == /\ Len(got) < Len(sent)
        /\ got' = Append(got, sent[Len(got) + 1]) /\ UNCHANGED sent
Spec == Init /\ [][Send \/ Take]_<<sent, got>>
=============================================================================
