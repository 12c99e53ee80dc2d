----------------------------- MODULE PrefixChannel -----------------------------
(* What one direction of an encrypted session promises: the receiver obtains a *)
(* prefix of what the sender submitted, in the order of submission, each item  *)
(* at most once.  It does not promise that the whole of it arrives.            *)
EXTENDS Naturals, Sequences

CONSTANT Plain      \* what is submitted

VARIABLES sent,     \* everything submitted so far, in order
          got       \* everything handed to the receiving application, in order

vars == <<sent, got>>

Init == /\ sent = <<>>
        /\ got = <<>>

Submit(p) == /\ sent' = Append(sent, p)
             /\ UNCHANGED got

Hand == /\ Len(got) < Len(sent)
        /\ got' = Append(got, sent[Len(got) + 1])
        /\ UNCHANGED sent

Next == Hand \/ \E p \in Plain : Submit(p)

Spec == Init /\ [][Next]_vars

================================================================================
