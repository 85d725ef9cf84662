------------------------------ MODULE LossyLine ------------------------------
(***************************************************************************)
(* What the framing of the link promises to the modules above it: a         *)
(* message that is sent arrives whole or not at all, at most once, and      *)
(* those of one type arrive in the order of sending.  A text that is sent   *)
(* again may come after messages of other types that were sent after it.    *)
(***************************************************************************)
EXTENDS Naturals, Sequences

CONSTANT Message

VARIABLES
  sent,  \* the messages sent, oldest first
  got    \* the messages delivered, oldest first, each with its place in sent

vars == <<sent, got>>

Init == sent = <<>> /\ got = <<>>

Send == \E m \in Message : sent' = Append(sent, m) /\ UNCHANGED got

\* The messages of the type between the last one delivered and this one are
\* lost.
Deliver ==
  \E n \in DOMAIN sent :
    /\ \A k \in DOMAIN got : got[k].message.type = sent[n].type => got[k].of < n
    /\ got' = Append(got, [of |-> n, message |-> sent[n]])
    /\ UNCHANGED sent

Next == Send \/ Deliver

Spec == Init /\ [][Next]_vars
=============================================================================
