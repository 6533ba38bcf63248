--------------------------- MODULE OrderedDelivery ---------------------------
(***************************************************************************)
(* What each direction of the link between the coordination server and an  *)
(* agent host promises: the receiver applies the sender's messages in the  *)
(* order in which they were sent, each of them once, whatever the link     *)
(* does in between.                                                        *)
(***************************************************************************)
EXTENDS Sequences, Naturals

VARIABLES
    sent,        \* every message the sender has stored, in order
    delivered    \* the messages the receiver has applied, in order

Init ==
    /\ sent = <<>>
    /\ delivered = <<>>

\* The sender stores one message or more; it never withdraws one.
Send ==
    /\ Len(sent') >= Len(sent)
    /\ SubSeq(sent', 1, Len(sent)) = sent
    /\ UNCHANGED delivered

\* The receiver applies the next message.
Deliver ==
    /\ Len(delivered) < Len(sent)
    /\ delivered' = Append(delivered, sent[Len(delivered) + 1])
    /\ UNCHANGED sent

Next == Send \/ Deliver

Spec == Init /\ [][Next]_<<sent, delivered>>
==============================================================================
