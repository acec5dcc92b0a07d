---------------------------- MODULE PacketChannel ----------------------------
(***************************************************************************)
(* What a connection between two endpoints promises the handlers on top of *)
(* it: the packets handed to onRead are the packets that were given to     *)
(* send, each whole, once and in order, until the connection ends; from    *)
(* then on there are none.                                                 *)
(***************************************************************************)
EXTENDS Naturals, Sequences

CONSTANT Packets

VARIABLES
    sent,   \* packets given to send
    got,    \* packets handed to onRead
    open    \* the receiver has the connection

chanVars == <<sent, got, open>>

Init == sent = <<>> /\ got = <<>> /\ open = TRUE

\* The sender need not know that the connection has ended.
Send ==
    /\ sent' \in Seq(Packets) /\ Len(sent') = Len(sent) + 1
    /\ \A i \in 1 .. Len(sent) : sent'[i] = sent[i]
    /\ UNCHANGED <<got, open>>

Deliver ==
    /\ open /\ Len(got) < Len(sent)
    /\ got' = Append(got, sent[Len(got) + 1])
    /\ UNCHANGED <<sent, open>>

End ==
    /\ open /\ open' = FALSE
    /\ UNCHANGED <<sent, got>>

Next == Send \/ Deliver \/ End

Spec == Init /\ [][Next]_chanVars
=============================================================================
