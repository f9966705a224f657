------------------------------ MODULE BytePipe ------------------------------
(***************************************************************************)
(* What one direction of a relayed connection promises its two ends: the   *)
(* receiver gets the bytes the sender sent, each once and in order, up to  *)
(* some point, and nothing after the pipe has gone down.  Which byte is    *)
(* the last one is not promised.                                           *)
(***************************************************************************)
EXTENDS Naturals, Sequences

VARIABLES sent,  \* bytes the sending end has sent
          got,   \* bytes delivered to the receiving end
          up     \* the pipe still carries bytes

vars == <<sent, got, up>>

Init == sent = <<>> /\ got = <<>> /\ up = TRUE

\* The sender does not know whether the pipe is still up.
Push ==
    /\ Len(sent') = Len(sent) + 1 /\ SubSeq(sent', 1, Len(sent)) = sent
    /\ UNCHANGED <<got, up>>

\* Delivery extends what was got by the next bytes of what was sent; the pipe
\* may go down in the middle of a write.
Deliver ==
    /\ up
    /\ \E n \in Len(got)..Len(sent) : got' = SubSeq(sent, 1, n)
    /\ up' \in BOOLEAN
    /\ sent' = sent

Next == Push \/ Deliver

Spec == Init /\ [][Next]_vars
=============================================================================
