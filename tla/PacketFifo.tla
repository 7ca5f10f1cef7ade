----------------------------- MODULE PacketFifo -----------------------------
(***************************************************************************)
(* What the framing promises: the packets come out in the order they went  *)
(* in, whole, none twice and none skipped.                                 *)
(***************************************************************************)
EXTENDS Naturals, Sequences

VARIABLES sent,         \* the packets put in
          got           \* the packets taken out

Init == sent = <<>> /\ got = <<>>

Put == Len(sent') > Len(sent) /\ SubSeq(sent', 1, Len(sent)) = sent

Get == Len(got') > Len(got) /\ SubSeq(got', 1, Len(got)) = got

\* What has come out never runs ahead of what went in, nor differs from it.
InOrder == Len(got) <= Len(sent) /\ SubSeq(sent, 1, Len(got)) = got

Next ==
    /\ \/ Put /\ UNCHANGED got
       \/ Get /\ UNCHANGED sent
    /\ InOrder'

Spec == Init /\ [][Next]_<<sent, got>>
=============================================================================
