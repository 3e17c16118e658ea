----------------------------- MODULE PduChannel -----------------------------
(***************************************************************************)
(* What one direction of a connection promises to the code above it: the   *)
(* PDUs given to Send() are handled by the other end whole, in order, once *)
(* each, and in the end all of them.                                       *)
(***************************************************************************)
EXTENDS Naturals, Sequences

CONSTANT MaxPdus  \* bound on the number of PDUs sent, which are 1, 2, 3...

VARIABLES
  sent,  \* how many were given to Send()
  got    \* those handled, in the order they were

chanVars == <<sent, got>>

ChanInit == sent = 0 /\ got = <<>>

Put ==
  /\ sent < MaxPdus
  /\ sent' = sent + 1
  /\ UNCHANGED got

\* One event at the receiver may complete several PDUs.
Take ==
  /\ \E n \in (Len(got) + 1)..sent : got' = [i \in 1..n |-> i]
  /\ UNCHANGED sent

ChanSafety == ChanInit /\ [][Put \/ Take]_chanVars

\* A PDU that was sent is handled in the end.
ChanLiveness == WF_chanVars(Take)

ChanSpec == ChanSafety /\ ChanLiveness
=============================================================================
