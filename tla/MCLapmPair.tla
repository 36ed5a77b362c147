----------------------------- MODULE MCLapmPair -----------------------------
(***************************************************************************)
(* Instances of LapmPair.  The offers differ, so that one direction of      *)
(* V.42 bis is agreed on and the other is not.                              *)
(***************************************************************************)
EXTENDS LapmPair

MCOffer == [e \in Ends |-> IF e = "caller" THEN {"transmit", "receive"}
                                           ELSE {"transmit"}]

Sends(c, a) == [e \in Ends |-> IF e = "caller" THEN c ELSE a]
SendsOne == Sends(4, 1)
=============================================================================
