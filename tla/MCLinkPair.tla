----------------------------- MODULE MCLinkPair -----------------------------
(***************************************************************************)
(* Instances of LinkPair: which setups meet, and what the computers send.  *)
(***************************************************************************)
EXTENDS LinkPair

Both == {"transmit", "receive"}
Plain == [lapm |-> FALSE, detection |-> FALSE, required |-> FALSE,
          offer |-> {}, offerRequired |-> FALSE]
Detecting == [Plain EXCEPT !.lapm = TRUE, !.detection = TRUE]
Flagging == [Plain EXCEPT !.lapm = TRUE]
Compressing == [Detecting EXCEPT !.offer = Both]
CompressingOneWay == [Detecting EXCEPT !.offer = {"transmit"}]
Insisting == [Compressing EXCEPT !.offerRequired = TRUE]

Each(c, a) == [e \in Ends |-> IF e = "caller" THEN c ELSE a]
Call(c, a, slow, ctext, atext, most) ==
  [setups |-> Each(c, a), slow |-> slow, texts |-> Each(ctext, atext),
   upsets |-> most]

\* Every meeting of the setups without compression, at either speed; one
\* direction of compression agreed on; and both, which one end insists on, not
\* agreed on.
SafetyCalls ==
  {Call(c, a, slow, <<"a">>, <<"a">>, 1) :
     c \in {Plain, Detecting, Flagging}, a \in {Plain, Detecting}, slow \in BOOLEAN}
  \cup {Call(c, CompressingOneWay, FALSE, <<"a", "b">>, <<"a">>, 1) :
          c \in {Compressing, Insisting}}

LiveCalls ==
  {Call(Detecting, a, FALSE, <<"a">>, <<>>, 1) : a \in {Detecting, Plain}}
  \cup {Call(Compressing, Compressing, FALSE, <<"a">>, <<>>, 0)}

Detection == {Call(Detecting, Detecting, FALSE, <<>>, <<>>, 0)}
=============================================================================
