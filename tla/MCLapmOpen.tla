----------------------------- MODULE MCLapmOpen -----------------------------
(***************************************************************************)
(* An instance of LapmOpen: a peer that sends every kind of frame with     *)
(* every number, good and bad V.42 bis values, and the P/F bits that the   *)
(* code tells apart.  An S frame without the bit is the same to it as      *)
(* command and as response; of the frames it ignores there is one or two.  *)
(***************************************************************************)
EXTENDS LapmOpen

MCOffers == {{"transmit", "receive"}}

MCXid(k, c) == [kTx |-> 1, kRx |-> k, n401Tx |-> 1, n401Rx |-> 1, comp |-> c]
MCOneWay == [asks |-> TRUE, ways |-> {"fromInitiator"}, valid |-> TRUE]

MCXids ==
  {MCXid(0, NoCompression), MCXid(9, NoCompression),
   MCXid(1, [MCOneWay EXCEPT !.valid = FALSE])}

MCPeerFrames ==
  {f \in PlainFrame : \/ f.kind \in {"UA", "DM"} /\ ~f.command
                      \/ f.kind \in {"SABME", "DISC", "UNDEFINED"} /\ f.command /\ f.pf
                      \/ f.kind \in {"FRMR", "TEST"} /\ ~f.command /\ f.pf}
    \cup {XidOf(TRUE, x) : x \in MCXids} \cup {XidOf(FALSE, MCXid(9, NoCompression))}
    \cup {[kind |-> "UI", command |-> TRUE, pf |-> FALSE,
           signal |-> "other", bit |-> FALSE]}
    \cup {f \in SFrame : \/ f.kind # "SREJ" /\ (f.command => f.pf)
                         \/ f.kind = "SREJ" /\ f.command /\ f.pf /\ f.nr = 0}
    \cup {f \in [kind : {"I"}, command : BOOLEAN, pf : BOOLEAN,
                 ns : Numbers, nr : Numbers, info : {<<d>> : d \in Data}] :
            f.command \/ (f.ns = 0 /\ f.nr = 0 /\ ~f.pf)}
=============================================================================
