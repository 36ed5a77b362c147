------------------------------ MODULE MCCalls -------------------------------
(***************************************************************************)
(* Two dials and two callers by SIP; four dials over the loopback; two     *)
(* ends that may dial each other over the wire, and a third that dials one *)
(* of them; and an RTP stream that begins shortly before its sequence      *)
(* numbers and timestamps wrap, pauses once without leaving a gap in its   *)
(* numbers, and jumps once to other numbers: the network may turn back     *)
(* over that jump once.                                                    *)
(***************************************************************************)
EXTENDS Calls

CONSTANTS home, office, club

MCPeer == [e \in Ends |-> IF e = office THEN home ELSE office]
\* One end that dials twice, or three times with nothing lost, two that dial each
\* other, two that dial a third.
MCPlans ==
  {[dials |-> [e \in Ends |-> IF e = home THEN 2 ELSE 0], upsets |-> 1],
   [dials |-> [e \in Ends |-> IF e = home THEN 3 ELSE 0], upsets |-> 0],
   [dials |-> [e \in Ends |-> IF e = club THEN 0 ELSE 1], upsets |-> 1],
   [dials |-> [e \in Ends |-> IF e = office THEN 0 ELSE 1], upsets |-> 0]}

\* After packet 3 the sender is silent for 3 samples: with the four packets
\* that may be lost in a row the gap is MaxGap samples long.
Stamp(id) == (Stamps - 5 + 2 * id + (IF id > 3 THEN 3 ELSE 0)) % Stamps

Jump == 6
Jumping(id) == (Numbers - 2 + id + (IF id < Jump THEN 0 ELSE 14)) % Numbers
=============================================================================
