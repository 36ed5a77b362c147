------------------------------ MODULE LapmOpen ------------------------------
(***************************************************************************)
(* One LAPM end against any peer: the far modem is not this program, and   *)
(* may send every frame of PeerFrames, at any time and in any order.       *)
(***************************************************************************)
EXTENDS Lapm

CONSTANTS
  PeerFrames,   \* what the far end may send
  Offers,       \* the V.42 bis directions this end may be set to offer
  MaxQueue,     \* bound: data that waits at a time
  MaxUrgent     \* bound: unnumbered frames that wait at a time

ASSUME LapmOpenAssumption ==
  /\ PeerFrames \subseteq Frame /\ Offers \subseteq Directions
  /\ MaxQueue \in Nat /\ MaxUrgent \in Nat

VARIABLES
  end,    \* the state of the end
  handed  \* what the last step handed to the computer

vars == <<end, handed>>

TypeOK == end \in EndState /\ handed \in Seq(Data)

Init ==
  /\ \E offer \in Offers : end \in {Originate(offer), Answer(offer)}
  /\ handed = <<>>

\* The state a handler starts from: the clock may have passed an instant that
\* this end waits for.
Now(late) == IF late THEN Expire(end) ELSE end

\* The computer sends.
Send(d) ==
  /\ Len(end.queue) < MaxQueue
  /\ end' = SendData(end, d)
  /\ handed' = <<>>

\* The pump asks for the next frame.
Transmit(late) ==
  /\ late => CanBeLate(end)
  /\ end' = AfterNextFrame(Now(late))
  /\ handed' = <<>>

\* A frame arrives, and what it brought in order is taken at once.
Hear(f, late) ==
  /\ late => CanBeLate(end)
  /\ Len(end.urgent) < MaxUrgent
  /\ LET after == Receive(Now(late), f)
     IN  /\ end' = [after EXCEPT !.received = <<>>]
         /\ handed' = after.received

Next ==
  \/ \E d \in Data : Send(d)
  \/ \E late \in BOOLEAN : Transmit(late)
  \/ \E f \in PeerFrames, late \in BOOLEAN : Hear(f, late)

Spec == Init /\ [][Next]_vars

-----------------------------------------------------------------------------
(***************************************************************************)
(* Properties.                                                             *)
(***************************************************************************)

\* V(S) never runs ahead of the frames kept for sending again, whatever the
\* peer acknowledges: next_i_frame takes sent[V(S) - V(A)] and would panic.
IndexInBounds ==
  end.state = "Connected" => InFlight(end) <= Len(end.sent)

\* Fewer frames are unacknowledged than there are numbers, so an N(R) names
\* one frame only, whatever window an XID asked for and however often.
NumbersUnambiguous == Len(end.sent) < Modulus

\* Timer recovery ends by the answer to a poll alone, so in recovery a poll
\* is either due or under way with the timer running.
RecoveryPolls ==
  end.state = "Connected" /\ end.recovery => end.timer \/ end.owedPoll

\* Frames that are not acknowledged are never left to chance: unless the
\* peer is busy, the timer runs, a poll is due or they are about to be sent.
NothingStranded ==
  end.state = "Connected" /\ ~end.peerBusy /\ end.sent # <<>> =>
    end.timer \/ end.owedPoll \/ CanResend(end)

\* A connection that has ended carries nothing more: whatever comes after, no
\* data reaches the computer, and nothing of the computer's is kept.
ReleasedIsFinal ==
  [][end.state = "Released" =>
       /\ end'.state = "Released"
       /\ handed' = <<>>
       /\ end'.queue = <<>> /\ end'.sent = <<>>]_vars

=============================================================================
