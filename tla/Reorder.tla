------------------------------ MODULE Reorder ------------------------------
(***************************************************************************)
(* The receive path of a call's audio, softmodem-transport/src/reorder.rs: *)
(* RTP packets that the network delays, repeats, loses and delivers out of *)
(* order are put back in order, and gaps are filled with silence.          *)
(*                                                                         *)
(* A packet is known by its place in the stream, its id.  Its sequence     *)
(* number and timestamp are what the code sees of it; its samples are a    *)
(* count.                                                                  *)
(***************************************************************************)
EXTENDS Integers, Sequences, FiniteSets

CONSTANTS
  Window,         \* packets that may wait behind a missing one
  Numbers,        \* sequence numbers run below this (2^16), an even number
  Stamps,         \* timestamps run below this (2^32)
  ResyncDistance, \* a sequence number further off starts the stream again
  MaxGap,         \* the longest gap filled with silence, in samples
  Samples,        \* samples in a packet
  SequenceOf(_),  \* the sequence number of the packet with an id
  StampOf(_),     \* its timestamp
  Jumps,          \* ids at which the sender starts its numbers elsewhere
  Reach,          \* bound: how far the network moves a packet out of place
  MaxPackets,     \* bound: packets sent
  MaxTurns        \* bound: times that the stream turns back over a jump

Ids == 0 .. MaxPackets - 1

\* The difference of two sequence numbers, as a signed number of their width.
Distance(number, sequence) ==
  LET d == (number - sequence) % Numbers
  IN  IF d < Numbers \div 2 THEN d ELSE d - Numbers

\* The sender does not jump between two of its packets.
Together(a, b) == \A j \in Jumps : ~(a < j /\ j <= b)

ASSUME ReorderAssumption ==
  /\ Window \in Nat /\ Samples \in Nat /\ MaxGap \in Nat
  /\ Numbers \in Nat \ {0} /\ Stamps \in Nat \ {0}
  /\ ResyncDistance \in Nat /\ MaxPackets \in Nat \ {0} /\ MaxTurns \in Nat
  /\ \A id \in Ids : /\ SequenceOf(id) \in 0 .. Numbers - 1
                     /\ StampOf(id) \in 0 .. Stamps - 1

(* The network moves no packet so far out of its place that the receiver   *)
(* takes it for one of another stream, and half of the numbers are enough  *)
(* to tell before from after.                                              *)
ASSUME NetworkAssumption ==
  /\ Reach \in Nat /\ Jumps \subseteq Ids
  /\ Reach < ResyncDistance /\ ResyncDistance + Reach < Numbers \div 2

(* The sender numbers its packets one after the other, and is silent for   *)
(* no longer than a gap may be, with as many packets lost in a row as the  *)
(* network can lose; where it jumps the receiver can tell, whichever side  *)
(* of the jump a packet comes from.                                        *)
ASSUME SenderAssumption ==
  \A a, b \in Ids :
    a < b =>
      IF Together(a, b)
      THEN /\ SequenceOf(b) = (SequenceOf(a) + b - a) % Numbers
           /\ b - a <= 2 * Reach =>
                (StampOf(b) - StampOf(a) - Samples) % Stamps <= MaxGap
      ELSE /\ b - a <= ResyncDistance + Reach + 1 =>
                LET d == Distance(SequenceOf(b), SequenceOf(a) + 1)
                IN  d > ResyncDistance \/ -d > ResyncDistance
           /\ b - a <= Reach =>
                LET d == Distance(SequenceOf(a), SequenceOf(b) + 1)
                IN  d > ResyncDistance \/ -d > ResyncDistance

VARIABLES
  next,     \* what is to leave next: a position, and whether there is one
  held,     \* packets that wait, each under its extended sequence number
  out,      \* the ids of the packets that have left, in order
  played,   \* samples that have left, silence included
  arrived,  \* the ids the network has delivered
  start,    \* the id that the stream last started at
  ended     \* the call has ended

vars == <<next, held, out, played, arrived, start, ended>>

Position == [known : BOOLEAN, sequence : Nat, stamp : 0 .. Stamps - 1]
Held == [sequence : Nat, stamp : 0 .. Stamps - 1, id : Ids]

TypeOK ==
  /\ next \in Position
  /\ held \subseteq Held
  /\ out \in Seq(Ids) /\ played \in Nat
  /\ arrived \subseteq Ids /\ start \in Ids /\ ended \in BOOLEAN

Init ==
  /\ next = [known |-> FALSE, sequence |-> 0, stamp |-> 0]
  /\ held = {}
  /\ out = <<>> /\ played = 0
  /\ arrived = {} /\ start = 0 /\ ended = FALSE

-----------------------------------------------------------------------------
\* The packets of a set, in the order of their extended numbers.
InOrder(packets) ==
  [i \in 1 .. Cardinality(packets) |->
     CHOOSE p \in packets :
       Cardinality({q \in packets : q.sequence < p.sequence}) = i - 1]

\* The packets that can leave now: a run of numbers from the given one on.
RunFrom(packets, sequence) ==
  {p \in packets : p.sequence >= sequence /\
     \A n \in sequence .. p.sequence : \E q \in packets : q.sequence = n}

First(packets) ==
  (CHOOSE p \in packets : \A q \in packets : p.sequence <= q.sequence).sequence

\* The silence before a packet with one timestamp where another is due.
Silence(due, stamp) ==
  LET gap == (stamp - due) % Stamps IN IF gap <= MaxGap THEN gap ELSE 0

DueAfter(p) == (p.stamp + Samples) % Stamps

\* A receiver's state, so that the procedures can follow one another.
State == [next |-> next, held |-> held, out |-> out, played |-> played]

\* How many samples leave with packets in order, silence included, the first
\* of them due at a timestamp.
PlayedWith(stamp, ps) ==
  LET due(i) == IF i = 1 THEN stamp ELSE DueAfter(ps[i - 1])
      length[i \in 0 .. Len(ps)] ==
        IF i = 0 THEN 0
        ELSE length[i - 1] + Silence(due(i), ps[i].stamp) + Samples
  IN  length[Len(ps)]

\* The packets of a run, or of several with gaps between them, leave.
Release(s, packets) ==
  LET ps == InOrder(packets)
      n == Len(ps)
  IN  IF packets = {} THEN s
      ELSE [s EXCEPT
              !.held = @ \ packets,
              !.out = @ \o [i \in 1 .. n |-> ps[i].id],
              !.played = @ + PlayedWith(s.next.stamp, ps),
              !.next = [known |-> TRUE, sequence |-> ps[n].sequence + 1,
                        stamp |-> DueAfter(ps[n])]]

Drain(s) == Release(s, RunFrom(s.held, s.next.sequence))

Flush(s) == Release(s, s.held)

\* The packet with this number replaces one held under the same number.
Hold(s, sequence, id) ==
  [s EXCEPT !.held = {p \in @ : p.sequence # sequence} \cup
                       {[sequence |-> sequence, stamp |-> StampOf(id), id |-> id]}]

\* Mutant: a full window gives up.
GiveUpEarly(s) ==
  IF Cardinality(s.held) >= Window
  THEN Release(s, RunFrom(s.held, First(s.held))) ELSE s

\* A window that is over full gives up the missing packet.  It is over full
\* by the one packet that has just been held, so one round is enough.
GiveUp(s) ==
  IF Cardinality(s.held) > Window
  THEN Release(s, RunFrom(s.held, First(s.held))) ELSE s

StartAt(s, id) ==
  [s EXCEPT !.next = [known |-> TRUE, sequence |-> SequenceOf(id),
                      stamp |-> StampOf(id)]]

\* The state after a packet, and whether the stream starts with it.
Starts(id) ==
  \/ ~next.known
  \/ LET d == Distance(SequenceOf(id), next.sequence)
     IN  d > ResyncDistance \/ -d > ResyncDistance

\* Mutant: a packet whose gap was filled is played all the same.
PushLate(id) ==
  IF Starts(id)
  THEN Drain(Hold(StartAt(Flush(State), id), SequenceOf(id), id))
  ELSE LET d == Distance(SequenceOf(id), next.sequence)
       IN  GiveUp(Drain(Hold(State, next.sequence + (IF d < 0 THEN 0 ELSE d), id)))

Push(id) ==
  IF Starts(id)
  THEN Drain(Hold(StartAt(Flush(State), id), SequenceOf(id), id))
  ELSE LET d == Distance(SequenceOf(id), next.sequence)
       IN  IF d < 0 THEN State
           ELSE GiveUp(Drain(Hold(State, next.sequence + d, id)))

Become(s) ==
  /\ next' = s.next /\ held' = s.held
  /\ out' = s.out /\ played' = s.played

Turns == Cardinality({i \in 1 .. Len(out) - 1 : out[i] >= out[i + 1]})

\* The network delivers a packet: one not far out of its place, which may
\* have come before, and may be from before a jump of the sender's though one
\* from behind it has come.
Possible(id) ==
  LET newest == CHOOSE a \in arrived : \A b \in arrived : b <= a
  IN  /\ arrived # {} => newest - Reach <= id /\ id <= newest + Reach
      /\ id < start /\ ~Together(id, start) => Turns < MaxTurns

Arrive(id) ==
  /\ ~ended /\ Possible(id)
  /\ Become(Push(id))
  /\ arrived' = arrived \cup {id}
  /\ start' = IF Starts(id) THEN id ELSE start
  /\ UNCHANGED ended

\* The socket closes: what waits still leaves.
End ==
  /\ ~ended /\ ended' = TRUE
  /\ Become(Flush(State))
  /\ UNCHANGED <<arrived, start>>

Next == (\E id \in Ids : Arrive(id)) \/ End

Spec == Init /\ [][Next]_vars

-----------------------------------------------------------------------------
(***************************************************************************)
(* Properties.                                                             *)
(***************************************************************************)

\* Between two jumps of the sender's packets leave in the order they were sent
\* and none twice, however they came and across the wrap of the sequence
\* numbers.  Only a jump can turn the order back: a late packet from before it
\* starts the stream again where it is, and what follows may leave once more.
InOrderAtMostOnce ==
  \A i \in 1 .. Len(out) - 1 :
    out[i] < out[i + 1] \/ ~Together(out[i + 1], out[i])

\* No more than a window waits, and all of it behind a missing packet: what
\* could leave has left.
WindowKept ==
  /\ Cardinality(held) <= Window
  /\ \A p \in held : p.sequence > next.sequence

\* The samples that leave keep time with the sender's clock: as many leave as
\* its timestamps advance, whatever was lost or came late.  A slip here is a
\* phase jump in the middle of a modem's signal.
TimeKept ==
  [][next.known /\ start' = start =>
       (played' - played) % Stamps = (next'.stamp - next.stamp) % Stamps]_vars

\* No packet is thrown away that came in time: one is dropped only when it
\* came before, when it is from before the stream's start, or when more than
\* a window of later packets has come before it.
Patience ==
  [][\A id \in Ids :
       id \in arrived' \ arrived =>
         \/ \E i \in 1 .. Len(out') : out'[i] = id
         \/ \E p \in held' : p.id = id
         \/ id < start
         \/ Cardinality({a \in arrived : a > id}) > Window]_vars

=============================================================================
