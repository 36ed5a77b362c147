------------------------------- MODULE Escape -------------------------------
(***************************************************************************)
(* The +++ escape of data mode, softmodem-terminal/src/escape.rs, as the   *)
(* modem's main loop (softmodem/src/modem.rs) drives it: each byte that is *)
(* read is pushed, and each tick of the frame clock polls.                 *)
(*                                                                         *)
(* An instant is the time since data mode began.  The last tick is never   *)
(* older than MaxLate, a bound on how late the loop may be.  A byte's      *)
(* instant is that of its read, whenever the computer sent it.             *)
(***************************************************************************)
EXTENDS Integers, Sequences

CONSTANTS
  Bytes,     \* what the computer may send
  None,      \* not a byte: the escape is disabled (S2 above 127)
  Escapes,   \* what S2 may be set to, bytes or None
  Guards,    \* what S12 may be set to
  MaxLate,   \* the longest time between two polls
  MaxNow,    \* bound: how long a stay in data mode lasts
  MaxTyped   \* bound: bytes read in a stay in data mode

ASSUME EscapeAssumption ==
  /\ None \notin Bytes
  /\ Escapes \subseteq Bytes \cup {None}
  /\ Guards \subseteq Nat /\ MaxLate \in Nat
  /\ MaxNow \in Nat /\ MaxTyped \in Nat

VARIABLES
  mode,      \* of the modem
  escape,    \* the escape character of this stay in data mode
  guard,     \* its guard time
  now,       \* how long this stay has lasted
  lastPoll,  \* when the last poll was
  held,      \* escape characters that may prove data yet
  lastData,  \* when the last data came
  lastHeld,  \* when the last held character came
  sent,      \* what the line was given in this stay
  typed      \* what was read in this stay, each byte with its instant

detector == <<held, lastData, lastHeld>>
vars == <<mode, escape, guard, now, lastPoll, detector, sent, typed>>

Modes == {"Command", "Data", "OnlineCommand"}
Typed == [byte : Bytes, at : Nat]

TypeOK ==
  /\ mode \in Modes
  /\ escape \in Escapes /\ guard \in Guards
  /\ now \in Nat /\ lastPoll \in 0 .. now
  /\ held \in Seq(Bytes) /\ Len(held) <= 3
  /\ lastData \in 0 .. now /\ lastHeld \in 0 .. now
  /\ sent \in Seq(Bytes) /\ typed \in Seq(Typed)

Init ==
  /\ mode = "Command"
  /\ escape \in Escapes /\ guard \in Guards
  /\ now = 0 /\ lastPoll = 0
  /\ held = <<>> /\ lastData = 0 /\ lastHeld = 0
  /\ sent = <<>> /\ typed = <<>>

-----------------------------------------------------------------------------
(***************************************************************************)
(* The detector.                                                           *)
(***************************************************************************)

\* A byte goes on with an escape that has begun.
Continues ==
  held # <<>> /\ Len(held) < 3 /\ now - lastHeld < guard

\* Mutant: as Starts, but data just before does not matter.
StartsAnywhere == held = <<>>

\* A byte may be the first of an escape.
Starts == held = <<>> /\ now - lastData >= guard

HoldByte(b) ==
  /\ held' = Append(held, b) /\ lastHeld' = now
  /\ UNCHANGED <<lastData, sent>>

\* Mutant: as PassOn, but what was held is forgotten.
PassOnAlone(b) ==
  /\ sent' = Append(sent, b)
  /\ held' = <<>> /\ lastData' = now
  /\ UNCHANGED lastHeld

\* What was held was data, and so is the byte.
PassOn(b) ==
  /\ sent' = Append(sent \o held, b)
  /\ held' = <<>> /\ lastData' = now
  /\ UNCHANGED lastHeld

Push(b) ==
  IF b = escape /\ (Continues \/ Starts) THEN HoldByte(b) ELSE PassOn(b)

\* There is something for a poll to do.
Due == held # <<>> /\ now - lastHeld >= guard

\* Mutant: as Resolve, but the guard time to come counts from the poll.
ResolveAnew ==
  /\ lastData' = now /\ held' = <<>>
  /\ IF Len(held) = 3
     THEN mode' = "OnlineCommand" /\ UNCHANGED sent
     ELSE sent' = sent \o held /\ UNCHANGED mode
  /\ UNCHANGED lastHeld

\* What was held is the escape, or data.
Resolve ==
  /\ lastData' = lastHeld /\ held' = <<>>
  /\ IF Len(held) = 3
     THEN mode' = "OnlineCommand" /\ UNCHANGED sent
     ELSE sent' = sent \o held /\ UNCHANGED mode
  /\ UNCHANGED lastHeld

-----------------------------------------------------------------------------
(***************************************************************************)
(* The main loop.                                                          *)
(***************************************************************************)

\* A byte of the computer's is read in data mode.
Type(b) ==
  /\ mode = "Data" /\ Len(typed) < MaxTyped
  /\ Push(b)
  /\ typed' = Append(typed, [byte |-> b, at |-> now])
  /\ UNCHANGED <<mode, escape, guard, now, lastPoll>>

\* The frame clock ticks.
Tick ==
  /\ mode = "Data"
  /\ lastPoll' = now
  /\ IF Due THEN Resolve ELSE UNCHANGED <<mode, detector, sent>>
  /\ UNCHANGED <<escape, guard, now, typed>>

\* Nothing of a stay in data mode.
Afresh ==
  /\ now' = 0 /\ lastPoll' = 0
  /\ held' = <<>> /\ lastData' = 0 /\ lastHeld' = 0
  /\ sent' = <<>> /\ typed' = <<>>

\* CONNECT, or ATO: data mode begins, with a detector of its own and what the
\* computer has set S2 and S12 to.
EnterData ==
  /\ mode # "Data"
  /\ mode' = "Data"
  /\ escape' \in Escapes /\ guard' \in Guards
  /\ Afresh

\* The call ends in data mode, or its command line is given up: what was held
\* goes with it.
HangUp ==
  /\ mode # "Command" /\ mode' = "Command"
  /\ Afresh
  /\ UNCHANGED <<escape, guard>>

Pass ==
  /\ mode = "Data"
  /\ now < MaxNow /\ now - lastPoll < MaxLate
  /\ now' = now + 1
  /\ UNCHANGED <<mode, escape, guard, lastPoll, detector, sent, typed>>

Next == (\E b \in Bytes : Type(b)) \/ Tick \/ EnterData \/ HangUp \/ Pass

Spec == Init /\ [][Next]_vars

-----------------------------------------------------------------------------
(***************************************************************************)
(* Properties.                                                             *)
(***************************************************************************)

BytesTyped == [i \in 1 .. Len(typed) |-> typed[i].byte]

\* Data mode is transparent: what was sent is what was typed, in order and
\* whole, but for characters still held, and for the three of an escape.
Transparent ==
  /\ mode = "Data" => sent \o held = BytesTyped
  /\ mode = "OnlineCommand" => sent \o <<escape, escape, escape>> = BytesTyped

\* The time without data before byte i, from the start of data mode on.
QuietBefore(i) == typed[i].at - (IF i = 1 THEN 0 ELSE typed[i - 1].at)

\* The bytes typed end in three escape characters, each within the guard time
\* of the last, with the quiet times given before and after them.
EscapeTyped(before, after) ==
  LET n == Len(typed)
  IN  /\ n >= 3
      /\ \A i \in n - 2 .. n : typed[i].byte = escape
      /\ QuietBefore(n - 2) >= before
      /\ QuietBefore(n - 1) < guard /\ QuietBefore(n) < guard
      /\ now - typed[n].at >= after

\* escape.rs:5-7: data mode is left for an escape that was typed, with its
\* guard times, and never for three characters in the middle of data.
NeverByChance ==
  [][mode = "Data" /\ mode' = "OnlineCommand" => EscapeTyped(guard, guard)]_vars

\* An escape whose guard times exceed the guard by more than the loop may be
\* late is never taken for data.
NeverMissed ==
  mode = "Data" => ~EscapeTyped(guard + MaxLate, guard + MaxLate)

=============================================================================
