------------------------------ MODULE Framing -------------------------------
(***************************************************************************)
(* What the bits of a line are made into.  HDLC frames through a           *)
(* scrambler: softmodem-dsp/src/hdlc.rs and scrambler.rs; a receiver that  *)
(* joins a running line, and one bit of it inverted anywhere.              *)
(*                                                                         *)
(* Start-stop characters, softmodem-dsp/src/uart.rs, and the patterns of   *)
(* the V.42 detection phase that are made of them,                         *)
(* softmodem-link/src/detect.rs: a receiver that joins in the middle of a  *)
(* character, a bit of the line inverted anywhere, a carrier lost, and a   *)
(* far end that deletes stop bits as V.14 lets it.                         *)
(***************************************************************************)
EXTENDS Bits

CONSTANTS
  LockupOnes,    \* LOCKUP_ONES
  MaxFrameBits,  \* MAX_BITS
  MinContent,    \* min_content
  Lines,         \* bound: scramblers as they are when the receiver joins
  Contents,      \* bound: the frames given
  MaxItems       \* bound: flags, marks and frames sent

VARIABLES
  scrambler,  \* the sender's
  receiver,   \* the descrambler's history and the deframer
  given,      \* frames given to the sender
  due,        \* those that the receiver can be expected to get
  frames,     \* frames got
  flagged,    \* the line's last item ended in a flag
  since,      \* bits since the line was last disturbed
  items       \* bounds: items sent, and whether a bit was inverted

framingVars == <<scrambler, receiver, given, due, frames, flagged, since, items>>

-----------------------------------------------------------------------------
(* Scrambler.  A history is newest bit first.                              *)
V22Polynomial == [a |-> 14, b |-> 17]
V34Answer == [a |-> 5, b |-> 23]

Taps(p, history) == Xor(history[p.a], history[p.b])
Shift(history, bit) == <<bit>> \o SubSeq(history, 1, Len(history) - 1)

LocksUp(s) == s.guard /\ s.ones >= LockupOnes

\* Scrambler::scramble: the bit sent, and the scrambler after it.
Scrambled(s, bit) ==
  Xor(IF LocksUp(s) THEN 1 - bit ELSE bit, Taps(s.polynomial, s.history))
Scramble(s, bit) ==
  LET out == Scrambled(s, bit)
  IN  [s EXCEPT !.history = Shift(@, out),
                !.ones = IF out = 0 THEN 0 ELSE IF LocksUp(s) THEN 1 ELSE @ + 1]

-----------------------------------------------------------------------------
(* Frames.                                                                 *)
FlagBits == Field(126, 8)

\* A 0 after each five 1s.
Stuffed(bits) ==
  LET upto[n \in 0 .. Len(bits)] ==
        IF n = 0 THEN [out |-> <<>>, ones |-> 0]
        ELSE LET was == upto[n - 1]
                 ones == IF bits[n] = 1 THEN was.ones + 1 ELSE 0
             IN  [out |-> was.out \o (IF ones = 5 THEN <<1, 0>> ELSE <<bits[n]>>),
                  ones |-> ones % 5]
  IN  upto[Len(bits)].out

\* fcs16.
Fcs(bits) == LET crc == Crc(bits) IN [i \in 1 .. 16 |-> 1 - crc[i]]

\* push_frame.
FrameBits(content) ==
  Stuffed(BitsOf(content) \o Fcs(BitsOf(content))) \o FlagBits

NewDeframer == [bits |-> <<>>, ones |-> 0, open |-> FALSE, flags |-> 0, bad |-> 0]

\* Deframer::abort.
Aborted(f) == [f EXCEPT !.open = FALSE, !.bits = <<>>, !.flags = 0]

\* Mutant: the FCS is not looked at.
UncheckedFcs(bits) == Len(bits) % 8 = 0 /\ Len(bits) \div 8 >= MinContent + 2

\* checked.
Checked(bits) ==
  /\ Len(bits) % 8 = 0 /\ Len(bits) \div 8 >= MinContent + 2
  /\ Crc(bits) = Field(61624, 16)     \* FCS_GOOD, 0xf0b8

\* What has come in before a flag: its own 0 and six 1s went in as data.
ContentOf(f) == SubSeq(f.bits, 1, Len(f.bits) - 7)

\* Deframer::flag.
Flagged(f) ==
  LET closed == [f EXCEPT !.open = TRUE, !.bits = <<>>]
  IN  CASE ~f.open \/ ContentOf(f) = <<>> -> [closed EXCEPT !.flags = @ + 1]
        [] f.open /\ ContentOf(f) # <<>> ->
             [closed EXCEPT !.flags = 0,
                            !.bad = IF Checked(ContentOf(f)) THEN @ ELSE @ + 1]

\* Deframer::push.
DeframeOne(f) ==
  CASE f.ones = 7 -> Aborted(f)
    [] f.ones < 7 /\ f.open -> [f EXCEPT !.bits = Append(@, 1)]
    [] OTHER -> f
DeframeZero(f, ones) ==
  CASE ones = 6 -> Flagged(f)
    [] ones \notin {5, 6} /\ f.open ->
         IF Len(f.bits) >= MaxFrameBits THEN Aborted(f) ELSE [f EXCEPT !.bits = Append(@, 0)]
    [] OTHER -> f
Deframe(f, bit) ==
  IF bit = 1 THEN DeframeOne([f EXCEPT !.ones = @ + 1])
  ELSE DeframeZero([f EXCEPT !.ones = 0], f.ones)

\* The frame that a bit ends, if any.
Deframed(f, bit) ==
  IF bit = 0 /\ f.ones = 6 /\ f.open /\ Checked(ContentOf(f))
  THEN <<OctetsOf(SubSeq(ContentOf(f), 1, Len(ContentOf(f)) - 16))>> ELSE <<>>

-----------------------------------------------------------------------------
(***************************************************************************)
(* The line: bits scrambled, one of them inverted perhaps, Descrambler's   *)
(* descramble and then the deframer's push.                                *)
(***************************************************************************)
\* The whole line after a bit: disturbed too where the guard inverted it, which the
\* descrambler does not undo.
BitHeard(was, sent, line, bit, disturbed) ==
  [s |-> sent,
   history |-> Shift(was.history, line),
   deframer |-> Deframe(was.deframer, bit),
   got |-> was.got \o Deframed(was.deframer, bit),
   since |-> IF disturbed THEN 0 ELSE was.since + 1]
BitOnLine(was, sent, line, disturbed) ==
  BitHeard(was, sent, line, Xor(line, Taps(was.s.polynomial, was.history)), disturbed)
BitCarried(was, bit, hit) ==
  BitOnLine(was, Scramble(was.s, bit),
            IF hit THEN 1 - Scrambled(was.s, bit) ELSE Scrambled(was.s, bit),
            hit \/ LocksUp(was.s))

\* The line after all of the bits.
Carried(bits, hit) ==
  LET after[n \in 0 .. Len(bits)] ==
        IF n = 0
        THEN [s |-> scrambler, history |-> receiver.history, deframer |-> receiver.deframer,
              got |-> frames, since |-> since]
        ELSE BitCarried(after[n - 1], bits[n], n = hit)
  IN  after[Len(bits)]

FramingInit ==
  /\ \E line \in Lines :
       /\ scrambler = [polynomial |-> line.polynomial, history |-> line.history,
                       ones |-> 0, guard |-> line.guard]
       /\ receiver = [history |-> Zeros(line.polynomial.b), deframer |-> NewDeframer]
  /\ given = <<>> /\ due = {} /\ frames = <<>>
  /\ flagged = FALSE /\ since = 0
  /\ items = [sent |-> 0, hit |-> FALSE]

\* What is sent arrives, with the bit at hit inverted.
Carries(bits, hit) ==
  /\ items.sent < MaxItems
  /\ hit # 0 => ~items.hit
  /\ items' = [sent |-> items.sent + 1, hit |-> items.hit \/ hit # 0]
  /\ \E after \in {Carried(bits, hit)} :
       /\ scrambler' = after.s
       /\ receiver' = [history |-> after.history, deframer |-> after.deframer]
       /\ frames' = after.got
       /\ since' = after.since

\* push_flag: the line between frames.
SendFlag(hit) ==
  Carries(FlagBits, hit) /\ flagged' = TRUE /\ UNCHANGED <<given, due>>

\* Marks, as before the first flag.
SendMarks(hit) ==
  Carries(Ones(8), hit) /\ flagged' = FALSE /\ UNCHANGED <<given, due>>

\* A frame after a flag: it is due if the line was quiet for as long as the descrambler
\* remembers, before that flag and since.
SendFrame(content, hit) ==
  LET bits == FrameBits(content)
      quiet == scrambler.polynomial.b + Len(FlagBits) + Len(bits)
  IN  /\ flagged
      /\ Carries(bits, hit)
      /\ given' = Append(given, content)
      /\ due' = IF since' >= quiet /\ Len(content) >= MinContent
                THEN due \cup {Len(given')} ELSE due
      /\ UNCHANGED flagged

FramingNext ==
  \/ \E hit \in 0 .. 8 : SendFlag(hit) \/ SendMarks(hit)
  \/ \E content \in Contents :
       \E hit \in 0 .. Len(FrameBits(content)) : SendFrame(content, hit)

-----------------------------------------------------------------------------
\* The parts are what the code can make them: a deframer that has not found a flag
\* holds nothing, and no frame grows past its limit by more than a flag's ones.
FramingTypeOK ==
  LET f == receiver.deframer
  IN  /\ ~f.open => f.bits = <<>>
      /\ Len(f.bits) <= MaxFrameBits + 6
      /\ f.ones >= 7 => ~f.open
      /\ f.bad + f.flags + Len(frames) <= 2 * items.sent + 8
      /\ Len(receiver.history) = Len(scrambler.history)

\* Whatever bit of a scrambled line is inverted, each frame that the receiver gets was
\* sent, and they come in the order in which they were sent (checked, flag, abort).
NoneForged ==
  \E places \in SUBSET DOMAIN given : frames = Picked(given, places)

\* Whenever the receiver joins, whatever bit is inverted, and whatever is cut short by
\* marks, a frame sent on a line since quiet is got: a descrambler and a deframer that
\* were led astray come back by themselves, by the flag before the frame.
Resynced ==
  \E places \in SUBSET DOMAIN given : due \subseteq places /\ frames = Picked(given, places)

-----------------------------------------------------------------------------
(***************************************************************************)
(* Start-stop characters.                                                  *)
(***************************************************************************)
CONSTANTS
  Typed,      \* bound: the characters sent by themselves, none of a pattern
  Joins,      \* bound: how many bits of the first of them the receiver may miss
  MaxSounds,  \* bound: the characters, pauses and patterns sent
  LastSpoilt  \* bound: the last of them that a bit is inverted in

VARIABLES
  decoder,
  heard,      \* the last four characters read
  typed,      \* the characters sent since the decoder was settled
  read,       \* and those read
  line,       \* marks in a row, and whether they have settled the decoder
  pattern,    \* the last pattern sent, and how often in a row
  sounds      \* bounds, and whether the last character had its stop bit

startStopVars == <<decoder, heard, typed, read, line, pattern, sounds>>

-----------------------------------------------------------------------------
(* Decoder.                                                                *)
NewDecoding(v14) ==
  [state |-> "Idle", byte |-> <<>>, v14 |-> v14, deleted |-> FALSE, errors |-> 0]

\* A 0 where the stop bit should be: one that was deleted, though not twice in a row.
StopMissing(d) ==
  IF d.v14 /\ ~d.deleted
  THEN [d EXCEPT !.state = "Data", !.byte = <<>>, !.deleted = TRUE]
  ELSE [d EXCEPT !.state = "Hunt", !.deleted = FALSE, !.errors = @ + 1]

\* Decoder::push.
Decoding(d, bit) ==
  CASE d.state = "Idle" /\ bit = 0 -> [d EXCEPT !.state = "Data", !.byte = <<>>]
    [] d.state \in {"Idle", "Hunt"} /\ bit = 1 -> [d EXCEPT !.state = "Idle"]
    [] d.state = "Hunt" /\ bit = 0 -> d
    [] d.state = "Data" ->
         [d EXCEPT !.byte = Append(@, bit), !.state = IF Len(d.byte) = 7 THEN "Stop" ELSE @]
    [] d.state = "Stop" /\ bit = 1 -> [d EXCEPT !.state = "Idle", !.deleted = FALSE]
    [] d.state = "Stop" /\ bit = 0 -> StopMissing(d)

\* The character that a bit ends, if any.
Decodes(d, bit) ==
  IF d.state = "Stop" /\ (bit = 1 \/ (d.v14 /\ ~d.deleted)) THEN <<NumberOf(d.byte)>> ELSE <<>>

-----------------------------------------------------------------------------
(* Characters and patterns.                                                *)
\* uart::frame.
UartFrame(character, stop) == <<0>> \o Field(character, 8) \o stop

DC1Even == 17
DC1Odd == 145
LetterE == 69
LetterC == 67

Patterns == {"ODP", "ADP", "NoErrorCorrection"}

Characters(p) ==
  CASE p = "ODP" -> <<DC1Even, DC1Odd>>
    [] p = "ADP" -> <<LetterE, LetterC>>
    [] p = "NoErrorCorrection" -> <<LetterE, 0>>

\* push_pattern: ONES after each character.
PatternBits(p) ==
  FlattenSeq([i \in 1 .. 2 |-> UartFrame(Characters(p)[i], <<1>>) \o Ones(10)])

\* Heard::push.
Hear(last, characters) ==
  LET all == last \o characters
  IN  SubSeq(all, IF Len(all) > 4 THEN Len(all) - 3 ELSE 1, Len(all))

\* Heard::odp, which takes either DC1 first, and Heard::adp.
HeardPattern(last, p) ==
  IF p = "ODP"
  THEN last \in {<<DC1Even, DC1Odd, DC1Even, DC1Odd>>, <<DC1Odd, DC1Even, DC1Odd, DC1Even>>}
  ELSE last = Characters(p) \o Characters(p)

-----------------------------------------------------------------------------
(* The line.                                                               *)
\* As many marks as end any character that was read into them.
Settles == 9

StartStopInit ==
  /\ \E v14 \in BOOLEAN : decoder = NewDecoding(v14)
  /\ heard = <<>> /\ typed = <<>> /\ read = <<>>
  /\ line = [marks |-> 0, settled |-> FALSE]
  /\ pattern = [is |-> "None", times |-> 0]
  /\ sounds = [sent |-> 0, hit |-> FALSE, stopped |-> TRUE]

\* Bits that come in, the one at hit inverted.
Listened(bits, hit) ==
  LET after[n \in 0 .. Len(bits)] ==
        IF n = 0 THEN [d |-> decoder, read |-> <<>>, line |-> line]
        ELSE LET was == after[n - 1]
                 bit == IF n = hit THEN 1 - bits[n] ELSE bits[n]
                 marks == IF bit = 0 \/ n = hit THEN 0 ELSE was.line.marks + 1
             IN  [d |-> Decoding(was.d, bit),
                  read |-> was.read \o Decodes(was.d, bit),
                  line |-> [marks |-> IF marks > Settles THEN Settles ELSE marks,
                            settled |-> n # hit /\ (was.line.settled \/ marks >= Settles)]]
  IN  after[Len(bits)]

\* The receiver joins at the bit after those missed.
Listens(bits, hit, missed, characters, stopped) ==
  LET after == Listened(SubSeq(bits, missed + 1, Len(bits)), hit)
  IN  /\ sounds.sent < MaxSounds
      /\ missed > 0 => sounds.sent = 0
      /\ hit # 0 => ~sounds.hit /\ sounds.sent < LastSpoilt /\ hit <= Len(bits) - missed
      /\ sounds' = [sent |-> sounds.sent + 1, hit |-> sounds.hit \/ hit # 0,
                    stopped |-> stopped]
      /\ decoder' = after.d
      /\ heard' = Hear(heard, after.read)
      /\ line' = after.line
      /\ typed' = IF line.settled /\ hit = 0 THEN typed \o characters ELSE <<>>
      /\ read' = IF line.settled /\ hit = 0 THEN read \o after.read ELSE <<>>

\* A character; the far end may delete the stop bit where the one before has its own.
SendCharacter(character, stop, hit, missed) ==
  /\ stop = <<>> => decoder.v14 /\ sounds.stopped
  /\ Listens(UartFrame(character, stop), hit, missed, <<character>>, stop = <<1>>)
  /\ pattern' = [pattern EXCEPT !.times = 0]

Pause(marks, hit) ==
  /\ sounds.stopped
  /\ Listens(Ones(marks), hit, 0, <<>>, TRUE)
  /\ pattern' = [pattern EXCEPT !.times = 0]

\* push_odp and push_adp.
SendPattern(p, hit, missed) ==
  /\ sounds.stopped
  /\ Listens(PatternBits(p), hit, missed, Characters(p), TRUE)
  /\ pattern' = [is |-> p,
                 times |-> IF hit # 0 THEN 0   \* it may spoil the next as well
                           ELSE IF pattern.is = p THEN pattern.times + 1 ELSE 1]

\* Decoder::reset, for a carrier that was lost.
LoseCarrier ==
  /\ sounds.sent < MaxSounds
  /\ sounds' = [sounds EXCEPT !.sent = @ + 1]
  /\ decoder' = [decoder EXCEPT !.state = "Idle", !.deleted = FALSE]
  /\ line' = [marks |-> 0, settled |-> FALSE]
  /\ typed' = <<>> /\ read' = <<>>
  /\ UNCHANGED <<heard, pattern>>

StartStopNext ==
  \/ \E character \in Typed, stop \in {<<>>, <<1>>}, hit \in 0 .. 10, missed \in Joins :
       SendCharacter(character, stop, hit, missed)
  \/ \E marks \in {1, Settles}, hit \in 0 .. 1 : Pause(marks, hit)
  \/ \E p \in Patterns, missed \in Joins :
       \E hit \in 0 .. Len(PatternBits(p)) : SendPattern(p, hit, missed)
  \/ LoseCarrier

-----------------------------------------------------------------------------
\* A decoder holds at most the bits of a character, and one whose stop bit was deleted
\* is being followed by another.
StartStopTypeOK ==
  /\ decoder.state \in {"Idle", "Data", "Stop", "Hunt"}
  /\ Len(decoder.byte) \in 0 .. 8
  /\ decoder.deleted => decoder.state \in {"Data", "Stop"}

\* Wherever the receiver joins, whatever bit is inverted and whatever stop bits are
\* deleted, a line at mark for a character's time settles the decoder: from then on
\* each character is read, once and in order (push and Hunt).
CharactersKept ==
  IsPrefix(read, typed) /\ (sounds.stopped => read = typed)

\* Once a pattern has been sent three times, the first of them heard from anywhere or
\* spoilt by the end of the one before, it is recognised, and no pattern is recognised but the last one sent.
PatternsHeard ==
  /\ \A p \in Patterns : HeardPattern(heard, p) => p = pattern.is
  /\ pattern.times >= 3 => HeardPattern(heard, pattern.is)
=============================================================================
