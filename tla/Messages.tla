------------------------------ MODULE Messages ------------------------------
(***************************************************************************)
(* The messages of V.34 and V.90 start-up as bits: the INFO sequences,     *)
(* softmodem-dsp/src/v34/info.rs and v90/info.rs, MP, v34/mp.rs, and what  *)
(* is framed in words, v90/frames.rs: Jd, v90/jd.rs, and CP, v90/cp.rs.    *)
(* A message is its kind and the values of its fields in the order in      *)
(* which they are sent, 0 in those that are reserved.                      *)
(***************************************************************************)
EXTENDS Bits, FiniteSetsExt

CONSTANTS
  Tellings,     \* bound: the messages that may be sent on each channel
  Gaps,         \* bound: what is sent before each
  HitStep,      \* bound: of how many bits one may be inverted
  PieceBits,    \* bound: how many bits come at a time
  MaxMessages   \* bound

VARIABLES
  channel,     \* what listens: all kinds of INFO at once, or for MP, Jd or CP
  gap,         \* what is sent before each message
  listening,   \* the deframer of each kind
  arriving,    \* bits on the line
  told,        \* the messages sent
  whole,       \* those of them that the line did not spoil
  understood,  \* the messages read
  ones,        \* ones in a row, as mp::Deframer counts them
  spoilt,      \* a bit was inverted
  ends         \* how often E was sent, and heard

messageVars == <<channel, gap, listening, arriving, told, whole, understood, ones, spoilt,
                 ends>>

InfoKinds == {"Info0", "Info0d", "Info1c", "Info1a", "PcmInfo1a"}
Kinds(c) == IF c = "Info" THEN InfoKinds ELSE {c}

-----------------------------------------------------------------------------
(* Fields: their widths, and which of them are reserved or signed.         *)
Repeat(n, fields) == FlattenSeq([i \in 1 .. n |-> fields])

Info0Widths == Ones(9) \o <<3, 1, 1, 2, 1>>
ClockAt == 13
ProbeWidths == <<1, 4, 4>>

\* HEAD_WORDS: the words of CP before its masks.
CpWidths ==
  <<1, 1, 5, 5, 1, 2, 1>> \o <<1, 13, 2>> \o <<16>> \o <<8, 8, 8, 8>>
    \o <<4, 4, 4, 4>> \o <<4, 4, 1, 7>>
IntervalsAt == 16 .. 21
CodecAt == 22

\* The most words that a message of the kind has, CRC aside, and that it has without
\* what is optional.
MpWords == [short |-> 3, long |-> 9]
MaskWords == 8

\* The fields of a message of the kind, with as many more words as its first say.
Widths(kind, more) ==
  CASE kind = "Info0" -> Info0Widths
    [] kind = "Info0d" -> Info0Widths \o <<4, 5, 1, 1, 1, 1>>
    [] kind = "Info1c" -> <<3, 3, 7>> \o Repeat(6, ProbeWidths) \o <<10>>
    [] kind = "Info1a" -> <<3, 3, 7>> \o ProbeWidths \o <<3, 3, 10>>
    [] kind = "PcmInfo1a" -> <<6, 7, 7, 2, 3, 3, 10>>
    [] kind = "Mp" -> <<1, 1, 4, 4, 1, 2, 1, 1, 1>> \o <<14, 1, 1>> \o Repeat(more + 1, <<16>>)
    [] kind = "Jd" -> <<16>> \o <<6, 6, 1, 1, 2>>
    [] kind = "Cp" -> CpWidths \o Repeat(more, <<16>>)

\* FIELDS.
InfoFields == [k \in InfoKinds |-> FoldLeft(LAMBDA n, w : n + w, 0, Widths(k, 0))]

Reserved(kind, last) ==
  CASE kind = "Info0d" -> {ClockAt, last}
    [] kind = "PcmInfo1a" -> {1, 4}
    [] kind = "Mp" -> {2, 11, last}
    [] kind = "Jd" -> {3}
    [] kind = "Cp" -> {1, 4, 23}
    [] OTHER -> {}

Signed(kind, last) ==
  CASE kind = "Mp" -> 13 .. last - 1
    [] kind = "Cp" -> 12 .. 15
    [] kind \in {"Info1c", "Info1a", "PcmInfo1a"} -> {last}
    [] OTHER -> {}

\* NO_OFFSET, and an offset that was not measured.
NoOffset == 0 - 512
NotMeasured == 2 ^ 16
HasOffset(kind) == kind \in {"Info1c", "Info1a", "PcmInfo1a"}

\* write_offset.
WireOffset(offset) ==
  CASE offset = NotMeasured -> NoOffset
    [] offset # NotMeasured /\ offset > 511 -> 511
    [] offset # NotMeasured /\ offset < 0 - 511 -> 0 - 511
    [] OTHER -> offset

\* What of a message the far end is to learn: its offset clamped, no transmit clock.
Clear(m) ==
  LET last == Len(m.values)
      kept == [i \in 1 .. last |-> IF i \in Reserved(m.kind, last) THEN 0 ELSE m.values[i]]
  IN  IF HasOffset(m.kind) /\ kept[last] # NotMeasured
      THEN [m EXCEPT !.values = [kept EXCEPT ![last] = WireOffset(@)]]
      ELSE [m EXCEPT !.values = kept]

\* Info::fields and the words of the others.
FieldsOf(m) ==
  LET last == Len(m.values)
      wire(i) == IF HasOffset(m.kind) /\ i = last THEN WireOffset(m.values[i])
                 ELSE IF i \in Reserved(m.kind, last) THEN 0 ELSE m.values[i]
      Written(all) == FlattenSeq([i \in 1 .. last |-> Field(wire(i) % 2 ^ all[i], all[i])])
  IN  Written(Widths(m.kind, last - Len(Widths(m.kind, 0))))

\* Reader::field of each of the fields.
Numbers(widths, bits) ==
  LET read[n \in 0 .. Len(widths)] ==
        IF n = 0 THEN [rest |-> bits, all |-> <<>>]
        ELSE LET was == read[n - 1]
             IN  [rest |-> SubSeq(was.rest, widths[n] + 1, Len(was.rest)),
                  all |-> Append(was.all, NumberOf(SubSeq(was.rest, 1, widths[n])))]
  IN  read[Len(widths)].all

Value(kind, width, last, i, raw) ==
  LET Told(n) == IF HasOffset(kind) /\ i = last /\ n = NoOffset THEN NotMeasured ELSE n
  IN  CASE i \in Reserved(kind, last) -> 0
        [] i \notin Reserved(kind, last) ->
             Told(IF i \in Signed(kind, last) /\ raw >= 2 ^ (width - 1)
                  THEN raw - 2 ^ width ELSE raw)

ValuesOf(kind, more, bits) ==
  LET Read(widths, raw) ==
        [i \in DOMAIN widths |-> Value(kind, widths[i], Len(widths), i, raw[i])]
      Wide(widths) == Read(widths, Numbers(widths, bits))
  IN  Wide(Widths(kind, more))

-----------------------------------------------------------------------------
(* INFO sequences.                                                         *)
Fill == Ones(4)
Sync == <<0, 1, 1, 1, 0, 0, 1, 0>>

\* SymbolRate::from_index, S2400 to S3429; V.90 needs at least S3000.
SymbolRates == 0 .. 5
Upstream == 3 .. 5
PcmSymbolRate == 6

\* Info::frame.
InfoFrame(m) == Fill \o Sync \o FieldsOf(m) \o Crc(FieldsOf(m)) \o Fill

\* from_fields: the values that it takes.
ValidInfo(kind, values) ==
  CASE kind = "Info0" -> values[ClockAt] <= 2
    [] kind = "Info1a" -> values[7] \in SymbolRates /\ values[8] \in SymbolRates
    [] kind = "PcmInfo1a" -> values[5] \in Upstream /\ values[6] = PcmSymbolRate
    [] OTHER -> TRUE

LastOf(n, bits) == IF Len(bits) <= n THEN bits ELSE SubSeq(bits, Len(bits) - n + 1, Len(bits))

\* Deframer::push: what is kept, and the message that a bit ends.
InfoPush(kind, window, bit) ==
  LET Read(values) ==
        [window |-> <<>>,
         read |-> IF ValidInfo(kind, values) THEN <<[kind |-> kind, values |-> values]>>
                  ELSE <<>>]
      Held(length, bits) ==
        IF Len(bits) < length \/ SubSeq(bits, 1, 8) # Sync
          \/ Crc(SubSeq(bits, 9, length)) # Zeros(16)
        THEN [window |-> bits, read |-> <<>>]
        ELSE Read(ValuesOf(kind, 0, SubSeq(bits, 9, length - 16)))
      Pushed(length) == Held(length, LastOf(length, Append(window, bit)))
  IN  Pushed(Len(Sync) + InfoFields[kind] + 16)

-----------------------------------------------------------------------------
(* Words, each after a 0, and their CRC, after 17 ones.                    *)
SyncOnes == 17
EOnes == 20
InWords(bits) == [i \in 1 .. Len(bits) \div 16 |-> SubSeq(bits, 16 * i - 15, 16 * i)]

\* Mutant: no start bits, as the words follow each other.
WordFrameBare(bits) ==
  Ones(SyncOnes) \o <<0>> \o bits \o Crc(bits)

\* frames::frame, and that of Mp.
WordFrame(bits) ==
  LET words == InWords(bits \o Crc(bits))
  IN  Ones(SyncOnes) \o FlattenSeq([i \in DOMAIN words |-> <<0>> \o words[i]])

Precoded(values) == values[1] = 1

\* The zeros that end each.
FillAfter(m) ==
  Zeros(CASE m.kind = "Mp" -> IF Precoded(m.values) THEN 1 ELSE 3
          [] m.kind = "Jd" -> 4
          [] m.kind = "Cp" -> 3)

Frame(m) ==
  IF m.kind \in InfoKinds THEN InfoFrame(m) ELSE WordFrame(FieldsOf(m)) \o FillAfter(m)

\* words_at_end, with the CRC's word gone; <<>> if the bits do not end in such words.
WordsAtEnd(bits, words) ==
  LET length == SyncOnes + 17 * (words + 1)
      Sound(all) == IF Crc(all) = Zeros(16) THEN SubSeq(all, 1, 16 * words) ELSE <<>>
      Framed(frame) ==
        LET block(i) == SubSeq(frame, SyncOnes + 17 * i - 16, SyncOnes + 17 * i)
        IN  IF /\ Len(frame) = length /\ SubSeq(frame, 1, SyncOnes) = Ones(SyncOnes)
               /\ \A i \in 1 .. words + 1 : block(i)[1] = 0
            THEN Sound(FlattenSeq([i \in 1 .. words + 1 |-> Tail(block(i))])) ELSE <<>>
  IN  Framed(LastOf(length, bits))

\* Mp::from_words; the trellis has three values.
MpOf(bits, words) ==
  LET Read(values) == IF values[6] <= 2 THEN <<[kind |-> "Mp", values |-> values]>> ELSE <<>>
  IN  IF bits # <<>> /\ (bits[1] = 1 <=> words = MpWords.long)
      THEN Read(ValuesOf("Mp", words - 3, bits)) ELSE <<>>

\* mp::Deframer::push, the shorter type first.
MpPush(window, bit) ==
  LET Found(bits, words) == MpOf(WordsAtEnd(bits, words), words)
      Read(bits, mp) == [window |-> IF mp = <<>> THEN bits ELSE <<>>, read |-> mp]
      Short(bits, mp) == IF mp # <<>> THEN Read(bits, mp)
                         ELSE Read(bits, Found(bits, MpWords.long))
      Pushed(bits) == Short(bits, Found(bits, MpWords.short))
  IN  Pushed(LastOf(SyncOnes + 17 * (MpWords.long + 1), Append(window, bit)))

\* Words::length of Jd and of CP, less the words that all have; 0 - 1 if too soon to tell.
More(kind, words) ==
  LET Masks(values) ==
        MaskWords * (1 + Max({values[i] : i \in IntervalsAt})) * (1 + values[CodecAt])
  IN  CASE kind = "Jd" -> 0
        [] kind = "Cp" /\ Len(words) < 7 -> 0 - 1
        [] kind = "Cp" /\ Len(words) >= 7 ->
             Masks(Numbers(CpWidths, FlattenSeq(SubSeq(words, 1, 7))))

AtLeast(kind) == IF kind = "Jd" THEN 2 ELSE 7

NewBlocks == [ones |-> 0, on |-> FALSE, block |-> <<>>, words |-> <<>>]

\* A word is whole: the sequence may be too.
WordEnds(kind, b) ==
  LET off == [b EXCEPT !.on = FALSE, !.block = <<>>, !.words = <<>>]
      Read(more, all) ==
        IF Crc(all) # Zeros(16) THEN <<>>
        ELSE <<[kind |-> kind, values |-> ValuesOf(kind, more, all)]>>
      With(words, more) ==
        IF more < 0 \/ Len(words) <= AtLeast(kind) + more
        THEN [window |-> [b EXCEPT !.block = <<>>, !.words = words], read |-> <<>>]
        ELSE [window |-> off, read |-> Read(more, FlattenSeq(words))]
      Words(words) == With(words, More(kind, words))
  IN  IF b.block[1] = 1 THEN [window |-> off, read |-> <<>>]
      ELSE Words(Append(b.words, Tail(b.block)))

\* frames::Deframer::push: the sync begins it again, whatever it was in.
WordsPush(kind, b, bit) ==
  LET synced == b.ones >= SyncOnes /\ bit = 0
      counted == [b EXCEPT !.ones = IF bit = 1 THEN @ + 1 ELSE 0]
      begun == IF synced THEN [counted EXCEPT !.on = TRUE, !.block = <<bit>>, !.words = <<>>]
               ELSE [counted EXCEPT !.block = Append(@, bit)]
  IN  CASE ~synced /\ ~b.on -> [window |-> counted, read |-> <<>>]
        [] (synced \/ b.on) /\ Len(begun.block) < 17 -> [window |-> begun, read |-> <<>>]
        [] OTHER -> WordEnds(kind, begun)

PushBit(kind, window, bit) ==
  CASE kind \in InfoKinds -> InfoPush(kind, window, bit)
    [] kind = "Mp" -> MpPush(window, bit)
    [] kind \in {"Jd", "Cp"} -> WordsPush(kind, window, bit)

-----------------------------------------------------------------------------
MessagesInit ==
  /\ channel \in {"Info", "Mp", "Jd", "Cp"}
  /\ gap \in Gaps
  /\ listening = [k \in Kinds(channel) |-> IF k \in {"Jd", "Cp"} THEN NewBlocks ELSE <<>>]
  /\ arriving = <<>> /\ told = <<>> /\ whole = {} /\ understood = <<>>
  /\ ones = 0 /\ spoilt = FALSE
  /\ ends = [sent |-> 0, heard |-> 0]

\* A message, after what is sent between messages; the bit at hit is inverted.
Tell(m, hit) ==
  /\ arriving = <<>> /\ Len(told) < MaxMessages
  /\ hit # 0 => told = <<>>
  /\ arriving' = Hit(gap \o Frame(m), hit)
  /\ told' = Append(told, m)
  /\ whole' = IF hit = 0 THEN whole \cup {Len(told')} ELSE whole
  /\ spoilt' = (spoilt \/ hit # 0)
  /\ UNCHANGED <<channel, gap, listening, understood, ones, ends>>

\* E, after MP.
TellEnd ==
  /\ arriving = <<>> /\ channel = "Mp" /\ told # <<>> /\ ends.sent = 0
  /\ arriving' = Ones(EOnes)
  /\ ends' = [ends EXCEPT !.sent = 1]
  /\ UNCHANGED <<channel, gap, listening, told, whole, understood, ones, spoilt>>

\* What a deframer keeps and reads of the bits that come.
HeardBy(kind, line) ==
  LET Onward(read, now) == [read |-> read \o now.read, window |-> now.window]
      With(was, bit) == Onward(was.read, PushBit(kind, was.window, bit))
      after[n \in 0 .. Len(line)] ==
        IF n = 0 THEN [window |-> listening[kind], read |-> <<>>]
        ELSE With(after[n - 1], line[n])
  IN  after[Len(line)]

\* How many ones end the line, and how often there were as many as in E.
Counted(line) ==
  LET after[n \in 0 .. Len(line)] ==
        IF n = 0 THEN [ones |-> ones, times |-> ends.heard]
        ELSE LET was == after[n - 1]
                 run == IF line[n] = 1 THEN was.ones + 1 ELSE 0
             IN  [ones |-> run, times |-> was.times + (IF run = EOnes THEN 1 ELSE 0)]
  IN  after[Len(line)]

\* All that listen on the channel hear the same bits, some at a time.
Listen ==
  LET now == IF Len(arriving) < PieceBits THEN Len(arriving) ELSE PieceBits
      line == SubSeq(arriving, 1, now)
      kinds == SetToSeq(Kinds(channel))
  IN  /\ arriving # <<>>
      /\ arriving' = SubSeq(arriving, now + 1, Len(arriving))
      /\ \E heard \in {[k \in Kinds(channel) |-> HeardBy(k, line)]} :
           /\ listening' = [k \in Kinds(channel) |-> heard[k].window]
           /\ understood' = understood \o FlattenSeq([i \in DOMAIN kinds |-> heard[kinds[i]].read])
      /\ \E counted \in {Counted(line)} :
           ones' = counted.ones /\ ends' = [ends EXCEPT !.heard = counted.times]
      /\ UNCHANGED <<channel, gap, told, whole, spoilt>>

MessagesNext ==
  \/ \E m \in Tellings :
       /\ m.kind \in Kinds(channel)
       /\ \E hit \in 0 .. Len(gap \o Frame(m)) : hit % HitStep = 0 /\ Tell(m, hit)
  \/ TellEnd
  \/ Listen

-----------------------------------------------------------------------------
\* No deframer keeps more than it needs to, and none that is off keeps anything.
MessagesTypeOK ==
  \A k \in Kinds(channel) :
    CASE k \in InfoKinds -> Len(listening[k]) <= 24 + InfoFields[k]
      [] k = "Mp" -> Len(listening[k]) <= SyncOnes + 17 * (MpWords.long + 1)
      [] k \in {"Jd", "Cp"} ->
           /\ Len(listening[k].block) <= 16
           /\ ~listening[k].on => listening[k].words = <<>>

\* Each message is read as what it was, by its own kind's deframer and no other though
\* all listen to the same bits, in order; whatever bit is inverted none is made up, and
\* only the message that it fell in is lost.
ReadRight ==
  \E places \in SUBSET DOMAIN told :
    /\ arriving = <<>> => whole \subseteq places
    /\ understood = [i \in DOMAIN Picked(told, places) |-> Clear(Picked(told, places)[i])]

\* Twenty ones in a row, by which E is known, are in no MP: not in its sync, nor in the
\* words and the CRC, whatever they hold (the start bits, and the 0 after each frame).
EAlone ==
  ~spoilt => ends.heard <= ends.sent /\ (arriving = <<>> => ends.heard = ends.sent)
=============================================================================
