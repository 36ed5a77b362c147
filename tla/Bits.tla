-------------------------------- MODULE Bits --------------------------------
(***************************************************************************)
(* Fields least significant bit first and the CRC of V.34 and of HDLC,     *)
(* softmodem-dsp/src/v34/bits.rs.  A bit is 0 or 1.                        *)
(***************************************************************************)
EXTENDS Integers, Sequences, SequencesExt

Xor(a, b) == (a + b) % 2

\* Writer::field.
Field(value, width) == [i \in 1 .. width |-> (value \div 2 ^ (i - 1)) % 2]

\* Reader::field.
NumberOf(field) ==
  LET to[n \in 0 .. Len(field)] ==
        IF n = 0 THEN 0 ELSE to[n - 1] + field[n] * 2 ^ (n - 1)
  IN  to[Len(field)]

Ones(n) == [i \in 1 .. n |-> 1]
Zeros(n) == [i \in 1 .. n |-> 0]

\* The register shifts towards its first bit, and feeds back bits 15, 10 and 3.
CrcStep(crc, bit) ==
  LET feedback == Xor(crc[1], bit)
  IN  SubSeq(crc, 2, 4) \o <<Xor(crc[5], feedback)>> \o SubSeq(crc, 6, 11)
        \o <<Xor(crc[12], feedback)>> \o SubSeq(crc, 13, 16) \o <<feedback>>

\* bits::crc, and hdlc's fcs_update over whole octets: over bits, from a register, by
\* halves.
Registers == [1 .. 16 -> {0, 1}]
CrcOver[crc \in Registers, bits \in Seq({0, 1})] ==
  LET half == Len(bits) \div 2
  IN  CASE Len(bits) = 0 -> crc
        [] Len(bits) = 1 -> CrcStep(crc, bits[1])
        [] Len(bits) > 1 -> CrcOver[CrcOver[crc, SubSeq(bits, 1, half)],
                                    SubSeq(bits, half + 1, Len(bits))]
Crc(bits) == CrcOver[Ones(16), bits]

\* The elements of a sequence at the given places, in order.
Picked(s, places) ==
  LET at == SelectSeq([j \in DOMAIN s |-> j], LAMBDA j : j \in places)
  IN  [i \in DOMAIN at |-> s[at[i]]]

\* What the line does to a bit: inverts it, or (hit = 0) none.
Hit(bits, hit) ==
  IF hit = 0 THEN bits ELSE ReplaceAt(bits, hit, 1 - bits[hit])

\* The octets of whole groups of eight bits, and back.
BitsOf(octets) == FlattenSeq([i \in DOMAIN octets |-> Field(octets[i], 8)])
OctetsOf(bits) ==
  [i \in 1 .. Len(bits) \div 8 |-> NumberOf(SubSeq(bits, 8 * i - 7, 8 * i))]
=============================================================================
