------------------------------- MODULE Fields -------------------------------
(***************************************************************************)
(* The octets of LAPM frames, softmodem-link/src/frame.rs, and of the XID  *)
(* frame's information field, softmodem-link/src/xid.rs: what one end      *)
(* writes the other reads, which may be of another make and know more.     *)
(***************************************************************************)
EXTENDS Bits, FiniteSets

CONSTANTS
  FramesSaid,   \* bound: LAPM frames
  OctetsSaid,   \* bound: octets that come where a LAPM frame should
  XidsSaid,     \* bound: XIDs
  Strange       \* bound: parameters that this code does not know

VARIABLE exchange   \* what was said, as octets, and what was read of it

-----------------------------------------------------------------------------
(* LAPM frames.                                                            *)
Control == [Rr |-> 1, Rnr |-> 5, Rej |-> 9, Srej |-> 13,
            Sabme |-> 111, Dm |-> 15, Ui |-> 3, Disc |-> 67, Ua |-> 99, Frmr |-> 135,
            Xid |-> 175, Test |-> 227]
Supervisory == {"Rr", "Rnr", "Rej", "Srej"}
Unnumbered == DOMAIN Control \ Supervisory
TakesInfo == {"Srej", "Ui", "Frmr", "Xid", "Test"}

BitOf(flag) == IF flag THEN 1 ELSE 0
LapmFrame(cr, kind, ns, nr, pf, info) ==
  [cr |-> cr, kind |-> kind, ns |-> ns, nr |-> nr, pf |-> pf, info |-> info]

\* Frame::bytes, for DLCI 0.
FrameOctets(f) ==
  <<2 * BitOf(f.cr) + 1>>
    \o (CASE f.kind = "I" -> <<2 * f.ns, 2 * f.nr + BitOf(f.pf)>>
          [] f.kind \in Supervisory -> <<Control[f.kind], 2 * f.nr + BitOf(f.pf)>>
          [] f.kind \in Unnumbered -> <<Control[f.kind] + 16 * BitOf(f.pf)>>)
    \o f.info

Invalid == [is |-> "Invalid"]
Undefined == [is |-> "Undefined"]

After(octets, n) == SubSeq(octets, n + 1, Len(octets))

\* numbered.
ReadNumbered(cr, octets) ==
  LET kinds == {k \in Supervisory : Control[k] = octets[2]}
      kind == IF octets[2] % 2 = 0 THEN "I" ELSE CHOOSE k \in kinds : TRUE
      info == After(octets, 3)
  IN  CASE Len(octets) < 3 -> Invalid
        [] Len(octets) >= 3 /\ octets[2] % 2 = 1 /\ kinds = {} -> Undefined
        [] OTHER -> IF info # <<>> /\ kind \notin TakesInfo \cup {"I"} THEN Undefined
                    ELSE LapmFrame(cr, kind, IF kind = "I" THEN octets[2] \div 2 ELSE 0,
                                   octets[3] \div 2, octets[3] % 2 = 1, info)

\* unnumbered.
ReadUnnumbered(cr, octets) ==
  LET pf == (octets[2] \div 16) % 2
      kinds == {k \in Unnumbered : Control[k] = octets[2] - 16 * pf}
      kind == CHOOSE k \in kinds : TRUE
  IN  CASE kinds = {} -> Undefined
        [] kinds # {} /\ Len(octets) > 2 /\ kind \notin TakesInfo -> Undefined
        [] OTHER -> LapmFrame(cr, kind, 0, 0, pf = 1, After(octets, 2))

\* Frame::parse.
ReadFrame(octets) ==
  IF Len(octets) < 2 \/ octets[1] \notin {1, 3} THEN Invalid
  ELSE IF octets[2] % 2 = 0 \/ octets[2] % 4 = 1 THEN ReadNumbered(octets[1] = 3, octets)
  ELSE ReadUnnumbered(octets[1] = 3, octets)

-----------------------------------------------------------------------------
(* XID.  Functions are a set of bit numbers; what is left out is Absent.   *)
Absent == 0 - 1
Required == {1, 3, 7, 8, 11, 15}

FormatId == 130
ParametersId == 128
PrivateId == 240
UserDataId == 255
V42 == <<86, 52, 50>>

FunctionOctets(functions) ==
  [i \in 1 .. 4 |-> NumberOf([b \in 1 .. 8 |-> BitOf(8 * i + b - 9 \in functions)])]

\* Big-endian octets, and as few as hold the number.
BigEndian(n, octets) == [i \in 1 .. octets |-> (n \div 256 ^ (octets - i)) % 256]
Minimal(n) == BigEndian(n, CHOOSE k \in 1 .. 3 : n < 256 ^ k /\ \A j \in 1 .. k - 1 : n >= 256 ^ j)

Parameter(id, value) == <<id, Len(value)>> \o value
Optional(id, number, value) == IF number = Absent THEN <<>> ELSE Parameter(id, value)
Group(id, value) == <<id>> \o BigEndian(Len(value), 2) \o value

\* Xid::bytes; a far end of another make may add parameters of its own to a group.
ParameterGroup(x, more) ==
  Group(ParametersId,
        Parameter(3, FunctionOctets(x.functions \cup Required))
          \o more
          \o Optional(5, x.n401Tx, Minimal(8 * x.n401Tx))
          \o Optional(6, x.n401Rx, Minimal(8 * x.n401Rx))
          \o Optional(7, x.kTx, <<x.kTx>>) \o Optional(8, x.kRx, <<x.kRx>>))
PrivateGroup(c, more) ==
  Group(PrivateId,
        Parameter(0, V42) \o Parameter(1, <<c.directions>>) \o more
          \o Optional(2, c.codewords, BigEndian(c.codewords, 2))
          \o Optional(3, c.maxString, <<c.maxString>>))
XidGroups(x, more) ==
  <<ParameterGroup(x, more)>> \o [i \in DOMAIN x.compression |-> PrivateGroup(x.compression[i], more)]
XidOctets(x) == <<FormatId>> \o FlattenSeq(XidGroups(x, <<>>))

NoXid == [is |-> "None"]
DefaultXid == [functions |-> {}, n401Tx |-> Absent, n401Rx |-> Absent, kTx |-> Absent,
               kRx |-> Absent, compression |-> <<>>]

\* number, then at most: more than four octets that count are too many, and four are
\* past every limit.
Significant(value) ==
  LET first == {i \in DOMAIN value : value[i] # 0}
  IN  IF first = {} THEN <<>>
      ELSE After(value, (CHOOSE i \in first : \A j \in first : i <= j) - 1)
NumberUpTo(value, most, unit) ==
  LET octets == Significant(value)
      to[n \in 0 .. Len(octets)] == IF n = 0 THEN 0 ELSE 256 * to[n - 1] + octets[n]
  IN  CASE Len(octets) > 4 -> Absent
        [] Len(octets) = 4 -> most
        [] OTHER -> LET n == to[Len(octets)] \div unit IN IF n > most THEN most ELSE n

Cut == [id |-> Absent]

\* parameters: identifiers and values, and Cut last of all if one is cut short.
Pairs[octets \in Seq(Nat)] ==
  IF Len(octets) < 2 THEN <<>>
  ELSE IF Len(octets) < 2 + octets[2] THEN <<Cut>>
  ELSE <<[id |-> octets[1], value |-> SubSeq(octets, 3, 2 + octets[2])]>>
         \o Pairs[After(octets, 2 + octets[2])]
PairsIn(octets) == Pairs[octets]

GroupLength(octets) == 256 * octets[2] + octets[3]

\* The groups of Xid::parse, up to any user data.
Groups[octets \in Seq(Nat)] ==
  IF octets = <<>> THEN <<>>
  ELSE IF octets[1] = UserDataId THEN <<>>
  ELSE IF Len(octets) < 3 THEN <<Cut>>
  ELSE LET length == GroupLength(octets)
       IN  IF Len(octets) < 3 + length THEN <<Cut>>
           ELSE <<[id |-> octets[1], pairs |-> PairsIn(SubSeq(octets, 4, 3 + length))]>>
                  \o Groups[After(octets, 3 + length)]

CutShort(seq) == seq # <<>> /\ Last(seq).id = Absent

\* Xid::read_parameters, one of them.
ReadParameter(x, p) ==
  LET bit(b) == p.value[b \div 8 + 1] \div 2 ^ (b % 8) % 2 = 1
  IN  CASE p.id = 3 ->
             [x EXCEPT !.functions = {b \in 0 .. 31 : b \div 8 < Len(p.value) /\ bit(b)} \ Required]
        [] p.id = 5 -> [x EXCEPT !.n401Tx = NumberUpTo(p.value, 65535, 8)]
        [] p.id = 6 -> [x EXCEPT !.n401Rx = NumberUpTo(p.value, 65535, 8)]
        [] p.id = 7 -> [x EXCEPT !.kTx = NumberUpTo(p.value, 255, 1)]
        [] p.id = 8 -> [x EXCEPT !.kRx = NumberUpTo(p.value, 255, 1)]
        [] OTHER -> x

\* Xid::read_private: compression is what its P0 asks for, whatever parameter set it names.
ReadPrivate(c, p) ==
  CASE p.id = 1 -> [c EXCEPT !.directions = IF Len(Significant(p.value)) > 4 THEN Absent
                                            ELSE IF p.value = <<>> THEN 0 ELSE Last(p.value) % 4]
    [] p.id = 2 -> [c EXCEPT !.codewords = NumberUpTo(p.value, 65535, 1)]
    [] p.id = 3 -> [c EXCEPT !.maxString = NumberUpTo(p.value, 255, 1)]
    [] OTHER -> c

ReadGroup(x, g) ==
  LET asked == FoldLeft(ReadPrivate, [directions |-> Absent, codewords |-> Absent,
                                      maxString |-> Absent], g.pairs)
  IN  CASE g.id = ParametersId -> FoldLeft(ReadParameter, x, g.pairs)
        [] g.id = PrivateId ->
             [x EXCEPT !.compression = IF asked.directions = Absent THEN <<>> ELSE <<asked>>]
        [] OTHER -> x

\* Xid::parse.
ReadXid(octets) ==
  LET groups == Groups[After(octets, 1)]
  IN  IF octets = <<>> THEN NoXid
      ELSE IF octets[1] # FormatId \/ CutShort(groups) THEN NoXid
      ELSE IF \E i \in DOMAIN groups : groups[i].id \in {ParametersId, PrivateId}
                                         /\ CutShort(groups[i].pairs) THEN NoXid
      ELSE FoldLeft(ReadGroup, DefaultXid, groups)

-----------------------------------------------------------------------------
Quiet == [what |-> "Nothing"]

FieldsInit == exchange = Quiet

SayFrame(f) ==
  exchange' = [what |-> "Frame", said |-> f, octets |-> FrameOctets(f),
               read |-> ReadFrame(FrameOctets(f))]

SayOctets(octets) ==
  exchange' = [what |-> "Octets", octets |-> octets, read |-> ReadFrame(octets)]

SayXid(x) ==
  exchange' = [what |-> "Xid", said |-> x, octets |-> XidOctets(x), read |-> ReadXid(XidOctets(x))]

\* Of another make: parameters that are not known in each group, and a group and user
\* data that are not either.
SayMore(x, strange) ==
  LET octets == <<FormatId>> \o FlattenSeq(XidGroups(x, strange)) \o Group(7, strange)
                  \o <<UserDataId, 9, 9>>
  IN  exchange' = [what |-> "Xid", said |-> x, octets |-> octets, read |-> ReadXid(octets)]

\* The first octets only.
SayLess(x, length) ==
  LET octets == SubSeq(XidOctets(x), 1, length)
      all == XidGroups(x, <<>>)
      borders == {1 + Len(FlattenSeq(SubSeq(all, 1, n))) : n \in 1 .. Len(all)} \cup {1}
  IN  exchange' = [what |-> "Less", octets |-> octets, read |-> ReadXid(octets),
                   whole |-> length \in borders]

FieldsNext ==
  /\ exchange = Quiet
  /\ \/ \E f \in FramesSaid : SayFrame(f)
     \/ \E octets \in OctetsSaid : SayOctets(octets)
     \/ \E x \in XidsSaid :
          \/ SayXid(x)
          \/ \E strange \in Strange : SayMore(x, strange)
          \/ \E length \in 0 .. Len(XidOctets(x)) : SayLess(x, length)

-----------------------------------------------------------------------------
\* Each octet that is written fits an octet.
FieldsTypeOK == exchange # Quiet => \A i \in DOMAIN exchange.octets : exchange.octets[i] \in 0 .. 255

\* A frame is read as what was written, and octets that are taken for a frame are those
\* that it would be written as: no two control fields are read alike, and nothing of one
\* is passed over (bytes and parse).
OneReading ==
  /\ exchange.what = "Frame" => exchange.read = exchange.said
  /\ exchange.what = "Octets" /\ exchange.read \notin {Invalid, Undefined} =>
       FrameOctets(exchange.read) = exchange.octets

\* An XID is read as what was written, at the limits of its values too, whatever
\* parameters, groups and user data of another make stand among those that are known.
StrangeSkipped == exchange.what = "Xid" => exchange.read = exchange.said

\* An XID that is cut short within a group is not read at all: never are parameters
\* negotiated that are half of what was proposed.
HalfRefused == exchange.what = "Less" => ((exchange.read = NoXid) <=> ~exchange.whole)
=============================================================================
