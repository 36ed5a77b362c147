--------------------------- MODULE TerminalProofs ---------------------------
(***************************************************************************)
(* Proofs about the modem's side of the terminal, each for any constants:  *)
(* the escape detector, the ports by which the computer's bytes come, and  *)
(* the character device that programs call.                                *)
(***************************************************************************)
EXTENDS Escape, Cuse, Ports,
        SequenceTheorems, FiniteSetTheorems, WellFoundedInduction, TLAPS

-----------------------------------------------------------------------------
(***************************************************************************)
(* The escape detector keeps two instants and a count; the proof is that   *)
(* they say as much of the past as an escape depends on.                   *)
(***************************************************************************)
\* The instant of the last byte of a history, or of the start of data mode.
LastAt(ty) == IF ty = <<>> THEN 0 ELSE ty[Len(ty)].at

\* The quiet time before byte i of a history.
Quiet(ty, i) == ty[i].at - (IF i = 1 THEN 0 ELSE ty[i - 1].at)

\* The history ends in j characters e, each within g of the last, the first
\* after a quiet time.
RunOf(ty, e, g, j, before) ==
  /\ Len(ty) >= j
  /\ Quiet(ty, Len(ty) - j + 1) >= before
  /\ \A i \in Len(ty) - j + 1 .. Len(ty) :
       /\ ty[i].byte = e
       /\ i > Len(ty) - j + 1 => Quiet(ty, i) < g

BytesOf(ty) == [i \in 1 .. Len(ty) |-> ty[i].byte]

\* What is held is a run of escape characters that nothing came before, and
\* the detector's instants are those of the history.
HeldIsRun ==
  /\ \A i \in 1 .. Len(held) : held[i] = escape
  /\ held # <<>> => /\ lastHeld = LastAt(typed)
                    /\ RunOf(typed, escape, guard, Len(held), guard)
  /\ held = <<>> => lastData = LastAt(typed)
  /\ Len(held) > 1 => guard > 0

\* A poll is never far, and what is held has not been due at one.
PolledInTime ==
  /\ now - lastPoll <= MaxLate
  /\ held # <<>> /\ guard > 0 => lastPoll - lastHeld < guard

\* A run that began clearly is held, until its guard time is over.
RunIsHeld ==
  /\ \A j \in 1 .. 3 :
       /\ RunOf(typed, escape, guard, j, guard + MaxLate)
       /\ now - LastAt(typed) < guard
       => Len(held) = j
  /\ RunOf(typed, escape, guard, 3, guard + MaxLate) => Len(held) = 3

Inv ==
  /\ TypeOK
  /\ Transparent
  /\ LastAt(typed) \in 0 .. now
  /\ mode = "Data" => HeldIsRun /\ PolledInTime /\ RunIsHeld

-----------------------------------------------------------------------------
\* A byte makes a run of one after a quiet time.
LEMMA RunStarts ==
  ASSUME NEW ty \in Seq(Typed), NEW x \in Typed, NEW e, NEW g \in Nat,
         NEW before \in Nat
  PROVE  RunOf(Append(ty, x), e, g, 1, before)
           <=> x.byte = e /\ x.at - LastAt(ty) >= before
<1> DEFINE u == Append(ty, x)
           n == Len(ty)
<1>1. n \in Nat /\ Len(u) = n + 1 /\ u[n + 1] = x
      /\ (ty = <<>> <=> n = 0)
      /\ \A i \in 1 .. n : u[i] = ty[i]
  OBVIOUS
<1>2. Quiet(u, n + 1) = x.at - LastAt(ty)
  <2>1. CASE n = 0
    BY <1>1, <2>1 DEF Quiet, LastAt
  <2>2. CASE n # 0
    BY <1>1, <2>2 DEF Quiet, LastAt
  <2> QED
    BY <2>1, <2>2
<1> HIDE DEF u, n
<1>3. RunOf(u, e, g, 1, before)
        <=> u[n + 1].byte = e /\ Quiet(u, n + 1) >= before
  BY <1>1 DEF RunOf
<1> QED
  BY <1>1, <1>2, <1>3 DEF u

\* A byte makes a run of j one of j + 1 if it comes within the guard time.
LEMMA RunGrows ==
  ASSUME NEW ty \in Seq(Typed), NEW x \in Typed, NEW e, NEW g \in Nat,
         NEW j \in Nat \ {0}, NEW before \in Nat
  PROVE  RunOf(Append(ty, x), e, g, j + 1, before)
           <=> /\ RunOf(ty, e, g, j, before)
               /\ x.byte = e /\ x.at - LastAt(ty) < g
<1> DEFINE u == Append(ty, x)
           n == Len(ty)
<1>1. n \in Nat /\ Len(u) = n + 1 /\ u[n + 1] = x
      /\ (ty = <<>> <=> n = 0)
      /\ \A i \in 1 .. n : u[i] = ty[i]
  OBVIOUS
<1> HIDE DEF u, n
<1>2. CASE n < j
  BY <1>1, <1>2 DEF RunOf, n, u
<1>3. CASE n >= j
  <2>1. \A i \in 1 .. n : Quiet(u, i) = Quiet(ty, i)
    BY <1>1 DEF Quiet
  <2>2. Quiet(u, n + 1) = x.at - LastAt(ty)
    BY <1>1, <1>3 DEF Quiet, LastAt, n
  <2>3. Len(u) - (j + 1) + 1 = n - j + 1 /\ n - j + 1 \in 1 .. n
        /\ Len(u) >= j + 1
    BY <1>1, <1>3
  <2>4. RunOf(u, e, g, j + 1, before)
          <=> /\ Quiet(u, n - j + 1) >= before
              /\ \A i \in n - j + 1 .. n + 1 :
                   u[i].byte = e /\ (i > n - j + 1 => Quiet(u, i) < g)
    BY <1>1, <2>3 DEF RunOf
  <2>5. (\A i \in n - j + 1 .. n + 1 :
           u[i].byte = e /\ (i > n - j + 1 => Quiet(u, i) < g))
          <=> /\ \A i \in n - j + 1 .. n :
                   u[i].byte = e /\ (i > n - j + 1 => Quiet(u, i) < g)
              /\ x.byte = e /\ Quiet(u, n + 1) < g
    BY <1>1, <2>3
  <2>6. (\A i \in n - j + 1 .. n :
           u[i].byte = e /\ (i > n - j + 1 => Quiet(u, i) < g))
          <=> (\A i \in n - j + 1 .. n :
                 ty[i].byte = e /\ (i > n - j + 1 => Quiet(ty, i) < g))
    BY <1>1, <2>1, <2>3
  <2>7. RunOf(ty, e, g, j, before)
          <=> /\ Quiet(ty, n - j + 1) >= before
              /\ \A i \in n - j + 1 .. n :
                   ty[i].byte = e /\ (i > n - j + 1 => Quiet(ty, i) < g)
    BY <1>1, <1>3 DEF RunOf, n
  <2> QED
    BY <2>1, <2>2, <2>3, <2>4, <2>5, <2>6, <2>7 DEF u
<1> QED
  BY <1>1, <1>2, <1>3

\* The bytes of a longer history.
LEMMA BytesGrow ==
  ASSUME NEW ty \in Seq(Typed), NEW x \in Typed
  PROVE  /\ BytesOf(ty) \in Seq(Bytes)
         /\ BytesOf(Append(ty, x)) = Append(BytesOf(ty), x.byte)
<1>1. ASSUME NEW h \in Seq(Typed)
      PROVE  BytesOf(h) \in Seq(Bytes) /\ Len(BytesOf(h)) = Len(h)
  <2>1. Len(h) \in Nat /\ \A i \in 1 .. Len(h) : h[i].byte \in Bytes
    <3>1. Len(h) \in Nat /\ \A i \in 1 .. Len(h) : h[i] \in Typed
      BY <1>1
    <3> QED
      BY <3>1 DEF Typed
  <2>2. BytesOf(h) \in [1 .. Len(h) -> Bytes]
    BY <2>1 DEF BytesOf
  <2> QED
    BY <2>1, <2>2, SeqDef, LenProperties
<1> DEFINE u == Append(ty, x)
<1>2. u \in Seq(Typed) /\ Len(u) = Len(ty) + 1 /\ u[Len(ty) + 1] = x
      /\ Len(ty) \in Nat /\ \A i \in 1 .. Len(ty) : u[i] = ty[i]
  OBVIOUS
<1> HIDE DEF u
<1>3. x.byte \in Bytes
  BY DEF Typed
<1>4. \A i \in 1 .. Len(u) : BytesOf(u)[i] = Append(BytesOf(ty), x.byte)[i]
  <2>1. \A i \in 1 .. Len(u) : BytesOf(u)[i] = u[i].byte
    BY DEF BytesOf
  <2>2. \A i \in 1 .. Len(ty) : BytesOf(ty)[i] = ty[i].byte
    BY DEF BytesOf
  <2>3. \A i \in 1 .. Len(u) :
          Append(BytesOf(ty), x.byte)[i]
            = IF i <= Len(ty) THEN BytesOf(ty)[i] ELSE x.byte
    BY <1>1, <1>2, <1>3
  <2>4. ASSUME NEW i \in 1 .. Len(u)
        PROVE  BytesOf(u)[i] = Append(BytesOf(ty), x.byte)[i]
    <3>1. CASE i = Len(ty) + 1
      <4>1. ~(i <= Len(ty))
        BY <1>2, <3>1
      <4> QED
        BY <1>2, <2>1, <2>3, <3>1, <4>1
    <3>2. CASE i \in 1 .. Len(ty)
      <4>1. i <= Len(ty)
        BY <1>2, <3>2
      <4> QED
        BY <1>2, <2>1, <2>2, <2>3, <3>2, <4>1
    <3>3. i = Len(ty) + 1 \/ i \in 1 .. Len(ty)
      BY <1>2
    <3> QED
      BY <3>1, <3>2, <3>3
  <2> QED
    BY <2>4
<1>5. BytesOf(u) = Append(BytesOf(ty), x.byte)
  <2>1. Append(BytesOf(ty), x.byte) \in Seq(Bytes)
        /\ Len(Append(BytesOf(ty), x.byte)) = Len(u)
    BY <1>1, <1>2, <1>3
  <2> QED
    BY <1>1, <1>2, <1>4, <2>1, SeqEqual
<1> QED
  BY <1>1, <1>5 DEF u

LEMMA InitInv == Init => Inv
<1> SUFFICES ASSUME Init PROVE Inv
  OBVIOUS
<1>1. TypeOK
  BY EscapeAssumption DEF Init, TypeOK, Modes
<1>2. Transparent /\ mode # "Data"
  BY DEF Init, Transparent
<1>3. LastAt(typed) \in 0 .. now
  BY DEF Init, LastAt
<1> QED
  BY <1>1, <1>2, <1>3 DEF Inv

\* A byte that is held goes on with a run, or begins one.
LEMMA HoldByteInv ==
  ASSUME Inv, NEW b \in Bytes, Type(b), b = escape, Continues \/ Starts
  PROVE  Inv'
<1> DEFINE x == [byte |-> b, at |-> now]
<1>1. /\ TypeOK /\ HeldIsRun /\ PolledInTime /\ RunIsHeld
      /\ sent \o held = BytesOf(typed) /\ LastAt(typed) \in 0 .. now
      /\ mode = "Data" /\ mode' = "Data"
  BY DEF Inv, Type, Transparent, BytesTyped, BytesOf
<1>2. /\ held' = Append(held, b) /\ lastHeld' = now
      /\ UNCHANGED <<lastData, sent, escape, guard, now, lastPoll>>
      /\ typed' = Append(typed, x)
  BY DEF Type, Push, HoldByte
<1>3. /\ typed \in Seq(Typed) /\ x \in Typed /\ held \in Seq(Bytes)
      /\ guard \in Nat /\ MaxLate \in Nat
      /\ now \in Nat /\ lastPoll \in 0 .. now
      /\ sent \in Seq(Bytes) /\ lastHeld \in 0 .. now /\ lastData \in 0 .. now
      /\ Len(held) \in Nat /\ Len(held) <= 3
      /\ Len(held') = Len(held) + 1 /\ held' # <<>>
      /\ (held = <<>> <=> Len(held) = 0)
  <2>1. /\ typed \in Seq(Typed) /\ held \in Seq(Bytes) /\ sent \in Seq(Bytes)
        /\ now \in Nat /\ lastPoll \in 0 .. now /\ Len(held) <= 3
        /\ lastHeld \in 0 .. now /\ lastData \in 0 .. now
    BY <1>1 DEF TypeOK
  <2>2. guard \in Nat /\ MaxLate \in Nat
    BY <1>1, EscapeAssumption DEF TypeOK
  <2>3. x \in Typed
    BY <2>1 DEF Typed
  <2>4. /\ Len(held) \in Nat /\ Len(held) <= 3
        /\ Len(held') = Len(held) + 1 /\ held' # <<>>
        /\ (held = <<>> <=> Len(held) = 0)
    <3>1. Len(held) \in Nat /\ (held = <<>> <=> Len(held) = 0)
      BY <2>1
    <3>2. Len(held') = Len(held) + 1
      BY <1>2, <2>1
    <3>3. held' # <<>>
      BY <3>1, <3>2, EmptySeq
    <3>4. Len(held) <= 3
      BY <2>1
    <3> QED
      BY <3>1, <3>2, <3>3, <3>4
  <2> QED
    BY <2>1, <2>2, <2>3, <2>4
<1>4. Len(held) < 3
  BY <1>3 DEF Continues, Starts
<1>5. LastAt(typed') = now
  <2>1. typed' # <<>> /\ typed'[Len(typed')] = x
    <3>1. Len(typed') = Len(typed) + 1 /\ typed'[Len(typed) + 1] = x
          /\ Len(typed) \in Nat
      BY <1>2, <1>3
    <3> QED
      BY <3>1, EmptySeq
  <2> QED
    BY <2>1 DEF LastAt
<1> HIDE DEF x
<1>6. TypeOK'
  <2>1. typed' \in Seq(Typed)
    BY <1>2, <1>3
  <2> QED
    BY <1>1, <1>2, <1>3, <1>4, <2>1 DEF TypeOK
<1>7. Transparent'
  <2>1. sent \o Append(held, b) = Append(sent \o held, b)
    BY <1>3
  <2>2. BytesOf(typed') = Append(BytesOf(typed), b)
    BY <1>2, <1>3, BytesGrow DEF x
  <2> QED
    BY <1>1, <1>2, <2>1, <2>2 DEF Transparent, BytesTyped, BytesOf
<1>8. HeldIsRun'
  <2>1. \A i \in 1 .. Len(held') : held'[i] = escape
    BY <1>1, <1>2, <1>3 DEF HeldIsRun
  <2>2. CASE held = <<>>
    <3>1. RunOf(typed', escape, guard, 1, guard)
      <4>1. x.byte = escape /\ x.at - LastAt(typed) >= guard
        BY <1>1, <2>2 DEF Continues, Starts, HeldIsRun, x
      <4> QED
        BY <4>1, <1>2, <1>3, RunStarts
    <3> QED
      BY <1>2, <1>3, <1>5, <2>1, <2>2, <3>1 DEF HeldIsRun
  <2>3. CASE held # <<>>
    <3>1. RunOf(typed', escape, guard, Len(held) + 1, guard)
      <4>1. x.byte = escape /\ x.at - LastAt(typed) < guard
            /\ RunOf(typed, escape, guard, Len(held), guard)
        BY <1>1, <2>3 DEF Continues, Starts, HeldIsRun, x
      <4> QED
        BY <4>1, <1>2, <1>3, <2>3, RunGrows
    <3>2. guard > 0
      BY <1>3, <2>3 DEF Continues, Starts
    <3> QED
      BY <1>2, <1>3, <1>5, <2>1, <2>3, <3>1, <3>2 DEF HeldIsRun
  <2> QED
    BY <2>2, <2>3
<1>9. PolledInTime'
  BY <1>1, <1>2, <1>3 DEF PolledInTime
<1>10. RunIsHeld'
  <2> DEFINE early == guard + MaxLate
  <2>1. ASSUME NEW j \in 1 .. 3, RunOf(typed', escape, guard, j, early)
        PROVE  Len(held') = j
    <3>1. CASE j = 1
      <4>1. now - LastAt(typed) >= early
        BY <1>2, <1>3, <2>1, <3>1, RunStarts DEF x
      <4>2. held = <<>>
        BY <1>1, <1>3, <4>1 DEF HeldIsRun, Continues, Starts
      <4> QED
        BY <1>3, <3>1, <4>2
    <3>2. CASE j # 1
      <4>1. j - 1 \in Nat \ {0} /\ j - 1 \in 1 .. 3 /\ (j - 1) + 1 = j
        BY <3>2
      <4>2. RunOf(typed, escape, guard, j - 1, early)
            /\ now - LastAt(typed) < guard
        <5>1. RunOf(Append(typed, x), escape, guard, (j - 1) + 1, early)
          BY <1>2, <2>1, <4>1
        <5>2. early \in Nat
          BY <1>3
        <5> HIDE DEF early
        <5>3. RunOf(typed, escape, guard, j - 1, early)
              /\ x.at - LastAt(typed) < guard
          <6>1. typed \in Seq(Typed) /\ x \in Typed /\ guard \in Nat
            BY <1>3
          <6>2. j - 1 \in Nat \ {0}
            BY <4>1
          <6> QED
            BY <5>1, <5>2, <6>1, <6>2, RunGrows
        <5> QED
          BY <5>3 DEF x
      <4>3. Len(held) = j - 1
        BY <1>1, <4>1, <4>2 DEF RunIsHeld
      <4> QED
        BY <1>3, <4>1, <4>3
    <3> QED
      BY <3>1, <3>2
  <2> QED
    BY <1>2, <2>1 DEF RunIsHeld
<1> QED
  BY <1>1, <1>3, <1>5, <1>2, <1>6, <1>7, <1>8, <1>9, <1>10 DEF Inv

\* A byte that is data takes what was held with it.
LEMMA PassOnInv ==
  ASSUME Inv, NEW b \in Bytes, Type(b), ~(b = escape /\ (Continues \/ Starts))
  PROVE  Inv'
<1> DEFINE x == [byte |-> b, at |-> now]
<1>1. /\ TypeOK /\ HeldIsRun /\ PolledInTime /\ RunIsHeld
      /\ sent \o held = BytesOf(typed) /\ LastAt(typed) \in 0 .. now
      /\ mode = "Data" /\ mode' = "Data"
  BY DEF Inv, Type, Transparent, BytesTyped, BytesOf
<1>2. /\ sent' = Append(sent \o held, b) /\ held' = <<>> /\ lastData' = now
      /\ UNCHANGED <<lastHeld, escape, guard, now, lastPoll>>
      /\ typed' = Append(typed, x)
  BY DEF Type, Push, PassOn
<1>3. /\ typed \in Seq(Typed) /\ held \in Seq(Bytes) /\ sent \in Seq(Bytes)
      /\ now \in Nat /\ lastPoll \in 0 .. now /\ Len(held) <= 3
      /\ lastHeld \in 0 .. now /\ lastData \in 0 .. now
  BY <1>1 DEF TypeOK
<1>4. guard \in Nat /\ MaxLate \in Nat
  BY <1>1, EscapeAssumption DEF TypeOK
<1>5. x \in Typed
  BY <1>3 DEF Typed
<1>6. LastAt(typed') = now /\ typed' \in Seq(Typed)
  <2>1. Len(typed') = Len(typed) + 1 /\ typed'[Len(typed) + 1] = x
        /\ Len(typed) \in Nat /\ typed' \in Seq(Typed)
    BY <1>2, <1>3, <1>5
  <2>2. typed' # <<>> /\ typed'[Len(typed')] = x
    BY <2>1, EmptySeq
  <2> QED
    BY <2>1, <2>2 DEF LastAt
<1> HIDE DEF x
<1>7. TypeOK'
  <2>1. held' \in Seq(Bytes) /\ Len(held') <= 3
    BY <1>2, EmptySeq
  <2>2. sent' \in Seq(Bytes)
    BY <1>2, <1>3
  <2> QED
    BY <1>1, <1>2, <1>3, <1>6, <2>1, <2>2 DEF TypeOK
<1>8. Transparent'
  <2>1. sent' \o <<>> = sent'
    BY <1>2, <1>3, ConcatEmptySeq
  <2>2. BytesOf(typed') = Append(BytesOf(typed), b)
    BY <1>2, <1>3, <1>5, BytesGrow DEF x
  <2> QED
    BY <1>1, <1>2, <2>1, <2>2 DEF Transparent, BytesTyped, BytesOf
<1>9. HeldIsRun'
  BY <1>2, <1>6, EmptySeq DEF HeldIsRun
<1>10. PolledInTime'
  BY <1>1, <1>2 DEF PolledInTime
\* A run that the byte would go on with was held, so it would be held too.
<1>11. ASSUME guard > 0, NEW j \in 1 .. 3,
              RunOf(typed', escape, guard, j, guard + MaxLate)
       PROVE  FALSE
  <2> DEFINE early == guard + MaxLate
  <2>1. early \in Nat
    BY <1>4
  <2> HIDE DEF early
  <2>2. CASE j = 1
    <3>1. b = escape /\ now - LastAt(typed) >= early
      <4>1. RunOf(Append(typed, x), escape, guard, 1, early)
        BY <1>2, <1>11, <2>2 DEF early
      <4> QED
        BY <1>3, <1>4, <1>5, <2>1, <4>1, RunStarts DEF x
    <3>2. held = <<>>
      BY <1>1, <1>3, <1>4, <1>11, <3>1 DEF HeldIsRun, PolledInTime, early
    <3>3. Starts
      BY <1>1, <1>3, <1>4, <3>1, <3>2 DEF Starts, HeldIsRun, early
    <3> QED
      BY <3>1, <3>3
  <2>3. CASE j # 1
    <3>1. j - 1 \in Nat \ {0} /\ (j - 1) + 1 = j
      BY <2>3
    <3>2. RunOf(typed, escape, guard, j - 1, early) /\ b = escape
          /\ now - LastAt(typed) < guard
      <4>1. RunOf(Append(typed, x), escape, guard, (j - 1) + 1, early)
        BY <1>2, <1>11, <3>1 DEF early
      <4>2. typed \in Seq(Typed) /\ guard \in Nat /\ j - 1 \in Nat \ {0}
        BY <1>3, <1>4, <3>1
      <4> QED
        BY <1>5, <2>1, <4>1, <4>2, RunGrows DEF x
    <3>3. Len(held) = j - 1
      <4>1. j - 1 \in 1 .. 3
        BY <2>3
      <4> QED
        BY <1>1, <3>2, <4>1 DEF RunIsHeld, early
    <3>4. held # <<>> /\ Len(held) < 3
      BY <3>1, <3>3, EmptySeq
    <3>5. Continues
      BY <1>1, <3>2, <3>4 DEF Continues, HeldIsRun
    <3> QED
      BY <3>2, <3>5
  <2> QED
    BY <2>2, <2>3
<1>12. RunIsHeld'
  <2>1. CASE guard > 0
    <3>1. \A j \in 1 .. 3 : ~RunOf(typed', escape, guard, j, guard + MaxLate)
      BY <1>11, <2>1
    <3> QED
      BY <1>2, <3>1 DEF RunIsHeld
  <2>2. CASE guard = 0
    <3>1. ~(now - LastAt(typed') < guard)
      BY <1>3, <1>6, <2>2
    <3>2. ~RunOf(typed', escape, guard, 3, guard + MaxLate)
      <4>1. ~(now - LastAt(typed) < guard)
        BY <1>1, <1>3, <2>2
      <4>2. RunOf(Append(typed, x), escape, guard, 2 + 1, guard + MaxLate)
              => x.at - LastAt(typed) < guard
        <5>1. guard + MaxLate \in Nat /\ 2 \in Nat \ {0}
          BY <1>4
        <5> QED
          BY <1>3, <1>4, <1>5, <5>1, RunGrows
      <4> QED
        BY <1>2, <4>1, <4>2 DEF x
    <3> QED
      BY <1>2, <3>1, <3>2 DEF RunIsHeld
  <2> QED
    BY <1>4, <2>1, <2>2
<1> QED
  BY <1>1, <1>2, <1>3, <1>6, <1>7, <1>8, <1>9, <1>10, <1>12 DEF Inv

\* A tick after which what was held has gone, one way or the other.
LEMMA ResolveInv ==
  ASSUME Inv, Tick, Due
  PROVE  Inv'
<1>1. /\ TypeOK /\ HeldIsRun /\ PolledInTime /\ RunIsHeld
      /\ sent \o held = BytesOf(typed) /\ LastAt(typed) \in 0 .. now
      /\ mode = "Data"
  BY DEF Inv, Tick, Transparent, BytesTyped, BytesOf
<1>2. /\ held # <<>> /\ now - lastHeld >= guard
      /\ lastData' = lastHeld /\ held' = <<>> /\ lastPoll' = now
      /\ UNCHANGED <<lastHeld, escape, guard, now, typed>>
  BY DEF Tick, Due, Resolve
<1>3. CASE Len(held) = 3
  <2>1. mode' = "OnlineCommand" /\ sent' = sent
    BY <1>3 DEF Tick, Due, Resolve
  <2>2. TypeOK'
    BY <1>1, <1>2, <2>1, EmptySeq DEF TypeOK, Modes
  <2>3. held = <<escape, escape, escape>>
    <3>1. held \in Seq(Bytes)
      BY <1>1 DEF TypeOK
    <3>2. held[1] = escape /\ held[2] = escape /\ held[3] = escape
      BY <1>1, <1>3 DEF HeldIsRun
    <3> QED
      BY <1>3, <3>1, <3>2
  <2>4. Transparent'
    BY <1>1, <1>2, <2>1, <2>3 DEF Transparent, BytesTyped, BytesOf
  <2> QED
    BY <1>1, <1>2, <2>1, <2>2, <2>4 DEF Inv
<1>4. CASE Len(held) # 3
  <2>1. mode' = "Data" /\ sent' = sent \o held
    BY <1>1, <1>4 DEF Tick, Due, Resolve
  <2>2. TypeOK'
    <3>1. sent' \in Seq(Bytes)
      <4>1. sent \in Seq(Bytes) /\ held \in Seq(Bytes)
        BY <1>1 DEF TypeOK
      <4> QED
        BY <2>1, <4>1
    <3> QED
      BY <1>1, <1>2, <2>1, <3>1, EmptySeq DEF TypeOK, Modes
  <2>3. Transparent'
    <3>1. sent' \in Seq(Bytes)
      BY <2>2 DEF TypeOK
    <3>2. sent' \o <<>> = sent'
      BY <3>1, ConcatEmptySeq
    <3> QED
      BY <1>1, <1>2, <2>1, <3>2 DEF Transparent, BytesTyped, BytesOf
  <2>4. HeldIsRun'
    BY <1>1, <1>2, EmptySeq DEF HeldIsRun
  <2>5. PolledInTime'
    BY <1>1, <1>2, EscapeAssumption DEF PolledInTime, TypeOK
  <2>6. RunIsHeld'
    <3>1. ~(now - LastAt(typed) < guard)
      BY <1>1, <1>2, EscapeAssumption DEF HeldIsRun, TypeOK
    <3>2. ~RunOf(typed, escape, guard, 3, guard + MaxLate)
      BY <1>1, <1>4 DEF RunIsHeld
    <3> QED
      BY <1>2, <3>1, <3>2 DEF RunIsHeld
  <2> QED
    BY <1>1, <1>2, <2>1, <2>2, <2>3, <2>4, <2>5, <2>6 DEF Inv
<1> QED
  BY <1>3, <1>4

\* A tick with nothing to do.
LEMMA IdleTickInv ==
  ASSUME Inv, Tick, ~Due
  PROVE  Inv'
<1>1. /\ TypeOK /\ HeldIsRun /\ PolledInTime /\ RunIsHeld /\ Transparent
      /\ LastAt(typed) \in 0 .. now /\ mode = "Data" /\ lastPoll' = now
      /\ UNCHANGED <<mode, detector, sent, escape, guard, now, typed>>
  BY DEF Inv, Tick
<1>2. UNCHANGED <<held, lastData, lastHeld>>
  BY <1>1 DEF detector
<1>3. TypeOK'
  BY <1>1, <1>2 DEF TypeOK
<1>4. HeldIsRun' /\ RunIsHeld' /\ Transparent'
  BY <1>1, <1>2 DEF HeldIsRun, RunIsHeld, Transparent, BytesTyped
<1>5. PolledInTime'
  <2>1. held # <<>> => now - lastHeld < guard
    BY <1>1, EscapeAssumption DEF Due, TypeOK
  <2> QED
    BY <1>1, <1>2, <2>1, EscapeAssumption DEF PolledInTime, TypeOK
<1> QED
  BY <1>1, <1>3, <1>4, <1>5 DEF Inv

\* Data mode begins with no history.
LEMMA EnterDataInv ==
  ASSUME Inv, EnterData
  PROVE  Inv'
<1>1. /\ mode' = "Data" /\ escape' \in Escapes /\ guard' \in Guards
      /\ now' = 0 /\ lastPoll' = 0 /\ held' = <<>> /\ lastData' = 0
      /\ lastHeld' = 0 /\ sent' = <<>> /\ typed' = <<>>
  BY DEF EnterData, Afresh
<1>2. guard' \in Nat /\ MaxLate \in Nat
  BY <1>1, EscapeAssumption
<1>3. TypeOK'
  BY <1>1, EmptySeq DEF TypeOK, Modes
<1>4. Transparent'
  <2>1. BytesOf(<<>>) = <<>> /\ <<>> \o <<>> = <<>>
    <3>1. <<>> \in Seq(Bytes)
      BY EmptySeq
    <3>2. <<>> \o <<>> = <<>>
      BY <3>1, ConcatEmptySeq
    <3>3. BytesOf(<<>>) = <<>>
      BY DEF BytesOf
    <3> QED
      BY <3>2, <3>3
  <2> QED
    BY <1>1, <2>1 DEF Transparent, BytesTyped, BytesOf
<1>5. LastAt(typed') = 0
  BY <1>1 DEF LastAt
<1>6. HeldIsRun'
  BY <1>1, <1>5, EmptySeq DEF HeldIsRun
<1>7. PolledInTime'
  BY <1>1, <1>2 DEF PolledInTime
<1>8. RunIsHeld'
  <2>1. \A j \in 1 .. 3 : ~RunOf(<<>>, escape', guard', j, guard' + MaxLate)
    BY EmptySeq DEF RunOf
  <2> QED
    BY <1>1, <2>1 DEF RunIsHeld
<1> QED
  BY <1>1, <1>3, <1>4, <1>5, <1>6, <1>7, <1>8 DEF Inv

LEMMA HangUpInv ==
  ASSUME Inv, HangUp
  PROVE  Inv'
<1>1. /\ mode' = "Command" /\ UNCHANGED <<escape, guard>>
      /\ now' = 0 /\ lastPoll' = 0 /\ held' = <<>> /\ lastData' = 0
      /\ lastHeld' = 0 /\ sent' = <<>> /\ typed' = <<>>
  BY DEF HangUp, Afresh
<1>2. TypeOK'
  BY <1>1, EmptySeq DEF Inv, TypeOK, Modes
<1>3. LastAt(typed') \in 0 .. now'
  BY <1>1 DEF LastAt
<1> QED
  BY <1>1, <1>2, <1>3 DEF Inv, Transparent

\* Time passes no further than to the next poll.
LEMMA PassInv ==
  ASSUME Inv, Pass
  PROVE  Inv'
<1>1. /\ mode = "Data" /\ now' = now + 1 /\ now - lastPoll < MaxLate
      /\ UNCHANGED <<mode, escape, guard, lastPoll, held, lastData, lastHeld,
                     sent, typed>>
  BY DEF Pass, detector
<1>2. /\ TypeOK /\ HeldIsRun /\ PolledInTime /\ RunIsHeld /\ Transparent
      /\ LastAt(typed) \in 0 .. now
  BY <1>1 DEF Inv
<1>3. now \in Nat /\ lastPoll \in 0 .. now /\ guard \in Nat /\ MaxLate \in Nat
  BY <1>2, EscapeAssumption DEF TypeOK
<1>4. TypeOK'
  BY <1>1, <1>2 DEF TypeOK
<1>5. HeldIsRun' /\ Transparent'
  BY <1>1, <1>2 DEF HeldIsRun, Transparent, BytesTyped
<1>6. PolledInTime'
  BY <1>1, <1>2, <1>3 DEF PolledInTime
<1>7. RunIsHeld'
  <2>1. now' - LastAt(typed') < guard' => now - LastAt(typed) < guard
    BY <1>1, <1>2, <1>3
  <2> QED
    BY <1>1, <1>2, <2>1 DEF RunIsHeld
<1> QED
  BY <1>1, <1>2, <1>3, <1>4, <1>5, <1>6, <1>7 DEF Inv

LEMMA NextInv == Inv /\ [Next]_vars => Inv'
<1> SUFFICES ASSUME Inv, [Next]_vars PROVE Inv'
  OBVIOUS
<1>1. ASSUME NEW b \in Bytes, Type(b) PROVE Inv'
  BY <1>1, HoldByteInv, PassOnInv
<1>2. CASE Tick
  BY <1>2, ResolveInv, IdleTickInv
<1>3. CASE EnterData
  BY <1>3, EnterDataInv
<1>4. CASE HangUp
  BY <1>4, HangUpInv
<1>5. CASE Pass
  BY <1>5, PassInv
<1>6. CASE UNCHANGED vars
  BY <1>6 DEF vars, detector, Inv, TypeOK, Transparent, BytesTyped, HeldIsRun,
              PolledInTime, RunIsHeld
<1> QED
  BY <1>1, <1>2, <1>3, <1>4, <1>5, <1>6 DEF Next

\* The inductive invariant holds throughout.
THEOREM EscapeInvariance == Spec => []Inv
BY InitInv, NextInv, PTL DEF Spec

\* Whatever is typed and whenever, the line gets it in order and whole, but
\* for the three characters of an escape: push and poll lose nothing.
THEOREM DataIsTransparent == Spec => []Transparent
<1>1. Inv => Transparent
  BY DEF Inv
<1> QED
  BY <1>1, EscapeInvariance, PTL

\* What EscapeTyped says is that the history ends in a run of three.
LEMMA EscapeIsRun ==
  ASSUME typed \in Seq(Typed), guard \in Nat, now \in Nat,
         NEW before \in Nat, NEW after \in Nat
  PROVE  EscapeTyped(before, after)
           <=> /\ RunOf(typed, escape, guard, 3, before)
               /\ now - LastAt(typed) >= after
<1> DEFINE n == Len(typed)
<1>1. CASE n < 3
  BY <1>1 DEF EscapeTyped, RunOf
<1>2. CASE n >= 3
  <2>1. n \in Nat /\ n - 3 + 1 = n - 2 /\ LastAt(typed) = typed[n].at
    BY <1>2, EmptySeq DEF LastAt
  <2>2. /\ QuietBefore(n - 2) = Quiet(typed, n - 2)
        /\ QuietBefore(n - 1) = Quiet(typed, n - 1)
        /\ QuietBefore(n) = Quiet(typed, n)
    BY DEF QuietBefore, Quiet
  <2>3. RunOf(typed, escape, guard, 3, before)
          <=> /\ Quiet(typed, n - 2) >= before
              /\ \A i \in n - 2 .. n : typed[i].byte = escape
              /\ Quiet(typed, n - 1) < guard /\ Quiet(typed, n) < guard
    BY <1>2, <2>1 DEF RunOf
  <2>4. EscapeTyped(before, after)
          <=> /\ Quiet(typed, n - 2) >= before
              /\ \A i \in n - 2 .. n : typed[i].byte = escape
              /\ Quiet(typed, n - 1) < guard /\ Quiet(typed, n) < guard
              /\ now - typed[n].at >= after
    BY <1>2, <2>2 DEF EscapeTyped
  <2> QED
    BY <2>1, <2>3, <2>4
<1> QED
  <2>1. n \in Nat
    OBVIOUS
  <2> QED
    BY <1>1, <1>2, <2>1

\* Only a tick leaves data mode for online command mode, with the three
\* characters held.
LEMMA NeverByChanceStep ==
  ASSUME Inv, [Next]_vars, mode = "Data", mode' = "OnlineCommand"
  PROVE  EscapeTyped(guard, guard)
<1>1. Tick /\ Due /\ Len(held) = 3
  BY DEF Next, Type, Tick, EnterData, Afresh, HangUp, Pass, vars, Resolve
<1>2. HeldIsRun /\ TypeOK
  BY DEF Inv
<1>3. held # <<>> /\ now - lastHeld >= guard
  BY <1>1 DEF Due
<1>4. RunOf(typed, escape, guard, 3, guard) /\ now - LastAt(typed) >= guard
  BY <1>1, <1>2, <1>3 DEF HeldIsRun
<1>5. typed \in Seq(Typed) /\ guard \in Nat /\ now \in Nat
  BY <1>2, EscapeAssumption DEF TypeOK
<1> QED
  BY <1>4, <1>5, EscapeIsRun

\* Three escape characters in the middle of data never leave data mode: poll
\* finds an escape only where one was typed, guard times and all.
THEOREM NoEscapeByChance == Spec => NeverByChance
<1>1. Inv /\ [Next]_vars =>
        [mode = "Data" /\ mode' = "OnlineCommand"
           => EscapeTyped(guard, guard)]_vars
  BY NeverByChanceStep
<1> QED
  BY <1>1, EscapeInvariance, PTL DEF Spec, NeverByChance

\* An escape typed with guard times that allow for a late loop is found.
THEOREM NoEscapeMissed == Spec => []NeverMissed
<1>1. Inv => NeverMissed
  <2> SUFFICES ASSUME Inv, mode = "Data",
                      EscapeTyped(guard + MaxLate, guard + MaxLate)
               PROVE  FALSE
    BY DEF NeverMissed
  <2>1. HeldIsRun /\ PolledInTime /\ RunIsHeld /\ TypeOK
    BY DEF Inv
  <2>2. /\ typed \in Seq(Typed) /\ guard \in Nat /\ now \in Nat
        /\ MaxLate \in Nat /\ guard + MaxLate \in Nat /\ lastPoll \in 0 .. now
    BY <2>1, EscapeAssumption DEF TypeOK
  <2>3. RunOf(typed, escape, guard, 3, guard + MaxLate)
        /\ now - LastAt(typed) >= guard + MaxLate
    BY <2>2, EscapeIsRun
  <2>4. Len(held) = 3
    BY <2>1, <2>3 DEF RunIsHeld
  <2>5. held # <<>> /\ lastHeld = LastAt(typed)
    BY <2>1, <2>4, EmptySeq DEF HeldIsRun
  <2>6. guard > 0
    BY <2>1, <2>4 DEF HeldIsRun
  <2> QED
    BY <2>1, <2>2, <2>3, <2>5, <2>6 DEF PolledInTime, TypeOK
<1> QED
  BY <1>1, EscapeInvariance, PTL

-----------------------------------------------------------------------------
(***************************************************************************)
(* The ports.                                                              *)
(***************************************************************************)

\* What the modem heard came from one computer at a time, with the end of
\* input between two; who is the one that it may go on hearing, 0 for nobody.
HeardFrom(who) ==
  /\ heard \in Seq(Nat)
  /\ SessionsApart
  /\ LastHeard \in {End, who}

LinesTyped ==
  /\ has_lines \in BOOLEAN /\ hung \in BOOLEAN
  /\ dtr \in BOOLEAN /\ carrier \in BOOLEAN

\* A device that works is the one at the path, with the carrier on its DTR.
TtyInv ==
  /\ plugged \in Nat /\ device \in Nat /\ comings \in Nat /\ losses \in Nat
  /\ hung => device # 0
  /\ device # 0 /\ ~hung => plugged = device
  /\ device # 0 /\ ~hung /\ has_lines => (dtr <=> carrier)
  /\ EndsHeard + (IF hung THEN 1 ELSE 0) = losses
  /\ HeardFrom(device)

\* Which pseudoterminals are there, at each step of a hang-up.
PtyMasters ==
  /\ step \in {"rest", "failed"} => fresh = 0 /\ masters = {live} /\ link = live
  /\ step \in {"opened", "staged", "pointed"} =>
       /\ fresh = live + 1 /\ masters = {live, fresh}
       /\ link = IF step = "pointed" THEN fresh ELSE live
  /\ step = "staged" => staging = fresh

\* The pseudoterminals are numbered as carrier falls, and a program has seen
\* the hang-ups of none but those before the one it has open.
PtyCounts ==
  /\ drops = IF step = "rest" THEN live - 1 ELSE live
  /\ \A p \in PtyPrograms :
       /\ hangUps[p] < live
       /\ opened[p] # 0 => /\ hangUps[p] < opened[p]
                           /\ opened[p] <= live \/ opened[p] = link

PtyInv ==
  /\ live \in Nat \ {0} /\ fresh \in Nat /\ link \in Nat
  /\ staging \in Nat /\ drops \in Nat
  /\ masters \in SUBSET Nat
  /\ step \in {"rest", "opened", "staged", "pointed", "failed", "dropped"}
  /\ opened \in [PtyPrograms -> Nat] /\ hangUps \in [PtyPrograms -> Nat]
  /\ step # "dropped" => PtyMasters /\ PtyCounts

\* The computers that connected are the one that is served, those that wait,
\* and those whose end was heard.
TcpInv ==
  /\ computer \in Nat /\ connected \in Nat
  /\ queue \in Seq(Nat \ {0}) /\ 0 \notin left
  /\ EndsHeard + (IF computer # 0 THEN 1 ELSE 0) + Len(queue) = connected
  /\ HeardFrom(computer)

PortsInv ==
  /\ port \in {"Tty", "Pty", "Tcp"}
  /\ port = "Tty" => TtyInv /\ LinesTyped
  /\ port = "Pty" => HeardFrom(0)
  /\ port = "Tcp" => TcpInv
  /\ PtyInv

\* One more is heard: an end is counted, and a byte of the computer that may
\* be heard, or an end, comes apart from what another typed.
LEMMA HeardMore ==
  ASSUME NEW who \in Nat, NEW what \in {End, who}, HeardFrom(who), Hears(what)
  PROVE  /\ HeardFrom(who)' /\ LastHeard' = what
         /\ EndsHeard \in Nat
         /\ EndsHeard' = EndsHeard + (IF what = End THEN 1 ELSE 0)
<1> DEFINE n == Len(heard)
           Ends(s) == {i \in DOMAIN s : s[i] = End}
<1>1. /\ n \in Nat /\ heard' = Append(heard, what) /\ heard' \in Seq(Nat)
      /\ Len(heard') = n + 1 /\ heard'[n + 1] = what
      /\ \A i \in 1 .. n : heard'[i] = heard[i]
      /\ heard = <<>> <=> n = 0
      /\ heard' # <<>>
  BY DEF HeardFrom, Hears, End
<1>2. LastHeard' = what
  BY <1>1 DEF LastHeard
<1>3. SessionsApart'
  <2> SUFFICES ASSUME NEW i \in 1 .. n, heard'[i] # heard'[i + 1]
               PROVE  End \in {heard'[i], heard'[i + 1]}
    BY <1>1 DEF SessionsApart
  <2>1. CASE i = n
    BY <1>1, <2>1 DEF HeardFrom, LastHeard
  <2>2. CASE i # n
    BY <1>1, <2>2 DEF HeardFrom, SessionsApart
  <2> QED
    BY <2>1, <2>2
<1>4. IsFiniteSet(Ends(heard)) /\ n + 1 \notin Ends(heard)
  <2>1. DOMAIN heard = 1 .. n
    BY DEF HeardFrom
  <2>2. IsFiniteSet(1 .. n)
    BY <1>1, FS_Interval
  <2> QED
    BY <1>1, <2>1, <2>2, FS_Subset
<1>5. Ends(heard') = IF what = End THEN Ends(heard) \cup {n + 1} ELSE Ends(heard)
  <2>1. DOMAIN heard = 1 .. n /\ DOMAIN heard' = 1 .. n + 1
    BY <1>1 DEF HeardFrom
  <2>2. 1 .. n + 1 = (1 .. n) \cup {n + 1}
    BY <1>1
  <2>3. \A i \in 1 .. n : i \in Ends(heard') <=> i \in Ends(heard)
    BY <1>1, <2>1
  <2>4. n + 1 \in Ends(heard') <=> what = End
    BY <1>1, <2>1
  <2> QED
    BY <2>1, <2>2, <2>3, <2>4, Zenon
<1>6. /\ Cardinality(Ends(heard)) \in Nat
      /\ Cardinality(Ends(heard) \cup {n + 1}) = Cardinality(Ends(heard)) + 1
  BY <1>4, FS_CardinalityType, FS_AddElement
<1>7. EndsHeard = Cardinality(Ends(heard)) /\ EndsHeard' = Cardinality(Ends(heard'))
  BY DEF EndsHeard
<1>8. HeardFrom(who)'
  BY <1>1, <1>2, <1>3 DEF HeardFrom
<1> HIDE DEF Ends
<1> QED
  BY <1>2, <1>5, <1>6, <1>7, <1>8

LEMMA EndsCounted == heard \in Seq(Nat) => EndsHeard \in Nat
<1> SUFFICES ASSUME heard \in Seq(Nat) PROVE EndsHeard \in Nat
  OBVIOUS
<1>1. DOMAIN heard = 1 .. Len(heard) /\ Len(heard) \in Nat
  OBVIOUS
<1>2. IsFiniteSet(DOMAIN heard)
  BY <1>1, FS_Interval
<1>3. IsFiniteSet({i \in DOMAIN heard : heard[i] = End})
  BY <1>2, FS_Subset
<1> QED
  BY <1>3, FS_CardinalityType DEF EndsHeard

\* Nothing is heard.
LEMMA HeardStays ==
  ASSUME UNCHANGED heard
  PROVE  SessionsApart' = SessionsApart /\ LastHeard' = LastHeard
         /\ EndsHeard' = EndsHeard
BY DEF SessionsApart, LastHeard, EndsHeard

LEMMA NothingHeard == heard = <<>> => EndsHeard = 0 /\ \A who : HeardFrom(who)
<1> SUFFICES ASSUME heard = <<>> PROVE EndsHeard = 0 /\ \A who : HeardFrom(who)
  OBVIOUS
<1>1. DOMAIN heard = {} /\ Len(heard) = 0 /\ heard \in Seq(Nat)
  OBVIOUS
<1>2. {i \in DOMAIN heard : heard[i] = End} = {}
  BY <1>1
<1>3. EndsHeard = 0
  BY <1>2, FS_EmptySet DEF EndsHeard
<1> QED
  BY <1>1, <1>3 DEF HeardFrom, SessionsApart, LastHeard

LEMMA PortsInitially == PortsInit => PortsInv
<1> SUFFICES ASSUME PortsInit PROVE PortsInv
  OBVIOUS
<1>0. EndsHeard = 0 /\ HeardFrom(0) /\ HeardFrom(1)
  BY NothingHeard DEF PortsInit, SerialPortInit
<1> USE DEF PortsInit, SerialPortInit
<1>1. TtyInv
  BY <1>0, SMT DEF TtyInit, TtyInv
<1>2. PtyInv
  BY <1>0, SMT DEF PtyInit, PtyInv, PtyMasters, PtyCounts
<1>3. TcpInv
  <2>1. Len(queue) = 0 /\ queue \in Seq(Nat \ {0})
    BY DEF TcpInit
  <2> QED
    BY <1>0, <2>1, SMT DEF TcpInit, TcpInv
<1>4. LinesTyped
  BY DEF TtyInit, LinesTyped
<1> QED
  BY <1>0, <1>1, <1>2, <1>3, <1>4, Zenon DEF PortsInv

LEMMA LinesKeep == LinesTyped /\ TtyNext => LinesTyped'
<1> SUFFICES ASSUME LinesTyped, TtyNext PROVE LinesTyped'
  OBVIOUS
<1> USE DEF LinesTyped, portVars
<1>1. CASE Plug \/ Unplug \/ ComputerHangsUp
  BY <1>1 DEF Plug, Unplug, ComputerHangsUp, HungUp
<1>2. CASE DeviceDue \/ StillMissing \/ Reopen
  BY <1>2 DEF DeviceDue, StillMissing, Reopen, DtrAtOpening
<1>3. CASE LoseDevice \/ TtyHears
  BY <1>3 DEF LoseDevice, TtyHears, Hears, ttyVars
<1>4. CASE \E on \in BOOLEAN : TtySetCarrier(on)
  BY <1>4 DEF TtySetCarrier, SetCarrier, Signalled
<1> QED
  BY <1>1, <1>2, <1>3, <1>4 DEF TtyNext

LEMMA TtyKeeps == TtyInv /\ TtyNext => TtyInv'
<1> SUFFICES ASSUME TtyInv, TtyNext PROVE TtyInv'
  OBVIOUS
<1> USE DEF TtyInv
<1>1. ASSUME Plug \/ Unplug \/ ComputerHangsUp \/ DeviceDue \/ StillMissing
             \/ Reopen \/ (\E on \in BOOLEAN : TtySetCarrier(on))
      PROVE  TtyInv'
  <2>1. UNCHANGED heard /\ EndsHeard \in Nat
    <3>1. UNCHANGED heard
      BY <1>1 DEF Plug, Unplug, ComputerHangsUp, DeviceDue, StillMissing, Reopen,
        TtySetCarrier, SetCarrier, portVars
    <3>2. EndsHeard \in Nat
      BY EndsCounted DEF HeardFrom
    <3> QED
      BY <3>1, <3>2
  <2>2. /\ EndsHeard' = EndsHeard /\ HeardFrom(device)'
    <3>1. device' = device \/ LastHeard = End
      BY <1>1, SMT DEF Plug, Unplug, ComputerHangsUp, DeviceDue, StillMissing, Reopen,
        TtySetCarrier, HeardFrom, End
    <3> QED
      BY <2>1, <3>1, HeardStays DEF HeardFrom
  <2> HIDE DEF HeardFrom
  <2>3. CASE Plug
    BY <2>1, <2>2, <2>3, SMT DEF Plug, portVars
  <2>0. HungUp => /\ hung' <=> device # 0
                  /\ losses' = IF device # 0 /\ ~hung THEN losses + 1 ELSE losses
    BY Zenon DEF HungUp
  <2>4. CASE Unplug
    BY <2>0, <2>1, <2>2, <2>4, SMT DEF Unplug, portVars
  <2>5. CASE ComputerHangsUp
    BY <2>0, <2>1, <2>2, <2>5, SMT DEF ComputerHangsUp, portVars
  <2>6. CASE DeviceDue \/ StillMissing
    BY <2>1, <2>2, <2>6, SMT DEF DeviceDue, StillMissing, portVars
  <2>7. CASE Reopen
    <3>1. /\ device = 0 /\ plugged # 0 /\ UNCHANGED <<plugged, has_lines, comings, losses>>
          /\ device' = plugged /\ hung' = FALSE
          /\ UNCHANGED carrier
      BY <2>7 DEF Reopen, portVars
    <3>2. dtr' <=> has_lines /\ carrier
      BY <2>7, Zenon DEF Reopen, DtrAtOpening
    <3> QED
      BY <2>1, <2>2, <3>1, <3>2, SMT
  <2>8. ASSUME NEW on \in BOOLEAN, TtySetCarrier(on) PROVE TtyInv'
    BY <2>1, <2>2, <2>8, SMT DEF TtySetCarrier, SetCarrier, Signalled
  <2> QED
    BY <1>1, <2>3, <2>4, <2>5, <2>6, <2>7, <2>8
<1>2. CASE LoseDevice
  <2>1. HeardFrom(device) /\ device \in Nat /\ Hears(End)
    BY <1>2 DEF LoseDevice
  <2>2. LastHeard' = End /\ heard' \in Seq(Nat) /\ SessionsApart'
        /\ EndsHeard \in Nat /\ EndsHeard' = EndsHeard + 1
    BY <2>1, HeardMore, SMT DEF HeardFrom
  <2>3. HeardFrom(device)'
    BY <2>2 DEF HeardFrom
  <2> QED
    BY <1>2, <2>2, <2>3, SMT DEF LoseDevice, Hears
<1>3. CASE TtyHears
  <2>1. HeardFrom(device) /\ device \in Nat /\ device # End /\ Hears(device)
    BY <1>3 DEF TtyHears, End
  <2>2. LastHeard' = device /\ heard' \in Seq(Nat) /\ SessionsApart'
        /\ EndsHeard' = EndsHeard /\ EndsHeard \in Nat
    BY <2>1, HeardMore, SMT DEF HeardFrom
  <2>3. HeardFrom(device)'
    BY <1>3, <2>2 DEF HeardFrom, TtyHears, ttyVars
  <2> QED
    BY <1>3, <2>2, <2>3, SMT DEF TtyHears, Hears, ttyVars
<1> QED
  BY <1>1, <1>2, <1>3 DEF TtyNext

\* The modem hears nothing by a pseudoterminal here, and what it heard stays.
LEMMA PtySilent == HeardFrom(0) /\ PtyNext => HeardFrom(0)'
<1>1. PtyNext => UNCHANGED heard
  BY DEF PtyNext, Stage, Rename, Swap, PointFails, Drop, OpenLink, Close,
    PtySetCarrier, SetCarrier, portVars
<1> QED
  BY <1>1, HeardStays DEF HeardFrom

LEMMA PtyKeeps == PtyInv /\ PtyNext => PtyInv'
<1> SUFFICES ASSUME PtyInv, PtyNext PROVE PtyInv'
  OBVIOUS
<1> USE DEF PtyInv
<1>1. CASE Stage
  BY <1>1, SMT DEF Stage, PtyMasters, PtyCounts, portVars
<1>2. CASE Rename
  BY <1>2, SMT DEF Rename, PtyMasters, PtyCounts, portVars
<1>3. CASE Swap
  BY <1>3, SMT DEF Swap, Kept, PtyMasters, PtyCounts, portVars
<1>4. CASE PointFails
  BY <1>4, SMT DEF PointFails, PtyMasters, PtyCounts, portVars
<1>5. CASE Drop
  BY <1>5, SMT DEF Drop, portVars
<1>6. ASSUME NEW p \in PtyPrograms, OpenLink(p) PROVE PtyInv'
  BY <1>6, SMT DEF OpenLink, PtyMasters, PtyCounts, portVars
<1>7. ASSUME NEW p \in PtyPrograms, Close(p) PROVE PtyInv'
  BY <1>7, SMT DEF Close, PtyMasters, PtyCounts, portVars
<1>8. ASSUME NEW on \in BOOLEAN, PtySetCarrier(on) PROVE PtyInv'
  BY <1>8, SMT DEF PtySetCarrier, SetCarrier, PtyMasters, PtyCounts
<1> QED
  BY <1>1, <1>2, <1>3, <1>4, <1>5, <1>6, <1>7, <1>8 DEF PtyNext

LEMMA TcpKeeps == TcpInv /\ TcpNext => TcpInv'
<1> SUFFICES ASSUME TcpInv, TcpNext PROVE TcpInv'
  OBVIOUS
<1> USE DEF TcpInv
<1>0. EndsHeard \in Nat /\ Len(queue) \in Nat
  BY EndsCounted DEF HeardFrom
<1>7. UNCHANGED heard => /\ EndsHeard' = EndsHeard
                         /\ computer' = computer \/ computer = 0 => HeardFrom(computer)'
  BY HeardStays DEF HeardFrom, End
<1>1. CASE Connect
  <2>1. /\ UNCHANGED <<heard, computer>> /\ connected' = connected + 1
        /\ UNCHANGED left
        /\ Len(queue') = Len(queue) + 1 /\ queue' \in Seq(Nat \ {0})
    BY <1>1 DEF Connect, portVars
  <2> QED
    BY <1>0, <1>7, <2>1
<1>2. CASE Accept
  <2>1. /\ UNCHANGED heard /\ Len(queue') = Len(queue) - 1 /\ queue' \in Seq(Nat \ {0})
        /\ computer' \in Nat /\ computer' # 0 /\ computer = 0
    BY <1>2 DEF Accept, portVars
  <2> QED
    BY <1>0, <1>2, <1>7, <2>1, SMT DEF Accept
<1>3. CASE TcpHears
  <2>1. HeardFrom(computer) /\ computer # End /\ Hears(computer)
    BY <1>3 DEF TcpHears, End
  <2>2. HeardFrom(computer)' /\ EndsHeard' = EndsHeard
    <3>1. LastHeard' = computer /\ heard' \in Seq(Nat) /\ SessionsApart'
          /\ EndsHeard' = EndsHeard
      BY <1>0, <2>1, HeardMore, SMT DEF HeardFrom
    <3> QED
      BY <1>3, <3>1 DEF HeardFrom, TcpHears
  <2> QED
    BY <1>3, <2>2 DEF TcpHears
<1>4. CASE Disconnected
  <2>1. HeardFrom(computer) /\ Hears(End)
    BY <1>4 DEF Disconnected, TellsEnd
  <2>2. HeardFrom(computer)' /\ EndsHeard' = EndsHeard + 1
    <3>1. LastHeard' = End /\ heard' \in Seq(Nat) /\ SessionsApart'
          /\ EndsHeard' = EndsHeard + 1
      BY <2>1, HeardMore, SMT DEF HeardFrom
    <3> QED
      BY <3>1 DEF HeardFrom
  <2> QED
    BY <1>0, <1>4, <2>2 DEF Disconnected
<1>5. CASE \E c \in 1 .. MaxComputers : Types(c) \/ Leaves(c)
  BY <1>5, <1>7, SMT DEF Types, Leaves, portVars
<1>6. CASE \E on \in BOOLEAN : TcpSetCarrier(on)
  BY <1>6, <1>7 DEF TcpSetCarrier, SetCarrier, tcpVars
<1> QED
  BY <1>1, <1>2, <1>3, <1>4, <1>5, <1>6 DEF TcpNext

LEMMA PortsKeep == PortsInv /\ [PortsNext]_portsVars => PortsInv'
<1> SUFFICES ASSUME PortsInv, [PortsNext]_portsVars PROVE PortsInv'
  OBVIOUS
<1> USE DEF PortsInv
<1>1. UNCHANGED ptyVars => PtyInv'
  BY DEF ptyVars, PtyInv, PtyMasters, PtyCounts
<1>2. CASE TtyStep(TtyNext)
  BY <1>1, <1>2, TtyKeeps, LinesKeep DEF TtyStep
<1>3. CASE PtyStep(PtyNext)
  BY <1>3, PtyKeeps, PtySilent DEF PtyStep
<1>4. CASE TcpStep(TcpNext)
  BY <1>1, <1>4, TcpKeeps DEF TcpStep
<1>5. CASE UNCHANGED portsVars
  <2>1. UNCHANGED <<heard, port, ptyVars>>
    BY <1>5 DEF portsVars, portVars
  <2>2. /\ TtyInv => TtyInv'
        /\ LinesTyped => LinesTyped'
        /\ HeardFrom(0) => HeardFrom(0)'
        /\ TcpInv => TcpInv'
    BY <1>5, <2>1, HeardStays DEF portsVars, portVars, ttyVars, tcpVars,
      TtyInv, LinesTyped, TcpInv, HeardFrom
  <2> QED
    BY <1>1, <2>1, <2>2
<1> QED
  BY <1>2, <1>3, <1>4, <1>5 DEF PortsNext

\* What each port keeps is what it promises.
LEMMA PortsHold == PortsInv => PortSound
<1> SUFFICES ASSUME PortsInv PROVE PortSound
  OBVIOUS
<1>1. CarrierOnDtr
  <2> SUFFICES ASSUME port = "Tty", device # 0, ~hung, has_lines PROVE dtr = carrier
    BY DEF CarrierOnDtr
  <2>1. dtr \in BOOLEAN /\ carrier \in BOOLEAN
    BY DEF PortsInv, LinesTyped
  <2>2. dtr <=> carrier
    BY DEF PortsInv, TtyInv
  <2> QED
    BY <2>1, <2>2, Zenon
<1>2. EndsOnce
  BY DEF PortsInv, TtyInv, TcpInv, EndsOnce
<1>3. SessionsApart
  BY DEF PortsInv, TtyInv, TcpInv, HeardFrom
<1>4. LinkLives
  BY DEF PortsInv, PtyInv, PtyMasters, LinkLives
<1>5. NoneLeftBehind
  <2>1. ASSUME step = "rest", NEW p \in PtyPrograms, opened[p] \in masters
        PROVE  opened[p] = live
    BY <2>1 DEF PortsInv, PtyInv, PtyMasters
  <2>2. ASSUME step # "dropped", NEW p \in PtyPrograms
        PROVE  hangUps[p] <= drops
    BY <2>2, SMT DEF PortsInv, PtyInv, PtyCounts
  <2> QED
    BY <2>1, <2>2 DEF NoneLeftBehind
<1> QED
  BY <1>1, <1>2, <1>3, <1>4, <1>5 DEF PortSound

\* However a serial device, a pseudoterminal or a TCP port comes and goes, the
\* modem is told of each end of its computer once, and nobody is left with a
\* carrier line, a link or a pseudoterminal that is not the one of now.
THEOREM PortsAreSound == PortsSpec => []PortSound
<1>1. PortsSpec => []PortsInv
  BY PortsInitially, PortsKeep, PTL DEF PortsSpec
<1> QED
  BY <1>1, PortsHold, PTL

-----------------------------------------------------------------------------
(***************************************************************************)
(* The device served through CUSE.                                         *)
(***************************************************************************)

\* Some number of a set of natural numbers is the least: induction, for what
\* is defined by recursion.
LEMMA LeastNatural ==
  ASSUME NEW T \in SUBSET Nat, T # {}
  PROVE  \E n \in T : \A m \in T : n <= m
<1>1. PICK n \in T : \A m \in T : ~(<<m, n>> \in OpToRel(<, Nat))
  BY NatLessThanWellFounded, WFMin, Zenon
<1>2. \A m \in T : ~(m < n)
  BY <1>1 DEF OpToRel
<1> QED
  BY <1>2

Waiting == [unique : Nat, size : Nat]
Serving == [bytes : Seq(Nat), reached : Seq(Nat), served : Nat]

\* A sequence falls into what is before a place and what is from there on.
LEMMA Cut ==
  ASSUME NEW s \in Seq(Nat), NEW k \in 0 .. Len(s)
  PROVE  /\ SubSeq(s, 1, k) \in Seq(Nat) /\ SubSeq(s, k + 1, Len(s)) \in Seq(Nat)
         /\ SubSeq(s, 1, k) \o SubSeq(s, k + 1, Len(s)) = s
<1>1. SubSeq(s, 1, k) \in Seq(Nat) /\ SubSeq(s, k + 1, Len(s)) \in Seq(Nat)
  OBVIOUS
<1>2. /\ 1 \in 1 .. Len(s) + 1 /\ k \in 1 - 1 .. Len(s)
      /\ Len(s) \in k .. Len(s)
  OBVIOUS
<1>3. SubSeq(s, 1, k) \o SubSeq(s, k + 1, Len(s)) = SubSeq(s, 1, Len(s))
  BY <1>2, ConcatAdjacentSubSeq, Zenon
<1>4. SubSeq(s, 1, Len(s)) = s
  BY SubSeqFull, Zenon
<1> QED
  BY <1>1, <1>3, <1>4, Zenon

LEMMA Joined ==
  \A s, t, u \in Seq(Nat) : s \o t \in Seq(Nat) /\ (s \o t) \o u = s \o (t \o u)
BY ConcatProperties, ConcatAssociative

\* A read that is served passes bytes on, in order.
LEMMA OneServed ==
  ASSUME NEW was \in Serving, NEW read \in Waiting, Holder(read.unique) # {}
  PROVE  /\ ServeRead(was, read) \in Serving
         /\ ServeRead(was, read).reached \o ServeRead(was, read).bytes
              = was.reached \o was.bytes
         /\ was.bytes = <<>> => ServeRead(was, read) = was
         /\ was.bytes # <<>> => ServeRead(was, read).served = was.served + 1
<1>1. CASE was.bytes = <<>>
  BY <1>1 DEF ServeRead
<1>2. CASE was.bytes # <<>>
  <2> DEFINE b == was.bytes
             k == IF read.size < Len(b) THEN read.size ELSE Len(b)
             front == SubSeq(b, 1, k)
             rest == SubSeq(b, k + 1, Len(b))
             r == [bytes |-> rest, reached |-> was.reached \o front,
                   served |-> was.served + 1]
  <2>1. ServeRead(was, read) = r
    BY <1>2 DEF ServeRead
  <2>2. b \in Seq(Nat) /\ was.reached \in Seq(Nat) /\ was.served \in Nat /\ k \in 0 .. Len(b)
    BY DEF Serving, Waiting
  <2>3. front \in Seq(Nat) /\ rest \in Seq(Nat) /\ front \o rest = b
    BY <2>2, Cut
  <2> HIDE DEF b, k, front, rest
  <2>4. was.reached \o front \in Seq(Nat) /\ (was.reached \o front) \o rest = was.reached \o b
    <3>1. was.reached \o front \in Seq(Nat)
      BY <2>2, <2>3
    <3>2. (was.reached \o front) \o rest = was.reached \o (front \o rest)
      BY <2>2, <2>3, Joined
    <3> QED
      BY <2>3, <3>1, <3>2, Zenon
  <2>5. r \in Serving /\ r.reached \o r.bytes = was.reached \o b
    <3>1. r \in Serving
      BY <2>2, <2>3, <2>4 DEF Serving
    <3>2. r.reached = was.reached \o front /\ r.bytes = rest
      OBVIOUS
    <3> QED
      BY <2>4, <3>1, <3>2, Zenon
  <2> HIDE DEF r
  <2>6. r.served = was.served + 1
    BY DEF r
  <2> QED
    BY <1>2, <2>1, <2>5, <2>6 DEF b
<1> QED
  BY <1>1, <1>2

\* The course of the service is well defined.
Start(bytes) == [bytes |-> bytes, reached |-> <<>>, served |-> 0]
Course(f, waiting, bytes, n) ==
  f = [i \in 0 .. n |-> IF i = 0 THEN Start(bytes) ELSE ServeRead(f[i - 1], waiting[i])]

LEMMA CourseExists ==
  ASSUME NEW waiting, NEW bytes, NEW n \in Nat
  PROVE  \E f : Course(f, waiting, bytes, n)
<1> DEFINE Without == {k \in Nat : ~\E f : Course(f, waiting, bytes, k)}
<1>1. SUFFICES ASSUME Without # {} PROVE FALSE
  BY Zenon
<1>2. PICK k \in Without : \A m \in Without : k <= m
  BY <1>1, LeastNatural
<1>3. k # 0
  <2>1. Course([i \in 0 .. 0 |-> Start(bytes)], waiting, bytes, 0)
    BY DEF Course
  <2> QED
    BY <2>1
<1>4. k - 1 \in Nat /\ k - 1 \notin Without
  BY <1>2, <1>3
<1>5. PICK g : Course(g, waiting, bytes, k - 1)
  BY <1>4
<1> DEFINE f == [i \in 0 .. k |-> IF i = 0 THEN Start(bytes)
                                  ELSE ServeRead(g[i - 1], waiting[i])]
<1>6. \A j \in 0 .. k - 1 : f[j] = g[j]
  BY <1>5 DEF Course
<1> HIDE DEF f
<1>7. \A i \in 0 .. k : f[i] = IF i = 0 THEN Start(bytes)
                               ELSE ServeRead(f[i - 1], waiting[i])
  <2> SUFFICES ASSUME NEW i \in 0 .. k, i # 0
               PROVE  f[i] = ServeRead(f[i - 1], waiting[i])
    BY DEF f
  <2>1. i - 1 \in 0 .. k - 1
    BY <1>4
  <2>2. f[i] = ServeRead(g[i - 1], waiting[i])
    BY DEF f
  <2> QED
    BY <1>6, <2>1, <2>2
<1>8. Course(f, waiting, bytes, k)
  <2>1. f = [i \in 0 .. k |-> f[i]]
    BY DEF f
  <2> QED
    BY <1>7, <2>1, Zenon DEF Course
<1> QED
  BY <1>8

\* What serve_waiting_reads does: the first reads get the bytes in order, and
\* bytes are left only when no read is.
LEMMA AllServed ==
  ASSUME NEW waiting \in Seq(Waiting), NEW bytes \in Seq(Nat),
         \A i \in 1 .. Len(waiting) : Holder(waiting[i].unique) # {}
  PROVE  /\ Served(waiting, bytes) \in Serving
         /\ Served(waiting, bytes).served \in 0 .. Len(waiting)
         /\ Served(waiting, bytes).reached \o Served(waiting, bytes).bytes = bytes
         /\ \/ Served(waiting, bytes).served = Len(waiting)
            \/ Served(waiting, bytes).bytes = <<>>
<1> DEFINE n == Len(waiting)
           After == CHOOSE f : Course(f, waiting, bytes, n)
<1>1. Served(waiting, bytes) = After[n]
  BY DEF Served, Course, Start
<1>0. n \in Nat
  OBVIOUS
<1>2. Course(After, waiting, bytes, n)
  <2>1. \E f : Course(f, waiting, bytes, n)
    BY <1>0, CourseExists, Zenon
  <2> QED
    BY <2>1, Zenon
<1> HIDE DEF After
<1>3. /\ After[0] = Start(bytes)
      /\ \A i \in 1 .. n : After[i] = ServeRead(After[i - 1], waiting[i])
  BY <1>0, <1>2 DEF Course
<1> DEFINE Right(i) == /\ After[i] \in Serving
                       /\ After[i].served <= i
                       /\ After[i].reached \o After[i].bytes = bytes
                       /\ After[i].served = i \/ After[i].bytes = <<>>
           Wrong == {i \in 0 .. n : ~Right(i)}
<1>4. Right(0)
  <2>1. Start(bytes) \in Serving /\ Start(bytes).reached \o Start(bytes).bytes = bytes
        /\ Start(bytes).served = 0
    BY ConcatEmptySeq DEF Start, Serving
  <2> QED
    BY <1>3, <2>1
<1>5. ASSUME NEW i \in 1 .. n, Right(i - 1) PROVE Right(i)
  <2> DEFINE was == After[i - 1]
             r == ServeRead(was, waiting[i])
  <2>1. /\ After[i] = r /\ was \in Serving /\ was.served <= i - 1 /\ i \in Nat
        /\ was.reached \o was.bytes = bytes /\ (was.served = i - 1 \/ was.bytes = <<>>)
        /\ waiting[i] \in Waiting /\ Holder(waiting[i].unique) # {}
    BY <1>0, <1>3, <1>5
  <2>2. /\ r \in Serving /\ r.reached \o r.bytes = was.reached \o was.bytes
        /\ was.bytes = <<>> => r = was
        /\ was.bytes # <<>> => r.served = was.served + 1
    BY <2>1, OneServed
  <2> HIDE DEF was, r
  <2>3. r.served \in Nat /\ was.served \in Nat
    BY <2>1, <2>2 DEF Serving
  <2> QED
    BY <2>1, <2>2, <2>3
<1> HIDE DEF Right
<1>6. Wrong = {}
  <2> SUFFICES ASSUME Wrong # {} PROVE FALSE
    OBVIOUS
  <2>1. Wrong \in SUBSET Nat
    BY <1>0
  <2>2. PICK i \in Wrong : \A m \in Wrong : i <= m
    BY <2>1, LeastNatural
  <2>3. i \in 1 .. n /\ i - 1 \in 0 .. n /\ i - 1 \notin Wrong /\ ~Right(i)
    BY <1>0, <1>4, <2>2
  <2> QED
    BY <1>5, <2>3
<1>7. Right(n)
  BY <1>0, <1>6
<1> QED
  BY <1>0, <1>1, <1>7 DEF Right, Serving

\* Numbers grow along a sequence, and from one to the next.
Ordered(s) == \A i, j \in 1 .. Len(s) : i < j => s[i] < s[j]
Below(s, t) == \A x \in ToSet(s), y \in ToSet(t) : x < y

\* A stream of n bytes, of which a have been read, b and c are to be, and those
\* of gone were thrown away.
Kept3(a, b, c, gone, n) ==
  /\ Ordered(a) /\ Ordered(b) /\ Ordered(c)
  /\ Below(a, b) /\ Below(a, c) /\ Below(b, c)
  /\ ToSet(a) \cup ToSet(b) \cup ToSet(c) \cup gone = 1 .. n

LEMMA SetOfJoined ==
  ASSUME NEW s \in Seq(Nat), NEW t \in Seq(Nat)
  PROVE  s \o t \in Seq(Nat) /\ ToSet(s \o t) = ToSet(s) \cup ToSet(t)
<1> DEFINE m == Len(s)
           n == Len(t)
           u == s \o t
<1>1. /\ m \in Nat /\ n \in Nat /\ DOMAIN s = 1 .. m /\ DOMAIN t = 1 .. n
      /\ u \in Seq(Nat) /\ DOMAIN u = 1 .. m + n
      /\ \A i \in 1 .. m : u[i] = s[i]
      /\ \A i \in 1 .. n : u[m + i] = t[i]
  OBVIOUS
<1>2. \A i \in m + 1 .. m + n : u[i] = t[i - m]
  OBVIOUS
<1> HIDE DEF m, n, u
<1>3. ASSUME NEW x \in ToSet(u) PROVE x \in ToSet(s) \cup ToSet(t)
  <2>1. PICK i \in 1 .. m + n : x = u[i]
    BY <1>1 DEF ToSet
  <2>2. CASE i <= m
    <3>1. i \in DOMAIN s /\ x = s[i]
      BY <1>1, <2>1, <2>2
    <3> QED
      BY <3>1 DEF ToSet
  <2>3. CASE i > m
    <3>1. i \in m + 1 .. m + n /\ i - m \in 1 .. n
      BY <1>1, <2>1, <2>3
    <3>2. x = t[i - m]
      BY <1>2, <2>1, <3>1
    <3> QED
      BY <1>1, <3>1, <3>2 DEF ToSet
  <2> QED
    BY <1>1, <2>2, <2>3
<1>4. ASSUME NEW x \in ToSet(s) PROVE x \in ToSet(u)
  BY <1>1 DEF ToSet
<1>5. ASSUME NEW x \in ToSet(t) PROVE x \in ToSet(u)
  <2>1. PICK i \in 1 .. n : x = t[i]
    BY <1>1 DEF ToSet
  <2>2. m + i \in 1 .. m + n /\ u[m + i] = x
    BY <1>1, <2>1
  <2> QED
    BY <1>1, <2>2 DEF ToSet
<1> QED
  BY <1>1, <1>3, <1>4, <1>5 DEF u

LEMMA OrderOfJoined ==
  ASSUME NEW s \in Seq(Nat), NEW t \in Seq(Nat)
  PROVE  Ordered(s \o t) <=> Ordered(s) /\ Ordered(t) /\ Below(s, t)
<1> DEFINE m == Len(s)
           n == Len(t)
           u == s \o t
<1>0. m \in Nat /\ n \in Nat
  OBVIOUS
<1>1. /\ m \in Nat /\ n \in Nat /\ DOMAIN s = 1 .. m /\ DOMAIN t = 1 .. n
      /\ u \in Seq(Nat) /\ Len(u) = m + n
      /\ \A i \in 1 .. m : u[i] = s[i]
      /\ \A i \in 1 .. n : u[m + i] = t[i]
  OBVIOUS
<1>2. \A i \in m + 1 .. m + n : u[i] = t[i - m]
  OBVIOUS
<1>3. /\ Ordered(s) <=> \A i, j \in 1 .. m : i < j => s[i] < s[j]
      /\ Ordered(t) <=> \A i, j \in 1 .. n : i < j => t[i] < t[j]
      /\ Below(s, t) <=> \A i \in 1 .. m, j \in 1 .. n : s[i] < t[j]
  BY <1>1 DEF Ordered, Below, ToSet
<1>4. Ordered(u) <=> \A i, j \in 1 .. m + n : i < j => u[i] < u[j]
  BY <1>1 DEF Ordered
<1> HIDE DEF m, n, u
<1>5. ASSUME Ordered(u) PROVE Ordered(s) /\ Ordered(t) /\ Below(s, t)
  <2>1. ASSUME NEW i \in 1 .. m, NEW j \in 1 .. m, i < j PROVE s[i] < s[j]
    BY <1>1, <1>4, <1>5, <2>1
  <2>2. ASSUME NEW i \in 1 .. n, NEW j \in 1 .. n, i < j PROVE t[i] < t[j]
    <3>1. m + i \in 1 .. m + n /\ m + j \in 1 .. m + n /\ m + i < m + j
      BY <1>0, <2>2
    <3> QED
      BY <1>1, <1>4, <1>5, <3>1
  <2>3. ASSUME NEW i \in 1 .. m, NEW j \in 1 .. n PROVE s[i] < t[j]
    <3>1. i \in 1 .. m + n /\ m + j \in 1 .. m + n /\ i < m + j
      BY <1>0
    <3> QED
      BY <1>1, <1>4, <1>5, <3>1
  <2> QED
    BY <1>3, <2>1, <2>2, <2>3
<1>6. ASSUME Ordered(s), Ordered(t), Below(s, t) PROVE Ordered(u)
  <2> SUFFICES ASSUME NEW i \in 1 .. m + n, NEW j \in 1 .. m + n, i < j
               PROVE  u[i] < u[j]
    BY <1>4
  <2>1. CASE j <= m
    BY <1>1, <1>3, <1>6, <2>1
  <2>2. CASE i <= m /\ j > m
    <3>1. u[i] = s[i] /\ u[j] = t[j - m] /\ i \in 1 .. m /\ j - m \in 1 .. n
      BY <1>1, <1>2, <2>2
    <3> QED
      BY <1>3, <1>6, <3>1
  <2>3. CASE i > m
    <3>1. /\ i \in m + 1 .. m + n /\ j \in m + 1 .. m + n
          /\ i - m \in 1 .. n /\ j - m \in 1 .. n /\ i - m < j - m
      BY <1>0, <2>3
    <3>2. u[i] = t[i - m] /\ u[j] = t[j - m]
      BY <1>2, <3>1
    <3> QED
      BY <1>3, <1>6, <3>1, <3>2
  <2> QED
    BY <1>1, <2>1, <2>2, <2>3
<1> QED
  BY <1>5, <1>6 DEF u

\* Bytes move on through the stream.
LEMMA MovesFirst ==
  ASSUME NEW a \in Seq(Nat), NEW x \in Seq(Nat), NEW y \in Seq(Nat), NEW c \in Seq(Nat),
         NEW gone, NEW n, Kept3(a, x \o y, c, gone, n)
  PROVE  a \o x \in Seq(Nat) /\ Kept3(a \o x, y, c, gone, n)
<1>1. ToSet(x \o y) = ToSet(x) \cup ToSet(y) /\ ToSet(a \o x) = ToSet(a) \cup ToSet(x)
      /\ a \o x \in Seq(Nat)
  BY SetOfJoined
<1>2. /\ Ordered(x \o y) <=> Ordered(x) /\ Ordered(y) /\ Below(x, y)
      /\ Ordered(a \o x) <=> Ordered(a) /\ Ordered(x) /\ Below(a, x)
  BY OrderOfJoined
<1> QED
  BY <1>1, <1>2, Zenon DEF Kept3, Below

LEMMA MovesSecond ==
  ASSUME NEW a \in Seq(Nat), NEW b \in Seq(Nat), NEW x \in Seq(Nat), NEW y \in Seq(Nat),
         NEW gone, NEW n, Kept3(a, b, x \o y, gone, n)
  PROVE  b \o x \in Seq(Nat) /\ Kept3(a, b \o x, y, gone, n)
<1>1. ToSet(x \o y) = ToSet(x) \cup ToSet(y) /\ ToSet(b \o x) = ToSet(b) \cup ToSet(x)
      /\ b \o x \in Seq(Nat)
  BY SetOfJoined
<1>2. /\ Ordered(x \o y) <=> Ordered(x) /\ Ordered(y) /\ Below(x, y)
      /\ Ordered(b \o x) <=> Ordered(b) /\ Ordered(x) /\ Below(b, x)
  BY OrderOfJoined
<1> QED
  BY <1>1, <1>2, Zenon DEF Kept3, Below

\* What is thrown away is gone.
LEMMA Thrown ==
  ASSUME NEW a, NEW b, NEW c, NEW gone, NEW n, Kept3(a, b, c, gone, n)
  PROVE  /\ Kept3(a, <<>>, c, gone \cup ToSet(b), n)
         /\ Kept3(a, b, <<>>, gone \cup ToSet(c), n)
<1>1. ToSet(<<>>) = {} /\ Ordered(<<>>)
  BY DEF ToSet, Ordered
<1> QED
  BY <1>1, Zenon DEF Kept3, Below

\* New bytes follow all that there were.
LEMMA NewBytes ==
  ASSUME NEW a \in Seq(Nat), NEW b \in Seq(Nat), NEW c \in Seq(Nat),
         NEW gone, NEW n \in Nat, NEW k \in Nat, Kept3(a, b, c, gone, n),
         NEW new, new = [j \in 1 .. k |-> n + j]
  PROVE  c \o new \in Seq(Nat) /\ Kept3(a, b, c \o new, gone, n + k)
<1>1. new \in Seq(Nat) /\ Ordered(new)
  BY DEF Ordered
<1>2. ToSet(new) = (n + 1) .. (n + k)
  <2>1. DOMAIN new = 1 .. k /\ \A j \in 1 .. k : new[j] = n + j
    OBVIOUS
  <2>2. ASSUME NEW x \in ToSet(new) PROVE x \in (n + 1) .. (n + k)
    BY <2>1 DEF ToSet
  <2>3. ASSUME NEW x \in (n + 1) .. (n + k) PROVE x \in ToSet(new)
    <3>1. x - n \in 1 .. k /\ n + (x - n) = x
      OBVIOUS
    <3>2. new[x - n] = x
      BY <2>1, <3>1
    <3> QED
      BY <2>1, <3>1, <3>2 DEF ToSet
  <2> QED
    BY <2>2, <2>3
<1>3. c \o new \in Seq(Nat) /\ ToSet(c \o new) = ToSet(c) \cup ToSet(new)
  BY <1>1, SetOfJoined
<1>4. Ordered(c \o new) <=> Ordered(c) /\ Ordered(new) /\ Below(c, new)
  BY <1>1, OrderOfJoined
<1>5. ASSUME NEW s, ToSet(s) \subseteq 1 .. n PROVE Below(s, new)
  BY <1>2, <1>5 DEF Below
<1>6. Below(a, new) /\ Below(b, new) /\ Below(c, new)
  BY <1>5 DEF Kept3
<1>7. 1 .. n + k = (1 .. n) \cup ToSet(new)
  <2>1. 1 .. n + k = (1 .. n) \cup ((n + 1) .. (n + k))
    OBVIOUS
  <2> QED
    BY <1>2, <2>1
<1>8. Below(a, c \o new) /\ Below(b, c \o new)
  BY <1>3, <1>6, Zenon DEF Kept3, Below
<1> HIDE DEF Below
<1> QED
  BY <1>1, <1>3, <1>4, <1>6, <1>7, <1>8, Zenon DEF Kept3

\* The bytes of a stream are in order throughout.
LEMMA StreamInOrder ==
  ASSUME NEW a \in Seq(Nat), NEW b \in Seq(Nat), NEW c \in Seq(Nat),
         NEW gone, NEW n, Kept3(a, b, c, gone, n)
  PROVE  /\ Increasing(a \o b \o c)
         /\ ToSet(a \o b \o c) \cup gone = 1 .. n
<1>1. a \o b \in Seq(Nat) /\ ToSet(a \o b) = ToSet(a) \cup ToSet(b)
  BY SetOfJoined
<1>2. a \o b \o c \in Seq(Nat) /\ ToSet(a \o b \o c) = ToSet(a \o b) \cup ToSet(c)
  BY <1>1, SetOfJoined
<1>3. Ordered(a \o b)
  BY OrderOfJoined DEF Kept3
<1>4. Below(a \o b, c)
  BY <1>1, Zenon DEF Kept3, Below
<1>5. Ordered(a \o b \o c)
  BY <1>1, <1>3, <1>4, OrderOfJoined DEF Kept3
<1>6. Increasing(a \o b \o c)
  BY <1>2, <1>5 DEF Ordered, Increasing
<1> QED
  BY <1>1, <1>2, <1>6, Zenon DEF Kept3

(***************************************************************************)
(* The invariant.                                                          *)
(***************************************************************************)

\* Each call under way has a number of its own, and its request waits once, if
\* it does.
CallsWell ==
  /\ calls \in [Programs -> CallState] /\ made \in Nat
  /\ requests \in Seq(Programs)
  /\ \A p \in Programs :
       calls[p].stage # "idle" => calls[p].unique <= made /\ calls[p].call \in Calls
  /\ \A p, q \in Programs :
       /\ calls[p].stage # "idle" /\ calls[q].stage # "idle"
       /\ calls[p].unique = calls[q].unique
       => p = q
  /\ \A i \in 1 .. Len(requests) : calls[requests[i]].stage = "queued"
  /\ \A i, j \in 1 .. Len(requests) : requests[i] = requests[j] => i = j

\* The reads that wait are the calls that the server keeps.
WaitsWell ==
  /\ waiting_reads \in Seq(Waiting)
  /\ \A i, j \in 1 .. Len(waiting_reads) :
       waiting_reads[i].unique = waiting_reads[j].unique => i = j
  /\ \A i \in 1 .. Len(waiting_reads) :
       \E p \in Programs : Sent(p) /\ calls[p].unique = waiting_reads[i].unique
  /\ \A p \in Programs : Sent(p) =>
       \E i \in 1 .. Len(waiting_reads) : calls[p].unique = waiting_reads[i].unique

StreamsWell ==
  /\ got \in Seq(Nat) /\ to_computer \in Seq(Nat) /\ pipe \in Seq(Nat)
  /\ taken \in Seq(Nat) /\ for_modem \in Seq(Nat) /\ to_modem \in Seq(Nat)
  /\ modem_sent \in Nat /\ written \in Nat
  /\ discarded = [computer |-> discarded.computer, modem |-> discarded.modem]
  /\ Kept3(got, to_computer, pipe, discarded.computer, modem_sent)
  /\ Kept3(taken, for_modem, to_modem, discarded.modem, written)

CuseInv == CallsWell /\ WaitsWell /\ StreamsWell /\ strays = 0 /\ NoneWaitsInVain

LEMMA CuseInitially == CuseInit => CuseInv
<1> SUFFICES ASSUME CuseInit PROVE CuseInv
  OBVIOUS
<1>1. CallsWell
  BY DEF CuseInit, CallsWell, CallState, Idle
<1>2. WaitsWell
  BY DEF CuseInit, WaitsWell, Idle, Sent
<1>3. StreamsWell
  <2>1. ToSet(<<>>) = {} /\ Ordered(<<>>)
    BY DEF ToSet, Ordered
  <2> QED
    BY <2>1 DEF CuseInit, StreamsWell, Kept3, Below
<1>4. strays = 0 /\ NoneWaitsInVain
  BY DEF CuseInit, NoneWaitsInVain, Asleep, Idle
<1> QED
  BY <1>1, <1>2, <1>3, <1>4 DEF CuseInv

\* The calls are well when some end or are woken, and those queued stay.
LEMMA CallsKept ==
  ASSUME CallsWell, calls' \in [Programs -> CallState],
         UNCHANGED <<requests, made>>,
         \A q \in Programs :
           \/ calls'[q].stage = "idle"
           \/ /\ calls[q].stage # "idle"
              /\ calls'[q].unique = calls[q].unique /\ calls'[q].call = calls[q].call,
         \A q \in Programs : calls[q].stage = "queued" => calls'[q].stage = "queued"
  PROVE  CallsWell'
<1>1. calls' \in [Programs -> CallState] /\ made' \in Nat /\ requests' \in Seq(Programs)
  BY DEF CallsWell
<1>2. \A p \in Programs : calls'[p].stage # "idle" =>
        calls'[p].unique <= made' /\ calls'[p].call \in Calls
  BY DEF CallsWell
<1>3. \A p, q \in Programs :
        /\ calls'[p].stage # "idle" /\ calls'[q].stage # "idle"
        /\ calls'[p].unique = calls'[q].unique
        => p = q
  BY DEF CallsWell
<1>4. /\ \A i \in 1 .. Len(requests') : calls'[requests'[i]].stage = "queued"
      /\ \A i, j \in 1 .. Len(requests') : requests'[i] = requests'[j] => i = j
  <2>1. \A i \in 1 .. Len(requests) : requests[i] \in Programs
    BY DEF CallsWell
  <2> QED
    BY <2>1 DEF CallsWell
<1> QED
  BY <1>1, <1>2, <1>3, <1>4 DEF CallsWell

\* A call is queued: a new one, with a number of its own.
LEMMA CallQueued ==
  ASSUME CallsWell, NEW p \in Programs, NEW new \in CallState,
         calls[p].stage # "queued", new.stage = "queued", new.call \in Calls,
         new.unique = made + 1, made' = made + 1,
         calls' = [calls EXCEPT ![p] = new], requests' = Append(requests, p)
  PROVE  CallsWell'
<1>1. /\ calls' \in [Programs -> CallState] /\ made' \in Nat /\ requests' \in Seq(Programs)
      /\ calls'[p] = new /\ \A q \in Programs \ {p} : calls'[q] = calls[q]
      /\ \A q \in Programs : calls[q].unique \in Nat
  BY DEF CallsWell, CallState
<1>2. \A q \in Programs : calls'[q].stage # "idle" =>
        calls'[q].unique <= made' /\ calls'[q].call \in Calls
  BY <1>1 DEF CallsWell
<1>3. ASSUME NEW q \in Programs, NEW r \in Programs,
             calls'[q].stage # "idle", calls'[r].stage # "idle",
             calls'[q].unique = calls'[r].unique
      PROVE  q = r
  BY <1>1, <1>3 DEF CallsWell
<1>4. /\ Len(requests') = Len(requests) + 1 /\ Len(requests) \in Nat
      /\ \A i \in 1 .. Len(requests) :
           requests'[i] = requests[i] /\ requests[i] \in Programs /\ requests[i] # p
      /\ requests'[Len(requests) + 1] = p
  BY DEF CallsWell
<1>5. \A i \in 1 .. Len(requests') : calls'[requests'[i]].stage = "queued"
  BY <1>1, <1>4 DEF CallsWell
<1>6. \A i, j \in 1 .. Len(requests') : requests'[i] = requests'[j] => i = j
  BY <1>4 DEF CallsWell
<1> QED
  BY <1>1, <1>2, <1>3, <1>5, <1>6 DEF CallsWell

\* The first request is handled: its call ends, or goes on elsewhere.
LEMMA CallHandled ==
  ASSUME CallsWell, requests # <<>>, NEW p, p = Head(requests), NEW new \in CallState,
         calls' = [calls EXCEPT ![p] = new], requests' = Tail(requests), made' = made,
         \/ new.stage = "idle"
         \/ new.unique = calls[p].unique /\ new.call = calls[p].call
  PROVE  CallsWell'
<1>1. /\ Len(requests) \in Nat \ {0} /\ requests' \in Seq(Programs)
      /\ Len(requests') = Len(requests) - 1
      /\ \A i \in 1 .. Len(requests') : requests'[i] = requests[i + 1]
      /\ \A i \in 1 .. Len(requests) : requests[i] \in Programs
      /\ p = requests[1]
  BY DEF CallsWell
<1>2. p \in Programs /\ calls[p].stage = "queued"
  BY <1>1 DEF CallsWell
<1>3. /\ calls' \in [Programs -> CallState] /\ made' \in Nat
      /\ calls'[p] = new /\ \A q \in Programs \ {p} : calls'[q] = calls[q]
  BY <1>2 DEF CallsWell
<1>4. \A q \in Programs : calls'[q].stage # "idle" =>
        calls'[q].unique <= made' /\ calls'[q].call \in Calls
  BY <1>2, <1>3 DEF CallsWell
<1>5. \A q, r \in Programs :
        /\ calls'[q].stage # "idle" /\ calls'[r].stage # "idle"
        /\ calls'[q].unique = calls'[r].unique
        => q = r
  BY <1>2, <1>3 DEF CallsWell
<1>6. \A i \in 1 .. Len(requests') : i + 1 \in 1 .. Len(requests) /\ requests[i + 1] # p
  BY <1>1 DEF CallsWell
<1>7. \A i \in 1 .. Len(requests') : calls'[requests'[i]].stage = "queued"
  BY <1>1, <1>3, <1>6 DEF CallsWell
<1>8. \A i, j \in 1 .. Len(requests') : requests'[i] = requests'[j] => i = j
  BY <1>1, <1>6 DEF CallsWell
<1> QED
  BY <1>1, <1>3, <1>4, <1>5, <1>7, <1>8 DEF CallsWell

\* The reads that wait are the same ones.
LEMMA WaitsKept ==
  ASSUME WaitsWell, UNCHANGED waiting_reads,
         \A q \in Programs : (calls'[q].stage = "read") <=> (calls[q].stage = "read"),
         \A q \in Programs : calls[q].stage = "read" => calls'[q].unique = calls[q].unique
  PROVE  WaitsWell'
BY DEF WaitsWell, Sent

LEMMA MakeKeeps ==
  CuseInv /\ (\E p \in Programs : \E c \in Calls : Make(p, c)) => CuseInv'
<1> SUFFICES ASSUME CuseInv, NEW p \in Programs, NEW c \in Calls, Make(p, c)
             PROVE  CuseInv'
  OBVIOUS
<1> DEFINE new == [stage |-> "queued", unique |-> made + 1, call |-> c,
                   signalled |-> FALSE, input |-> FALSE]
<1>1. /\ CallsWell /\ WaitsWell /\ StreamsWell /\ strays = 0 /\ NoneWaitsInVain
      /\ made' = made + 1 /\ calls' = [calls EXCEPT ![p] = new]
      /\ requests' = Append(requests, p) /\ calls[p] = Idle
      /\ UNCHANGED <<waiting_reads, to_computer, to_modem, poll_handle, modem_sent,
                     taken, got, discarded, written, strays, pipe, for_modem>>
  BY DEF CuseInv, Make, serverVars, modemVars, historyVars
<1>2. new \in CallState
  BY <1>1 DEF CallState, CallsWell
<1>3. calls[p].stage = "idle" /\ new.stage = "queued" /\ new.unique = made + 1 /\ new.call = c
  BY <1>1 DEF Idle
<1> HIDE DEF new
<1>4. calls'[p] = new /\ \A q \in Programs \ {p} : calls'[q] = calls[q]
  BY <1>1 DEF CallsWell
<1>5. CallsWell'
  BY <1>1, <1>2, <1>3, CallQueued
<1>6. WaitsWell'
  BY <1>1, <1>3, <1>4, WaitsKept
<1>7. StreamsWell'
  BY <1>1, Zenon DEF StreamsWell
<1>8. NoneWaitsInVain'
  BY <1>1, <1>3, <1>4 DEF NoneWaitsInVain, Asleep
<1> QED
  BY <1>1, <1>5, <1>6, <1>7, <1>8 DEF CuseInv

LEMMA SignalKeeps == CuseInv /\ (\E p \in Programs : Signal(p)) => CuseInv'
<1> SUFFICES ASSUME CuseInv, NEW p \in Programs, Signal(p)
             PROVE  CuseInv'
  OBVIOUS
<1>1. /\ CallsWell /\ WaitsWell /\ StreamsWell /\ strays = 0 /\ NoneWaitsInVain
      /\ UNCHANGED <<made, requests, waiting_reads, to_computer, to_modem, poll_handle,
                     modem_sent, taken, got, discarded, written, strays, pipe, for_modem>>
  BY DEF CuseInv, Signal, serverVars, modemVars, historyVars
<1>2. /\ calls' \in [Programs -> CallState]
      /\ \A q \in Programs \ {p} : calls'[q] = calls[q]
      /\ \/ /\ calls[p].stage \in {"queued", "read"}
            /\ calls'[p].stage = calls[p].stage /\ calls'[p].unique = calls[p].unique
            /\ calls'[p].call = calls[p].call
         \/ calls[p].stage = "asleep" /\ calls'[p].stage = "idle"
  <2>0. calls[p] \in CallState /\ Idle \in CallState /\ Idle.stage = "idle"
    BY <1>1 DEF CallsWell, CallState, Idle
  <2>1. CASE calls[p].stage \in {"queued", "read"}
    <3> DEFINE new == [calls[p] EXCEPT !.signalled = TRUE]
    <3>1. /\ new \in CallState /\ new.stage = calls[p].stage
          /\ new.unique = calls[p].unique /\ new.call = calls[p].call
      BY <2>0 DEF CallState
    <3>2. calls' = [calls EXCEPT ![p] = new]
      BY <2>1 DEF Signal, Sent, Asleep
    <3> HIDE DEF new
    <3> QED
      BY <1>1, <2>1, <3>1, <3>2 DEF CallsWell
  <2>2. CASE calls[p].stage = "asleep"
    <3>1. calls' = [calls EXCEPT ![p] = Idle]
      BY <2>2 DEF Signal, Sent, Asleep
    <3> QED
      BY <1>1, <2>0, <2>2, <3>1 DEF CallsWell
  <2> QED
    BY <2>1, <2>2 DEF Signal, Sent, Asleep
<1>3. CallsWell'
  BY <1>1, <1>2, CallsKept
<1>4. WaitsWell'
  BY <1>1, <1>2, WaitsKept
<1>5. StreamsWell'
  BY <1>1, Zenon DEF StreamsWell
<1>6. NoneWaitsInVain'
  BY <1>1, <1>2 DEF NoneWaitsInVain, Asleep
<1> QED
  BY <1>1, <1>3, <1>4, <1>5, <1>6 DEF CuseInv

LEMMA PollAgainKeeps == CuseInv /\ (\E p \in Programs : PollAgain(p)) => CuseInv'
<1> SUFFICES ASSUME CuseInv, NEW p \in Programs, PollAgain(p)
             PROVE  CuseInv'
  OBVIOUS
<1> DEFINE new == [calls[p] EXCEPT !.stage = "queued", !.unique = made + 1]
<1>1. /\ CallsWell /\ WaitsWell /\ StreamsWell /\ strays = 0 /\ NoneWaitsInVain
      /\ made' = made + 1 /\ calls' = [calls EXCEPT ![p] = new]
      /\ requests' = Append(requests, p) /\ calls[p].stage = "roused"
      /\ UNCHANGED <<waiting_reads, to_computer, to_modem, poll_handle, modem_sent,
                     taken, got, discarded, written, strays, pipe, for_modem>>
  BY DEF CuseInv, PollAgain, serverVars, modemVars, historyVars
<1>2. /\ new \in CallState /\ new.stage = "queued" /\ new.unique = made + 1
      /\ new.call \in Calls
  <2>1. calls[p] \in CallState /\ calls[p].call \in Calls /\ made + 1 \in Nat
    BY <1>1 DEF CallsWell
  <2> QED
    BY <2>1 DEF CallState
<1> HIDE DEF new
<1>3. calls'[p] = new /\ \A q \in Programs \ {p} : calls'[q] = calls[q]
  BY <1>1 DEF CallsWell
<1>4. CallsWell'
  BY <1>1, <1>2, CallQueued
<1>5. WaitsWell'
  BY <1>1, <1>2, <1>3, WaitsKept
<1>6. StreamsWell'
  BY <1>1, Zenon DEF StreamsWell
<1>7. NoneWaitsInVain'
  BY <1>1, <1>2, <1>3 DEF NoneWaitsInVain, Asleep
<1> QED
  BY <1>1, <1>4, <1>5, <1>6, <1>7 DEF CuseInv

\* The first request: its program has a call queued.
LEMMA Taken ==
  ASSUME CuseInv, NEW p \in Programs, NEW op, Take(p, op)
  PROVE  /\ CallsWell /\ WaitsWell /\ StreamsWell /\ strays = 0 /\ NoneWaitsInVain
         /\ requests # <<>> /\ p = Head(requests) /\ interrupts = {}
         /\ calls[p].stage = "queued" /\ calls[p] \in CallState
         /\ calls[p].call \in Calls /\ calls[p].call.op = op
         /\ UNCHANGED <<modem_sent, taken, made, pipe, for_modem>>
<1>1. /\ CallsWell /\ WaitsWell /\ StreamsWell /\ strays = 0 /\ NoneWaitsInVain
      /\ requests # <<>> /\ p = Head(requests) /\ interrupts = {}
      /\ calls[p].call.op = op
      /\ UNCHANGED <<modem_sent, taken, made, pipe, for_modem>>
  BY DEF CuseInv, Take, modemVars
<1>2. requests \in Seq(Programs) /\ p = requests[1] /\ 1 \in 1 .. Len(requests)
  BY <1>1 DEF CallsWell
<1>3. calls[p].stage = "queued" /\ calls[p] \in CallState
  BY <1>2, <1>1 DEF CallsWell
<1> QED
  BY <1>1, <1>3 DEF CallsWell

\* An answer to the first request ends its call and touches no read that waits.
LEMMA Answered ==
  ASSUME CallsWell, WaitsWell, requests # <<>>, NEW p \in Programs, p = Head(requests),
         calls[p].stage = "queued", UNCHANGED <<made, waiting_reads>>, Answer(p)
  PROVE  /\ CallsWell' /\ WaitsWell'
         /\ calls'[p].stage = "idle" /\ \A q \in Programs \ {p} : calls'[q] = calls[q]
<1>1. Idle \in CallState /\ Idle.stage = "idle"
  BY DEF CallState, Idle, CallsWell
<1>2. calls' = [calls EXCEPT ![p] = Idle] /\ requests' = Tail(requests)
  BY DEF Answer
<1>3. CallsWell'
  BY <1>1, <1>2, CallHandled
<1>4. calls'[p].stage = "idle" /\ \A q \in Programs \ {p} : calls'[q] = calls[q]
  BY <1>1, <1>2 DEF CallsWell
<1>5. WaitsWell'
  BY <1>4, WaitsKept
<1> QED
  BY <1>3, <1>4, <1>5

LEMMA WriteKeeps == CuseInv /\ (\E p \in Programs : Write(p)) => CuseInv'
<1> SUFFICES ASSUME CuseInv, NEW p \in Programs, Write(p)
             PROVE  CuseInv'
  OBVIOUS
<1>0. Take(p, "write")
  BY DEF Write
<1>1. /\ CallsWell /\ WaitsWell /\ StreamsWell /\ strays = 0 /\ NoneWaitsInVain
      /\ requests # <<>> /\ p = Head(requests)
      /\ calls[p].stage = "queued"
      /\ calls[p].call \in Calls /\ calls[p].call.op = "write"
      /\ UNCHANGED <<modem_sent, taken, made, pipe, for_modem>>
  BY <1>0, Taken
<1>2. /\ Answer(p) /\ strays' = strays
      /\ UNCHANGED <<to_computer, waiting_reads, poll_handle, got, discarded>>
  BY DEF Write, Answer
<1>3. /\ CallsWell' /\ WaitsWell'
      /\ calls'[p].stage = "idle" /\ \A q \in Programs \ {p} : calls'[q] = calls[q]
  BY <1>1, <1>2, Answered
<1>4. StreamsWell'
  <2> DEFINE k == calls[p].call.size
             new == [j \in 1 .. k |-> written + j]
  <2>1. k \in Nat
    BY <1>1, CuseAssumption
  <2>2. CASE to_modem' = to_modem \o new /\ written' = written + k
    <3>1. /\ taken \in Seq(Nat) /\ for_modem \in Seq(Nat) /\ to_modem \in Seq(Nat)
          /\ written \in Nat /\ Kept3(taken, for_modem, to_modem, discarded.modem, written)
      BY <1>1 DEF StreamsWell
    <3> HIDE DEF k
    <3>2. to_modem \o new \in Seq(Nat)
          /\ Kept3(taken, for_modem, to_modem \o new, discarded.modem, written + k)
      BY <2>1, <3>1, NewBytes
    <3>3. written + k \in Nat
      BY <2>1, <3>1
    <3> HIDE DEF new
    <3> QED
      BY <1>1, <1>2, <2>2, <3>2, <3>3, Zenon DEF StreamsWell
  <2>3. CASE UNCHANGED <<to_modem, written>>
    BY <1>1, <1>2, <2>3, Zenon DEF StreamsWell
  <2> QED
    BY <2>2, <2>3 DEF Write
<1>5. NoneWaitsInVain'
  BY <1>1, <1>2, <1>3 DEF NoneWaitsInVain, Asleep
<1> QED
  BY <1>1, <1>2, <1>3, <1>4, <1>5 DEF CuseInv

LEMMA PollKeeps == CuseInv /\ (\E p \in Programs : Poll(p)) => CuseInv'
<1> SUFFICES ASSUME CuseInv, NEW p \in Programs, Poll(p)
             PROVE  CuseInv'
  OBVIOUS
<1>0. Take(p, "poll")
  BY DEF Poll
<1>1. /\ CallsWell /\ WaitsWell /\ StreamsWell /\ strays = 0 /\ NoneWaitsInVain
      /\ requests # <<>> /\ p = Head(requests)
      /\ calls[p].stage = "queued" /\ calls[p] \in CallState
      /\ UNCHANGED <<modem_sent, taken, made, pipe, for_modem>>
  BY <1>0, Taken
<1>2. /\ requests' = Tail(requests) /\ poll_handle' = TRUE
      /\ UNCHANGED <<to_computer, to_modem, waiting_reads, got, discarded, written, strays>>
  BY DEF Poll, historyVars
<1>3. PICK new \in CallState :
        /\ calls' = [calls EXCEPT ![p] = new]
        /\ \/ new.stage = "idle"
           \/ /\ to_computer = <<>> /\ new.stage = "asleep"
              /\ new.unique = calls[p].unique /\ new.call = calls[p].call
  <2>1. CASE to_computer = <<>> /\ ~calls[p].signalled
    <3> DEFINE new == [calls[p] EXCEPT !.stage = "asleep"]
    <3>1. new \in CallState /\ new.stage = "asleep"
          /\ new.unique = calls[p].unique /\ new.call = calls[p].call
      BY <1>1 DEF CallState
    <3>2. calls' = [calls EXCEPT ![p] = new]
      BY <2>1 DEF Poll
    <3> HIDE DEF new
    <3> QED
      BY <2>1, <3>1, <3>2
  <2>2. CASE ~(to_computer = <<>> /\ ~calls[p].signalled)
    <3>1. Idle \in CallState /\ Idle.stage = "idle"
      BY DEF CallState, Idle
    <3>2. calls' = [calls EXCEPT ![p] = Idle]
      BY <2>2 DEF Poll
    <3> QED
      BY <3>1, <3>2
  <2> QED
    BY <2>1, <2>2
<1>4. calls'[p] = new /\ \A q \in Programs \ {p} : calls'[q] = calls[q]
  BY <1>1, <1>3 DEF CallsWell
<1>5. CallsWell'
  BY <1>1, <1>2, <1>3, CallHandled
<1>6. WaitsWell'
  BY <1>1, <1>2, <1>3, <1>4, WaitsKept
<1>7. StreamsWell'
  BY <1>1, <1>2, Zenon DEF StreamsWell
<1>8. NoneWaitsInVain'
  BY <1>1, <1>2, <1>3, <1>4 DEF NoneWaitsInVain, Asleep
<1> QED
  BY <1>1, <1>2, <1>5, <1>6, <1>7, <1>8 DEF CuseInv

LEMMA SetLinesKeeps == CuseInv /\ (\E p \in Programs : SetLines(p)) => CuseInv'
<1> SUFFICES ASSUME CuseInv, NEW p \in Programs, SetLines(p)
             PROVE  CuseInv'
  OBVIOUS
<1>0. Take(p, "lines")
  BY DEF SetLines
<1>1. /\ CallsWell /\ WaitsWell /\ StreamsWell /\ strays = 0 /\ NoneWaitsInVain
      /\ requests # <<>> /\ p = Head(requests)
      /\ calls[p].stage = "queued" /\ calls[p] \in CallState
      /\ UNCHANGED <<modem_sent, taken, made, pipe, for_modem>>
  BY <1>0, Taken
<1>2. /\ strays' = strays
      /\ UNCHANGED <<to_computer, to_modem, waiting_reads, poll_handle, got, discarded, written>>
  BY DEF SetLines, Answer, Retry
<1>3. /\ CallsWell' /\ WaitsWell'
      /\ calls'[p].stage # "asleep" /\ \A q \in Programs \ {p} : calls'[q] = calls[q]
  <2>1. CASE Answer(p)
    BY <1>1, <1>2, <2>1, Answered
  <2>2. CASE Retry(p)
    <3> DEFINE new == [calls[p] EXCEPT !.input = TRUE]
    <3>1. new \in CallState /\ new.stage = "queued"
          /\ new.unique = calls[p].unique /\ new.call = calls[p].call
      BY <1>1 DEF CallState
    <3>2. calls' = [calls EXCEPT ![p] = new] /\ requests' = Append(Tail(requests), p)
      BY <2>2 DEF Retry
    <3> HIDE DEF new
    <3>3. /\ calls'[p] = new /\ \A q \in Programs \ {p} : calls'[q] = calls[q]
          /\ calls' \in [Programs -> CallState]
      BY <1>1, <3>1, <3>2 DEF CallsWell
    <3>4. WaitsWell'
      BY <1>1, <1>2, <3>1, <3>3, WaitsKept
    <3>5. /\ Len(requests) \in Nat \ {0} /\ requests' \in Seq(Programs)
          /\ Len(requests') = Len(requests)
          /\ \A i \in 1 .. Len(requests) - 1 : requests'[i] = requests[i + 1]
          /\ requests'[Len(requests)] = requests[1]
          /\ p = requests[1]
      BY <1>1, <3>2 DEF CallsWell
    <3> DEFINE was == [i \in 1 .. Len(requests) |-> IF i = Len(requests) THEN 1 ELSE i + 1]
    <3>6. \A i \in 1 .. Len(requests) :
            was[i] \in 1 .. Len(requests) /\ requests'[i] = requests[was[i]]
      BY <3>5
    <3>7. \A i, j \in 1 .. Len(requests) : was[i] = was[j] => i = j
      BY <3>5
    <3> HIDE DEF was
    <3>8. \A i \in 1 .. Len(requests') : calls'[requests'[i]].stage = "queued"
      BY <1>1, <3>1, <3>3, <3>5, <3>6 DEF CallsWell
    <3>9. \A i, j \in 1 .. Len(requests') : requests'[i] = requests'[j] => i = j
      BY <1>1, <3>5, <3>6, <3>7 DEF CallsWell
    <3>10. \A q \in Programs : calls'[q].stage # "idle" =>
             calls'[q].unique <= made' /\ calls'[q].call \in Calls
      BY <1>1, <3>1, <3>3 DEF CallsWell
    <3>11. \A q, r \in Programs :
             /\ calls'[q].stage # "idle" /\ calls'[r].stage # "idle"
             /\ calls'[q].unique = calls'[r].unique
             => q = r
      BY <1>1, <3>1, <3>3 DEF CallsWell
    <3>12. CallsWell'
      BY <1>1, <3>3, <3>5, <3>8, <3>9, <3>10, <3>11 DEF CallsWell
    <3> QED
      BY <3>1, <3>3, <3>4, <3>12
  <2> QED
    BY <2>1, <2>2 DEF SetLines
<1>4. StreamsWell'
  BY <1>1, <1>2, Zenon DEF StreamsWell
<1>5. NoneWaitsInVain'
  BY <1>1, <1>2, <1>3 DEF NoneWaitsInVain, Asleep
<1> QED
  BY <1>1, <1>2, <1>3, <1>4, <1>5 DEF CuseInv

LEMMA FlushKeeps == CuseInv /\ (\E p \in Programs : Flush(p)) => CuseInv'
<1> SUFFICES ASSUME CuseInv, NEW p \in Programs, Flush(p)
             PROVE  CuseInv'
  OBVIOUS
<1>0. Take(p, "flush")
  BY DEF Flush
<1>1. /\ CallsWell /\ WaitsWell /\ StreamsWell /\ strays = 0 /\ NoneWaitsInVain
      /\ requests # <<>> /\ p = Head(requests)
      /\ calls[p].stage = "queued"
      /\ UNCHANGED <<modem_sent, taken, made, pipe, for_modem>>
  BY <1>0, Taken
<1> DEFINE input == calls[p].call.queue # 1
           output == calls[p].call.queue # 0
<1>2. /\ to_computer' = IF input THEN <<>> ELSE to_computer
      /\ to_modem' = IF output THEN <<>> ELSE to_modem
      /\ discarded' =
           [computer |-> discarded.computer \cup (IF input THEN ToSet(to_computer) ELSE {}),
            modem |-> discarded.modem \cup (IF output THEN ToSet(to_modem) ELSE {})]
      /\ Answer(p) /\ strays' = strays
      /\ UNCHANGED <<waiting_reads, poll_handle, got, written>>
  BY DEF Flush, Answer
<1> HIDE DEF input, output
<1>3. /\ CallsWell' /\ WaitsWell'
      /\ calls'[p].stage = "idle" /\ \A q \in Programs \ {p} : calls'[q] = calls[q]
  BY <1>1, <1>2, Answered
<1>4. StreamsWell'
  <2>1. /\ Kept3(got, to_computer, pipe, discarded.computer, modem_sent)
        /\ Kept3(taken, for_modem, to_modem, discarded.modem, written)
    BY <1>1 DEF StreamsWell
  <2>2. Kept3(got, to_computer', pipe, discarded'.computer, modem_sent)
    <3>1. CASE input
      <4>1. to_computer' = <<>> /\ discarded'.computer = discarded.computer \cup ToSet(to_computer)
        BY <1>2, <3>1
      <4>2. Kept3(got, <<>>, pipe, discarded.computer \cup ToSet(to_computer), modem_sent)
        BY <2>1, Thrown, Zenon
      <4> QED
        BY <4>1, <4>2, Zenon
    <3>2. CASE ~input
      <4>1. to_computer' = to_computer /\ discarded'.computer = discarded.computer
        BY <1>2, <3>2
      <4> QED
        BY <2>1, <4>1, Zenon
    <3> QED
      BY <3>1, <3>2
  <2>3. Kept3(taken, for_modem, to_modem', discarded'.modem, written)
    <3>1. CASE output
      <4>1. to_modem' = <<>> /\ discarded'.modem = discarded.modem \cup ToSet(to_modem)
        BY <1>2, <3>1
      <4>2. Kept3(taken, for_modem, <<>>, discarded.modem \cup ToSet(to_modem), written)
        BY <2>1, Thrown, Zenon
      <4> QED
        BY <4>1, <4>2, Zenon
    <3>2. CASE ~output
      <4>1. to_modem' = to_modem /\ discarded'.modem = discarded.modem
        BY <1>2, <3>2
      <4> QED
        BY <2>1, <4>1, Zenon
    <3> QED
      BY <3>1, <3>2
  <2>4. to_computer' \in Seq(Nat) /\ to_modem' \in Seq(Nat)
    BY <1>1, <1>2 DEF StreamsWell
  <2>5. discarded' = [computer |-> discarded'.computer, modem |-> discarded'.modem]
    BY <1>2
  <2> QED
    BY <1>1, <1>2, <2>2, <2>3, <2>4, <2>5, Zenon DEF StreamsWell
<1>5. NoneWaitsInVain'
  BY <1>1, <1>2, <1>3 DEF NoneWaitsInVain, Asleep
<1> QED
  BY <1>1, <1>2, <1>3, <1>4, <1>5 DEF CuseInv

LEMMA ReadKeeps == CuseInv /\ (\E p \in Programs : Read(p)) => CuseInv'
<1> SUFFICES ASSUME CuseInv, NEW p \in Programs, Read(p)
             PROVE  CuseInv'
  OBVIOUS
<1>0. Take(p, "read")
  BY DEF Read
<1>1. /\ CallsWell /\ WaitsWell /\ StreamsWell /\ strays = 0 /\ NoneWaitsInVain
      /\ requests # <<>> /\ p = Head(requests)
      /\ calls[p].stage = "queued" /\ calls[p] \in CallState
      /\ calls[p].call \in Calls /\ calls[p].call.op = "read"
      /\ UNCHANGED <<modem_sent, taken, made, pipe, for_modem>>
  BY <1>0, Taken
<1> DEFINE size == calls[p].call.size
           n == IF size < Len(to_computer) THEN size ELSE Len(to_computer)
<1>2. size \in Nat
  BY <1>1, CuseAssumption
<1>3. /\ to_computer \in Seq(Nat) /\ got \in Seq(Nat)
      /\ Kept3(got, to_computer, pipe, discarded.computer, modem_sent)
  BY <1>1 DEF StreamsWell
<1>4. n \in 0 .. Len(to_computer)
  BY <1>2, <1>3
<1>5. UNCHANGED <<to_modem, poll_handle, discarded, written>>
  BY DEF Read
<1>6. CASE /\ to_computer # <<>>
           /\ got' = got \o SubSeq(to_computer, 1, n)
           /\ to_computer' = SubSeq(to_computer, n + 1, Len(to_computer))
           /\ UNCHANGED waiting_reads
           /\ Answer(p)
  <2>1. /\ CallsWell' /\ WaitsWell' /\ strays' = strays
        /\ calls'[p].stage = "idle" /\ \A q \in Programs \ {p} : calls'[q] = calls[q]
    BY <1>1, <1>6, Answered DEF Answer
  <2> DEFINE x == SubSeq(to_computer, 1, n)
             y == SubSeq(to_computer, n + 1, Len(to_computer))
  <2>2. x \in Seq(Nat) /\ y \in Seq(Nat) /\ x \o y = to_computer
    BY <1>3, <1>4, Cut
  <2>3. got' = got \o x /\ to_computer' = y
    BY <1>6
  <2> HIDE DEF x, y
  <2>4. got \o x \in Seq(Nat) /\ Kept3(got \o x, y, pipe, discarded.computer, modem_sent)
    <3>1. Kept3(got, x \o y, pipe, discarded.computer, modem_sent) /\ pipe \in Seq(Nat)
      BY <1>1, <1>3, <2>2 DEF StreamsWell
    <3> QED
      BY <1>3, <2>2, <3>1, MovesFirst
  <2>5. StreamsWell'
    BY <1>1, <1>5, <2>2, <2>3, <2>4, Zenon DEF StreamsWell
  <2>6. NoneWaitsInVain'
    <3>1. waiting_reads' = <<>>
      BY <1>1, <1>6 DEF NoneWaitsInVain
    <3>2. \A q \in Programs : ~(calls'[q].stage = "asleep")
      BY <1>1, <1>6, <2>1 DEF NoneWaitsInVain, Asleep
    <3> QED
      BY <3>1, <3>2 DEF NoneWaitsInVain, Asleep
  <2> QED
    BY <1>1, <2>1, <2>5, <2>6 DEF CuseInv
<1>7. CASE /\ to_computer = <<>> /\ calls[p].call.nonblock
           /\ UNCHANGED <<got, to_computer, waiting_reads>>
           /\ Answer(p)
  <2>1. /\ CallsWell' /\ WaitsWell' /\ strays' = strays
        /\ calls'[p].stage = "idle" /\ \A q \in Programs \ {p} : calls'[q] = calls[q]
    BY <1>1, <1>7, Answered DEF Answer
  <2>2. StreamsWell'
    BY <1>1, <1>5, <1>7, Zenon DEF StreamsWell
  <2>3. NoneWaitsInVain'
    BY <1>1, <1>5, <1>7, <2>1 DEF NoneWaitsInVain, Asleep
  <2> QED
    BY <1>1, <2>1, <2>2, <2>3 DEF CuseInv
<1>8. CASE /\ to_computer = <<>> /\ ~calls[p].call.nonblock
           /\ waiting_reads' = Append(waiting_reads, [unique |-> calls[p].unique,
                                                      size |-> calls[p].call.size])
           /\ calls' = [calls EXCEPT ![p].stage = "read"]
           /\ interrupts' = IF calls[p].signalled THEN {calls[p].unique} ELSE {}
           /\ requests' = Tail(requests)
           /\ UNCHANGED <<got, to_computer, strays>>
  <2> DEFINE new == [calls[p] EXCEPT !.stage = "read"]
             wait == [unique |-> calls[p].unique, size |-> size]
  <2>1. new \in CallState /\ new.stage = "read"
        /\ new.unique = calls[p].unique /\ new.call = calls[p].call
    BY <1>1 DEF CallState
  <2>2. /\ calls' = [calls EXCEPT ![p] = new] /\ requests' = Tail(requests)
        /\ waiting_reads' = Append(waiting_reads, wait)
    BY <1>8
  <2>3. wait \in Waiting /\ wait.unique = calls[p].unique
    BY <1>1, <1>2 DEF Waiting, CallState
  <2> HIDE DEF new, wait
  <2>4. calls'[p] = new /\ \A q \in Programs \ {p} : calls'[q] = calls[q]
    BY <1>1, <2>2 DEF CallsWell
  <2>5. CallsWell'
    BY <1>1, <2>1, <2>2, CallHandled
  <2>6. WaitsWell'
    <3> DEFINE m == Len(waiting_reads)
    <3>1. /\ waiting_reads' \in Seq(Waiting) /\ Len(waiting_reads') = m + 1 /\ m \in Nat
          /\ \A i \in 1 .. m : waiting_reads'[i] = waiting_reads[i]
          /\ waiting_reads'[m + 1] = wait
      BY <1>1, <2>2, <2>3 DEF WaitsWell
    <3> HIDE DEF m
    <3>2. \A i \in 1 .. m : waiting_reads[i].unique # calls[p].unique
      <4> SUFFICES ASSUME NEW i \in 1 .. m, waiting_reads[i].unique = calls[p].unique
                   PROVE  FALSE
        OBVIOUS
      <4>1. PICK q \in Programs : Sent(q) /\ calls[q].unique = waiting_reads[i].unique
        BY <1>1 DEF WaitsWell, m
      <4>2. q = p
        BY <1>1, <4>1 DEF CallsWell, Sent
      <4> QED
        BY <1>1, <4>1, <4>2 DEF Sent
    <3>3. \A i, j \in 1 .. m + 1 :
            waiting_reads'[i].unique = waiting_reads'[j].unique => i = j
      <4>1. \A i, j \in 1 .. m :
              waiting_reads[i].unique = waiting_reads[j].unique => i = j
        BY <1>1 DEF WaitsWell, m
      <4> QED
        BY <2>3, <3>1, <3>2, <4>1
    <3>4. \A i \in 1 .. m + 1 :
            \E q \in Programs : calls'[q].stage = "read"
                                /\ calls'[q].unique = waiting_reads'[i].unique
      <4> TAKE i \in 1 .. m + 1
      <4>1. CASE i = m + 1
        BY <2>1, <2>3, <2>4, <3>1, <4>1
      <4>2. CASE i \in 1 .. m
        <5>1. PICK q \in Programs : Sent(q) /\ calls[q].unique = waiting_reads[i].unique
          BY <1>1, <4>2 DEF WaitsWell, m
        <5>2. q # p
          BY <1>1, <5>1 DEF Sent
        <5> QED
          BY <2>4, <3>1, <4>2, <5>1, <5>2 DEF Sent
      <4> QED
        BY <3>1, <4>1, <4>2
    <3>5. \A q \in Programs : calls'[q].stage = "read" =>
            \E i \in 1 .. m + 1 : calls'[q].unique = waiting_reads'[i].unique
      <4> TAKE q \in Programs
      <4> HAVE calls'[q].stage = "read"
      <4>1. CASE q = p
        <5>1. m + 1 \in 1 .. m + 1
          BY <3>1
        <5> QED
          BY <2>1, <2>3, <2>4, <3>1, <4>1, <5>1
      <4>2. CASE q # p
        <5>1. PICK i \in 1 .. m : calls[q].unique = waiting_reads[i].unique
          BY <1>1, <2>4, <4>2 DEF WaitsWell, m, Sent
        <5>2. i \in 1 .. m + 1
          BY <3>1
        <5> QED
          BY <2>4, <3>1, <4>2, <5>1, <5>2
      <4> QED
        BY <4>1, <4>2
    <3> QED
      BY <3>1, <3>3, <3>4, <3>5 DEF WaitsWell, Sent
  <2>7. StreamsWell'
    BY <1>1, <1>5, <1>8, Zenon DEF StreamsWell
  <2>8. NoneWaitsInVain'
    BY <1>1, <1>5, <1>8, <2>1, <2>4 DEF NoneWaitsInVain, Asleep
  <2> QED
    BY <1>1, <1>8, <2>5, <2>6, <2>7, <2>8 DEF CuseInv
<1> QED
  BY <1>6, <1>7, <1>8 DEF Read

Numbers(waiting) == {waiting[i].unique : i \in 1 .. Len(waiting)}

\* The answers to reads that wait each end the call of a program.
LEMMA ReadsEnd ==
  ASSUME CallsWell, WaitsWell, NEW answered \in SUBSET Numbers(waiting_reads)
  PROVE  /\ Ended(calls, answered) \in [Programs -> CallState]
         /\ \A q \in Programs :
              Ended(calls, answered)[q] =
                IF Sent(q) /\ calls[q].unique \in answered THEN Idle ELSE calls[q]
         /\ \A u \in answered : Holder(u) # {}
<1>1. Idle \in CallState /\ Idle.stage = "idle"
  BY DEF CallState, Idle
<1>2. \A u \in answered : \E p \in Programs : Sent(p) /\ calls[p].unique = u
  BY DEF WaitsWell, Numbers
<1>3. ASSUME NEW u \in answered PROVE Holder(u) # {}
  <2>1. PICK p \in Programs : Sent(p) /\ calls[p].unique = u
    BY <1>2
  <2>2. p \in Holder(u)
    BY <2>1 DEF Holder, Sent
  <2> QED
    BY <2>2
<1>4. ASSUME NEW q \in Programs, calls[q].stage # "idle", calls[q].unique \in answered
      PROVE  Sent(q)
  <2>1. PICK p \in Programs : Sent(p) /\ calls[p].unique = calls[q].unique
    BY <1>2, <1>4
  <2>2. p = q
    BY <1>4, <2>1 DEF CallsWell, Sent
  <2> QED
    BY <2>1, <2>2
<1>5. \A q \in Programs :
        Ended(calls, answered)[q] =
          IF Sent(q) /\ calls[q].unique \in answered THEN Idle ELSE calls[q]
  BY <1>4 DEF Ended, Sent
<1>6. Ended(calls, answered) \in [Programs -> CallState]
  BY <1>1 DEF Ended, CallsWell
<1> QED
  BY <1>3, <1>5, <1>6

\* The reads that are not answered go on waiting.
LEMMA OthersWait ==
  ASSUME WaitsWell, NEW answered, waiting_reads' \in Seq(Waiting),
         \A i, j \in 1 .. Len(waiting_reads') :
           waiting_reads'[i].unique = waiting_reads'[j].unique => i = j,
         Numbers(waiting_reads') = Numbers(waiting_reads) \ answered,
         \A q \in Programs :
           IF Sent(q) /\ calls[q].unique \in answered THEN calls'[q].stage = "idle"
           ELSE /\ (calls'[q].stage = "read") <=> Sent(q)
                /\ Sent(q) => calls'[q].unique = calls[q].unique
  PROVE  WaitsWell'
<1>1. \A p \in Programs : Sent(p) => calls[p].unique \in Numbers(waiting_reads)
  BY DEF WaitsWell, Numbers
<1>2. \A u \in Numbers(waiting_reads) : \E p \in Programs : Sent(p) /\ calls[p].unique = u
  BY DEF WaitsWell, Numbers
<1>3. ASSUME NEW j \in 1 .. Len(waiting_reads')
      PROVE  \E p \in Programs : calls'[p].stage = "read"
                                 /\ calls'[p].unique = waiting_reads'[j].unique
  <2>1. waiting_reads'[j].unique \in Numbers(waiting_reads) \ answered
    BY DEF Numbers
  <2>2. PICK p \in Programs : Sent(p) /\ calls[p].unique = waiting_reads'[j].unique
    BY <1>2, <2>1
  <2> QED
    BY <2>1, <2>2
<1>4. ASSUME NEW p \in Programs, calls'[p].stage = "read"
      PROVE  \E j \in 1 .. Len(waiting_reads') : calls'[p].unique = waiting_reads'[j].unique
  <2>1. Sent(p) /\ calls[p].unique \notin answered /\ calls'[p].unique = calls[p].unique
    BY <1>4
  <2>2. calls'[p].unique \in Numbers(waiting_reads')
    BY <1>1, <2>1
  <2> QED
    BY <2>2 DEF Numbers
<1> QED
  BY <1>3, <1>4 DEF WaitsWell, Sent

\* A sequence less one of its elements.
LEMMA OneRemoved ==
  ASSUME NEW S, NEW s \in Seq(S), NEW k \in 1 .. Len(s)
  PROVE  /\ RemoveAt(s, k) \in Seq(S) /\ Len(RemoveAt(s, k)) = Len(s) - 1
         /\ \A j \in 1 .. Len(s) - 1 : RemoveAt(s, k)[j] = IF j < k THEN s[j] ELSE s[j + 1]
<1> DEFINE m == Len(s)
           x == SubSeq(s, 1, k - 1)
           y == SubSeq(s, k + 1, m)
<1>1. RemoveAt(s, k) = x \o y
  BY DEF RemoveAt
<1>2. m \in Nat /\ k \in Nat /\ 1 <= k /\ k <= m
  OBVIOUS
<1>3. x \in Seq(S) /\ Len(x) = k - 1 /\ \A j \in 1 .. k - 1 : x[j] = s[j]
  BY <1>2
<1>4. y \in Seq(S) /\ Len(y) = m - k /\ \A j \in 1 .. m - k : y[j] = s[j + k]
  BY <1>2
<1> HIDE DEF x, y, m
<1>5. /\ x \o y \in Seq(S) /\ Len(x \o y) = Len(x) + Len(y)
      /\ \A j \in 1 .. Len(x) + Len(y) :
           (x \o y)[j] = IF j <= Len(x) THEN x[j] ELSE y[j - Len(x)]
  BY <1>3, <1>4, ConcatProperties
<1>6. ASSUME NEW j \in 1 .. m - 1 PROVE (x \o y)[j] = IF j < k THEN s[j] ELSE s[j + 1]
  <2>0. j \in 1 .. Len(x) + Len(y)
    BY <1>2, <1>3, <1>4
  <2>1. CASE j < k
    BY <1>2, <1>3, <1>5, <2>0, <2>1
  <2>2. CASE j >= k
    <3>1. j - Len(x) \in 1 .. m - k /\ (j - Len(x)) + k = j + 1 /\ ~(j <= Len(x))
      BY <1>2, <1>3, <2>2
    <3>2. (x \o y)[j] = y[j - Len(x)]
      BY <1>5, <2>0, <3>1
    <3>3. y[j - Len(x)] = s[j + 1]
      BY <1>4, <3>1
    <3> QED
      BY <2>2, <3>2, <3>3
  <2>3. j < k \/ j >= k
    BY <1>2
  <2> QED
    BY <2>1, <2>2, <2>3, Zenon
<1> QED
  BY <1>1, <1>2, <1>3, <1>4, <1>5, <1>6 DEF m

LEMMA InterruptKeeps == CuseInv /\ (\E u \in interrupts : Interrupt(u)) => CuseInv'
<1> SUFFICES ASSUME CuseInv, NEW target \in interrupts, Interrupt(target)
             PROVE  CuseInv'
  OBVIOUS
<1>1. /\ CallsWell /\ WaitsWell /\ StreamsWell /\ strays = 0 /\ NoneWaitsInVain
      /\ UNCHANGED <<made, requests, to_computer, to_modem, poll_handle,
                     modem_sent, taken, got, discarded, written, pipe, for_modem>>
  BY DEF CuseInv, Interrupt, modemVars
<1>2. StreamsWell'
  BY <1>1, Zenon DEF StreamsWell
<1>3. CASE ~Waits(target)
  <2>1. UNCHANGED <<waiting_reads, calls, strays>>
    BY <1>3 DEF Interrupt
  <2>2. CallsWell' /\ WaitsWell' /\ NoneWaitsInVain' /\ strays' = 0
    BY <1>1, <2>1 DEF CallsWell, WaitsWell, NoneWaitsInVain, Sent, Asleep
  <2> QED
    BY <1>2, <2>2 DEF CuseInv
<1>4. CASE Waits(target)
  <2> DEFINE k == CHOOSE i \in DOMAIN waiting_reads : waiting_reads[i].unique = target
             m == Len(waiting_reads)
  <2>1. waiting_reads \in Seq(Waiting) /\ m \in Nat /\ DOMAIN waiting_reads = 1 .. m
    BY <1>1 DEF WaitsWell
  <2>2. k \in 1 .. m /\ waiting_reads[k].unique = target
    BY <1>4, <2>1, Zenon DEF Waits
  <2>3. /\ waiting_reads' = RemoveAt(waiting_reads, k)
        /\ calls' = Ended(calls, {target})
        /\ strays' = IF Holder(target) = {} THEN strays + 1 ELSE strays
    BY <1>4 DEF Interrupt, Remaining
  <2> HIDE DEF k
  <2>4. /\ waiting_reads' \in Seq(Waiting) /\ Len(waiting_reads') = m - 1
        /\ \A j \in 1 .. m - 1 :
             waiting_reads'[j] = waiting_reads[IF j < k THEN j ELSE j + 1]
    BY <2>1, <2>2, <2>3, OneRemoved
  <2>5. \A i, j \in 1 .. m : waiting_reads[i].unique = waiting_reads[j].unique => i = j
    BY <1>1 DEF WaitsWell
  <2> HIDE DEF m
  <2>6. \A i, j \in 1 .. m - 1 : waiting_reads'[i].unique = waiting_reads'[j].unique => i = j
    <3> TAKE i, j \in 1 .. m - 1
    <3> HAVE waiting_reads'[i].unique = waiting_reads'[j].unique
    <3> DEFINE a == IF i < k THEN i ELSE i + 1
               b == IF j < k THEN j ELSE j + 1
    <3>1. a \in 1 .. m /\ b \in 1 .. m /\ (a = b => i = j)
      BY <2>1, <2>2
    <3>2. waiting_reads'[i] = waiting_reads[a] /\ waiting_reads'[j] = waiting_reads[b]
      BY <2>4
    <3> HIDE DEF a, b
    <3> QED
      BY <2>5, <3>1, <3>2
  <2>7. Numbers(waiting_reads') = Numbers(waiting_reads) \ {target}
    <3>1. ASSUME NEW u \in Numbers(waiting_reads')
          PROVE  u \in Numbers(waiting_reads) /\ u # target
      <4>1. PICK j \in 1 .. m - 1 : u = waiting_reads'[j].unique
        BY <2>4 DEF Numbers
      <4> DEFINE b == IF j < k THEN j ELSE j + 1
      <4>2. b \in 1 .. m /\ b # k
        BY <2>1, <2>2
      <4>3. u = waiting_reads[b].unique
        BY <2>4, <4>1
      <4> HIDE DEF b
      <4> QED
        BY <2>2, <2>5, <4>2, <4>3 DEF Numbers, m
    <3>2. ASSUME NEW u \in Numbers(waiting_reads), u # target
          PROVE  u \in Numbers(waiting_reads')
      <4>1. PICK i \in 1 .. m : u = waiting_reads[i].unique
        BY DEF Numbers, m
      <4>2. i # k
        BY <2>2, <3>2, <4>1
      <4> DEFINE j == IF i < k THEN i ELSE i - 1
      <4>3. j \in 1 .. m - 1 /\ (IF j < k THEN j ELSE j + 1) = i
        BY <2>1, <2>2, <4>2
      <4>4. waiting_reads'[j] = waiting_reads[i]
        BY <2>4, <4>3
      <4> HIDE DEF j
      <4> QED
        BY <2>4, <4>1, <4>3, <4>4 DEF Numbers
    <3> QED
      BY <3>1, <3>2
  <2>8. /\ calls' \in [Programs -> CallState]
        /\ \A q \in Programs :
             calls'[q] = IF Sent(q) /\ calls[q].unique \in {target} THEN Idle ELSE calls[q]
        /\ Holder(target) # {}
    <3>1. {target} \in SUBSET Numbers(waiting_reads)
      BY <2>2 DEF Numbers, m
    <3> QED
      BY <1>1, <2>3, <3>1, ReadsEnd
  <2>9. Idle.stage = "idle"
    BY DEF Idle
  <2>10. WaitsWell'
    <3>1. \A q \in Programs :
           IF Sent(q) /\ calls[q].unique \in {target} THEN calls'[q].stage = "idle"
           ELSE /\ (calls'[q].stage = "read") <=> Sent(q)
                /\ Sent(q) => calls'[q].unique = calls[q].unique
      BY <2>8, <2>9 DEF Sent
    <3> QED
      BY <1>1, <2>4, <2>6, <2>7, <3>1, OthersWait
  <2>11. CallsWell'
    <3>1. \A q \in Programs :
            \/ calls'[q].stage = "idle"
            \/ /\ calls[q].stage # "idle"
               /\ calls'[q].unique = calls[q].unique /\ calls'[q].call = calls[q].call
      BY <2>8, <2>9
    <3>2. \A q \in Programs : calls[q].stage = "queued" => calls'[q].stage = "queued"
      BY <2>8 DEF Sent
    <3> QED
      BY <1>1, <2>8, <3>1, <3>2, CallsKept
  <2>12. NoneWaitsInVain'
    <3>1. waiting_reads # <<>>
      BY <2>1, <2>2 DEF m
    <3>2. to_computer' = <<>>
      BY <1>1, <3>1 DEF NoneWaitsInVain
    <3>3. \A q \in Programs : calls'[q].stage = "asleep" => Asleep(q)
      BY <2>8, <2>9 DEF Asleep
    <3> QED
      BY <1>1, <3>2, <3>3 DEF NoneWaitsInVain, Asleep
  <2>13. strays' = 0
    BY <1>1, <2>3, <2>8
  <2> QED
    BY <1>2, <2>10, <2>11, <2>12, <2>13 DEF CuseInv
<1> QED
  BY <1>3, <1>4

\* The reads that are answered are the first ones.
LEMMA FirstAnswered ==
  ASSUME WaitsWell, NEW k \in 0 .. Len(waiting_reads),
         waiting_reads' = SubSeq(waiting_reads, k + 1, Len(waiting_reads))
  PROVE  /\ waiting_reads' \in Seq(Waiting) /\ Len(waiting_reads') = Len(waiting_reads) - k
         /\ {waiting_reads[i].unique : i \in 1 .. k} \in SUBSET Numbers(waiting_reads)
         /\ \A i, j \in 1 .. Len(waiting_reads') :
              waiting_reads'[i].unique = waiting_reads'[j].unique => i = j
         /\ Numbers(waiting_reads')
              = Numbers(waiting_reads) \ {waiting_reads[i].unique : i \in 1 .. k}
<1> DEFINE m == Len(waiting_reads)
           answered == {waiting_reads[i].unique : i \in 1 .. k}
<1>1. /\ waiting_reads \in Seq(Waiting) /\ m \in Nat /\ k \in 0 .. m
      /\ \A i, j \in 1 .. m : waiting_reads[i].unique = waiting_reads[j].unique => i = j
  BY DEF WaitsWell
<1>2. /\ waiting_reads' \in Seq(Waiting) /\ Len(waiting_reads') = m - k
      /\ \A j \in 1 .. m - k : waiting_reads'[j] = waiting_reads[j + k]
  BY <1>1
<1> HIDE DEF m
<1>3. answered \in SUBSET Numbers(waiting_reads)
  BY <1>1 DEF Numbers, m
<1>4. \A j \in 1 .. m - k : j + k \in 1 .. m
  BY <1>1
<1>5. \A i, j \in 1 .. m - k : waiting_reads'[i].unique = waiting_reads'[j].unique => i = j
  <2> TAKE i, j \in 1 .. m - k
  <2> HAVE waiting_reads'[i].unique = waiting_reads'[j].unique
  <2>1. i + k \in 1 .. m /\ j + k \in 1 .. m
    BY <1>4
  <2>2. waiting_reads[i + k].unique = waiting_reads[j + k].unique
    BY <1>2
  <2>3. i + k = j + k
    BY <1>1, <2>1, <2>2
  <2> QED
    BY <1>1, <2>3
<1>6. ASSUME NEW u \in Numbers(waiting_reads')
      PROVE  u \in Numbers(waiting_reads) /\ u \notin answered
  <2>1. PICK j \in 1 .. m - k : u = waiting_reads'[j].unique
    BY <1>2 DEF Numbers
  <2>2. j + k \in 1 .. m /\ u = waiting_reads[j + k].unique
    BY <1>2, <1>4, <2>1
  <2>3. ASSUME NEW i \in 1 .. k PROVE waiting_reads[i].unique # u
    <3>1. i \in 1 .. m /\ i # j + k
      BY <1>1
    <3> QED
      BY <1>1, <2>2, <3>1
  <2> QED
    BY <2>2, <2>3 DEF Numbers, m
<1>7. ASSUME NEW u \in Numbers(waiting_reads), u \notin answered
      PROVE  u \in Numbers(waiting_reads')
  <2>1. PICK i \in 1 .. m : u = waiting_reads[i].unique
    BY DEF Numbers, m
  <2>2. ~(i <= k)
    BY <1>7, <2>1
  <2>3. i - k \in 1 .. m - k /\ (i - k) + k = i
    BY <1>1, <2>2
  <2>4. waiting_reads'[i - k] = waiting_reads[i]
    BY <1>2, <2>3
  <2> QED
    BY <1>2, <2>1, <2>3, <2>4 DEF Numbers
<1>8. Numbers(waiting_reads') = Numbers(waiting_reads) \ answered
  BY <1>6, <1>7
<1> QED
  BY <1>2, <1>3, <1>5, <1>8 DEF m

LEMMA FromModemKeeps == CuseInv /\ FromModem => CuseInv'
<1> SUFFICES ASSUME CuseInv, FromModem
             PROVE  CuseInv'
  OBVIOUS
<1> DEFINE n == IF Len(pipe) < CHUNK THEN Len(pipe) ELSE CHUNK
           x == SubSeq(pipe, 1, n)
           y == SubSeq(pipe, n + 1, Len(pipe))
           s == Served(waiting_reads, to_computer \o x)
           uniques == {waiting_reads[i].unique : i \in 1 .. s.served}
           after == Ended(calls, uniques)
<1>1. /\ CallsWell /\ WaitsWell /\ StreamsWell /\ strays = 0 /\ NoneWaitsInVain
      /\ pipe' = y /\ to_computer' = s.bytes
      /\ waiting_reads' = SubSeq(waiting_reads, s.served + 1, Len(waiting_reads))
      /\ got' = got \o s.reached
      /\ strays' = strays + Cardinality({u \in uniques : Holder(u) = {}})
      /\ calls' = (IF poll_handle THEN Roused(after) ELSE after)
      /\ UNCHANGED <<to_modem, requests, made, modem_sent, taken, discarded, written, for_modem>>
  BY DEF CuseInv, FromModem, modemVars
<1>2. /\ pipe \in Seq(Nat) /\ to_computer \in Seq(Nat) /\ got \in Seq(Nat)
      /\ Kept3(got, to_computer, pipe, discarded.computer, modem_sent)
  BY <1>1 DEF StreamsWell
<1>3. n \in 0 .. Len(pipe)
  BY <1>2, CuseAssumption
<1>4. x \in Seq(Nat) /\ y \in Seq(Nat) /\ x \o y = pipe
  BY <1>2, <1>3, Cut
<1> HIDE DEF n, x, y, s
<1>5. /\ to_computer \o x \in Seq(Nat)
      /\ Kept3(got, to_computer \o x, y, discarded.computer, modem_sent)
  <2>1. Kept3(got, to_computer, x \o y, discarded.computer, modem_sent)
    BY <1>2, <1>4, Zenon
  <2> QED
    BY <1>2, <1>4, <2>1, MovesSecond
<1>6. \A i \in 1 .. Len(waiting_reads) : Holder(waiting_reads[i].unique) # {}
  <2> TAKE i \in 1 .. Len(waiting_reads)
  <2>1. PICK p \in Programs : Sent(p) /\ calls[p].unique = waiting_reads[i].unique
    BY <1>1 DEF WaitsWell
  <2>2. p \in Holder(waiting_reads[i].unique)
    BY <2>1 DEF Holder, Sent
  <2> QED
    BY <2>2
<1>7. /\ s \in Serving /\ s.served \in 0 .. Len(waiting_reads)
      /\ s.reached \o s.bytes = to_computer \o x
      /\ s.served = Len(waiting_reads) \/ s.bytes = <<>>
  <2>1. waiting_reads \in Seq(Waiting)
    BY <1>1 DEF WaitsWell
  <2> QED
    BY <1>5, <1>6, <2>1, AllServed DEF s
<1>8. /\ waiting_reads' \in Seq(Waiting) /\ Len(waiting_reads') = Len(waiting_reads) - s.served
      /\ uniques \in SUBSET Numbers(waiting_reads)
      /\ \A i, j \in 1 .. Len(waiting_reads') :
           waiting_reads'[i].unique = waiting_reads'[j].unique => i = j
      /\ Numbers(waiting_reads') = Numbers(waiting_reads) \ uniques
  BY <1>1, <1>7, FirstAnswered
<1> HIDE DEF uniques
<1>9. /\ after \in [Programs -> CallState]
      /\ \A q \in Programs :
           after[q] = IF Sent(q) /\ calls[q].unique \in uniques THEN Idle ELSE calls[q]
      /\ \A u \in uniques : Holder(u) # {}
  BY <1>1, <1>8, ReadsEnd
<1> HIDE DEF after
<1>10. /\ calls' \in [Programs -> CallState]
       /\ \A q \in Programs :
            \/ calls'[q] = after[q] /\ (poll_handle => after[q].stage # "asleep")
            \/ /\ after[q].stage = "asleep" /\ calls'[q].stage = "roused"
               /\ calls'[q].unique = after[q].unique /\ calls'[q].call = after[q].call
  <2>1. CASE poll_handle
    <3>1. calls' = [q \in Programs |-> IF after[q].stage = "asleep"
                                       THEN [after[q] EXCEPT !.stage = "roused"] ELSE after[q]]
      BY <1>1, <2>1 DEF Roused
    <3>2. \A q \in Programs : after[q] \in CallState
      BY <1>9
    <3>3. ASSUME NEW c \in CallState
          PROVE  LET r == [c EXCEPT !.stage = "roused"]
                 IN r \in CallState /\ r.stage = "roused" /\ r.unique = c.unique /\ r.call = c.call
      BY DEF CallState
    <3> QED
      BY <3>1, <3>2, <3>3
  <2>2. CASE ~poll_handle
    BY <1>1, <1>9, <2>2
  <2> QED
    BY <2>1, <2>2
<1>11. Idle.stage = "idle"
  BY DEF Idle
<1>12. CallsWell'
  <2>1. \A q \in Programs :
          \/ calls'[q].stage = "idle"
          \/ /\ calls[q].stage # "idle"
             /\ calls'[q].unique = calls[q].unique /\ calls'[q].call = calls[q].call
    BY <1>9, <1>10, <1>11
  <2>2. \A q \in Programs : calls[q].stage = "queued" => calls'[q].stage = "queued"
    BY <1>9, <1>10 DEF Sent
  <2> QED
    BY <1>1, <1>10, <2>1, <2>2, CallsKept
<1>13. WaitsWell'
  <2>1. \A q \in Programs :
         IF Sent(q) /\ calls[q].unique \in uniques THEN calls'[q].stage = "idle"
         ELSE /\ (calls'[q].stage = "read") <=> Sent(q)
              /\ Sent(q) => calls'[q].unique = calls[q].unique
    BY <1>9, <1>10, <1>11 DEF Sent
  <2> QED
    BY <1>1, <1>8, <2>1, OthersWait
<1>14. StreamsWell'
  <2>1. s.reached \in Seq(Nat) /\ s.bytes \in Seq(Nat)
    BY <1>7 DEF Serving
  <2>2. Kept3(got, s.reached \o s.bytes, y, discarded.computer, modem_sent)
    BY <1>5, <1>7, Zenon
  <2>3. /\ got \o s.reached \in Seq(Nat)
        /\ Kept3(got \o s.reached, s.bytes, y, discarded.computer, modem_sent)
    BY <1>2, <1>4, <2>1, <2>2, MovesFirst
  <2> QED
    BY <1>1, <1>4, <2>1, <2>3, Zenon DEF StreamsWell
<1>15. strays' = 0
  <2>1. {u \in uniques : Holder(u) = {}} = {}
    BY <1>9
  <2>2. Cardinality({u \in uniques : Holder(u) = {}}) = 0
    BY <2>1, FS_EmptySet, Zenon
  <2> QED
    BY <1>1, <2>2
<1>16. NoneWaitsInVain'
  <2>1. waiting_reads' # <<>> => to_computer' = <<>>
    <3>1. s.served = Len(waiting_reads) => waiting_reads' = <<>>
      BY <1>7, <1>8
    <3> QED
      BY <1>1, <1>7, <3>1
  <2>2. \A q \in Programs : calls'[q].stage # "asleep"
    <3> SUFFICES ASSUME NEW q \in Programs, calls'[q].stage = "asleep"
                 PROVE  FALSE
      OBVIOUS
    <3>1. after[q].stage = "asleep" /\ ~poll_handle
      BY <1>10
    <3>2. Asleep(q)
      BY <1>9, <1>11, <3>1 DEF Asleep
    <3> QED
      BY <1>1, <3>1, <3>2 DEF NoneWaitsInVain
  <2> QED
    BY <2>1, <2>2 DEF NoneWaitsInVain, Asleep
<1> QED
  BY <1>12, <1>13, <1>14, <1>15, <1>16 DEF CuseInv

\* A step that neither a call nor a read that waits takes part in.
LEMMA CallsUntouched ==
  ASSUME CuseInv, UNCHANGED <<calls, requests, made, waiting_reads, to_computer, poll_handle,
                              strays>>,
         StreamsWell'
  PROVE  CuseInv'
<1>1. CallsWell'
  BY Zenon DEF CuseInv, CallsWell
<1>2. WaitsWell'
  BY Zenon DEF CuseInv, WaitsWell, Sent
<1>3. NoneWaitsInVain' /\ strays' = 0
  BY Zenon DEF CuseInv, NoneWaitsInVain, Asleep
<1> QED
  BY <1>1, <1>2, <1>3 DEF CuseInv

LEMMA ModemKeeps ==
  /\ CuseInv
  /\ \/ \E on \in BOOLEAN : CuseSetCarrier(on)
     \/ Watched \/ ModemWrites \/ ModemReads \/ IntoModem
  => CuseInv'
<1> SUFFICES ASSUME CuseInv,
                    \/ \E on \in BOOLEAN : CuseSetCarrier(on)
                    \/ Watched \/ ModemWrites \/ ModemReads \/ IntoModem
             PROVE  CuseInv'
  OBVIOUS
<1>0. StreamsWell
  BY DEF CuseInv
<1>1. CASE (\E on \in BOOLEAN : CuseSetCarrier(on)) \/ Watched
  <2>1. UNCHANGED <<calls, requests, made, waiting_reads, to_computer, poll_handle, strays,
                    to_modem, modem_sent, taken, got, discarded, written, pipe, for_modem>>
    BY <1>1 DEF CuseSetCarrier, Watched, serverVars, kernelVars, historyVars, modemVars
  <2>2. StreamsWell'
    BY <1>0, <2>1, Zenon DEF StreamsWell
  <2> QED
    BY <2>1, <2>2, CallsUntouched
<1>2. CASE ModemWrites
  <2>1. /\ modem_sent' = modem_sent + 1 /\ pipe' = Append(pipe, modem_sent + 1)
        /\ UNCHANGED <<calls, requests, made, waiting_reads, to_computer, poll_handle, strays,
                    to_modem, taken, got, discarded, written, for_modem>>
    BY <1>2 DEF ModemWrites, serverVars, kernelVars, historyVars
  <2>2. /\ got \in Seq(Nat) /\ to_computer \in Seq(Nat) /\ pipe \in Seq(Nat)
        /\ modem_sent \in Nat
        /\ Kept3(got, to_computer, pipe, discarded.computer, modem_sent)
    BY <1>0 DEF StreamsWell
  <2> DEFINE new == [j \in 1 .. 1 |-> modem_sent + j]
  <2>3. pipe' = pipe \o new
    <3>1. new = <<modem_sent + 1>>
      BY <2>2
    <3> QED
      BY <2>1, <2>2, <3>1
  <2>4. pipe \o new \in Seq(Nat)
        /\ Kept3(got, to_computer, pipe \o new, discarded.computer, modem_sent + 1)
    <3> HIDE DEF new
    <3> QED
      BY <2>2, NewBytes DEF new
  <2>5. StreamsWell'
    <3> HIDE DEF new
    <3>1. modem_sent + 1 \in Nat
      BY <2>2
    <3> QED
      BY <1>0, <2>1, <2>3, <2>4, <3>1, Zenon DEF StreamsWell
  <2> QED
    BY <2>1, <2>5, CallsUntouched
<1>3. CASE ModemReads
  <2>1. /\ taken' = taken \o for_modem /\ for_modem' = <<>>
        /\ UNCHANGED <<calls, requests, made, waiting_reads, to_computer, poll_handle, strays,
                    to_modem, modem_sent, got, discarded, written, pipe>>
    BY <1>3 DEF ModemReads, serverVars, kernelVars, historyVars
  <2>2. /\ taken \in Seq(Nat) /\ for_modem \in Seq(Nat) /\ to_modem \in Seq(Nat)
        /\ Kept3(taken, for_modem, to_modem, discarded.modem, written)
    BY <1>0 DEF StreamsWell
  <2>3. for_modem \o <<>> = for_modem /\ <<>> \in Seq(Nat)
    BY <2>2, ConcatEmptySeq
  <2>4. Kept3(taken, for_modem \o <<>>, to_modem, discarded.modem, written)
    BY <2>2, <2>3, Zenon
  <2>5. /\ taken \o for_modem \in Seq(Nat)
        /\ Kept3(taken \o for_modem, <<>>, to_modem, discarded.modem, written)
    BY <2>2, <2>3, <2>4, MovesFirst
  <2>6. StreamsWell'
    BY <1>0, <2>1, <2>3, <2>5, Zenon DEF StreamsWell
  <2> QED
    BY <2>1, <2>6, CallsUntouched
<1>4. CASE IntoModem
  <2> DEFINE room == DUPLEX - Len(for_modem)
             n == IF Len(to_modem) < room THEN Len(to_modem) ELSE room
             x == SubSeq(to_modem, 1, n)
             y == SubSeq(to_modem, n + 1, Len(to_modem))
  <2>1. /\ Len(for_modem) < DUPLEX
        /\ for_modem' = for_modem \o x /\ to_modem' = y
        /\ UNCHANGED <<calls, requests, made, waiting_reads, to_computer, poll_handle, strays,
                    modem_sent, taken, got, discarded, written, pipe>>
    BY <1>4 DEF IntoModem, kernelVars, historyVars, modemVars
  <2>2. /\ taken \in Seq(Nat) /\ for_modem \in Seq(Nat) /\ to_modem \in Seq(Nat)
        /\ Kept3(taken, for_modem, to_modem, discarded.modem, written)
    BY <1>0 DEF StreamsWell
  <2>3. n \in 0 .. Len(to_modem)
    <3>1. DUPLEX \in Nat
      BY CuseAssumption
    <3>2. Len(to_modem) \in Nat /\ Len(for_modem) \in Nat
      BY <2>2
    <3> QED
      BY <2>1, <3>1, <3>2
  <2>4. x \in Seq(Nat) /\ y \in Seq(Nat) /\ x \o y = to_modem
    BY <2>2, <2>3, Cut
  <2> HIDE DEF x, y, n
  <2>5. Kept3(taken, for_modem, x \o y, discarded.modem, written)
    BY <2>2, <2>4, Zenon
  <2>6. /\ for_modem \o x \in Seq(Nat)
        /\ Kept3(taken, for_modem \o x, y, discarded.modem, written)
    BY <2>2, <2>4, <2>5, MovesSecond
  <2>7. StreamsWell'
    BY <1>0, <2>1, <2>4, <2>6, Zenon DEF StreamsWell
  <2> QED
    BY <2>1, <2>7, CallsUntouched
<1> QED
  BY <1>1, <1>2, <1>3, <1>4

LEMMA CuseInductive == CuseInv /\ [CuseNext]_<<cuseVars, portVars>> => CuseInv'
<1> SUFFICES ASSUME CuseInv, [CuseNext]_<<cuseVars, portVars>> PROVE CuseInv'
  OBVIOUS
<1>1. CASE UNCHANGED <<cuseVars, portVars>>
  <2>1. UNCHANGED <<calls, requests, made, waiting_reads, to_computer, poll_handle, strays,
                    to_modem, modem_sent, taken, got, discarded, written, pipe, for_modem>>
    BY <1>1 DEF cuseVars, serverVars, kernelVars, historyVars
  <2>2. StreamsWell'
    BY <2>1, Zenon DEF CuseInv, StreamsWell
  <2> QED
    BY <2>1, <2>2, CallsUntouched
<1>2. CASE CuseNext
  BY <1>2, Zenon, ModemKeeps, FromModemKeeps, InterruptKeeps, MakeKeeps, SignalKeeps,
     PollAgainKeeps, ReadKeeps, WriteKeeps, PollKeeps, SetLinesKeeps, FlushKeeps
     DEF CuseNext, Handle
<1> QED
  BY <1>1, <1>2

\* The reads that wait and the calls that the server keeps are one for one.
LEMMA EachCallOnce == CallsWell /\ WaitsWell /\ strays = 0 => AnsweredOnce
<1> SUFFICES ASSUME CallsWell, WaitsWell, strays = 0 PROVE AnsweredOnce
  OBVIOUS
<1> DEFINE m == Len(waiting_reads)
           Unanswered == {p \in Programs : Sent(p)}
           f == [i \in 1 .. m |->
                   CHOOSE p \in Programs : Sent(p) /\ calls[p].unique = waiting_reads[i].unique]
<1>1. m \in Nat /\ DOMAIN waiting_reads = 1 .. m
  BY DEF WaitsWell
<1>2. \A i \in 1 .. m :
        f[i] \in Programs /\ Sent(f[i]) /\ calls[f[i]].unique = waiting_reads[i].unique
  <2> TAKE i \in 1 .. m
  <2>1. \E p \in Programs : Sent(p) /\ calls[p].unique = waiting_reads[i].unique
    BY DEF WaitsWell
  <2>2. f[i] = CHOOSE p \in Programs : Sent(p) /\ calls[p].unique = waiting_reads[i].unique
    OBVIOUS
  <2> QED
    BY <2>1, <2>2, Zenon
<1>3. DOMAIN f = 1 .. m /\ f \in [1 .. m -> Unanswered]
  BY <1>2
<1> HIDE DEF f
<1>4. ASSUME NEW i \in 1 .. m, NEW j \in 1 .. m, f[i] = f[j] PROVE i = j
  BY <1>2, <1>4 DEF WaitsWell
<1>5. ASSUME NEW p \in Unanswered PROVE \E i \in 1 .. m : f[i] = p
  <2>1. PICK i \in 1 .. m : calls[p].unique = waiting_reads[i].unique
    BY DEF WaitsWell
  <2>2. f[i] = p
    BY <1>2, <2>1 DEF CallsWell, Sent
  <2> QED
    BY <2>2
<1>6. f \in Bijection(1 .. m, Unanswered)
  BY <1>3, <1>4, <1>5 DEF Bijection, Injection, Surjection, IsInjective
<1>7. Cardinality(Unanswered) = m
  BY <1>1, <1>6, FS_CountingElements DEF ExistsBijection
<1>8. {waiting_reads[i].unique : i \in DOMAIN waiting_reads} = {calls[p].unique : p \in Unanswered}
  BY <1>1 DEF WaitsWell
<1> QED
  BY <1>7, <1>8 DEF AnsweredOnce

LEMMA BytesInOrder == StreamsWell => BytesKept
<1> SUFFICES ASSUME StreamsWell PROVE BytesKept
  OBVIOUS
<1>1. /\ got \in Seq(Nat) /\ to_computer \in Seq(Nat) /\ pipe \in Seq(Nat)
      /\ taken \in Seq(Nat) /\ for_modem \in Seq(Nat) /\ to_modem \in Seq(Nat)
      /\ Kept3(got, to_computer, pipe, discarded.computer, modem_sent)
      /\ Kept3(taken, for_modem, to_modem, discarded.modem, written)
  BY DEF StreamsWell
<1>2. /\ Increasing(got \o to_computer \o pipe)
      /\ ToSet(got \o to_computer \o pipe) \cup discarded.computer = 1 .. modem_sent
  BY <1>1, StreamInOrder
<1>3. /\ Increasing(taken \o for_modem \o to_modem)
      /\ ToSet(taken \o for_modem \o to_modem) \cup discarded.modem = 1 .. written
  BY <1>1, StreamInOrder
<1> QED
  BY <1>2, <1>3, Zenon DEF BytesKept

\* Each system call of a program is answered once however it ends, the bytes
\* come through in order and none is lost but to a flush, and no program waits
\* for what is there: cuse.rs read, interrupt, poll, serve_waiting_reads.
THEOREM EachCallIsServed == CuseSpec => []CallsServed
<1>1. CuseInit => CuseInv
  BY CuseInitially
<1>2. CuseInv /\ [CuseNext]_<<cuseVars, portVars>> => CuseInv'
  BY CuseInductive
<1>3. CuseInv => CallsServed
  BY EachCallOnce, BytesInOrder DEF CuseInv, CallsServed
<1> QED
  BY <1>1, <1>2, <1>3, PTL DEF CuseSpec
=============================================================================
