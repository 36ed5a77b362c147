----------------------------- MODULE PairProofs -----------------------------
(***************************************************************************)
(* Proofs about two LAPM ends over a line that loses frames (LapmPair),    *)
(* for every value of the constants.                                       *)
(***************************************************************************)
EXTENDS LapmPair, LapmLemmas

-----------------------------------------------------------------------------
(***************************************************************************)
(* Numbers without end, and the sequence numbers they become.              *)
(***************************************************************************)

LEMMA Division ==
  ASSUME NEW n \in Nat
  PROVE  /\ n % Modulus \in Numbers
         /\ n \div Modulus \in Nat
         /\ n = Modulus * (n \div Modulus) + (n % Modulus)
<1>1. n % Modulus \in 0 .. Modulus - 1
  BY LapmAssumption
<1>2. n \div Modulus \in Nat
  BY LapmAssumption
<1>3. n = Modulus * (n \div Modulus) + (n % Modulus)
  BY LapmAssumption
<1> QED
  BY <1>1, <1>2, <1>3 DEF Numbers

LEMMA TurnsApart ==
  ASSUME NEW p \in Nat, NEW q \in Nat, p < q
  PROVE  Modulus * p + Modulus <= Modulus * q
<1>1. PICK c \in Nat : q = p + 1 + c
  <2>1. q - p - 1 \in Nat /\ q = p + 1 + (q - p - 1)
    OBVIOUS
  <2> QED
    BY <2>1
<1>2. Modulus * q = Modulus * p + Modulus + Modulus * c
  BY <1>1, LapmAssumption
<1>3. Modulus * p \in Nat /\ Modulus * c \in Nat
  BY LapmAssumption
<1> QED
  BY <1>2, <1>3, LapmAssumption

LEMMA DivisionUnique ==
  ASSUME NEW q \in Nat, NEW r \in Numbers, NEW p \in Nat, NEW s \in Numbers,
         Modulus * q + r = Modulus * p + s
  PROVE  r = s
<1>1. Modulus * q \in Nat /\ Modulus * p \in Nat
  BY LapmAssumption
<1>2. ASSUME q < p PROVE FALSE
  BY <1>1, <1>2, TurnsApart, LapmAssumption DEF Numbers
<1>3. ASSUME p < q PROVE FALSE
  BY <1>1, <1>3, TurnsApart, LapmAssumption DEF Numbers
<1>4. q = p
  BY <1>2, <1>3
<1> QED
  BY <1>1, <1>4, LapmAssumption DEF Numbers

\* Less than a turn on, a number wraps once or not at all.
LEMMA WrapsOnce ==
  ASSUME NEW n \in Nat, NEW d \in Numbers
  PROVE  (n + d) % Modulus = IF (n % Modulus) + d < Modulus
                             THEN (n % Modulus) + d
                             ELSE (n % Modulus) + d - Modulus
<1> DEFINE q == n \div Modulus
           r == n % Modulus
           p == (n + d) \div Modulus
           s == (n + d) % Modulus
<1>1. q \in Nat /\ r \in Numbers /\ n = Modulus * q + r
  BY Division
<1>2. p \in Nat /\ s \in Numbers /\ n + d = Modulus * p + s
  <2>1. n + d \in Nat
    BY DEF Numbers
  <2> QED
    BY <2>1, Division
<1> HIDE DEF q, r, p, s
<1>3. Modulus * q \in Nat /\ Modulus * (q + 1) = Modulus * q + Modulus
  BY <1>1, LapmAssumption
<1>4. CASE r + d < Modulus
  <2>1. r + d \in Numbers /\ Modulus * q + (r + d) = Modulus * p + s
    BY <1>1, <1>2, <1>3, <1>4, LapmAssumption DEF Numbers
  <2> QED
    BY <1>1, <1>2, <1>4, <2>1, DivisionUnique DEF r, s
<1>5. CASE ~(r + d < Modulus)
  <2>1. /\ r + d - Modulus \in Numbers
        /\ Modulus * (q + 1) + (r + d - Modulus) = Modulus * p + s
    BY <1>1, <1>2, <1>3, <1>5, LapmAssumption DEF Numbers
  <2>2. r + d - Modulus = s
    BY <1>1, <1>2, <2>1, DivisionUnique
  <2> QED
    BY <1>5, <2>2 DEF r, s
<1> QED
  BY <1>4, <1>5

\* Within a window how far one frame's number is past another's tells how far
\* it is past that frame.
LEMMA PastOfFrames ==
  ASSUME NEW m \in Nat, NEW n \in Nat, m <= n, n <= m + MaxK
  PROVE  Past(n % Modulus, m % Modulus) = n - m
<1> DEFINE a == m % Modulus
           b == n % Modulus
           d == n - m
<1>1. d \in Numbers /\ n = m + d
  BY LapmAssumption DEF Numbers
<1>2. a \in Numbers /\ b \in Numbers
  BY Division
<1> HIDE DEF d
<1>3. b = IF a + d < Modulus THEN a + d ELSE a + d - Modulus
  BY <1>1, WrapsOnce
<1> HIDE DEF a, b
<1>4. Past(b, a) = d
  BY <1>1, <1>2, <1>3, LapmAssumption DEF Past, Numbers
<1> QED
  BY <1>4 DEF a, b, d

\* So within a window no two frames have one number.
LEMMA SameFrame ==
  ASSUME NEW m \in Nat, NEW n \in Nat, m <= n + MaxK, n <= m + MaxK,
         m % Modulus = n % Modulus
  PROVE  m = n
<1>1. m % Modulus \in Numbers /\ n % Modulus \in Numbers
  BY Division
<1>2. Past(n % Modulus, m % Modulus) = 0 /\ Past(m % Modulus, n % Modulus) = 0
  BY <1>1, PastIsDistance
<1>3. CASE m <= n
  <2>1. Past(n % Modulus, m % Modulus) = n - m
    BY <1>3, PastOfFrames
  <2> QED
    BY <1>2, <2>1
<1>4. CASE n <= m
  <2>1. Past(m % Modulus, n % Modulus) = m - n
    BY <1>4, PastOfFrames
  <2> QED
    BY <1>2, <2>1
<1> QED
  BY <1>3, <1>4

LEMMA NextWraps ==
  ASSUME NEW n \in Nat
  PROVE  After(n % Modulus) = (n + 1) % Modulus
<1>1. 1 \in Numbers /\ n % Modulus \in Numbers
  BY Division, LapmAssumption DEF Numbers
<1>2. (n + 1) % Modulus = IF (n % Modulus) + 1 < Modulus
                          THEN (n % Modulus) + 1
                          ELSE (n % Modulus) + 1 - Modulus
  BY <1>1, WrapsOnce
<1>3. After(n % Modulus) = IF n % Modulus = Modulus - 1 THEN 0 ELSE (n % Modulus) + 1
  BY <1>1, AfterIsNext
<1> QED
  BY <1>1, <1>2, <1>3, LapmAssumption DEF Numbers

-----------------------------------------------------------------------------
(***************************************************************************)
(* Runs of units of data.                                                  *)
(***************************************************************************)

\* q is the units after the a-th, up to the b-th.
Holds(q, a, b) == Len(q) = b - a /\ \A i \in 1 .. Len(q) : q[i] = a + i

LEMMA AppendOf ==
  ASSUME NEW S, NEW q \in Seq(S), NEW e \in S
  PROVE  LET t == Append(q, e)
         IN  /\ t \in Seq(S) /\ Len(q) \in Nat /\ Len(t) = Len(q) + 1
             /\ t[Len(q) + 1] = e
             /\ \A i \in 1 .. Len(q) : t[i] = q[i]
             /\ \A i \in 1 .. Len(t) : i \in 1 .. Len(q) \/ i = Len(q) + 1
<1> DEFINE t == Append(q, e)
<1>1. /\ t \in Seq(S) /\ Len(t) = Len(q) + 1 /\ t[Len(q) + 1] = e
      /\ \A i \in 1 .. Len(q) : t[i] = q[i]
  BY AppendProperties
<1> HIDE DEF t
<1>2. Len(q) \in Nat
  BY LenProperties
<1>3. \A i \in 1 .. Len(t) : i \in 1 .. Len(q) \/ i = Len(q) + 1
  BY <1>1, <1>2
<1>4. /\ t \in Seq(S) /\ Len(q) \in Nat /\ Len(t) = Len(q) + 1
      /\ t[Len(q) + 1] = e /\ \A i \in 1 .. Len(q) : t[i] = q[i]
  BY <1>1, <1>2
<1> QED
  BY <1>3, <1>4 DEF t

LEMMA LastAppended ==
  ASSUME NEW S, NEW q \in Seq(S), NEW e \in S
  PROVE  Append(q, e)[Len(q) + 1] = e
BY AppendProperties

LEMMA HoldsAppend ==
  ASSUME NEW a \in Nat, NEW b \in Nat, a <= b, NEW q \in Seq(Data),
         Holds(q, a, b), b + 1 \in Data
  PROVE  Append(q, b + 1) \in Seq(Data) /\ Holds(Append(q, b + 1), a, b + 1)
<1> DEFINE t == Append(q, b + 1)
<1>1. /\ t \in Seq(Data) /\ Len(t) = Len(q) + 1 /\ t[Len(q) + 1] = b + 1
      /\ \A i \in 1 .. Len(q) : t[i] = q[i]
  BY AppendProperties
<1> HIDE DEF t
<1>2. Len(q) = b - a /\ \A i \in 1 .. Len(q) : q[i] = a + i
  BY DEF Holds
<1>3. Len(t) = b + 1 - a
  BY <1>1, <1>2
<1>4. ASSUME NEW i \in 1 .. Len(t) PROVE t[i] = a + i
  <2>1. CASE i \in 1 .. Len(q)
    BY <1>1, <1>2, <2>1
  <2>2. CASE i = Len(q) + 1
    BY <1>1, <1>2, <2>2
  <2> QED
    BY <1>1, <1>2, <1>3, <2>1, <2>2
<1>5. t \in Seq(Data) /\ Holds(t, a, b + 1)
  BY <1>1, <1>3, <1>4 DEF Holds
<1> QED
  BY <1>5 DEF t

LEMMA HoldsConcat ==
  ASSUME NEW a \in Nat, NEW b \in Nat, NEW c \in Nat, a <= b, b <= c,
         NEW q \in Seq(Data), NEW r \in Seq(Data), Holds(q, a, b), Holds(r, b, c)
  PROVE  q \o r \in Seq(Data) /\ Holds(q \o r, a, c)
<1> DEFINE t == q \o r
<1>1. /\ t \in Seq(Data) /\ Len(t) = Len(q) + Len(r)
      /\ \A i \in 1 .. Len(q) + Len(r) : t[i] = IF i <= Len(q) THEN q[i] ELSE r[i - Len(q)]
  BY ConcatProperties
<1> HIDE DEF t
<1>2. /\ Len(q) = b - a /\ \A i \in 1 .. Len(q) : q[i] = a + i
      /\ Len(r) = c - b /\ \A i \in 1 .. Len(r) : r[i] = b + i
  BY DEF Holds
<1>3. Len(t) = c - a
  BY <1>1, <1>2
<1>4. ASSUME NEW i \in 1 .. Len(t) PROVE t[i] = a + i
  <2>1. CASE i <= Len(q)
    BY <1>1, <1>2, <1>3, <2>1
  <2>2. CASE ~(i <= Len(q))
    <3>1. i - Len(q) \in 1 .. Len(r) /\ b + (i - Len(q)) = a + i
      BY <1>1, <1>2, <2>2
    <3> QED
      BY <1>1, <1>2, <2>2, <3>1
  <2> QED
    BY <2>1, <2>2
<1>5. t \in Seq(Data) /\ Holds(t, a, c)
  BY <1>1, <1>3, <1>4 DEF Holds
<1> QED
  BY <1>5 DEF t

LEMMA FirstOf ==
  ASSUME NEW S, NEW q \in Seq(S), NEW n \in 0 .. Len(q)
  PROVE  LET t == SubSeq(q, 1, n)
         IN  t \in Seq(S) /\ Len(t) = n /\ \A i \in 1 .. n : t[i] = q[i]
<1>1. Len(q) \in Nat /\ n \in Nat
  BY LenProperties
<1>2. \A i \in 1 .. n : q[i] \in S
  BY <1>1, ElementOfSeq
<1> DEFINE t == SubSeq(q, 1, n)
<1>3. /\ t \in Seq(S) /\ Len(t) = IF 1 <= n THEN n - 1 + 1 ELSE 0
      /\ \A i \in 1 .. n - 1 + 1 : t[i] = q[1 + i - 1]
  BY <1>1, <1>2, SubSeqProperties
<1> HIDE DEF t
<1>4. Len(t) = n
  BY <1>1, <1>3
<1>5. ASSUME NEW i \in 1 .. n PROVE t[i] = q[i]
  <2>1. i \in 1 .. n - 1 + 1 /\ 1 + i - 1 = i
    BY <1>1
  <2> QED
    BY <1>3, <2>1
<1>6. t \in Seq(S) /\ Len(t) = n /\ \A i \in 1 .. n : t[i] = q[i]
  BY <1>3, <1>4, <1>5
<1> QED
  BY <1>6 DEF t

LEMMA RestOf ==
  ASSUME NEW S, NEW q \in Seq(S), NEW n \in 0 .. Len(q)
  PROVE  LET t == SubSeq(q, n + 1, Len(q))
         IN  /\ t \in Seq(S) /\ Len(t) = Len(q) - n
             /\ \A i \in 1 .. Len(q) - n : t[i] = q[n + i]
<1>1. Len(q) \in Nat /\ n \in Nat
  BY LenProperties
<1>2. \A i \in n + 1 .. Len(q) : q[i] \in S
  <2>1. \A i \in n + 1 .. Len(q) : i \in 1 .. Len(q)
    BY <1>1
  <2> QED
    BY <2>1, ElementOfSeq
<1> DEFINE t == SubSeq(q, n + 1, Len(q))
<1>3. /\ t \in Seq(S)
      /\ Len(t) = IF n + 1 <= Len(q) THEN Len(q) - (n + 1) + 1 ELSE 0
      /\ \A i \in 1 .. Len(q) - (n + 1) + 1 : t[i] = q[n + 1 + i - 1]
  <2>1. n + 1 \in Int /\ Len(q) \in Int
    BY <1>1
  <2> QED
    BY <2>1, <1>2, SubSeqProperties
<1> HIDE DEF t
<1>4. Len(t) = Len(q) - n
  BY <1>1, <1>3
<1>5. ASSUME NEW i \in 1 .. Len(q) - n PROVE t[i] = q[n + i]
  <2>1. i \in 1 .. Len(q) - (n + 1) + 1 /\ n + 1 + i - 1 = n + i
    BY <1>1
  <2> QED
    BY <1>3, <2>1
<1>6. t \in Seq(S) /\ Len(t) = Len(q) - n /\ \A i \in 1 .. Len(q) - n : t[i] = q[n + i]
  BY <1>3, <1>4, <1>5
<1> QED
  BY <1>6 DEF t

LEMMA HoldsCut ==
  ASSUME NEW a \in Nat, NEW b \in Nat, a <= b, NEW q \in Seq(Data),
         Holds(q, a, b), NEW n \in 0 .. Len(q)
  PROVE  /\ Holds(SubSeq(q, 1, n), a, a + n)
         /\ Holds(SubSeq(q, n + 1, Len(q)), a + n, b)
<1>1. Len(q) = b - a /\ \A i \in 1 .. Len(q) : q[i] = a + i
  BY DEF Holds
<1> DEFINE t == SubSeq(q, 1, n)
           u == SubSeq(q, n + 1, Len(q))
<1>2. Len(t) = n /\ \A i \in 1 .. n : t[i] = q[i]
  BY FirstOf
<1>3. Len(u) = Len(q) - n /\ \A i \in 1 .. Len(q) - n : u[i] = q[n + i]
  BY RestOf
<1> HIDE DEF t, u
<1>4. Holds(t, a, a + n)
  BY <1>1, <1>2 DEF Holds
<1>5. Holds(u, a + n, b)
  <2>1. Len(u) = b - (a + n)
    BY <1>1, <1>3
  <2>2. ASSUME NEW i \in 1 .. Len(u) PROVE u[i] = a + n + i
    <3>1. i \in 1 .. Len(q) - n /\ n + i \in 1 .. Len(q)
      BY <1>1, <1>3
    <3>2. u[i] = a + (n + i)
      BY <1>1, <1>3, <3>1
    <3> QED
      BY <3>2
  <2> QED
    BY <2>1, <2>2 DEF Holds
<1> QED
  BY <1>4, <1>5 DEF t, u

-----------------------------------------------------------------------------
(***************************************************************************)
(* One direction of the connection, from a sender s to a receiver r, and   *)
(* what is on its way between them: "out" from s to r, "back" from r to s. *)
(* Its frames are counted from the first on: acked of them the sender      *)
(* knows to have arrived, taken have, and cut have been made.  The i-th    *)
(* ends with unit edge[i].  ns[i] is the count of the frame at i in "out", *)
(* nr[i] how many the frame at i in "back" acknowledges.                   *)
(***************************************************************************)

Opening(s) == s.state \in {"Waiting", "Negotiating", "Establishing"}
Ended(s) == s.state = "Released" /\ s.sent = <<>> /\ s.queue = <<>>
Counted(f) == f.kind \in SKinds \cup {"I"}

Window(acked, taken, cut) == acked <= taken /\ taken <= cut /\ cut <= acked + MaxK

Edges(edge, cut, most) ==
  /\ edge[0] = 0 /\ edge[cut] <= most
  /\ \A i, j \in 0 .. cut : i <= j => edge[i] <= edge[j]
  /\ \A u \in 1 .. edge[cut] : \E i \in 1 .. cut : edge[i - 1] < u /\ u <= edge[i]

\* What the sender has not seen acknowledged it keeps, and the rest waits.
Keeps(s, most, acked, cut, edge) ==
  \/ Ended(s)
  \/ /\ s.state # "Released"
     /\ s.va = acked % Modulus
     /\ Len(s.sent) = cut - acked
     /\ \A i \in 1 .. Len(s.sent) : Holds(s.sent[i], edge[acked + i - 1], edge[acked + i])
     /\ Holds(s.queue, edge[cut], most)
     /\ Opening(s) => cut = 0

Takes(r, taken, edge) ==
  /\ r.vr = taken % Modulus
  /\ Holds(r.received, 0, edge[taken])
  /\ Opening(r) => taken = 0

\* An I frame still on its way is at most a window behind those taken or sent
\* before it.
Carried(out, taken, cut, edge, ns) ==
  \A i \in 1 .. Len(out) : out[i].kind = "I" =>
    /\ out[i].command /\ out[i].ns = ns[i] % Modulus
    /\ ns[i] < cut /\ taken <= ns[i] + MaxK
    /\ Holds(out[i].info, edge[ns[i]], edge[ns[i] + 1])
    /\ \A j \in i + 1 .. Len(out) : out[j].kind = "I" => ns[i] < ns[j] + MaxK

Acknowledged(back, acked, taken, nr) ==
  \A i \in 1 .. Len(back) : Counted(back[i]) =>
    /\ back[i].nr = nr[i] % Modulus
    /\ acked <= nr[i] /\ nr[i] <= taken
    /\ \A j \in i + 1 .. Len(back) : Counted(back[j]) => nr[i] <= nr[j]

-----------------------------------------------------------------------------
(***************************************************************************)
(* Each part of a direction, as its ends step.                             *)
(***************************************************************************)

\* A step that leaves alone what an end keeps, or ends it; and one that takes
\* nothing from the line.
CarriesOut(s, t) ==
  /\ Opening(t) => Opening(s)
  /\ \/ Ended(t)
     \/ /\ s.state # "Released" /\ t.state # "Released"
        /\ t.va = s.va /\ t.sent = s.sent /\ t.queue = s.queue
CarriesIn(s, t) ==
  t.vr = s.vr /\ t.received = s.received /\ (Opening(t) => Opening(s))

LEMMA KeepsCarried ==
  ASSUME NEW s, NEW t, CarriesOut(s, t),
         NEW most, NEW acked, NEW cut, NEW edge, Keeps(s, most, acked, cut, edge)
  PROVE  Keeps(t, most, acked, cut, edge)
BY DEF CarriesOut, Keeps, Ended

LEMMA TakesCarried ==
  ASSUME NEW s, NEW t, CarriesIn(s, t), NEW taken, NEW edge, Takes(s, taken, edge)
  PROVE  Takes(t, taken, edge)
BY DEF CarriesIn, Takes

\* One more unit from the computer.
LEMMA KeepsMore ==
  ASSUME NEW s \in EndState, s.state # "Released", NEW most \in Nat, most + 1 \in Data,
         NEW acked \in Nat, NEW cut \in Nat, NEW edge \in [Nat -> Nat],
         edge[cut] <= most, Keeps(s, most, acked, cut, edge)
  PROVE  Keeps(SendData(s, most + 1), most + 1, acked, cut, edge)
<1> DEFINE q == Append(s.queue, most + 1)
           t == [s EXCEPT !.queue = q]
<1>1. SendData(s, most + 1) = t
  BY DEF SendData
<1>2. s.queue \in Seq(Data) /\ edge[cut] \in Nat
  BY DEF EndState
<1>3. Holds(q, edge[cut], most + 1)
  BY <1>2, HoldsAppend DEF Keeps, Ended
<1> HIDE DEF q
<1>4. /\ t.state = s.state /\ t.va = s.va /\ t.sent = s.sent /\ t.queue = q
  BY DEF EndState
<1> HIDE DEF t
<1> QED
  BY <1>1, <1>3, <1>4 DEF Keeps, Ended, Opening

\* A step that takes N(R), a number of this frame count: it drops what is
\* acknowledged.  And one that cuts a frame of m units from what waits.
Drops(s, t, number) ==
  /\ t.state = "Connected" /\ t.va = number /\ t.queue = s.queue
  /\ t.sent = SubSeq(s.sent, Past(number, s.va) + 1, Len(s.sent))
Cuts(s, t, m) ==
  /\ t.state = "Connected" /\ t.va = s.va
  /\ t.sent = Append(s.sent, SubSeq(s.queue, 1, m))
  /\ t.queue = SubSeq(s.queue, m + 1, Len(s.queue))

LEMMA KeepsRest ==
  ASSUME NEW s \in EndState, s.state # "Released", NEW t,
         NEW most \in Nat, NEW acked \in Nat, NEW cut \in Nat, NEW nr \in Nat,
         NEW edge \in [Nat -> Nat],
         acked <= nr, nr <= cut, cut <= acked + MaxK,
         Keeps(s, most, acked, cut, edge), Drops(s, t, nr % Modulus)
  PROVE  Keeps(t, most, nr, cut, edge)
<1>1. /\ s.va = acked % Modulus /\ Len(s.sent) = cut - acked
      /\ Holds(s.queue, edge[cut], most)
      /\ \A i \in 1 .. Len(s.sent) : Holds(s.sent[i], edge[acked + i - 1], edge[acked + i])
  BY DEF Keeps, Ended
<1>2. Past(nr % Modulus, s.va) = nr - acked
  <2>1. nr <= acked + MaxK
    BY LapmAssumption
  <2>2. Past(nr % Modulus, acked % Modulus) = nr - acked
    BY <2>1, PastOfFrames
  <2> QED
    BY <1>1, <2>2
<1> DEFINE d == nr - acked
           rest == SubSeq(s.sent, d + 1, Len(s.sent))
<1>3. /\ d \in Nat /\ d <= Len(s.sent) /\ Len(s.sent) \in Nat /\ nr = acked + d
      /\ d + 1 \in Int /\ Len(s.sent) \in Int /\ Len(s.sent) = cut - acked
  BY <1>1
<1>4. t.sent = rest /\ t.state = "Connected" /\ t.va = nr % Modulus /\ t.queue = s.queue
  BY <1>2 DEF Drops
<1> HIDE DEF d
<1>4a. /\ Len(rest) = Len(s.sent) - d
       /\ \A i \in 1 .. Len(s.sent) - d : rest[i] = s.sent[d + i]
  <2>1. s.sent \in Seq(Seq(Data)) /\ d \in 0 .. Len(s.sent)
    BY <1>3 DEF EndState
  <2> QED
    BY <2>1, RestOf
<1> HIDE DEF rest
<1>5. Len(rest) = cut - nr /\ \A i \in 1 .. Len(s.sent) - d : rest[i] = s.sent[d + i]
  <2>1. Len(rest) = cut - nr
    BY <1>3, <1>4a
  <2> QED
    BY <1>4a, <2>1
<1>6. ASSUME NEW i \in 1 .. Len(rest)
      PROVE  Holds(rest[i], edge[nr + i - 1], edge[nr + i])
  <2>1. /\ i \in 1 .. Len(s.sent) - d /\ d + i \in 1 .. Len(s.sent)
        /\ acked + (d + i) - 1 = nr + i - 1 /\ acked + (d + i) = nr + i
    <3>1. Len(rest) = cut - nr
      BY <1>5
    <3> QED
      BY <1>3, <3>1
  <2> QED
    BY <1>1, <1>5, <2>1
<1> QED
  BY <1>1, <1>4, <1>5, <1>6 DEF Keeps, Opening

LEMMA KeepsCut ==
  ASSUME NEW s \in EndState, s.state = "Connected", NEW t,
         NEW most \in Nat, NEW acked \in Nat, NEW cut \in Nat,
         NEW edge \in [Nat -> Nat], NEW m \in 0 .. Len(s.queue),
         acked <= cut, edge[cut] <= most, Keeps(s, most, acked, cut, edge),
         Cuts(s, t, m)
  PROVE  Keeps(t, most, acked, cut + 1, [edge EXCEPT ![cut + 1] = edge[cut] + m])
<1> DEFINE piece == SubSeq(s.queue, 1, m)
           left == SubSeq(s.queue, m + 1, Len(s.queue))
           more == [edge EXCEPT ![cut + 1] = edge[cut] + m]
           sent == Append(s.sent, piece)
<1>1. /\ s.va = acked % Modulus /\ Len(s.sent) = cut - acked
      /\ Holds(s.queue, edge[cut], most)
      /\ \A i \in 1 .. Len(s.sent) : Holds(s.sent[i], edge[acked + i - 1], edge[acked + i])
  BY DEF Keeps, Ended
<1>2. s.queue \in Seq(Data) /\ s.sent \in Seq(Seq(Data)) /\ edge[cut] \in Nat
  BY DEF EndState
<1>3. m \in 0 .. Len(s.queue) /\ Len(s.sent) \in Nat
  BY <1>2, LenProperties
<1>4. Holds(piece, edge[cut], edge[cut] + m) /\ Holds(left, edge[cut] + m, most)
  BY <1>1, <1>2, HoldsCut
<1>5. piece \in Seq(Data)
  BY <1>2, <1>3, FirstOf
<1> HIDE DEF piece, left
<1>6. /\ Len(sent) = Len(s.sent) + 1 /\ sent[Len(s.sent) + 1] = piece
      /\ \A i \in 1 .. Len(s.sent) : sent[i] = s.sent[i]
      /\ \A i \in 1 .. Len(sent) : i \in 1 .. Len(s.sent) \/ i = Len(s.sent) + 1
  <2>1. s.sent \in Seq(Seq(Data)) /\ piece \in Seq(Data)
    BY <1>2, <1>5
  <2>2. sent[Len(s.sent) + 1] = piece /\ Len(sent) = Len(s.sent) + 1
    <3>1. sent[Len(s.sent) + 1] = piece
      BY <2>1, LastAppended
    <3>2. Len(sent) = Len(s.sent) + 1
      BY <2>1, AppendOf
    <3> QED
      BY <3>1, <3>2
  <2>3. \A i \in 1 .. Len(s.sent) : sent[i] = s.sent[i]
    BY <2>1, AppendOf
  <2>4. \A i \in 1 .. Len(sent) : i \in 1 .. Len(s.sent) \/ i = Len(s.sent) + 1
    BY <2>1, AppendOf
  <2> QED
    BY <2>2, <2>3, <2>4
<1> HIDE DEF sent
<1>7. more[cut + 1] = edge[cut] + m /\ \A i \in 0 .. cut : more[i] = edge[i]
  OBVIOUS
<1> HIDE DEF more
<1>8. ASSUME NEW i \in 1 .. Len(sent)
      PROVE  Holds(sent[i], more[acked + i - 1], more[acked + i])
  <2>1. CASE i \in 1 .. Len(s.sent)
    <3>1. acked + i - 1 \in 0 .. cut /\ acked + i \in 0 .. cut
      <4>1. Len(s.sent) = cut - acked
        BY <1>1
      <4> QED
        BY <2>1, <4>1
    <3> QED
      BY <1>1, <1>6, <1>7, <2>1, <3>1
  <2>2. CASE i = Len(s.sent) + 1
    <3>1. acked + i - 1 = cut /\ acked + i = cut + 1 /\ cut \in 0 .. cut
      BY <1>1, <2>2
    <3>2. more[acked + i - 1] = edge[cut] /\ more[acked + i] = edge[cut] + m
      BY <1>7, <3>1
    <3> QED
      BY <1>4, <1>6, <2>2, <3>2
  <2> QED
    BY <1>6, <2>1, <2>2, Zenon
<1>9. Len(sent) = cut + 1 - acked
  BY <1>1, <1>6
<1>10. t.sent = sent /\ t.queue = left /\ t.va = s.va /\ t.state = "Connected"
  BY DEF Cuts, sent, left, piece
<1>11. Keeps(t, most, acked, cut + 1, more)
  <2>1. Holds(t.queue, more[cut + 1], most) /\ t.va = acked % Modulus
    BY <1>1, <1>4, <1>7, <1>10
  <2>2. t.state # "Released" /\ ~Opening(t)
    BY <1>10 DEF Opening
  <2> QED
    BY <1>8, <1>9, <1>10, <2>1, <2>2 DEF Keeps
<1> QED
  BY <1>11 DEF more

LEMMA EdgesCut ==
  ASSUME NEW cut \in Nat, NEW edge \in [Nat -> Nat], NEW most \in Nat,
         Edges(edge, cut, most), NEW m \in Nat, edge[cut] + m <= most
  PROVE  /\ [edge EXCEPT ![cut + 1] = edge[cut] + m] \in [Nat -> Nat]
         /\ Edges([edge EXCEPT ![cut + 1] = edge[cut] + m], cut + 1, most)
<1> DEFINE more == [edge EXCEPT ![cut + 1] = edge[cut] + m]
<1>1. more \in [Nat -> Nat]
  OBVIOUS
<1>2. more[cut + 1] = edge[cut] + m /\ \A i \in 0 .. cut : more[i] = edge[i]
  OBVIOUS
<1> HIDE DEF more
<1>3. more[0] = 0 /\ more[cut + 1] <= most
  BY <1>2 DEF Edges
<1>4. ASSUME NEW i \in 0 .. cut + 1, NEW j \in 0 .. cut + 1, i <= j
      PROVE  more[i] <= more[j]
  <2>1. CASE j \in 0 .. cut
    <3>1. i \in 0 .. cut
      BY <1>4, <2>1
    <3> QED
      BY <1>2, <1>4, <2>1, <3>1 DEF Edges
  <2>2. CASE j = cut + 1 /\ i \in 0 .. cut
    <3>1. edge[i] <= edge[cut] /\ edge[i] \in Nat /\ edge[cut] \in Nat
      BY <2>2 DEF Edges
    <3> QED
      BY <1>2, <2>2, <3>1
  <2>3. CASE i = cut + 1
    <3>1. more[i] \in Nat /\ i = j
      BY <1>1, <1>4, <2>3
    <3> QED
      BY <3>1
  <2> QED
    BY <2>1, <2>2, <2>3
<1>5. ASSUME NEW u \in 1 .. more[cut + 1]
      PROVE  \E i \in 1 .. cut + 1 : more[i - 1] < u /\ u <= more[i]
  <2>1. edge[cut] \in Nat
    OBVIOUS
  <2>2. CASE u <= edge[cut]
    <3>1. PICK i \in 1 .. cut : edge[i - 1] < u /\ u <= edge[i]
      BY <1>2, <2>1, <2>2 DEF Edges
    <3>2. i \in 1 .. cut + 1 /\ i - 1 \in 0 .. cut /\ i \in 0 .. cut
      OBVIOUS
    <3> QED
      BY <1>2, <3>1, <3>2
  <2>3. CASE edge[cut] < u
    <3>1. cut + 1 \in 1 .. cut + 1 /\ cut + 1 - 1 = cut /\ cut \in 0 .. cut
      OBVIOUS
    <3>2. more[cut + 1 - 1] < u /\ u <= more[cut + 1]
      BY <1>2, <2>3, <3>1
    <3> QED
      BY <3>1, <3>2
  <2> QED
    BY <2>1, <2>2, <2>3
<1>6. Edges(more, cut + 1, most)
  BY <1>3, <1>4, <1>5 DEF Edges
<1> QED
  BY <1>1, <1>6 DEF more

-----------------------------------------------------------------------------
(***************************************************************************)
(* What is on the line, as a frame joins it or leaves it.                  *)
(***************************************************************************)
Pushed(q, t, f) ==
  /\ Len(q) \in Nat /\ Len(t) = Len(q) + 1 /\ t[Len(q) + 1] = f
  /\ \A i \in 1 .. Len(q) : t[i] = q[i]
Popped(q, t) ==
  /\ Len(q) \in Nat /\ Len(t) \in Nat /\ Len(q) = Len(t) + 1
  /\ \A i \in 1 .. Len(t) : t[i] = q[i + 1]

LEMMA PushedAt ==
  ASSUME NEW q, NEW t, NEW f, Pushed(q, t, f), NEW n, n = Len(q)
  PROVE  /\ n \in Nat /\ Len(t) = n + 1 /\ t[n + 1] = f
         /\ \A i \in 1 .. n : t[i] = q[i]
         /\ \A i \in 1 .. n + 1 : i \in 1 .. n \/ i = n + 1
         /\ \A i \in 1 .. n : \A j \in i + 1 .. n + 1 : j = n + 1 \/ (j \in i + 1 .. n /\ j \in 1 .. n)
<1>1. n \in Nat /\ Len(t) = n + 1 /\ t[n + 1] = f
  BY DEF Pushed
<1>2. \A i \in 1 .. n : t[i] = q[i]
  BY DEF Pushed
<1>3. \A i \in 1 .. n + 1 : i \in 1 .. n \/ i = n + 1
  BY <1>1
<1>4. \A i \in 1 .. n : \A j \in i + 1 .. n + 1 : j = n + 1 \/ (j \in i + 1 .. n /\ j \in 1 .. n)
  BY <1>1
<1> QED
  BY <1>1, <1>2, <1>3, <1>4

LEMMA PoppedAt ==
  ASSUME NEW q, NEW t, Popped(q, t)
  PROVE  /\ 1 \in 1 .. Len(q)
         /\ \A i \in 1 .. Len(t) :
              /\ i \in Nat /\ i + 1 \in 1 .. Len(q) /\ i + 1 \in 1 + 1 .. Len(q)
              /\ t[i] = q[i + 1]
              /\ \A j \in i + 1 .. Len(t) : j \in 1 .. Len(t) /\ j + 1 \in i + 1 + 1 .. Len(q)
<1>1. Len(q) \in Nat /\ Len(t) \in Nat /\ Len(q) = Len(t) + 1
  BY DEF Popped
<1>2. 1 \in 1 .. Len(q)
  BY <1>1
<1>3. ASSUME NEW i \in 1 .. Len(t)
      PROVE  /\ i \in Nat /\ i + 1 \in 1 .. Len(q) /\ i + 1 \in 1 + 1 .. Len(q)
             /\ t[i] = q[i + 1]
             /\ \A j \in i + 1 .. Len(t) : j \in 1 .. Len(t) /\ j + 1 \in i + 1 + 1 .. Len(q)
  <2>1. i \in Nat /\ i + 1 \in 1 .. Len(q) /\ i + 1 \in 1 + 1 .. Len(q)
    BY <1>1
  <2>2. t[i] = q[i + 1]
    BY DEF Popped
  <2>3. \A j \in i + 1 .. Len(t) : j \in 1 .. Len(t) /\ j + 1 \in i + 1 + 1 .. Len(q)
    BY <1>1
  <2> QED
    BY <2>1, <2>2, <2>3
<1> QED
  BY <1>2, <1>3

LEMMA AppendPushes ==
  ASSUME NEW S, NEW q \in Seq(S), NEW f \in S
  PROVE  Append(q, f) \in Seq(S) /\ Pushed(q, Append(q, f), f)
<1> DEFINE t == Append(q, f)
<1>1. t \in Seq(S) /\ Len(t) = Len(q) + 1 /\ \A i \in 1 .. Len(q) : t[i] = q[i]
  BY AppendProperties
<1>2. t[Len(q) + 1] = f
  BY LastAppended
<1> HIDE DEF t
<1>3. t \in Seq(S) /\ Pushed(q, t, f)
  BY <1>1, <1>2, LenProperties DEF Pushed
<1> QED
  BY <1>3 DEF t

LEMMA TailPops ==
  ASSUME NEW S, NEW q \in Seq(S), q # <<>>
  PROVE  /\ Tail(q) \in Seq(S) /\ Popped(q, Tail(q))
         /\ Head(q) \in S /\ Head(q) = q[1] /\ 1 \in 1 .. Len(q)
<1> DEFINE t == Tail(q)
<1>1. /\ Head(q) \in S /\ t \in Seq(S) /\ Len(t) = Len(q) - 1
      /\ \A i \in 1 .. Len(t) : t[i] = q[i + 1]
  BY HeadTailProperties
<1>2. Len(q) \in Nat /\ Len(q) > 0 /\ Len(t) \in Nat
  BY <1>1, EmptySeq, LenProperties
<1> HIDE DEF t
<1>3. Popped(q, t) /\ 1 \in 1 .. Len(q)
  BY <1>1, <1>2 DEF Popped
<1>4. Head(q) = q[1]
  OBVIOUS
<1> QED
  BY <1>1, <1>3, <1>4 DEF t

LEMMA Below ==
  ASSUME NEW a \in Nat, NEW b \in Nat, a < b
  PROVE  a \in 0 .. b /\ a + 1 \in 0 .. b /\ a < b + 1 /\ a + 1 <= b
OBVIOUS

LEMMA EntriesShifted ==
  ASSUME NEW c \in [Nat -> Nat]
  PROVE  [i \in Nat |-> c[i + 1]] \in [Nat -> Nat]
OBVIOUS

LEMMA EntryIsNat ==
  ASSUME NEW c \in [Nat -> Nat], NEW n \in Nat
  PROVE  c[n] \in Nat
OBVIOUS

LEMMA EntryAdded ==
  ASSUME NEW c \in [Nat -> Nat], NEW n \in Nat, NEW p \in Nat
  PROVE  /\ [c EXCEPT ![n + 1] = p] \in [Nat -> Nat]
         /\ [c EXCEPT ![n + 1] = p][n + 1] = p
         /\ \A i \in 0 .. n : [c EXCEPT ![n + 1] = p][i] = c[i] /\ c[i] \in Nat
         /\ \A i \in 1 .. n : [c EXCEPT ![n + 1] = p][i] = c[i] /\ c[i] \in Nat
OBVIOUS

LEMMA CarriedPopped ==
  ASSUME NEW out, NEW rest, Popped(out, rest), NEW taken \in Nat, NEW cut \in Nat,
         NEW edge \in [Nat -> Nat], NEW ns \in [Nat -> Nat],
         Carried(out, taken, cut, edge, ns)
  PROVE  Carried(rest, taken, cut, edge, [i \in Nat |-> ns[i + 1]])
<1> DEFINE ms == [i \in Nat |-> ns[i + 1]]
<1>1. \A i \in Nat : ms[i] = ns[i + 1]
  OBVIOUS
<1> HIDE DEF ms
<1>2. \A i \in 1 .. Len(rest) :
        /\ i + 1 \in 1 .. Len(out) /\ rest[i] = out[i + 1] /\ i \in Nat
        /\ \A j \in i + 1 .. Len(rest) : j \in 1 .. Len(rest) /\ j + 1 \in i + 1 + 1 .. Len(out)
  BY PoppedAt
<1>3. ASSUME NEW i \in 1 .. Len(rest), rest[i].kind = "I"
      PROVE  /\ rest[i].command /\ rest[i].ns = ms[i] % Modulus
             /\ ms[i] < cut /\ taken <= ms[i] + MaxK
             /\ Holds(rest[i].info, edge[ms[i]], edge[ms[i] + 1])
             /\ \A j \in i + 1 .. Len(rest) : rest[j].kind = "I" => ms[i] < ms[j] + MaxK
  <2>1. i + 1 \in 1 .. Len(out) /\ out[i + 1].kind = "I" /\ rest[i] = out[i + 1] /\ ms[i] = ns[i + 1]
    BY <1>1, <1>2, <1>3
  <2>2. /\ out[i + 1].command /\ out[i + 1].ns = ns[i + 1] % Modulus
        /\ ns[i + 1] < cut /\ taken <= ns[i + 1] + MaxK
        /\ Holds(out[i + 1].info, edge[ns[i + 1]], edge[ns[i + 1] + 1])
        /\ \A j \in i + 1 + 1 .. Len(out) : out[j].kind = "I" => ns[i + 1] < ns[j] + MaxK
    BY <2>1 DEF Carried
  <2>3. ASSUME NEW j \in i + 1 .. Len(rest), rest[j].kind = "I" PROVE ms[i] < ms[j] + MaxK
    <3>1. j \in 1 .. Len(rest) /\ j + 1 \in i + 1 + 1 .. Len(out)
      BY <1>2
    <3> QED
      BY <1>1, <1>2, <2>1, <2>2, <2>3, <3>1
  <2> QED
    BY <2>1, <2>2, <2>3
<1>4. Carried(rest, taken, cut, edge, ms)
  BY <1>3 DEF Carried
<1> QED
  BY <1>4 DEF ms

\* The oldest frame is the next the receiver waits for.
LEMMA CarriedTaken ==
  ASSUME NEW out, NEW rest, Popped(out, rest), NEW taken \in Nat, NEW cut \in Nat,
         NEW edge \in [Nat -> Nat], NEW ns \in [Nat -> Nat],
         Carried(out, taken, cut, edge, ns), out[1].kind = "I", ns[1] = taken
  PROVE  Carried(rest, taken + 1, cut, edge, [i \in Nat |-> ns[i + 1]])
<1> DEFINE ms == [i \in Nat |-> ns[i + 1]]
<1>1. \A i \in Nat : ms[i] = ns[i + 1]
  OBVIOUS
<1>1a. /\ \A i \in 1 .. Len(rest) :
            i + 1 \in 1 + 1 .. Len(out) /\ rest[i] = out[i + 1] /\ i \in Nat
       /\ 1 \in 1 .. Len(out)
  BY PoppedAt
<1>2. Carried(rest, taken, cut, edge, ms)
  BY CarriedPopped
<1> HIDE DEF ms
<1>3. ASSUME NEW i \in 1 .. Len(rest), rest[i].kind = "I"
      PROVE  taken + 1 <= ms[i] + MaxK
  <2>1. i + 1 \in 1 + 1 .. Len(out) /\ out[i + 1].kind = "I"
    BY <1>1a, <1>3
  <2>1a. ms[i] = ns[i + 1] /\ ns[i + 1] \in Nat
    BY <1>1, <1>1a
  <2>2. taken < ns[i + 1] + MaxK
    BY <1>1a, <2>1 DEF Carried
  <2> QED
    <3> DEFINE w == ns[i + 1]
    <3>1. w \in Nat /\ taken < w + MaxK /\ ms[i] = w
      BY <2>1a, <2>2
    <3> HIDE DEF w
    <3>2. taken + 1 <= w + MaxK
      BY <3>1, LapmAssumption
    <3> QED
      BY <3>1, <3>2
<1>4. Carried(rest, taken + 1, cut, edge, ms)
  BY <1>2, <1>3 DEF Carried
<1> QED
  BY <1>4 DEF ms

\* A frame joins, the p-th made if it carries data.
LEMMA CarriedPushed ==
  ASSUME NEW out, NEW more, NEW f, Pushed(out, more, f),
         NEW taken \in Nat, NEW cut \in Nat, NEW p \in Nat,
         NEW edge \in [Nat -> Nat], NEW ns \in [Nat -> Nat],
         Carried(out, taken, cut, edge, ns),
         f.kind = "I" => /\ f.command /\ f.ns = p % Modulus
                         /\ p < cut /\ taken <= p + MaxK /\ cut <= p + MaxK
                         /\ Holds(f.info, edge[p], edge[p + 1])
  PROVE  Carried(more, taken, cut, edge, [ns EXCEPT ![Len(out) + 1] = p])
<1> DEFINE n == Len(out)
           ms == [ns EXCEPT ![n + 1] = p]
<1>1. /\ n \in Nat /\ Len(more) = n + 1 /\ more[n + 1] = f
      /\ \A i \in 1 .. n : more[i] = out[i]
      /\ \A i \in 1 .. n + 1 : i \in 1 .. n \/ i = n + 1
      /\ \A i \in 1 .. n : \A j \in i + 1 .. n + 1 : j = n + 1 \/ (j \in i + 1 .. n /\ j \in 1 .. n)
  BY PushedAt
<1>2. ms[n + 1] = p /\ \A i \in 1 .. n : ms[i] = ns[i] /\ ns[i] \in Nat
  BY <1>1, EntryAdded
<1>3. \A i \in 1 .. n : out[i].kind = "I" =>
        /\ out[i].command /\ out[i].ns = ns[i] % Modulus
        /\ ns[i] < cut /\ taken <= ns[i] + MaxK
        /\ Holds(out[i].info, edge[ns[i]], edge[ns[i] + 1])
        /\ \A j \in i + 1 .. n : out[j].kind = "I" => ns[i] < ns[j] + MaxK
  BY DEF Carried
<1> HIDE DEF ms, n
<1>4. ASSUME NEW i \in 1 .. n, out[i].kind = "I"
      PROVE  \A j \in i + 1 .. n + 1 : more[j].kind = "I" => ms[i] < ms[j] + MaxK
  <2>1. ASSUME NEW j \in i + 1 .. n + 1, more[j].kind = "I" PROVE ms[i] < ms[j] + MaxK
    <3>1. CASE j = n + 1
      <4>1. ns[i] < cut /\ ms[j] = p /\ ms[i] = ns[i] /\ ns[i] \in Nat /\ more[j] = f
        BY <1>1, <1>2, <1>3, <1>4, <3>1
      <4>2. cut <= p + MaxK
        BY <2>1, <4>1
      <4> QED
        BY <4>1, <4>2, LapmAssumption
    <3>2. CASE j # n + 1
      <4>1. j \in i + 1 .. n /\ j \in 1 .. n
        BY <1>1, <3>2
      <4> QED
        BY <1>1, <1>2, <1>3, <1>4, <2>1, <4>1
    <3> QED
      BY <3>1, <3>2
  <2> QED
    BY <2>1
<1>5. ASSUME NEW i \in 1 .. n + 1, more[i].kind = "I"
      PROVE  /\ more[i].command /\ more[i].ns = ms[i] % Modulus
             /\ ms[i] < cut /\ taken <= ms[i] + MaxK
             /\ Holds(more[i].info, edge[ms[i]], edge[ms[i] + 1])
             /\ \A j \in i + 1 .. n + 1 : more[j].kind = "I" => ms[i] < ms[j] + MaxK
  <2>1. CASE i \in 1 .. n
    <3>1. out[i].kind = "I" /\ more[i] = out[i] /\ ms[i] = ns[i]
      BY <1>1, <1>2, <1>5, <2>1
    <3> QED
      BY <1>3, <1>4, <2>1, <3>1
  <2>2. CASE i = n + 1
    <3>1. f.kind = "I" /\ more[i] = f /\ ms[i] = p
      BY <1>1, <1>2, <1>5, <2>2
    <3>2. \A j \in i + 1 .. n + 1 : FALSE
      BY <1>1, <2>2
    <3> QED
      BY <3>1, <3>2
  <2> QED
    BY <1>1, <2>1, <2>2
<1>6. Carried(more, taken, cut, edge, ms)
  BY <1>1, <1>5 DEF Carried
<1> QED
  BY <1>6 DEF ms, n

\* A frame more has been made.
LEMMA CarriedCut ==
  ASSUME NEW out, NEW taken \in Nat, NEW cut \in Nat, NEW m \in Nat,
         NEW edge \in [Nat -> Nat], NEW ns \in [Nat -> Nat], Len(out) \in Nat,
         Carried(out, taken, cut, edge, ns)
  PROVE  Carried(out, taken, cut + 1, [edge EXCEPT ![cut + 1] = edge[cut] + m], ns)
<1> DEFINE more == [edge EXCEPT ![cut + 1] = edge[cut] + m]
<1>1. \A i \in 0 .. cut : more[i] = edge[i]
  OBVIOUS
<1> HIDE DEF more
<1>2. ASSUME NEW i \in 1 .. Len(out), out[i].kind = "I"
      PROVE  /\ out[i].command /\ out[i].ns = ns[i] % Modulus
             /\ ns[i] < cut + 1 /\ taken <= ns[i] + MaxK
             /\ Holds(out[i].info, more[ns[i]], more[ns[i] + 1])
             /\ \A j \in i + 1 .. Len(out) : out[j].kind = "I" => ns[i] < ns[j] + MaxK
  <2>1. /\ out[i].command /\ out[i].ns = ns[i] % Modulus
        /\ ns[i] < cut /\ taken <= ns[i] + MaxK
        /\ Holds(out[i].info, edge[ns[i]], edge[ns[i] + 1])
        /\ \A j \in i + 1 .. Len(out) : out[j].kind = "I" => ns[i] < ns[j] + MaxK
    BY <1>2 DEF Carried
  <2>2. ns[i] \in 0 .. cut /\ ns[i] + 1 \in 0 .. cut /\ ns[i] < cut + 1
    <3>1. ns[i] \in Nat /\ ns[i] < cut
      BY <2>1
    <3> QED
      BY <3>1, Below
  <2> QED
    BY <1>1, <2>1, <2>2
<1>3. Carried(out, taken, cut + 1, more, ns)
  BY <1>2 DEF Carried
<1> QED
  BY <1>3 DEF more

LEMMA AcknowledgedPopped ==
  ASSUME NEW back, NEW rest, Popped(back, rest), NEW acked \in Nat, NEW taken \in Nat,
         NEW nr \in [Nat -> Nat], Acknowledged(back, acked, taken, nr)
  PROVE  /\ Acknowledged(rest, acked, taken, [i \in Nat |-> nr[i + 1]])
         /\ Counted(back[1]) => Acknowledged(rest, nr[1], taken, [i \in Nat |-> nr[i + 1]])
<1> DEFINE mr == [i \in Nat |-> nr[i + 1]]
<1>1. /\ \A i \in 1 .. Len(rest) :
           /\ i + 1 \in 1 .. Len(back) /\ i + 1 \in 1 + 1 .. Len(back)
           /\ rest[i] = back[i + 1] /\ i \in Nat
           /\ \A j \in i + 1 .. Len(rest) : j \in 1 .. Len(rest) /\ j + 1 \in i + 1 + 1 .. Len(back)
      /\ 1 \in 1 .. Len(back)
  BY PoppedAt
<1>1a. \A i \in Nat : mr[i] = nr[i + 1]
  OBVIOUS
<1> HIDE DEF mr
<1>2. ASSUME NEW i \in 1 .. Len(rest), Counted(rest[i])
      PROVE  /\ rest[i].nr = mr[i] % Modulus /\ acked <= mr[i] /\ mr[i] <= taken
             /\ Counted(back[1]) => nr[1] <= mr[i]
             /\ \A j \in i + 1 .. Len(rest) : Counted(rest[j]) => mr[i] <= mr[j]
  <2>1. i + 1 \in 1 .. Len(back) /\ Counted(back[i + 1]) /\ rest[i] = back[i + 1] /\ mr[i] = nr[i + 1]
    BY <1>1, <1>1a, <1>2
  <2>2. /\ back[i + 1].nr = nr[i + 1] % Modulus /\ acked <= nr[i + 1] /\ nr[i + 1] <= taken
        /\ \A j \in i + 1 + 1 .. Len(back) : Counted(back[j]) => nr[i + 1] <= nr[j]
    BY <2>1 DEF Acknowledged
  <2>3. ASSUME NEW j \in i + 1 .. Len(rest), Counted(rest[j]) PROVE mr[i] <= mr[j]
    <3>1. j \in 1 .. Len(rest) /\ j + 1 \in i + 1 + 1 .. Len(back)
      BY <1>1
    <3> QED
      BY <1>1, <1>1a, <2>1, <2>2, <2>3, <3>1
  <2>4. Counted(back[1]) => nr[1] <= nr[i + 1]
    BY <1>1, <2>1 DEF Acknowledged
  <2> QED
    BY <2>1, <2>2, <2>3, <2>4
<1>3. /\ Acknowledged(rest, acked, taken, mr)
      /\ Counted(back[1]) => Acknowledged(rest, nr[1], taken, mr)
  BY <1>2 DEF Acknowledged
<1> QED
  BY <1>3 DEF mr

LEMMA AcknowledgedPushed ==
  ASSUME NEW back, NEW more, NEW f, Pushed(back, more, f),
         NEW acked \in Nat, NEW taken \in Nat, acked <= taken,
         NEW nr \in [Nat -> Nat], Acknowledged(back, acked, taken, nr),
         Counted(f) => f.nr = taken % Modulus
  PROVE  Acknowledged(more, acked, taken, [nr EXCEPT ![Len(back) + 1] = taken])
<1> DEFINE n == Len(back)
           mr == [nr EXCEPT ![n + 1] = taken]
<1>1. /\ n \in Nat /\ Len(more) = n + 1 /\ more[n + 1] = f
      /\ \A i \in 1 .. n : more[i] = back[i]
      /\ \A i \in 1 .. n + 1 : i \in 1 .. n \/ i = n + 1
      /\ \A i \in 1 .. n : \A j \in i + 1 .. n + 1 : j = n + 1 \/ (j \in i + 1 .. n /\ j \in 1 .. n)
  BY PushedAt
<1>2. mr[n + 1] = taken /\ \A i \in 1 .. n : mr[i] = nr[i] /\ nr[i] \in Nat
  BY <1>1, EntryAdded
<1>3. \A i \in 1 .. n : Counted(back[i]) =>
        /\ back[i].nr = nr[i] % Modulus /\ acked <= nr[i] /\ nr[i] <= taken
        /\ \A j \in i + 1 .. n : Counted(back[j]) => nr[i] <= nr[j]
  BY DEF Acknowledged
<1> HIDE DEF mr, n
<1>4. ASSUME NEW i \in 1 .. n, Counted(back[i])
      PROVE  \A j \in i + 1 .. n + 1 : Counted(more[j]) => mr[i] <= mr[j]
  <2>1. ASSUME NEW j \in i + 1 .. n + 1, Counted(more[j]) PROVE mr[i] <= mr[j]
    <3>1. CASE j = n + 1
      BY <1>1, <1>2, <1>3, <1>4, <3>1
    <3>2. CASE j # n + 1
      <4>1. j \in i + 1 .. n /\ j \in 1 .. n
        BY <1>1, <3>2
      <4> QED
        BY <1>1, <1>2, <1>3, <1>4, <2>1, <4>1
    <3> QED
      BY <3>1, <3>2
  <2> QED
    BY <2>1
<1>5. ASSUME NEW i \in 1 .. n + 1, Counted(more[i])
      PROVE  /\ more[i].nr = mr[i] % Modulus /\ acked <= mr[i] /\ mr[i] <= taken
             /\ \A j \in i + 1 .. n + 1 : Counted(more[j]) => mr[i] <= mr[j]
  <2>1. CASE i \in 1 .. n
    <3>1. Counted(back[i]) /\ more[i] = back[i] /\ mr[i] = nr[i]
      BY <1>1, <1>2, <1>5, <2>1
    <3> QED
      BY <1>3, <1>4, <2>1, <3>1
  <2>2. CASE i = n + 1
    <3>1. Counted(f) /\ more[i] = f /\ mr[i] = taken
      BY <1>1, <1>2, <1>5, <2>2
    <3>2. \A j \in i + 1 .. n + 1 : FALSE
      BY <1>1, <2>2
    <3> QED
      BY <3>1, <3>2
  <2> QED
    BY <1>1, <2>1, <2>2
<1>6. Acknowledged(more, acked, taken, mr)
  BY <1>1, <1>5 DEF Acknowledged
<1> QED
  BY <1>6 DEF mr, n

LEMMA AcknowledgedTaken ==
  ASSUME NEW back, Len(back) \in Nat, NEW acked \in Nat, NEW taken \in Nat,
         NEW nr \in [Nat -> Nat], Acknowledged(back, acked, taken, nr)
  PROVE  Acknowledged(back, acked, taken + 1, nr)
<1>1. ASSUME NEW i \in 1 .. Len(back), Counted(back[i])
      PROVE  /\ back[i].nr = nr[i] % Modulus /\ acked <= nr[i] /\ nr[i] <= taken + 1
             /\ \A j \in i + 1 .. Len(back) : Counted(back[j]) => nr[i] <= nr[j]
  <2>1. /\ back[i].nr = nr[i] % Modulus /\ acked <= nr[i] /\ nr[i] <= taken
        /\ \A j \in i + 1 .. Len(back) : Counted(back[j]) => nr[i] <= nr[j]
    BY <1>1 DEF Acknowledged
  <2>2. nr[i] \in Nat
    OBVIOUS
  <2> QED
    BY <2>1, <2>2
<1> QED
  BY <1>1 DEF Acknowledged

-----------------------------------------------------------------------------
(***************************************************************************)
(* The direction as a whole: there are counts that tell what its ends and  *)
(* its frames say.                                                         *)
(***************************************************************************)
Counts(s, r, out, back, most, acked, taken, cut, edge, ns, nr) ==
  /\ Window(acked, taken, cut)
  /\ Edges(edge, cut, most)
  /\ Keeps(s, most, acked, cut, edge)
  /\ Takes(r, taken, edge)
  /\ Carried(out, taken, cut, edge, ns)
  /\ Acknowledged(back, acked, taken, nr)

Way(s, r, out, back, most) ==
  \E acked, taken, cut \in Nat : \E edge, ns, nr \in [Nat -> Nat] :
    Counts(s, r, out, back, most, acked, taken, cut, edge, ns, nr)

LEMMA WayBegins ==
  ASSUME NEW s, NEW r, s.state \in {"Waiting", "Negotiating"}, s.va = 0, s.sent = <<>>,
         s.queue = <<>>, r.state \in {"Waiting", "Negotiating"}, r.vr = 0, r.received = <<>>
  PROVE  Way(s, r, <<>>, <<>>, 0)
<1> DEFINE zero == [i \in Nat |-> 0]
<1>1. zero \in [Nat -> Nat] /\ \A i \in Nat : zero[i] = 0
  OBVIOUS
<1> HIDE DEF zero
<1>2. Len(<<>>) = 0 /\ 0 % Modulus = 0 /\ 0 \in Nat
  BY LapmAssumption, EmptySeq
<1>3. Window(0, 0, 0)
  BY LapmAssumption DEF Window
<1>4. Edges(zero, 0, 0)
  BY <1>1 DEF Edges
<1>5. Holds(<<>>, 0, 0)
  BY <1>2 DEF Holds
<1>6. Keeps(s, 0, 0, 0, zero)
  BY <1>1, <1>2, <1>5 DEF Keeps
<1>7. Takes(r, 0, zero)
  BY <1>1, <1>2, <1>5 DEF Takes
<1>8. Carried(<<>>, 0, 0, zero, zero) /\ Acknowledged(<<>>, 0, 0, zero)
  BY <1>2 DEF Carried, Acknowledged
<1>9. Counts(s, r, <<>>, <<>>, 0, 0, 0, 0, zero, zero, zero)
  BY <1>3, <1>4, <1>6, <1>7, <1>8 DEF Counts
<1> QED
  BY <1>1, <1>2, <1>9 DEF Way

LEMMA WayGiven ==
  ASSUME NEW s \in EndState, NEW r, NEW out, NEW back, NEW most \in Nat,
         Way(s, r, out, back, most), s.state # "Released", most + 1 \in Data
  PROVE  Way(SendData(s, most + 1), r, out, back, most + 1)
<1>1. PICK acked \in Nat, taken \in Nat, cut \in Nat, edge \in [Nat -> Nat],
           ns \in [Nat -> Nat], nr \in [Nat -> Nat] :
        Counts(s, r, out, back, most, acked, taken, cut, edge, ns, nr)
  BY DEF Way
<1> DEFINE t == SendData(s, most + 1)
<1>2. edge[cut] <= most
  BY <1>1 DEF Counts, Edges
<1>3. Keeps(t, most + 1, acked, cut, edge)
  BY <1>1, <1>2, KeepsMore DEF Counts
<1>4. Edges(edge, cut, most + 1)
  <2>1. edge[cut] \in Nat
    OBVIOUS
  <2>2. edge[cut] <= most + 1
    BY <1>2, <2>1
  <2> QED
    BY <1>1, <2>2 DEF Counts, Edges
<1> HIDE DEF t
<1>5. Counts(t, r, out, back, most + 1, acked, taken, cut, edge, ns, nr)
  BY <1>1, <1>3, <1>4 DEF Counts
<1>6. Way(t, r, out, back, most + 1)
  BY <1>5 DEF Way
<1> QED
  BY <1>6 DEF t

LEMMA WayCarried ==
  ASSUME NEW s, NEW r, NEW out, NEW back, NEW most, Way(s, r, out, back, most),
         NEW t, NEW u, CarriesOut(s, t), CarriesIn(r, u)
  PROVE  Way(t, u, out, back, most)
<1>1. PICK acked \in Nat, taken \in Nat, cut \in Nat, edge \in [Nat -> Nat],
           ns \in [Nat -> Nat], nr \in [Nat -> Nat] :
        Counts(s, r, out, back, most, acked, taken, cut, edge, ns, nr)
  BY DEF Way
<1>2. Keeps(t, most, acked, cut, edge) /\ Takes(u, taken, edge)
  BY <1>1, KeepsCarried, TakesCarried DEF Counts
<1>3. Counts(t, u, out, back, most, acked, taken, cut, edge, ns, nr)
  BY <1>1, <1>2 DEF Counts
<1> QED
  BY <1>3 DEF Way

LEMMA WayOutLost ==
  ASSUME NEW s, NEW r, NEW out, NEW back, NEW most, Way(s, r, out, back, most),
         NEW rest, Popped(out, rest)
  PROVE  Way(s, r, rest, back, most)
<1>1. PICK acked \in Nat, taken \in Nat, cut \in Nat, edge \in [Nat -> Nat],
           ns \in [Nat -> Nat], nr \in [Nat -> Nat] :
        Counts(s, r, out, back, most, acked, taken, cut, edge, ns, nr)
  BY DEF Way
<1> DEFINE ms == [i \in Nat |-> ns[i + 1]]
<1>2. ms \in [Nat -> Nat]
  OBVIOUS
<1>3. Carried(rest, taken, cut, edge, ms)
  BY <1>1, CarriedPopped DEF Counts
<1> HIDE DEF ms
<1>4. Counts(s, r, rest, back, most, acked, taken, cut, edge, ms, nr)
  BY <1>1, <1>3 DEF Counts
<1> QED
  BY <1>2, <1>4 DEF Way

LEMMA WayBackLost ==
  ASSUME NEW s, NEW r, NEW out, NEW back, NEW most, Way(s, r, out, back, most),
         NEW rest, Popped(back, rest)
  PROVE  Way(s, r, out, rest, most)
<1>1. PICK acked \in Nat, taken \in Nat, cut \in Nat, edge \in [Nat -> Nat],
           ns \in [Nat -> Nat], nr \in [Nat -> Nat] :
        Counts(s, r, out, back, most, acked, taken, cut, edge, ns, nr)
  BY DEF Way
<1> DEFINE mr == [i \in Nat |-> nr[i + 1]]
<1>2. mr \in [Nat -> Nat]
  OBVIOUS
<1>3. Acknowledged(rest, acked, taken, mr)
  BY <1>1, AcknowledgedPopped DEF Counts
<1> HIDE DEF mr
<1>4. Counts(s, r, out, rest, most, acked, taken, cut, edge, ns, mr)
  BY <1>1, <1>3 DEF Counts
<1> QED
  BY <1>2, <1>4 DEF Way

\* A frame that carries no data joins those to the receiver.
LEMMA WayPushed ==
  ASSUME NEW s, NEW r, NEW out, NEW back, NEW most, Way(s, r, out, back, most),
         NEW more, NEW f, Pushed(out, more, f), f.kind # "I"
  PROVE  Way(s, r, more, back, most)
<1>1. PICK acked \in Nat, taken \in Nat, cut \in Nat, edge \in [Nat -> Nat],
           ns \in [Nat -> Nat], nr \in [Nat -> Nat] :
        Counts(s, r, out, back, most, acked, taken, cut, edge, ns, nr)
  BY DEF Way
<1> DEFINE ms == [ns EXCEPT ![Len(out) + 1] = 0]
<1>2. Len(out) \in Nat
  BY DEF Pushed
<1>3. ms \in [Nat -> Nat]
  BY <1>2
<1>4. Carried(more, taken, cut, edge, ms)
  BY <1>1, CarriedPushed DEF Counts
<1> HIDE DEF ms
<1>5. Counts(s, r, more, back, most, acked, taken, cut, edge, ms, nr)
  BY <1>1, <1>4 DEF Counts
<1> QED
  BY <1>3, <1>5 DEF Way

\* A frame of the receiver joins those to the sender.
LEMMA WayAnswered ==
  ASSUME NEW s, NEW r, NEW out, NEW back, NEW most, Way(s, r, out, back, most),
         NEW more, NEW f, Pushed(back, more, f), Counted(f) => f.nr = r.vr
  PROVE  Way(s, r, out, more, most)
<1>1. PICK acked \in Nat, taken \in Nat, cut \in Nat, edge \in [Nat -> Nat],
           ns \in [Nat -> Nat], nr \in [Nat -> Nat] :
        Counts(s, r, out, back, most, acked, taken, cut, edge, ns, nr)
  BY DEF Way
<1> DEFINE mr == [nr EXCEPT ![Len(back) + 1] = taken]
<1>2. Len(back) \in Nat
  BY DEF Pushed
<1>3. mr \in [Nat -> Nat]
  BY <1>2
<1>4. /\ acked <= taken /\ r.vr = taken % Modulus
      /\ Acknowledged(back, acked, taken, nr)
  BY <1>1 DEF Counts, Window, Takes
<1>5. Acknowledged(more, acked, taken, mr)
  BY <1>4, AcknowledgedPushed
<1> HIDE DEF mr
<1>6. Counts(s, r, out, more, most, acked, taken, cut, edge, ns, mr)
  BY <1>1, <1>5 DEF Counts
<1> QED
  BY <1>3, <1>6 DEF Way

\* The sender takes an acknowledgement.
LEMMA WayAcknowledged ==
  ASSUME NEW s \in EndState, NEW r, NEW out, NEW back, NEW most \in Nat,
         Way(s, r, out, back, most), s.state # "Released",
         NEW rest, Popped(back, rest), Counted(back[1]),
         NEW t, Drops(s, t, back[1].nr)
  PROVE  Way(t, r, out, rest, most)
<1>1. PICK acked \in Nat, taken \in Nat, cut \in Nat, edge \in [Nat -> Nat],
           ns \in [Nat -> Nat], nr \in [Nat -> Nat] :
        Counts(s, r, out, back, most, acked, taken, cut, edge, ns, nr)
  BY DEF Way
<1> DEFINE mr == [i \in Nat |-> nr[i + 1]]
           n == nr[1]
<1>2. mr \in [Nat -> Nat] /\ n \in Nat
  OBVIOUS
<1>3. Acknowledged(rest, n, taken, mr)
  BY <1>1, AcknowledgedPopped DEF Counts
<1> HIDE DEF mr
<1>4. back[1].nr = n % Modulus /\ acked <= n /\ n <= taken
  <2>1. 1 \in 1 .. Len(back)
    BY PoppedAt
  <2> QED
    BY <1>1, <2>1 DEF Counts, Acknowledged
<1> HIDE DEF n
<1>5. acked <= taken /\ taken <= cut /\ cut <= acked + MaxK
  BY <1>1 DEF Counts, Window
<1>6. n <= cut /\ cut <= n + MaxK
  BY <1>2, <1>4, <1>5, LapmAssumption
<1>7. Keeps(t, most, n, cut, edge)
  <2>1. Keeps(s, most, acked, cut, edge) /\ Drops(s, t, n % Modulus)
    BY <1>1, <1>4 DEF Counts
  <2> QED
    BY <1>2, <1>4, <1>5, <1>6, <2>1, KeepsRest
<1>8. Window(n, taken, cut)
  BY <1>4, <1>5, <1>6 DEF Window
<1>9. Counts(t, r, out, rest, most, n, taken, cut, edge, ns, mr)
  BY <1>1, <1>3, <1>7, <1>8 DEF Counts
<1> QED
  BY <1>2, <1>9 DEF Way

\* The receiver takes the frame it waits for.
Accepts(r, u, f) ==
  /\ f.kind = "I" /\ f.ns = r.vr /\ f.info \in Seq(Data)
  /\ u.state = "Connected" /\ u.vr = After(r.vr) /\ u.received = r.received \o f.info

LEMMA WayTaken ==
  ASSUME NEW s, NEW r \in EndState, NEW out, NEW back, NEW most \in Nat,
         Way(s, r, out, back, most), Len(back) \in Nat,
         NEW rest, Popped(out, rest), NEW u, Accepts(r, u, out[1])
  PROVE  Way(s, u, rest, back, most)
<1>1. PICK acked \in Nat, taken \in Nat, cut \in Nat, edge \in [Nat -> Nat],
           ns \in [Nat -> Nat], nr \in [Nat -> Nat] :
        Counts(s, r, out, back, most, acked, taken, cut, edge, ns, nr)
  BY DEF Way
<1> DEFINE ms == [i \in Nat |-> ns[i + 1]]
           n == ns[1]
<1>2. ms \in [Nat -> Nat]
  BY EntriesShifted
<1>2a. n \in Nat
  BY Zenon
<1>3. /\ out[1].ns = n % Modulus /\ n < cut /\ taken <= n + MaxK
      /\ Holds(out[1].info, edge[n], edge[n + 1])
  <2>1. 1 \in 1 .. Len(out) /\ out[1].kind = "I"
    BY PoppedAt DEF Accepts
  <2> QED
    BY <1>1, <2>1 DEF Counts, Carried
<1> HIDE DEF n
<1>4. /\ acked <= taken /\ taken <= cut /\ cut <= acked + MaxK
      /\ r.vr = taken % Modulus /\ Holds(r.received, 0, edge[taken])
  BY <1>1 DEF Counts, Window, Takes
<1>5. ns[1] = taken
  <2>1. n <= taken + MaxK /\ n % Modulus = taken % Modulus
    <3>1. n <= taken + MaxK
      BY <1>2a, <1>3, <1>4, LapmAssumption
    <3>2. n % Modulus = taken % Modulus
      BY <1>3, <1>4 DEF Accepts
    <3> QED
      BY <3>1, <3>2
  <2>2. n = taken
    BY <1>2a, <1>3, <2>1, SameFrame
  <2> QED
    BY <2>2 DEF n
<1>6. Carried(rest, taken + 1, cut, edge, ms)
  BY <1>1, <1>5, CarriedTaken DEF Counts, Accepts
<1> HIDE DEF ms
<1>7. taken + 1 <= cut
  BY <1>2a, <1>3, <1>5, <1>4 DEF n
<1>8. Takes(u, taken + 1, edge)
  <2>1. u.vr = (taken + 1) % Modulus
    BY <1>4, NextWraps DEF Accepts
  <2>2. edge[0] = 0 /\ edge[taken] <= edge[taken + 1] /\ edge[taken] \in Nat /\ edge[taken + 1] \in Nat
    <3>1. taken \in 0 .. cut /\ taken + 1 \in 0 .. cut /\ taken <= taken + 1
      BY <1>4, <1>7
    <3>2. edge[0] = 0 /\ edge[taken] <= edge[taken + 1]
      BY <1>1, <3>1 DEF Counts, Edges
    <3>3. edge[taken] \in Nat /\ edge[taken + 1] \in Nat
      <4>1. taken + 1 \in Nat
        OBVIOUS
      <4> QED
        BY <4>1, EntryIsNat
    <3> QED
      BY <3>2, <3>3
  <2>3. Holds(u.received, 0, edge[taken + 1])
    <3>1. /\ r.received \in Seq(Data) /\ out[1].info \in Seq(Data)
          /\ Holds(out[1].info, edge[taken], edge[taken + 1])
      BY <1>3, <1>5 DEF EndState, Accepts, n
    <3> DEFINE a == edge[taken]
               b == edge[taken + 1]
    <3>2. a \in Nat /\ b \in Nat /\ a <= b
      BY <2>2
    <3>3. Holds(r.received, 0, a) /\ Holds(out[1].info, a, b)
      BY <1>4, <3>1
    <3> HIDE DEF a, b
    <3>4. 0 \in Nat /\ 0 <= a
      BY <3>2
    <3>5. Holds(r.received \o out[1].info, 0, b)
      BY <3>1, <3>2, <3>3, <3>4, HoldsConcat
    <3> QED
      BY <3>5 DEF b, Accepts
  <2> QED
    BY <2>1, <2>3 DEF Takes, Opening, Accepts
<1>9. Acknowledged(back, acked, taken + 1, nr)
  BY <1>1, AcknowledgedTaken DEF Counts
<1>10. Window(acked, taken + 1, cut)
  BY <1>4, <1>7 DEF Window
<1>11. Counts(s, u, rest, back, most, acked, taken + 1, cut, edge, ms, nr)
  BY <1>1, <1>6, <1>8, <1>9, <1>10 DEF Counts
<1>12. taken + 1 \in Nat
  OBVIOUS
<1> QED
  BY <1>2, <1>11, <1>12, Zenon DEF Way

\* The sender makes a frame of the data that waits.
LEMMA WayCut ==
  ASSUME NEW s \in EndState, NEW r, NEW out, NEW back, NEW most \in Nat,
         Way(s, r, out, back, most), s.state = "Connected", Len(out) \in Nat,
         NEW m \in 0 .. Len(s.queue), Len(s.sent) < MaxK, NEW t, Cuts(s, t, m)
  PROVE  Way(t, r, out, back, most)
<1>1. PICK acked \in Nat, taken \in Nat, cut \in Nat, edge \in [Nat -> Nat],
           ns \in [Nat -> Nat], nr \in [Nat -> Nat] :
        Counts(s, r, out, back, most, acked, taken, cut, edge, ns, nr)
  BY DEF Way
<1> DEFINE more == [edge EXCEPT ![cut + 1] = edge[cut] + m]
<1>2. /\ acked <= taken /\ taken <= cut /\ cut <= acked + MaxK
      /\ edge[cut] <= most /\ Keeps(s, most, acked, cut, edge)
  BY <1>1 DEF Counts, Window, Edges
<1>3. Len(s.sent) = cut - acked /\ Len(s.queue) = most - edge[cut]
  BY <1>2 DEF Keeps, Ended, Holds
<1>4. acked <= cut
  BY <1>2
<1>5. m \in Nat /\ edge[cut] \in Nat /\ edge[cut] + m <= most
  <2>1. edge[cut] \in Nat
    BY EntryIsNat
  <2> DEFINE n == Len(s.queue)
             a == edge[cut]
  <2>2. m \in 0 .. n /\ n = most - a /\ a \in Nat /\ a <= most
    BY <1>2, <1>3, <2>1
  <2> HIDE DEF n, a
  <2>3. m \in Nat /\ a \in Nat /\ a + m <= most
    BY <2>2
  <2> QED
    BY <2>3 DEF a
<1>6. Keeps(t, most, acked, cut + 1, more)
  BY <1>2, <1>4, KeepsCut
<1>7. more \in [Nat -> Nat] /\ Edges(more, cut + 1, most)
  BY <1>1, <1>5, EdgesCut DEF Counts
<1>8. Carried(out, taken, cut + 1, more, ns)
  BY <1>1, <1>5, CarriedCut DEF Counts
<1>9. \A i \in 0 .. cut : more[i] = edge[i]
  <2>1. \A i \in 0 .. cut : i \in Nat /\ i # cut + 1
    OBVIOUS
  <2> QED
    BY <2>1
<1> HIDE DEF more
<1>10. Takes(r, taken, more)
  <2>1. taken \in 0 .. cut
    BY <1>2
  <2>2. more[taken] = edge[taken]
    BY <1>9, <2>1
  <2> QED
    BY <1>1, <2>2 DEF Counts, Takes
<1>11. Window(acked, taken, cut + 1)
  <2> DEFINE l == Len(s.sent)
  <2>1. l = cut - acked /\ l < MaxK
    BY <1>3
  <2> HIDE DEF l
  <2> QED
    BY <1>2, <2>1, LapmAssumption DEF Window
<1>12. Counts(t, r, out, back, most, acked, taken, cut + 1, more, ns, nr)
  BY <1>1, <1>6, <1>7, <1>8, <1>10, <1>11 DEF Counts
<1>13. cut + 1 \in Nat
  OBVIOUS
<1> QED
  BY <1>7, <1>12, <1>13, Zenon DEF Way

\* The sender sends the frame at V(S).
Sends(s, f) ==
  /\ f.kind = "I" /\ f.command /\ f.ns = s.vs
  /\ InFlight(s) < Len(s.sent) /\ f.info = s.sent[InFlight(s) + 1]

LEMMA PastBack ==
  ASSUME NEW n \in Numbers, NEW m \in Nat
  PROVE  /\ Past(n, m % Modulus) \in Numbers
         /\ n = (m + Past(n, m % Modulus)) % Modulus
<1> DEFINE a == m % Modulus
           d == Past(n, a)
<1>1. a \in Numbers
  BY Division
<1>2. d \in Numbers
  BY <1>1, PastIsDistance DEF Numbers
<1> HIDE DEF d
<1>3. (m + d) % Modulus = IF a + d < Modulus THEN a + d ELSE a + d - Modulus
  BY <1>2, WrapsOnce
<1> HIDE DEF a
<1>4. n = IF a + d < Modulus THEN a + d ELSE a + d - Modulus
  BY <1>1, LapmAssumption DEF d, Past, Numbers
<1>5. d \in Numbers /\ n = (m + d) % Modulus
  BY <1>2, <1>3, <1>4
<1> QED
  BY <1>5 DEF d, a

LEMMA WaySent ==
  ASSUME NEW s \in EndState, NEW r, NEW out, NEW back, NEW most,
         Way(s, r, out, back, most), s.state = "Connected",
         NEW more, NEW f, Pushed(out, more, f), Sends(s, f)
  PROVE  Way(s, r, more, back, most)
<1>1. PICK acked \in Nat, taken \in Nat, cut \in Nat, edge \in [Nat -> Nat],
           ns \in [Nat -> Nat], nr \in [Nat -> Nat] :
        Counts(s, r, out, back, most, acked, taken, cut, edge, ns, nr)
  BY DEF Way
<1> DEFINE d == InFlight(s)
           p == acked + d
           ms == [ns EXCEPT ![Len(out) + 1] = p]
<1>2. /\ acked <= taken /\ taken <= cut /\ cut <= acked + MaxK
      /\ Keeps(s, most, acked, cut, edge)
  BY <1>1 DEF Counts, Window
<1>3. /\ s.va = acked % Modulus /\ Len(s.sent) = cut - acked
      /\ \A i \in 1 .. Len(s.sent) : Holds(s.sent[i], edge[acked + i - 1], edge[acked + i])
  BY <1>2 DEF Keeps, Ended
<1>4. d \in Numbers /\ s.vs = p % Modulus
  <2>1. s.vs \in Numbers
    BY DEF EndState
  <2> QED
    BY <1>3, <2>1, PastBack DEF InFlight
<1>5. /\ f.kind = "I" /\ f.command /\ f.ns = s.vs
      /\ d < Len(s.sent) /\ f.info = s.sent[d + 1]
  BY DEF Sends
<1> HIDE DEF d
<1>6. /\ d + 1 \in 1 .. Len(s.sent) /\ acked + (d + 1) - 1 = p /\ acked + (d + 1) = p + 1
      /\ p \in Nat /\ p < cut /\ taken <= p + MaxK /\ cut <= p + MaxK
  <2> DEFINE l == Len(s.sent)
  <2>1. l = cut - acked /\ d < l
    BY <1>3, <1>5
  <2> HIDE DEF l
  <2>2. d \in Nat
    BY <1>4, LapmAssumption DEF Numbers
  <2>3. d + 1 \in 1 .. l
    BY <2>1, <2>2
  <2>4. acked + (d + 1) - 1 = p /\ acked + (d + 1) = p + 1 /\ p \in Nat /\ p < cut
    BY <2>1, <2>2
  <2>5. taken <= p + MaxK /\ cut <= p + MaxK
    BY <1>2, <2>2, LapmAssumption
  <2> QED
    BY <2>3, <2>4, <2>5 DEF l
<1> HIDE DEF p
<1>7. Holds(f.info, edge[p], edge[p + 1])
  BY <1>3, <1>5, <1>6
<1>8. Len(out) \in Nat
  BY DEF Pushed
<1>9. ms \in [Nat -> Nat]
  BY <1>6, <1>8, EntryAdded
<1>10. Carried(more, taken, cut, edge, ms)
  <2>1. Carried(out, taken, cut, edge, ns)
    BY <1>1 DEF Counts
  <2>2. /\ f.command /\ f.ns = p % Modulus
        /\ p < cut /\ taken <= p + MaxK /\ cut <= p + MaxK
        /\ Holds(f.info, edge[p], edge[p + 1])
    BY <1>4, <1>5, <1>6, <1>7
  <2> QED
    BY <1>6, <2>1, <2>2, CarriedPushed
<1> HIDE DEF ms
<1>11. Counts(s, r, more, back, most, acked, taken, cut, edge, ms, nr)
  BY <1>1, <1>10 DEF Counts
<1> QED
  BY <1>9, <1>11, Zenon DEF Way

-----------------------------------------------------------------------------
(***************************************************************************)
(* What the counts say of the two ends.                                    *)
(***************************************************************************)
LEMMA WayNumbers ==
  ASSUME NEW s, NEW r, NEW out, NEW back, NEW most,
         Way(s, r, out, back, most), s.state # "Released"
  PROVE  /\ Past(r.vr, s.va) <= Len(s.sent)
         /\ 1 \in 1 .. Len(back) /\ Counted(back[1]) => Valid(s, back[1].nr)
<1>1. PICK acked \in Nat, taken \in Nat, cut \in Nat, edge \in [Nat -> Nat],
           ns \in [Nat -> Nat], nr \in [Nat -> Nat] :
        Counts(s, r, out, back, most, acked, taken, cut, edge, ns, nr)
  BY DEF Way
<1>2. /\ acked <= taken /\ taken <= cut /\ cut <= acked + MaxK
      /\ s.va = acked % Modulus /\ Len(s.sent) = cut - acked
      /\ r.vr = taken % Modulus
  BY <1>1 DEF Counts, Window, Keeps, Ended, Takes
<1>3. \A n \in Nat : acked <= n /\ n <= taken => Past(n % Modulus, s.va) <= Len(s.sent)
  <2>1. ASSUME NEW n \in Nat, acked <= n, n <= taken
        PROVE  Past(n % Modulus, s.va) <= Len(s.sent)
    <3>1. n <= acked + MaxK /\ n - acked <= cut - acked
      <4>1. taken <= cut /\ cut <= acked + MaxK
        BY <1>2
      <4> QED
        BY <2>1, <4>1, LapmAssumption
    <3>2. Past(n % Modulus, acked % Modulus) = n - acked
      BY <2>1, <3>1, PastOfFrames
    <3> QED
      BY <1>2, <3>1, <3>2
  <2> QED
    BY <2>1
<1>4. Past(r.vr, s.va) <= Len(s.sent)
  BY <1>2, <1>3
<1>5. ASSUME 1 \in 1 .. Len(back), Counted(back[1]) PROVE Valid(s, back[1].nr)
  <2>1. back[1].nr = nr[1] % Modulus /\ acked <= nr[1] /\ nr[1] <= taken
    BY <1>1, <1>5 DEF Counts, Acknowledged
  <2>2. nr[1] \in Nat
    BY EntryIsNat
  <2> QED
    BY <1>3, <2>1, <2>2 DEF Valid
<1> QED
  BY <1>4, <1>5

LEMMA WayUnused ==
  ASSUME NEW s, NEW r, NEW out, NEW back, NEW most, Way(s, r, out, back, most)
  PROVE  (Opening(s) => s.va = 0) /\ (Opening(r) => r.vr = 0)
<1>1. PICK acked \in Nat, taken \in Nat, cut \in Nat, edge \in [Nat -> Nat],
           ns \in [Nat -> Nat], nr \in [Nat -> Nat] :
        Counts(s, r, out, back, most, acked, taken, cut, edge, ns, nr)
  BY DEF Way
<1>2. 0 % Modulus = 0
  BY LapmAssumption
<1>3. Opening(r) => r.vr = 0
  BY <1>1, <1>2 DEF Counts, Takes
<1>4. ASSUME Opening(s) PROVE s.va = 0
  <2>1. s.state # "Released"
    BY <1>4 DEF Opening
  <2>2. cut = 0 /\ s.va = acked % Modulus /\ acked <= taken /\ taken <= cut
    BY <1>1, <1>4, <2>1 DEF Counts, Keeps, Ended, Window
  <2>3. acked = 0
    BY <2>2
  <2> QED
    BY <1>2, <2>2, <2>3
<1> QED
  BY <1>3, <1>4

LEMMA WayInOrder ==
  ASSUME NEW s, NEW r \in EndState, NEW out, NEW back, NEW most \in Nat,
         Way(s, r, out, back, most)
  PROVE  Len(r.received) <= most /\ \A i \in 1 .. Len(r.received) : r.received[i] = i
<1>1. PICK acked \in Nat, taken \in Nat, cut \in Nat, edge \in [Nat -> Nat],
           ns \in [Nat -> Nat], nr \in [Nat -> Nat] :
        Counts(s, r, out, back, most, acked, taken, cut, edge, ns, nr)
  BY DEF Way
<1>2. Holds(r.received, 0, edge[taken]) /\ taken <= cut
  BY <1>1 DEF Counts, Takes, Window
<1>3. edge[taken] <= edge[cut] /\ edge[cut] <= most /\ edge[taken] \in Nat /\ edge[cut] \in Nat
  <2>1. taken \in 0 .. cut /\ cut \in 0 .. cut
    BY <1>2
  <2>2. edge[taken] <= edge[cut] /\ edge[cut] <= most
    BY <1>1, <1>2, <2>1 DEF Counts, Edges
  <2> QED
    BY <2>2, EntryIsNat
<1>4. Len(r.received) = edge[taken] - 0 /\ \A i \in 1 .. Len(r.received) : r.received[i] = 0 + i
  BY <1>2 DEF Holds
<1>5. Len(r.received) <= most
  BY <1>3, <1>4
<1>6. r.received \in Seq(Data) /\ Len(r.received) \in Nat
  BY LenProperties DEF EndState
<1>7. ASSUME NEW i \in 1 .. Len(r.received) PROVE r.received[i] = i
  BY <1>4, <1>6
<1> QED
  BY <1>5, <1>7

LEMMA UnitAt ==
  ASSUME NEW q, NEW a \in Nat, NEW b \in Nat, Holds(q, a, b), NEW j \in 1 .. Len(q)
  PROVE  q[j] = a + j /\ j \in Nat /\ q[j] \in Nat /\ a < q[j] /\ q[j] <= b
<1>1. Len(q) = b - a /\ q[j] = a + j
  BY DEF Holds
<1> DEFINE n == Len(q)
           v == q[j]
<1>2. n = b - a /\ v = a + j /\ j \in 1 .. n
  BY <1>1
<1> HIDE DEF n, v
<1>3. v = a + j /\ j \in Nat /\ v \in Nat /\ a < v /\ v <= b
  BY <1>2
<1> QED
  BY <1>3 DEF v

LEMMA UnitIn ==
  ASSUME NEW q, NEW a \in Nat, NEW b \in Nat, Holds(q, a, b),
         NEW u \in Nat, a < u, u <= b
  PROVE  \E j \in 1 .. Len(q) : q[j] = u
<1>1. Len(q) = b - a /\ \A j \in 1 .. Len(q) : q[j] = a + j
  BY DEF Holds
<1>2. PICK j \in Nat : u = a + j /\ j <= b - a /\ 1 <= j
  <2>1. u - a \in Nat /\ u = a + (u - a) /\ u - a <= b - a /\ 1 <= u - a
    OBVIOUS
  <2> QED
    BY <2>1
<1>3. j \in 1 .. Len(q)
  BY <1>1, <1>2
<1> QED
  BY <1>1, <1>2, <1>3

\* Where the i-th of the frames that are kept begins and ends; the n + 1st
\* piece is what waits.
Low(edge, acked, i) == edge[acked + i - 1]
High(edge, acked, n, most, i) == IF i = n + 1 THEN most ELSE edge[acked + i]

LEMMA Indices ==
  ASSUME NEW acked \in Nat, NEW cut \in Nat, NEW n \in Nat, n = cut - acked,
         NEW i \in 1 .. n + 1
  PROVE  /\ acked + i - 1 \in 0 .. cut /\ acked + i - 1 \in Nat
         /\ i = n + 1 => acked + i - 1 = cut
         /\ i # n + 1 => /\ i \in 1 .. n /\ acked + i \in 0 .. cut /\ acked + i \in Nat
                         /\ acked + i - 1 <= acked + i
         /\ \A k \in 1 .. n + 1 : i < k => i # n + 1 /\ acked + i <= acked + k - 1
         /\ cut \in 0 .. cut
<1>1. acked + i - 1 \in 0 .. cut /\ acked + i - 1 \in Nat /\ cut \in 0 .. cut
  OBVIOUS
<1>2. i = n + 1 => acked + i - 1 = cut
  OBVIOUS
<1>3. i # n + 1 => /\ i \in 1 .. n /\ acked + i \in 0 .. cut /\ acked + i \in Nat
                   /\ acked + i - 1 <= acked + i
  OBVIOUS
<1>4. \A k \in 1 .. n + 1 : i < k => i # n + 1 /\ acked + i <= acked + k - 1
  OBVIOUS
<1> QED
  BY <1>1, <1>2, <1>3, <1>4

LEMMA PieceOrder ==
  ASSUME NEW acked \in Nat, NEW cut \in Nat, NEW n \in Nat, n = cut - acked,
         NEW edge \in [Nat -> Nat], NEW most \in Nat, Edges(edge, cut, most),
         NEW i \in 1 .. n + 1
  PROVE  /\ Low(edge, acked, i) \in Nat /\ High(edge, acked, n, most, i) \in Nat
         /\ High(edge, acked, n, most, i) <= most
         /\ \A k \in 1 .. n + 1 :
              i < k => High(edge, acked, n, most, i) <= Low(edge, acked, k)
<1>1. /\ acked + i - 1 \in 0 .. cut /\ acked + i - 1 \in Nat /\ cut \in 0 .. cut
      /\ i # n + 1 => i \in 1 .. n /\ acked + i \in 0 .. cut /\ acked + i \in Nat
      /\ \A k \in 1 .. n + 1 : i < k => i # n + 1 /\ acked + i <= acked + k - 1
  BY Indices
<1>2. Low(edge, acked, i) \in Nat
  BY <1>1, EntryIsNat DEF Low
<1>3. /\ edge[cut] <= most /\ edge[cut] \in Nat
      /\ \A a, b \in 0 .. cut : a <= b => edge[a] <= edge[b]
  BY EntryIsNat DEF Edges
<1>4. High(edge, acked, n, most, i) \in Nat /\ High(edge, acked, n, most, i) <= most
  <2>1. CASE i = n + 1
    BY <2>1 DEF High
  <2>2. CASE i # n + 1
    <3> DEFINE h == edge[acked + i]
               c == edge[cut]
    <3>1. acked + i \in 0 .. cut /\ acked + i \in Nat
      BY <1>1, <2>2
    <3>2. acked + i <= cut
      BY <3>1
    <3>3. h <= c /\ h \in Nat /\ c <= most /\ c \in Nat
      BY <1>1, <1>3, <3>1, <3>2, EntryIsNat
    <3>4. High(edge, acked, n, most, i) = h
      BY <2>2 DEF High
    <3> HIDE DEF h, c
    <3> QED
      BY <3>3, <3>4
  <2> QED
    BY <2>1, <2>2
<1>5. ASSUME NEW k \in 1 .. n + 1, i < k
      PROVE  High(edge, acked, n, most, i) <= Low(edge, acked, k)
  <2>1. acked + k - 1 \in 0 .. cut
    BY Indices
  <2>2. i # n + 1 /\ acked + i <= acked + k - 1 /\ acked + i \in 0 .. cut
    BY <1>1, <1>5
  <2>3. edge[acked + i] <= edge[acked + k - 1]
    BY <1>3, <2>1, <2>2
  <2> QED
    BY <2>2, <2>3 DEF High, Low
<1> QED
  BY <1>2, <1>4, <1>5

LEMMA Pieces ==
  ASSUME NEW s, NEW most \in Nat, NEW acked \in Nat, NEW cut \in Nat,
         NEW edge \in [Nat -> Nat], Keeps(s, most, acked, cut, edge), s.state # "Released",
         NEW n, n = Len(s.sent), NEW kept, Pushed(s.sent, kept, s.queue)
  PROVE  /\ n \in Nat /\ Len(kept) = n + 1 /\ n = cut - acked
         /\ \A i \in 1 .. n + 1 : Holds(kept[i], Low(edge, acked, i), High(edge, acked, n, most, i))
<1>1. /\ n \in Nat /\ Len(kept) = n + 1 /\ kept[n + 1] = s.queue
      /\ \A i \in 1 .. n : kept[i] = s.sent[i]
  BY DEF Pushed
<1>2. /\ n = cut - acked /\ Holds(s.queue, edge[cut], most)
      /\ \A i \in 1 .. n : Holds(s.sent[i], edge[acked + i - 1], edge[acked + i])
  BY DEF Keeps, Ended
<1>3. ASSUME NEW i \in 1 .. n + 1
      PROVE  Holds(kept[i], Low(edge, acked, i), High(edge, acked, n, most, i))
  <2>1. /\ i = n + 1 => acked + i - 1 = cut
        /\ i # n + 1 => i \in 1 .. n
    BY <1>1, <1>2, Indices
  <2>2. CASE i = n + 1
    <3>1. Low(edge, acked, i) = edge[cut] /\ High(edge, acked, n, most, i) = most
      BY <2>1, <2>2 DEF Low, High
    <3> QED
      BY <1>1, <1>2, <2>2, <3>1
  <2>3. CASE i # n + 1
    <3>1. Low(edge, acked, i) = edge[acked + i - 1] /\ High(edge, acked, n, most, i) = edge[acked + i]
      BY <2>3 DEF Low, High
    <3>2. i \in 1 .. n
      BY <2>1, <2>3
    <3> QED
      BY <1>1, <1>2, <3>1, <3>2
  <2> QED
    BY <2>2, <2>3
<1> QED
  BY <1>1, <1>2, <1>3

LEMMA WayKept ==
  ASSUME NEW s \in EndState, NEW r, NEW out, NEW back, NEW most \in Nat,
         Way(s, r, out, back, most), s.state # "Released",
         NEW kept, Pushed(s.sent, kept, s.queue)
  PROVE  /\ \A u \in Len(r.received) + 1 .. most :
              \E i \in 1 .. Len(kept) : \E j \in 1 .. Len(kept[i]) : kept[i][j] = u
         /\ \A i, k \in 1 .. Len(kept) :
              \A j \in 1 .. Len(kept[i]), l \in 1 .. Len(kept[k]) :
                /\ kept[i][j] <= most
                /\ i < k \/ (i = k /\ j < l) => kept[i][j] < kept[k][l]
<1>1. PICK acked \in Nat, taken \in Nat, cut \in Nat, edge \in [Nat -> Nat],
           ns \in [Nat -> Nat], nr \in [Nat -> Nat] :
        Counts(s, r, out, back, most, acked, taken, cut, edge, ns, nr)
  BY DEF Way
<1> DEFINE n == Len(s.sent)
           low(i) == Low(edge, acked, i)
           high(i) == High(edge, acked, n, most, i)
<1>2. /\ acked <= taken /\ taken <= cut /\ Edges(edge, cut, most)
      /\ Keeps(s, most, acked, cut, edge) /\ Holds(r.received, 0, edge[taken])
  BY <1>1 DEF Counts, Window, Takes
<1>3. /\ n \in Nat /\ Len(kept) = n + 1 /\ n = cut - acked
      /\ \A i \in 1 .. n + 1 : Holds(kept[i], low(i), high(i))
  BY <1>2, Pieces
<1> HIDE DEF n
<1>4. \A i \in 1 .. n + 1 : /\ low(i) \in Nat /\ high(i) \in Nat /\ high(i) <= most
                            /\ \A k \in 1 .. n + 1 : i < k => high(i) <= low(k)
  BY <1>2, <1>3, PieceOrder
<1>5. \A i \in 1 .. n + 1 : /\ i = n + 1 => acked + i - 1 = cut
                            /\ i # n + 1 => acked + i \in 0 .. cut
  BY <1>3, Indices
<1>6. ASSUME NEW i \in 1 .. n + 1, NEW u \in Nat, low(i) < u, u <= high(i)
      PROVE  \E k \in 1 .. Len(kept) : \E j \in 1 .. Len(kept[k]) : kept[k][j] = u
  <2> DEFINE a == low(i)
             b == high(i)
  <2>1. a \in Nat /\ b \in Nat /\ Holds(kept[i], a, b) /\ a < u /\ u <= b
    BY <1>3, <1>4, <1>6
  <2> HIDE DEF a, b
  <2> DEFINE q == kept[i]
  <2>2. \E j \in 1 .. Len(q) : q[j] = u
    <3>1. Holds(q, a, b) /\ u \in Nat
      BY <2>1
    <3> HIDE DEF q
    <3> QED
      BY <2>1, <3>1, UnitIn
  <2> QED
    BY <1>3, <2>2
<1>7. ASSUME NEW u \in Len(r.received) + 1 .. most
      PROVE  \E i \in 1 .. Len(kept) : \E j \in 1 .. Len(kept[i]) : kept[i][j] = u
  <2> DEFINE t == edge[taken]
             c == edge[cut]
             m == Len(r.received)
  <2>1. m = t /\ t \in Nat /\ c \in Nat /\ u \in m + 1 .. most
    <3>1. m = t - 0
      BY <1>2 DEF Holds
    <3>2. t \in Nat /\ c \in Nat
      BY EntryIsNat
    <3> QED
      BY <3>1, <3>2
  <2> HIDE DEF t, c, m
  <2>2. u \in Nat /\ t < u /\ u <= most
    BY <2>1
  <2>3. CASE c < u
    <3>1. n + 1 \in 1 .. n + 1
      BY <1>3
    <3>2. low(n + 1) = c /\ high(n + 1) = most
      BY <1>5, <3>1 DEF Low, High, c
    <3> HIDE DEF low, high
    <3> QED
      BY <1>6, <2>2, <2>3, <3>1, <3>2
  <2>4. CASE u <= c
    <3>1. u \in 1 .. c
      BY <2>1, <2>2, <2>4
    <3>2. PICK i \in 1 .. cut : edge[i - 1] < u /\ u <= edge[i]
      BY <1>2, <3>1 DEF Edges, c
    <3>3. acked < i
      <4>1. ASSUME i <= acked PROVE FALSE
        <5>1. i \in 0 .. cut /\ taken \in 0 .. cut /\ i <= taken /\ i \in Nat
          <6>1. i \in Nat /\ i <= cut
            OBVIOUS
          <6>2. i <= taken /\ taken <= cut
            BY <1>2, <4>1, <6>1
          <6> QED
            BY <6>1, <6>2
        <5> DEFINE h == edge[i]
        <5>2. h <= t /\ h \in Nat /\ u <= h
          BY <1>2, <3>2, <5>1, EntryIsNat DEF Edges, t
        <5> HIDE DEF h
        <5> QED
          BY <2>1, <2>2, <5>2
      <4>2. i \in Nat
        OBVIOUS
      <4> QED
        BY <4>1, <4>2
    <3>4. PICK k \in Nat : k = i - acked
      BY <3>3
    <3>5. k \in 1 .. n + 1 /\ k # n + 1 /\ acked + k - 1 = i - 1 /\ acked + k = i
      BY <1>3, <3>3, <3>4
    <3>6. low(k) = edge[i - 1] /\ high(k) = edge[i]
      BY <3>5 DEF Low, High
    <3> HIDE DEF low, high
    <3> QED
      BY <1>6, <2>2, <3>2, <3>5, <3>6
  <2> QED
    BY <2>1, <2>2, <2>3, <2>4
<1>8. ASSUME NEW i \in 1 .. Len(kept), NEW k \in 1 .. Len(kept),
             NEW j \in 1 .. Len(kept[i]), NEW l \in 1 .. Len(kept[k])
      PROVE  /\ kept[i][j] <= most
             /\ i < k \/ (i = k /\ j < l) => kept[i][j] < kept[k][l]
  <2> DEFINE v == kept[i][j]
             w == kept[k][l]
             a == low(i)
             b == high(i)
             c == low(k)
             d == high(k)
  <2>1. i \in 1 .. n + 1 /\ k \in 1 .. n + 1
    BY <1>3
  <2>2. /\ a \in Nat /\ b \in Nat /\ c \in Nat /\ d \in Nat /\ b <= most
        /\ i < k => b <= c
        /\ i = k => a = c
    BY <1>4, <2>1
  <2>3. Holds(kept[i], a, b) /\ Holds(kept[k], c, d)
    BY <1>3, <2>1
  <2> HIDE DEF a, b, c, d
  <2>4. v = a + j /\ j \in Nat /\ v \in Nat /\ a < v /\ v <= b
    BY <2>2, <2>3, UnitAt
  <2>5. w = c + l /\ l \in Nat /\ w \in Nat /\ c < w /\ w <= d
    BY <2>2, <2>3, UnitAt
  <2> HIDE DEF v, w
  <2>6. v <= most
    BY <2>2, <2>4
  <2>7. ASSUME i < k PROVE v < w
    <3>1. b <= c
      BY <2>2, <2>7
    <3> QED
      BY <2>2, <2>4, <2>5, <3>1
  <2>8. ASSUME i = k, j < l PROVE v < w
    <3>1. a = c
      BY <2>2, <2>8
    <3> QED
      BY <2>2, <2>4, <2>5, <2>8, <3>1
  <2> QED
    BY <2>6, <2>7, <2>8 DEF v, w
<1> QED
  BY <1>7, <1>8

-----------------------------------------------------------------------------
(***************************************************************************)
(* What each procedure of an end does to the two directions, to the        *)
(* urgent frames and to the retries.                                       *)
(***************************************************************************)
Urges(s) == {s.urgent[i].frame : i \in 1 .. Len(s.urgent)}

\* An end that has given up keeps nothing, and one that is not yet connected
\* has sent and taken nothing.
Settled(s) ==
  /\ s.state = "Released" => Ended(s)
  /\ Opening(s) => s.va = 0 /\ s.vr = 0 /\ s.sent = <<>>

\* What a step does that is none of the data's: it may still end the connection.
Idles(s, t) == CarriesOut(s, t) /\ CarriesIn(s, t)

\* The same, and the state it is in as well.
Same(s, t) ==
  /\ t.state = s.state /\ t.vs = s.vs /\ t.va = s.va /\ t.vr = s.vr
  /\ t.sent = s.sent /\ t.queue = s.queue /\ t.received = s.received
  /\ t.offer = s.offer

LEMMA SameIdles ==
  ASSUME NEW s, NEW t, Settled(s), Same(s, t)
  PROVE  Idles(s, t)
BY DEF Settled, Same, Idles, CarriesOut, CarriesIn, Ended, Opening

LEMMA WaySettled ==
  ASSUME NEW s, Sound(s), NEW r, NEW out, NEW back, NEW most, NEW some,
         Way(s, r, out, back, most), Way(r, s, back, out, some)
  PROVE  Settled(s)
<1>1. Opening(s) => s.va = 0 /\ s.vr = 0
  BY WayUnused
<1>2. Opening(s) => s.sent = <<>>
  BY DEF Opening, Sound, WindowOK
<1>3. s.state = "Released" => Ended(s)
  BY DEF Way, Counts, Keeps
<1> QED
  BY <1>1, <1>2, <1>3 DEF Settled

LEMMA ReleaseFacts ==
  ASSUME NEW s \in EndState, NEW t, t = Release(s)
  PROVE  /\ t.state = "Released" /\ t.sent = <<>> /\ t.queue = <<>>
         /\ t.urgent = s.urgent /\ t.offer = s.offer /\ t.compression = s.compression
         /\ Urges(t) = Urges(s) /\ Idles(s, t)
<1>1. /\ t.state = "Released" /\ t.sent = <<>> /\ t.queue = <<>> /\ t.vr = s.vr
      /\ t.received = s.received /\ t.urgent = s.urgent /\ t.offer = s.offer
      /\ t.compression = s.compression
  BY DEF Release, EndState
<1>2. Idles(s, t)
  BY <1>1 DEF Idles, CarriesOut, CarriesIn, Ended, Opening
<1> QED
  BY <1>1, <1>2 DEF Urges

LEMMA ConnectFacts ==
  ASSUME NEW s \in EndState, Settled(s), Opening(s), NEW t, t = Connect(s)
  PROVE  /\ t.state = "Connected" /\ t.retries = 0 /\ t.sent = s.sent
         /\ t.va = s.va /\ t.vr = s.vr /\ t.queue = s.queue /\ t.received = s.received
         /\ t.offer = s.offer /\ t.compression = s.compression /\ t.urgent = s.urgent
         /\ Urges(t) = Urges(s) /\ Idles(s, t)
<1>1. /\ t.state = "Connected" /\ t.retries = 0 /\ t.sent = <<>> /\ t.va = 0 /\ t.vr = 0
      /\ t.queue = s.queue /\ t.received = s.received
      /\ t.offer = s.offer /\ t.compression = s.compression /\ t.urgent = s.urgent
  BY DEF Connect, EndState
<1>2. s.va = 0 /\ s.vr = 0 /\ s.sent = <<>> /\ s.state # "Released"
  BY DEF Settled, Opening
<1>3. Idles(s, t)
  BY <1>1, <1>2 DEF Idles, CarriesOut, CarriesIn, Opening
<1> QED
  BY <1>1, <1>2, <1>3 DEF Urges

LEMMA QueueFacts ==
  ASSUME NEW s \in EndState, NEW f \in Frame, NEW timed \in BOOLEAN,
         NEW t, t = Queue(s, f, timed)
  PROVE  /\ Same(s, t) /\ t.retries = s.retries /\ t.compression = s.compression
         /\ \A g \in Urges(t) : g \in Urges(s) \/ g = f
<1> DEFINE u == [frame |-> f, timed |-> timed]
           q == Append(s.urgent, u)
<1>1. t = [s EXCEPT !.urgent = q]
  BY DEF Queue
<1>2. s.urgent \in Seq(Urgent) /\ u \in Urgent
  BY DEF EndState, Urgent
<1>3. Pushed(s.urgent, q, u) /\ u.frame = f
  BY <1>2, AppendPushes
<1> HIDE DEF u, q
<1>4. Same(s, t) /\ t.retries = s.retries /\ t.compression = s.compression /\ t.urgent = q
  BY <1>1 DEF EndState, Same
<1>5. ASSUME NEW i \in 1 .. Len(q) PROVE q[i].frame \in Urges(s) \/ q[i].frame = f
  <2>1. i \in 1 .. Len(s.urgent) \/ i = Len(s.urgent) + 1
    BY <1>3, PushedAt
  <2>2. CASE i \in 1 .. Len(s.urgent)
    BY <1>3, <2>2 DEF Pushed, Urges
  <2>3. CASE i = Len(s.urgent) + 1
    BY <1>3, <2>3 DEF Pushed
  <2> QED
    BY <2>1, <2>2, <2>3
<1> QED
  BY <1>4, <1>5 DEF Urges

\* The frames that open a connection.
Ask(offer) == XidOf(TRUE, [kTx |-> DefaultK, kRx |-> DefaultK,
                           n401Tx |-> DefaultN401, n401Rx |-> DefaultN401,
                           comp |-> Proposal(offer)])
Set == Plain("SABME", TRUE, TRUE)

LEMMA AskIsFrame ==
  ASSUME NEW offer
  PROVE  /\ Ask(offer) \in Frame /\ Ask(offer).kind = "XID" /\ Ask(offer).command
         /\ Ask(offer).xid.comp = Proposal(offer)
         /\ Set \in Frame /\ Set.kind = "SABME" /\ Set.command
<1>1. Proposal(offer) \in Compression
  BY DEF Proposal, Compression, Ways
<1> DEFINE xid == [kTx |-> DefaultK, kRx |-> DefaultK, n401Tx |-> DefaultN401,
                   n401Rx |-> DefaultN401, comp |-> Proposal(offer)]
<1>2. xid \in Xid /\ xid.comp = Proposal(offer)
  BY <1>1, LapmAssumption DEF Xid
<1> HIDE DEF xid
<1>3. XidOf(TRUE, xid) \in Frame
  BY <1>2, XidIsFrame
<1>4. XidOf(TRUE, xid).kind = "XID" /\ XidOf(TRUE, xid).command /\ XidOf(TRUE, xid).xid = xid
  BY DEF XidOf
<1>5. Set \in Frame
  BY PlainIsFrame DEF Set, PlainKinds
<1>6. Set.kind = "SABME" /\ Set.command
  BY DEF Set, Plain
<1>7. Ask(offer) = XidOf(TRUE, xid)
  BY DEF Ask, xid
<1> QED
  BY <1>2, <1>3, <1>4, <1>5, <1>6, <1>7

Persists(s) == s.state = "Released" \/ s.retries < N400

LEMMA RetryFacts ==
  ASSUME NEW s \in EndState, Settled(s), s.state \in {"Negotiating", "Establishing"},
         NEW t, t = Retry(s)
  PROVE  /\ Idles(s, t) /\ t.offer = s.offer /\ t.compression = s.compression
         /\ t.state \in {s.state, "Released"} /\ Persists(t)
         /\ \A g \in Urges(t) :
              \/ g \in Urges(s)
              \/ s.state = "Negotiating" /\ g = Ask(s.offer)
              \/ s.state = "Establishing" /\ g = Set
<1> DEFINE n == s.retries + 1
           b == [s EXCEPT !.timer = FALSE, !.retries = n]
<1>1. n \in Nat /\ N400 \in Nat
  BY LapmAssumption DEF EndState
<1>2. /\ n >= N400 => t = Release(b)
      /\ ~(n >= N400) /\ s.state = "Negotiating" => t = Queue(b, Ask(b.offer), TRUE)
      /\ ~(n >= N400) /\ s.state # "Negotiating" => t = Queue(b, Set, TRUE)
  <2>1. b.retries = n /\ b.state = s.state
    BY DEF EndState
  <2> HIDE DEF n
  <2> QED
    BY <2>1 DEF Retry, SendXidCommand, SendSabme, Ask, Set, n
<1> HIDE DEF n
<1>3. /\ b \in EndState /\ Same(s, b) /\ b.retries = n /\ b.compression = s.compression
      /\ b.urgent = s.urgent
  BY <1>1 DEF EndState, Same
<1> HIDE DEF b
<1>4. Urges(b) = Urges(s) /\ Settled(b)
  BY <1>3 DEF Urges, Settled, Same, Ended, Opening
<1>5. CASE n >= N400
  <2>1. t.state = "Released" /\ t.offer = b.offer /\ t.compression = b.compression
        /\ Urges(t) = Urges(b) /\ Idles(b, t) /\ t.sent = <<>> /\ t.queue = <<>>
    BY <1>2, <1>3, <1>5, ReleaseFacts
  <2>2. Idles(s, t)
    BY <1>3, <2>1 DEF Idles, CarriesOut, CarriesIn, Same, Ended, Opening
  <2> QED
    BY <1>3, <1>4, <2>1, <2>2 DEF Same, Persists
<1>6. CASE ~(n >= N400)
  <2>1. PICK f \in Frame : /\ t = Queue(b, f, TRUE)
                           /\ s.state = "Negotiating" => f = Ask(s.offer)
                           /\ s.state = "Establishing" => f = Set
    BY <1>2, <1>3, <1>6, AskIsFrame DEF Same
  <2>2. /\ Same(b, t) /\ t.retries = n /\ t.compression = s.compression
        /\ \A g \in Urges(t) : g \in Urges(s) \/ g = f
    <3>1. t = Queue(b, f, TRUE) /\ TRUE \in BOOLEAN
      BY <2>1
    <3>2. /\ Same(b, t) /\ t.retries = b.retries /\ t.compression = b.compression
          /\ \A g \in Urges(t) : g \in Urges(b) \/ g = f
      BY <1>3, <3>1, QueueFacts, Zenon
    <3> QED
      BY <1>3, <1>4, <3>2
  <2>3. Same(s, t)
    BY <1>3, <2>2 DEF Same
  <2>4. Idles(s, t)
    BY <2>3, SameIdles
  <2>5. Persists(t)
    BY <1>1, <1>6, <2>2 DEF Persists
  <2> QED
    BY <2>1, <2>2, <2>3, <2>4, <2>5 DEF Same
<1> QED
  BY <1>5, <1>6

LEMMA StartPollingFacts ==
  ASSUME NEW s \in EndState, Settled(s), s.state = "Connected",
         NEW t, t = StartPolling(s)
  PROVE  /\ Idles(s, t) /\ t.offer = s.offer /\ t.compression = s.compression
         /\ Urges(t) = Urges(s) /\ Persists(t)
         /\ \/ Same(s, t)
            \/ t.state = "Released" /\ s.retries + 1 >= N400
<1> DEFINE n == IF s.recovery THEN s.retries + 1 ELSE 0
           b == [s EXCEPT !.timer = FALSE, !.recovery = TRUE, !.retries = n]
           c == [b EXCEPT !.owedPoll = TRUE]
<1>1. n \in Nat /\ N400 \in Nat \ {0} /\ s.retries \in Nat
  BY LapmAssumption DEF EndState
<1>2. t = IF n >= N400 THEN Release(b) ELSE c
  <2>1. b.retries = n
    BY DEF EndState
  <2> HIDE DEF n
  <2> QED
    BY <2>1 DEF StartPolling, n
<1>3. n >= N400 => s.retries + 1 >= N400
  BY <1>1
<1> HIDE DEF n
<1>4. /\ b \in EndState /\ Same(s, b) /\ b.compression = s.compression /\ b.urgent = s.urgent
  BY <1>1 DEF EndState, Same
<1>5. /\ Same(s, c) /\ c.compression = s.compression /\ c.urgent = s.urgent /\ c.retries = n
  BY <1>1 DEF EndState, Same
<1> HIDE DEF b, c
<1>6. Urges(b) = Urges(s) /\ Urges(c) = Urges(s)
  BY <1>4, <1>5 DEF Urges
<1>7. CASE n >= N400
  <2>1. t.state = "Released" /\ t.offer = b.offer /\ t.compression = b.compression
        /\ Urges(t) = Urges(b) /\ Idles(b, t) /\ t.sent = <<>> /\ t.queue = <<>>
    BY <1>2, <1>4, <1>7, ReleaseFacts
  <2>2. Idles(s, t)
    BY <1>4, <2>1 DEF Idles, CarriesOut, CarriesIn, Same, Ended, Opening
  <2> QED
    BY <1>3, <1>4, <1>6, <1>7, <2>1, <2>2 DEF Same, Persists
<1>8. CASE ~(n >= N400)
  <2>1. t = c
    BY <1>2, <1>8
  <2>2. Idles(s, t)
    BY <1>5, <2>1, SameIdles
  <2>3. Persists(t)
    BY <1>1, <1>5, <1>8, <2>1 DEF Persists
  <2> QED
    BY <1>5, <1>6, <2>1, <2>2, <2>3 DEF Same
<1> QED
  BY <1>7, <1>8

\* The instant an end waits for passes.
LEMMA ExpireFacts ==
  ASSUME NEW s, Sound(s), Settled(s), Persists(s), NEW t, t = Expire(s)
  PROVE  /\ Sound(t) /\ Idles(s, t) /\ t.offer = s.offer
         /\ t.compression = s.compression
         /\ t.state \in {s.state, "Released"} /\ Persists(t)
         /\ \A g \in Urges(t) :
              \/ g \in Urges(s)
              \/ s.state = "Negotiating" /\ g = Ask(s.offer)
              \/ s.state = "Establishing" /\ g = Set
         /\ s.state = "Connected" =>
              Same(s, t) \/ (t.state = "Released" /\ s.retries = N400 - 1)
<1>1. s \in EndState /\ Sound(t)
  BY ExpireSound DEF Sound
<1>2. CASE s.state = "Waiting"
  <2>1. t = Release(s)
    BY <1>2 DEF Expire
  <2> QED
    BY <1>1, <1>2, <2>1, ReleaseFacts DEF Persists
<1>3. CASE s.state \in {"Negotiating", "Establishing"}
  <2>1. t = Retry(s)
    BY <1>3 DEF Expire
  <2> QED
    BY <1>1, <1>3, <2>1, RetryFacts
<1>4. CASE s.state = "Connected"
  <2>1. t = StartPolling(s)
    BY <1>4 DEF Expire
  <2>2. /\ Idles(s, t) /\ t.offer = s.offer /\ t.compression = s.compression
        /\ Urges(t) = Urges(s) /\ Persists(t)
        /\ Same(s, t) \/ (t.state = "Released" /\ s.retries + 1 >= N400)
    BY <1>1, <1>4, <2>1, StartPollingFacts
  <2>3. s.retries + 1 >= N400 => s.retries = N400 - 1
    <3>1. s.retries \in Nat /\ s.retries < N400
      BY <1>1, <1>4 DEF Persists, EndState
    <3> DEFINE n == s.retries
    <3>2. n \in Nat /\ n < N400
      BY <3>1
    <3> HIDE DEF n
    <3>3. n + 1 >= N400 => n = N400 - 1
      BY <3>2, LapmAssumption
    <3> QED
      BY <3>3 DEF n
  <2> QED
    BY <1>1, <1>4, <2>2, <2>3 DEF Same
<1>5. CASE s.state = "Released"
  <2>1. t = [s EXCEPT !.timer = FALSE]
    BY <1>5 DEF Expire
  <2>2. /\ Same(s, t) /\ t.compression = s.compression /\ t.urgent = s.urgent
    BY <1>1, <2>1 DEF EndState, Same
  <2>3. Idles(s, t)
    BY <2>2, SameIdles
  <2> QED
    BY <1>1, <1>5, <2>2, <2>3 DEF Same, Urges, Persists
<1> QED
  BY <1>1, <1>2, <1>3, <1>4, <1>5 DEF EndState, States

-----------------------------------------------------------------------------
(***************************************************************************)
(* Sending.                                                                *)
(***************************************************************************)

\* A step that leaves an end's own story alone.
Plainly(s, t) ==
  /\ t.state = s.state /\ t.retries = s.retries
  /\ t.offer = s.offer /\ t.compression = s.compression
  /\ \A g \in Urges(t) : g \in Urges(s)

LEMMA UrgentFacts ==
  ASSUME NEW s, Sound(s), s.urgent # <<>>, NEW f, f = Head(s.urgent).frame,
         NEW t, t = [s EXCEPT !.urgent = Tail(@), !.timer = @ \/ Head(s.urgent).timed]
  PROVE  Same(s, t) /\ Plainly(s, t) /\ f \in Urges(s)
<1> DEFINE rest == Tail(s.urgent)
           timer == s.timer \/ Head(s.urgent).timed
<1>1. s \in EndState /\ s.urgent \in Seq(Urgent)
  BY DEF Sound, EndState
<1>2. Popped(s.urgent, rest) /\ Head(s.urgent) = s.urgent[1] /\ 1 \in 1 .. Len(s.urgent)
  BY <1>1, TailPops
<1>3. t = [s EXCEPT !.urgent = rest, !.timer = timer]
  OBVIOUS
<1> HIDE DEF rest, timer
<1>4. /\ Same(s, t) /\ t.urgent = rest /\ t.retries = s.retries
      /\ t.compression = s.compression
  BY <1>1, <1>3 DEF EndState, Same
<1>5. \A i \in 1 .. Len(rest) : i + 1 \in 1 .. Len(s.urgent) /\ rest[i] = s.urgent[i + 1]
  BY <1>2, PoppedAt
<1>6. \A g \in Urges(t) : g \in Urges(s)
  BY <1>4, <1>5 DEF Urges
<1>7. f \in Urges(s)
  BY <1>2 DEF Urges
<1> QED
  BY <1>4, <1>6, <1>7 DEF Plainly, Same

\* The rest of what an end sends when it has no data to send.
LEMMA OwedFacts ==
  ASSUME NEW s, Sound(s), Has(s) \in {"reject", "final", "poll", "ack"},
         NEW f, f = NextFrame(s), NEW t, t = AfterNextFrame(s)
  PROVE  /\ Same(s, t) /\ Plainly(s, t)
         /\ f \in Frame /\ f.kind \in {"RR", "REJ"} /\ f.nr = s.vr
<1>1. s \in EndState
  BY DEF Sound
<1>2. \E kind \in {"RR", "REJ"}, command \in BOOLEAN, pf \in BOOLEAN :
        f = Supervisory(s, command, kind, pf)
  BY DEF NextFrame
<1>3. f \in SFrame /\ f.kind \in {"RR", "REJ"} /\ f.nr = s.vr
  BY <1>1, <1>2 DEF Supervisory, SFrame, SKinds, EndState
<1>4. /\ Same(s, t) /\ t.urgent = s.urgent /\ t.retries = s.retries
      /\ t.compression = s.compression
  <2>1. CASE Has(s) = "reject"
    <3>1. t = [s EXCEPT !.owedReject = "none", !.owedAck = FALSE,
                        !.owedFinal = @ /\ s.owedReject # "final"]
      BY <2>1 DEF AfterNextFrame
    <3> QED
      BY <1>1, <3>1 DEF EndState, Same
  <2>2. CASE Has(s) = "final"
    <3>1. t = [s EXCEPT !.owedFinal = FALSE, !.owedAck = FALSE]
      BY <2>2 DEF AfterNextFrame
    <3> QED
      BY <1>1, <3>1 DEF EndState, Same
  <2>3. CASE Has(s) = "poll"
    <3>1. t = [s EXCEPT !.owedPoll = FALSE, !.owedAck = FALSE, !.timer = TRUE]
      BY <2>3 DEF AfterNextFrame
    <3> QED
      BY <1>1, <3>1 DEF EndState, Same
  <2>4. CASE Has(s) = "ack"
    <3>1. t = [s EXCEPT !.owedAck = FALSE]
      BY <2>4 DEF AfterNextFrame
    <3> QED
      BY <1>1, <3>1 DEF EndState, Same
  <2> QED
    BY <2>1, <2>2, <2>3, <2>4
<1> QED
  BY <1>3, <1>4 DEF Frame, Plainly, Same, Urges

\* The state with the frame at V(S) among those kept.
LEMMA CutFacts ==
  ASSUME NEW s, Sound(s), Has(s) = "data", NEW c, c = Cut(s)
  PROVE  /\ c \in EndState /\ c.state = "Connected" /\ s.state = "Connected"
         /\ InFlight(c) < Len(c.sent) /\ InFlight(c) = InFlight(s)
         /\ c.vs = s.vs /\ c.vr = s.vr /\ c.received = s.received /\ c.urgent = s.urgent
         /\ c.retries = s.retries /\ c.offer = s.offer /\ c.compression = s.compression
         /\ \/ c = s
            \/ Len(s.sent) < MaxK /\ \E m \in 0 .. Len(s.queue) : Cuts(s, c, m)
<1>1. s \in EndState /\ ParametersOK(s) /\ s.state = "Connected"
      /\ (CanResend(s) \/ CanSendNew(s))
  BY DEF Sound, Has
<1>2. /\ c \in EndState /\ c.state = "Connected" /\ c.vs = s.vs /\ c.va = s.va
      /\ InFlight(s) < Len(c.sent)
  BY <1>1, CutProperties
<1>3. InFlight(c) = InFlight(s)
  BY <1>2 DEF InFlight
<1>4. CASE CanResend(s)
  <2>1. c = s
    BY <1>4 DEF Cut
  <2> QED
    BY <1>2, <1>1, <1>3, <2>1
<1>5. CASE ~CanResend(s)
  <2>1. PICK m \in 0 .. Len(s.queue) :
          c = [s EXCEPT !.sent = Append(@, SubSeq(s.queue, 1, m)),
                        !.queue = SubSeq(@, m + 1, Len(@))]
    <3> DEFINE n == Len(s.queue)
               m == IF n < s.n401 THEN n ELSE s.n401
    <3>1. s.queue \in Seq(Data) /\ s.n401 \in Nat
      BY <1>1 DEF EndState
    <3>2. n \in Nat
      BY <3>1, LenProperties
    <3>3. c = [s EXCEPT !.sent = Append(@, SubSeq(s.queue, 1, m)),
                        !.queue = SubSeq(@, m + 1, Len(@))]
      BY <1>5 DEF Cut
    <3> HIDE DEF n
    <3>4. m \in 0 .. n
      BY <3>1, <3>2
    <3> QED
      BY <3>3, <3>4 DEF n
  <2> DEFINE piece == SubSeq(s.queue, 1, m)
             left == SubSeq(s.queue, m + 1, Len(s.queue))
             sent == Append(s.sent, piece)
  <2>2. c = [s EXCEPT !.sent = sent, !.queue = left]
    BY <2>1
  <2> HIDE DEF piece, left, sent
  <2>3. /\ c.sent = sent /\ c.queue = left /\ c.va = s.va
        /\ c.vr = s.vr /\ c.received = s.received /\ c.urgent = s.urgent
        /\ c.retries = s.retries /\ c.offer = s.offer /\ c.compression = s.compression
    BY <1>1, <2>2 DEF EndState
  <2>4. Cuts(s, c, m)
    BY <1>2, <2>3 DEF Cuts, sent, left, piece
  <2>5. Len(s.sent) < MaxK
    <3>1. Len(s.sent) < s.k /\ s.k \in 1 .. MaxK
      BY <1>1, <1>5 DEF CanSendNew, ParametersOK
    <3>2. Len(s.sent) \in Nat
      <4>1. s.sent \in Seq(Seq(Data))
        BY <1>1 DEF EndState
      <4> QED
        BY <4>1, LenProperties
    <3> DEFINE n == Len(s.sent)
    <3> HIDE DEF n
    <3>3. n \in Nat /\ n < s.k /\ s.k \in 1 .. MaxK
      BY <3>1, <3>2 DEF n
    <3>4. n < MaxK
      BY <3>3, LapmAssumption
    <3> QED
      BY <3>4 DEF n
  <2> QED
    BY <1>1, <1>2, <1>3, <2>3, <2>4, <2>5
<1> QED
  BY <1>4, <1>5

LEMMA DataFacts ==
  ASSUME NEW s, Sound(s), Has(s) = "data",
         NEW f, f = NextFrame(s), NEW t, t = AfterNextFrame(s), NEW c, c = Cut(s)
  PROVE  /\ f \in Frame /\ f.kind = "I" /\ f.nr = s.vr
         /\ Sends(c, f) /\ Idles(c, t) /\ CarriesIn(s, t) /\ Plainly(s, t)
<1>1. /\ c \in EndState /\ c.state = "Connected" /\ s.state = "Connected"
      /\ InFlight(c) < Len(c.sent) /\ InFlight(c) = InFlight(s)
      /\ c.vs = s.vs /\ c.vr = s.vr /\ c.received = s.received /\ c.urgent = s.urgent
      /\ c.retries = s.retries /\ c.offer = s.offer /\ c.compression = s.compression
  BY CutFacts
<1>2. f = [kind |-> "I", command |-> TRUE, pf |-> FALSE,
           ns |-> s.vs, nr |-> s.vr, info |-> c.sent[InFlight(s) + 1]]
  BY DEF NextFrame
<1>3. t = [c EXCEPT !.vs = After(@), !.owedAck = FALSE, !.timer = TRUE]
  BY DEF AfterNextFrame
<1>4. s \in EndState
  BY DEF Sound
<1>5. c.sent[InFlight(s) + 1] \in Seq(Data)
  <2> DEFINE n == InFlight(s)
             q == c.sent
  <2>1. q \in Seq(Seq(Data))
    BY <1>1 DEF EndState
  <2>2. n \in Nat
    <3>1. s.vs \in Numbers /\ s.va \in Numbers
      BY <1>4 DEF EndState
    <3>2. n \in 0 .. Modulus - 1
      BY <3>1, PastIsDistance DEF InFlight
    <3> QED
      BY <3>2, LapmAssumption
  <2>3. n < Len(q)
    BY <1>1
  <2> HIDE DEF n, q
  <2>4. Len(q) \in Nat
    BY <2>1, LenProperties
  <2>5. n + 1 \in 1 .. Len(q)
    BY <2>2, <2>3, <2>4
  <2>6. q[n + 1] \in Seq(Data)
    BY <2>1, <2>5, ElementOfSeq
  <2> QED
    BY <2>6 DEF n, q
<1>6. f \in Frame /\ f.kind = "I" /\ f.nr = s.vr
  <2> DEFINE info == c.sent[InFlight(s) + 1]
  <2>1. info \in Seq(Data)
    BY <1>5
  <2>2. f = [kind |-> "I", command |-> TRUE, pf |-> FALSE,
             ns |-> s.vs, nr |-> s.vr, info |-> info]
    BY <1>2
  <2> HIDE DEF info
  <2>3. s.vs \in Numbers /\ s.vr \in Numbers
    BY <1>4 DEF EndState
  <2>4. f \in IFrame
    BY <2>1, <2>2, <2>3 DEF IFrame
  <2> QED
    BY <2>2, <2>4 DEF Frame
<1>7. Sends(c, f)
  <2>1. f.kind = "I" /\ f.command /\ f.ns = s.vs /\ f.info = c.sent[InFlight(s) + 1]
    BY <1>2
  <2> QED
    BY <1>1, <2>1 DEF Sends
<1>8. /\ t.state = c.state /\ t.va = c.va /\ t.vr = c.vr /\ t.sent = c.sent
      /\ t.queue = c.queue /\ t.received = c.received /\ t.urgent = c.urgent
      /\ t.retries = c.retries /\ t.offer = c.offer /\ t.compression = c.compression
  BY <1>1, <1>3 DEF EndState
<1>9. Idles(c, t) /\ CarriesIn(s, t)
  BY <1>1, <1>8 DEF Idles, CarriesOut, CarriesIn, Opening
<1>10. Plainly(s, t)
  BY <1>1, <1>8 DEF Plainly, Urges
<1> QED
  BY <1>6, <1>7, <1>9, <1>10

LEMMA HasKinds ==
  ASSUME NEW s
  PROVE  Has(s) \in {"urgent", "reject", "final", "poll", "data", "ack", "nothing"}
BY DEF Has

-----------------------------------------------------------------------------
(***************************************************************************)
(* Receiving.                                                              *)
(***************************************************************************)
Alike(s, t) ==
  /\ t.offer = s.offer /\ t.compression = s.compression
  /\ (Persists(s) => Persists(t)) /\ \A g \in Urges(t) : g \in Urges(s)

LEMMA ReleaseAlike ==
  ASSUME NEW s \in EndState, NEW t, t = Release(s)
  PROVE  Alike(s, t) /\ t.state = "Released" /\ Idles(s, t)
BY ReleaseFacts DEF Alike, Persists

\* All an end is, but what its other side has not acknowledged.
Heard(s, t, n) ==
  /\ Drops(s, t, n) /\ t.vr = s.vr /\ t.received = s.received
  /\ t.urgent = s.urgent /\ t.retries = s.retries
  /\ t.offer = s.offer /\ t.compression = s.compression

LEMMA HeardAlike ==
  ASSUME NEW s, s.state = "Connected", NEW t, NEW n, Heard(s, t, n)
  PROVE  Drops(s, t, n) /\ CarriesIn(s, t) /\ Alike(s, t)
BY DEF Heard, Drops, CarriesIn, Alike, Persists, Urges, Opening

LEMMA AcknowledgeFacts ==
  ASSUME NEW s, Sound(s), s.state = "Connected", NEW n \in Numbers, Valid(s, n),
         NEW t, t = Acknowledge(s, n)
  PROVE  t \in EndState /\ Heard(s, t, n)
<1>1. s \in EndState /\ Sound(t) /\ t \in EndState
  BY AcknowledgeProperties DEF Sound
<1> DEFINE acked == Past(n, s.va)
           rest == SubSeq(s.sent, acked + 1, Len(s.sent))
           vs == IF Past(s.vs, s.va) < acked THEN n ELSE s.vs
           timer == IF acked > 0 /\ ~s.recovery THEN vs # n ELSE s.timer
<1>2. t = [s EXCEPT !.sent = rest, !.va = n, !.vs = vs, !.timer = timer]
  BY DEF Acknowledge
<1> HIDE DEF rest, vs, timer
<1>3. /\ t.state = "Connected" /\ t.va = n /\ t.queue = s.queue /\ t.sent = rest
      /\ t.vr = s.vr /\ t.received = s.received /\ t.urgent = s.urgent
      /\ t.retries = s.retries /\ t.offer = s.offer /\ t.compression = s.compression
  BY <1>1, <1>2 DEF EndState
<1> QED
  BY <1>1, <1>3 DEF Heard, Drops, rest

LEMMA SupervisoryFacts ==
  ASSUME NEW s, Sound(s), s.state = "Connected", NEW f \in SFrame, f.kind # "SREJ",
         Valid(s, f.nr), NEW t, t = SupervisoryIn(s, f)
  PROVE  Heard(s, t, f.nr)
<1> DEFINE a == Acknowledge(s, f.nr)
           owes == a.owedFinal \/ (f.command /\ f.pf)
           b == [a EXCEPT !.owedFinal = owes]
           final == [a EXCEPT !.recovery = FALSE, !.vs = f.nr,
                              !.peerBusy = (f.kind = "RNR"),
                              !.timer = (f.kind = "RNR")]
           busy == [b EXCEPT !.peerBusy = TRUE, !.timer = @ \/ ~b.recovery]
           back == [b EXCEPT !.peerBusy = FALSE, !.vs = f.nr, !.timer = FALSE]
           ready == [b EXCEPT !.peerBusy = FALSE]
<1>1. f.nr \in Numbers
  BY DEF SFrame
<1>2. a \in EndState /\ Heard(s, a, f.nr)
  BY <1>1, AcknowledgeFacts
<1>3. t \in {final, busy, back, ready}
  BY DEF SupervisoryIn, EndRecovery
<1> HIDE DEF a, owes
<1>4. /\ b.state = a.state /\ b.va = a.va /\ b.queue = a.queue
      /\ b.sent = a.sent /\ b.vr = a.vr /\ b.received = a.received /\ b.urgent = a.urgent
      /\ b.retries = a.retries /\ b.offer = a.offer /\ b.compression = a.compression
  BY <1>2 DEF EndState
<1>5. Heard(s, final, f.nr)
  <2>1. /\ final.state = a.state /\ final.va = a.va /\ final.queue = a.queue
        /\ final.sent = a.sent /\ final.vr = a.vr /\ final.received = a.received
        /\ final.urgent = a.urgent /\ final.retries = a.retries
        /\ final.offer = a.offer /\ final.compression = a.compression
    BY <1>2 DEF EndState
  <2> HIDE DEF final
  <2> QED
    BY <1>2, <2>1 DEF Heard, Drops
<1>6. Heard(s, busy, f.nr)
  <2>1. /\ busy.state = b.state /\ busy.va = b.va /\ busy.queue = b.queue
        /\ busy.sent = b.sent /\ busy.vr = b.vr /\ busy.received = b.received
        /\ busy.urgent = b.urgent /\ busy.retries = b.retries
        /\ busy.offer = b.offer /\ busy.compression = b.compression
    BY <1>2 DEF EndState
  <2> HIDE DEF busy, b
  <2> QED
    BY <1>2, <1>4, <2>1 DEF Heard, Drops
<1>7. Heard(s, back, f.nr)
  <2>1. /\ back.state = b.state /\ back.va = b.va /\ back.queue = b.queue
        /\ back.sent = b.sent /\ back.vr = b.vr /\ back.received = b.received
        /\ back.urgent = b.urgent /\ back.retries = b.retries
        /\ back.offer = b.offer /\ back.compression = b.compression
    BY <1>2 DEF EndState
  <2> HIDE DEF back, b
  <2> QED
    BY <1>2, <1>4, <2>1 DEF Heard, Drops
<1>8. Heard(s, ready, f.nr)
  <2>1. /\ ready.state = b.state /\ ready.va = b.va /\ ready.queue = b.queue
        /\ ready.sent = b.sent /\ ready.vr = b.vr /\ ready.received = b.received
        /\ ready.urgent = b.urgent /\ ready.retries = b.retries
        /\ ready.offer = b.offer /\ ready.compression = b.compression
    BY <1>2 DEF EndState
  <2> HIDE DEF ready, b
  <2> QED
    BY <1>2, <1>4, <2>1 DEF Heard, Drops
<1> HIDE DEF final, busy, back, ready
<1> QED
  BY <1>3, <1>5, <1>6, <1>7, <1>8

LEMMA InformationFacts ==
  ASSUME NEW s, Sound(s), s.state = "Connected", NEW f \in IFrame,
         Valid(s, f.nr), NEW t, t = Information(s, f)
  PROVE  /\ Drops(s, t, f.nr) /\ Alike(s, t)
         /\ CarriesIn(s, t) \/ Accepts(s, t, f)
<1> DEFINE a == Acknowledge(s, f.nr)
           got == a.received \o f.info
           next == After(a.vr)
           taken == [a EXCEPT !.received = got, !.vr = next,
                              !.reject = FALSE, !.owedFinal = @ \/ f.pf,
                              !.owedAck = @ \/ ~f.pf]
           b == [a EXCEPT !.reject = TRUE,
                          !.owedReject = IF f.pf THEN "final" ELSE "plain"]
           c == [a EXCEPT !.owedFinal = @ \/ f.pf]
<1>1. f.nr \in Numbers /\ f.info \in Seq(Data) /\ f.kind = "I"
  BY DEF IFrame
<1>2. a \in EndState /\ Heard(s, a, f.nr)
  BY <1>1, AcknowledgeFacts
<1>3. (t = taken /\ f.ns = a.vr) \/ t \in {b, c}
  BY DEF Information
<1> HIDE DEF a, got, next
<1>4. ASSUME t = taken, f.ns = a.vr
      PROVE  Drops(s, t, f.nr) /\ Alike(s, t) /\ Accepts(s, t, f)
  <2>1. /\ t.state = a.state /\ t.va = a.va /\ t.queue = a.queue
        /\ t.sent = a.sent /\ t.vr = next /\ t.received = got
        /\ t.urgent = a.urgent /\ t.retries = a.retries
        /\ t.offer = a.offer /\ t.compression = a.compression
    BY <1>2, <1>4 DEF EndState
  <2> HIDE DEF taken
  <2>2. Drops(s, t, f.nr)
    BY <1>2, <2>1 DEF Heard, Drops
  <2>3. Accepts(s, t, f)
    BY <1>1, <1>2, <1>4, <2>1 DEF Heard, Drops, Accepts, got, next
  <2>4. Alike(s, t)
    BY <1>2, <2>1 DEF Heard, Drops, Alike, Persists, Urges
  <2> QED
    BY <2>2, <2>3, <2>4
<1>5. Heard(s, b, f.nr)
  <2>1. /\ b.state = a.state /\ b.va = a.va /\ b.queue = a.queue
        /\ b.sent = a.sent /\ b.vr = a.vr /\ b.received = a.received
        /\ b.urgent = a.urgent /\ b.retries = a.retries
        /\ b.offer = a.offer /\ b.compression = a.compression
    BY <1>2 DEF EndState
  <2> HIDE DEF b
  <2> QED
    BY <1>2, <2>1 DEF Heard, Drops
<1>6. Heard(s, c, f.nr)
  <2>1. /\ c.state = a.state /\ c.va = a.va /\ c.queue = a.queue
        /\ c.sent = a.sent /\ c.vr = a.vr /\ c.received = a.received
        /\ c.urgent = a.urgent /\ c.retries = a.retries
        /\ c.offer = a.offer /\ c.compression = a.compression
    BY <1>2 DEF EndState
  <2> HIDE DEF c
  <2> QED
    BY <1>2, <2>1 DEF Heard, Drops
<1> HIDE DEF b, c, taken
<1>7. ASSUME t \in {b, c} PROVE Drops(s, t, f.nr) /\ CarriesIn(s, t) /\ Alike(s, t)
  BY <1>5, <1>6, <1>7, HeardAlike
<1> QED
  BY <1>3, <1>4, <1>7

\* A numbered frame, which may be what tells the end that its SABME arrived.
LEMMA NumberedFacts ==
  ASSUME NEW s, Sound(s), Settled(s), NEW f \in SFrame \cup IFrame, f.kind # "SREJ",
         Valid(s, f.nr), NEW t, t = Numbered(s, f)
  PROVE  /\ Alike(s, t)
         /\ \/ t = s /\ s.state \notin {"Establishing", "Connected"}
            \/ /\ s.state \in {"Establishing", "Connected"} /\ t.state = "Connected"
               /\ \/ Idles(s, t)
                  \/ Drops(s, t, f.nr) /\ (CarriesIn(s, t) \/ Accepts(s, t, f))
<1> DEFINE c == IF s.state = "Establishing" THEN Connect(s) ELSE s
<1>1. s \in EndState
  BY DEF Sound
<1>2. f.kind # "I" => f \in SFrame
  BY DEF SFrame, IFrame, SKinds
<1>3. f.kind = "I" => f \in IFrame
  BY DEF SFrame, IFrame, SKinds
<1>4. t = IF c.state # "Connected" THEN c
          ELSE IF f.kind # "I" THEN SupervisoryIn(c, f)
          ELSE IF f.command THEN Information(c, f)
          ELSE c
  BY DEF Numbered
<1>5. /\ Sound(c) /\ Alike(s, c) /\ Idles(s, c)
      /\ c.va = s.va /\ c.vr = s.vr /\ c.sent = s.sent /\ c.queue = s.queue
      /\ c.received = s.received
      /\ s.state \in {"Establishing", "Connected"} => c.state = "Connected"
      /\ s.state \notin {"Establishing", "Connected"} => c = s
  <2>1. CASE s.state = "Establishing"
    <3>1. c = Connect(s) /\ Opening(s)
      BY <2>1 DEF Opening
    <3> HIDE DEF c
    <3>2. /\ c.state = "Connected" /\ c.retries = 0 /\ c.sent = s.sent
          /\ c.va = s.va /\ c.vr = s.vr /\ c.queue = s.queue /\ c.received = s.received
          /\ c.offer = s.offer /\ c.compression = s.compression
          /\ Urges(c) = Urges(s) /\ Idles(s, c)
      BY <1>1, <3>1, ConnectFacts
    <3>3. Sound(c)
      BY <3>1, ConnectSound DEF Sound
    <3> QED
      BY <2>1, <3>2, <3>3, LapmAssumption DEF Alike, Persists
  <2>2. CASE s.state # "Establishing"
    <3>1. c = s
      BY <2>2
    <3> HIDE DEF c
    <3>2. Idles(s, s)
      BY SameIdles DEF Same
    <3> QED
      BY <2>2, <3>1, <3>2 DEF Alike
  <2> QED
    BY <2>1, <2>2
<1> HIDE DEF c
<1>6. Valid(c, f.nr)
  BY <1>5 DEF Valid
<1>7. CASE s.state \notin {"Establishing", "Connected"}
  <2>1. t = s
    BY <1>4, <1>5, <1>7
  <2> QED
    BY <1>7, <2>1 DEF Alike
<1>8. CASE s.state \in {"Establishing", "Connected"} /\ f.kind # "I"
  <2>1. t = SupervisoryIn(c, f) /\ c.state = "Connected"
    BY <1>4, <1>5, <1>8
  <2>2. Heard(c, t, f.nr)
    BY <1>2, <1>5, <1>6, <1>8, <2>1, SupervisoryFacts
  <2>3. Drops(c, t, f.nr) /\ CarriesIn(c, t) /\ Alike(c, t)
    BY <2>1, <2>2, HeardAlike
  <2>4. Drops(s, t, f.nr) /\ t.state = "Connected"
    BY <1>5, <2>3 DEF Drops
  <2>5. CarriesIn(s, t) /\ Alike(s, t)
    BY <1>5, <2>3, <2>4 DEF CarriesIn, Alike, Opening
  <2> QED
    BY <1>8, <2>4, <2>5
<1>9. CASE s.state \in {"Establishing", "Connected"} /\ f.kind = "I" /\ f.command
  <2>1. t = Information(c, f) /\ c.state = "Connected"
    BY <1>4, <1>5, <1>9
  <2>2. /\ Drops(c, t, f.nr) /\ Alike(c, t)
        /\ CarriesIn(c, t) \/ Accepts(c, t, f)
    BY <1>3, <1>5, <1>6, <1>9, <2>1, InformationFacts
  <2>3. Drops(s, t, f.nr) /\ t.state = "Connected"
    BY <1>5, <2>2 DEF Drops
  <2>4. CarriesIn(s, t) \/ Accepts(s, t, f)
    BY <1>5, <2>2, <2>3 DEF CarriesIn, Accepts, Opening
  <2>5. Alike(s, t)
    BY <1>5, <2>2 DEF Alike
  <2> QED
    BY <1>9, <2>3, <2>4, <2>5
<1>10. CASE s.state \in {"Establishing", "Connected"} /\ f.kind = "I" /\ ~f.command
  <2>1. t = c /\ t.state = "Connected"
    BY <1>4, <1>5, <1>10
  <2> QED
    BY <1>5, <1>10, <2>1
<1> QED
  BY <1>7, <1>8, <1>9, <1>10

-----------------------------------------------------------------------------
(***************************************************************************)
(* What these two ends say to each other before data flows.                *)
(***************************************************************************)

\* The ways both offer, and what an answerer that is not yet connected says
\* to the caller's XID command.
Agreed == Proposal(Offer["caller"]).ways \cap Grantable(Offer["answerer"])
Reply == IF Offer["caller"] # {}
         THEN [asks |-> TRUE, ways |-> Agreed, valid |-> TRUE] ELSE NoCompression

\* The frames that end e may send.
FrameOK(e, f) ==
  /\ f \in Frame
  /\ \/ f.kind \in {"RR", "REJ", "I"}
     \/ /\ e = "caller" /\ f.command
        /\ \/ f.kind = "SABME"
           \/ f.kind = "XID" /\ f.xid.comp = Proposal(Offer["caller"])
     \/ e = "answerer" /\ ~f.command /\ f.kind \in {"UA", "XID"}

\* One end of such a connection.
EndOK(e, s) ==
  /\ Sound(s) /\ Settled(s) /\ Persists(s) /\ s.offer = Offer[e]
  /\ s.state \in IF e = "caller"
                 THEN {"Negotiating", "Establishing", "Connected", "Released"}
                 ELSE {"Waiting", "Connected", "Released"}
  /\ \A g \in Urges(s) : FrameOK(e, g) /\ ~Counted(g)

LEMMA XidFields ==
  ASSUME NEW f \in Frame, f.kind = "XID"
  PROVE  f.xid \in Xid
BY DEF Frame, PlainFrame, XidFrame, UiFrame, SFrame, IFrame, PlainKinds, SKinds

LEMMA ConcludeFacts ==
  ASSUME NEW s, Sound(s), s.state = "Negotiating", Settled(s),
         NEW theirs \in Xid, NEW t, t = Conclude(s, theirs)
  PROVE  /\ Idles(s, t) /\ Persists(t) /\ t.offer = s.offer
         /\ t.state \in {"Establishing", "Released"}
         /\ \A g \in Urges(t) : g \in Urges(s) \/ g = Set
         /\ s.offer = Offer["caller"] /\ theirs.comp = Reply =>
              t.state = "Establishing" /\ t.compression = AskerRuns(Agreed)
<1> DEFINE granted == s.offer # {} /\ theirs.comp.asks /\ theirs.comp.ways # {}
           wrong == granted /\ \/ ~(theirs.comp.ways \subseteq Proposal(s.offer).ways)
                               \/ ~theirs.comp.valid
           runs == IF granted THEN AskerRuns(theirs.comp.ways) ELSE {}
           k == Clamp(theirs.kRx, MaxK)
           n401 == Clamp(theirs.n401Rx, MaxN401)
           b == [s EXCEPT !.compression = runs, !.n401 = n401, !.k = k,
                          !.state = "Establishing", !.retries = 0, !.timer = FALSE]
<1>1. s \in EndState
  BY DEF Sound
<1>2. t = IF wrong THEN Release(s) ELSE Queue(b, Set, TRUE)
  BY DEF Conclude, SendSabme, Set
<1>3. s.offer = Offer["caller"] /\ theirs.comp = Reply => ~wrong /\ runs = AskerRuns(Agreed)
  <2>1. ASSUME s.offer = Offer["caller"], theirs.comp = Reply, s.offer # {}
        PROVE  ~wrong /\ runs = AskerRuns(Agreed)
    <3>1. theirs.comp.asks /\ theirs.comp.valid /\ theirs.comp.ways = Agreed
      BY <2>1 DEF Reply
    <3>2. Agreed \subseteq Proposal(s.offer).ways
      BY <2>1 DEF Agreed
    <3>3. Agreed = {} => AskerRuns(Agreed) = {}
      BY DEF AskerRuns
    <3> QED
      BY <2>1, <3>1, <3>2, <3>3
  <2>2. ASSUME s.offer = Offer["caller"], s.offer = {}
        PROVE  ~wrong /\ runs = AskerRuns(Agreed)
    <3>1. Proposal({}).ways = {}
      BY DEF Proposal
    <3>2. Agreed = {}
      BY <2>2, <3>1 DEF Agreed
    <3>3. AskerRuns(Agreed) = {}
      BY <3>2 DEF AskerRuns
    <3> QED
      BY <2>2, <3>3
  <2> QED
    BY <2>1, <2>2
<1>4. k \in Nat /\ n401 \in Nat /\ runs \in Directions
  <2>1. k \in 1 .. MaxK /\ n401 \in 1 .. MaxN401
    BY LapmAssumption, ClampBounds DEF Xid
  <2>2. runs \in Directions
    BY DEF Directions, AskerRuns
  <2> QED
    BY <2>1, <2>2, LapmAssumption
<1> HIDE DEF wrong, runs, k, n401
<1>5. /\ b \in EndState /\ b.state = "Establishing" /\ b.retries = 0 /\ b.compression = runs
      /\ b.va = s.va /\ b.vr = s.vr /\ b.sent = s.sent /\ b.queue = s.queue
      /\ b.received = s.received /\ b.offer = s.offer /\ b.urgent = s.urgent
  BY <1>1, <1>4 DEF EndState, States
<1> HIDE DEF b
<1>6. CASE wrong
  <2>1. t = Release(s)
    BY <1>2, <1>6
  <2> QED
    BY <1>1, <1>3, <1>6, <2>1, ReleaseFacts DEF Persists
<1>7. CASE ~wrong
  <2>1. t = Queue(b, Set, TRUE) /\ TRUE \in BOOLEAN /\ Set \in Frame
    BY <1>2, <1>7, AskIsFrame
  <2>2. /\ Same(b, t) /\ t.retries = b.retries /\ t.compression = b.compression
        /\ \A g \in Urges(t) : g \in Urges(b) \/ g = Set
    BY <1>5, <2>1, QueueFacts, Zenon
  <2>3. Idles(s, t)
    <3>1. s.state # "Released" /\ Opening(s)
      BY DEF Opening
    <3> QED
      BY <1>5, <2>2, <3>1 DEF Same, Idles, CarriesOut, CarriesIn
  <2>4. Persists(t)
    BY <1>5, <2>2, LapmAssumption DEF Persists
  <2>5. Urges(b) = Urges(s)
    BY <1>5 DEF Urges
  <2> QED
    BY <1>3, <1>5, <2>2, <2>3, <2>4, <2>5 DEF Same
<1> QED
  BY <1>6, <1>7

\* The caller hears a frame that bears no number.
LEMMA CallerHears ==
  ASSUME NEW s, EndOK("caller", s), NEW f, FrameOK("answerer", f), ~Counted(f),
         NEW t, t = Receive(s, f)
  PROVE  \/ t = s
         \/ /\ s.state = "Negotiating" /\ f.kind = "XID"
            /\ Idles(s, t) /\ Persists(t) /\ t.offer = s.offer
            /\ t.state \in {"Establishing", "Released"}
            /\ \A g \in Urges(t) : g \in Urges(s) \/ g = Set
            /\ f.xid.comp = Reply =>
                 t.state = "Establishing" /\ t.compression = AskerRuns(Agreed)
         \/ /\ s.state = "Establishing" /\ t.state = "Connected"
            /\ Idles(s, t) /\ Alike(s, t)
<1>1. f \in Frame /\ ~f.command /\ f.kind \in {"UA", "XID"}
  BY DEF FrameOK, Counted, SKinds
<1>2. s \in EndState /\ Sound(s) /\ Settled(s) /\ s.offer = Offer["caller"]
  BY DEF EndOK, Sound
<1>3. t = s \/ t = UnnumberedResponse(s, f)
  BY <1>1 DEF Receive, SKinds
<1>4. CASE f.kind = "XID" /\ s.state = "Negotiating"
  <2>1. t = s \/ t = Conclude(s, f.xid)
    BY <1>3, <1>4 DEF UnnumberedResponse
  <2>2. f.xid \in Xid
    BY <1>1, <1>4, XidFields
  <2>3. CASE t = Conclude(s, f.xid)
    BY <1>2, <1>4, <2>2, <2>3, ConcludeFacts
  <2> QED
    BY <2>1, <2>3
<1>5. CASE f.kind = "UA" /\ s.state = "Establishing"
  <2>1. t = s \/ t = Connect(s)
    BY <1>3, <1>5 DEF UnnumberedResponse
  <2>2. CASE t = Connect(s)
    <3>1. Opening(s)
      BY <1>5 DEF Opening
    <3>2. /\ t.state = "Connected" /\ t.retries = 0
          /\ t.offer = s.offer /\ t.compression = s.compression
          /\ Urges(t) = Urges(s) /\ Idles(s, t)
      BY <1>2, <2>2, <3>1, ConnectFacts
    <3> QED
      BY <1>5, <3>2, LapmAssumption DEF Alike, Persists
  <2> QED
    BY <2>1, <2>2
<1>6. CASE ~(f.kind = "XID" /\ s.state = "Negotiating")
           /\ ~(f.kind = "UA" /\ s.state = "Establishing")
  BY <1>1, <1>3, <1>6 DEF UnnumberedResponse
<1> QED
  BY <1>4, <1>5, <1>6

\* The caller's XID command never asks for what is not to be had, so it is
\* always answered.
LEMMA AgreeFacts ==
  ASSUME NEW s, Sound(s), Settled(s), s.state # "Released", s.offer = Offer["answerer"],
         NEW theirs \in Xid, theirs.comp = Proposal(Offer["caller"]),
         NEW t, t = Agree(s, theirs)
  PROVE  /\ Idles(s, t) /\ t.state = s.state /\ t.retries = s.retries /\ t.offer = s.offer
         /\ \E reply \in Frame :
              /\ \A g \in Urges(t) : g \in Urges(s) \/ g = reply
              /\ reply.kind = "XID" /\ ~reply.command
              /\ s.state # "Connected" => reply.xid.comp = Reply
         /\ t.compression = IF s.state # "Connected" /\ Offer["caller"] # {}
                            THEN AskedRuns(Agreed) ELSE s.compression
<1> DEFINE asked == s.state # "Connected" /\ theirs.comp.asks
           ways == theirs.comp.ways \cap Grantable(s.offer)
           k == Clamp(theirs.kRx, MaxK)
           n401 == Clamp(theirs.n401Rx, MaxN401)
           runs == IF asked THEN AskedRuns(ways) ELSE s.compression
           b == [s EXCEPT !.compression = runs, !.n401 = n401, !.k = k]
           comp == IF asked
                   THEN [asks |-> TRUE, ways |-> ways, valid |-> TRUE]
                   ELSE NoCompression
           ours == [kTx |-> b.k, kRx |-> Clamp(theirs.kTx, MaxK),
                    n401Tx |-> b.n401, n401Rx |-> Clamp(theirs.n401Tx, MaxN401),
                    comp |-> comp]
           reply == XidOf(FALSE, ours)
<1>1. s \in EndState
  BY DEF Sound
<1>2. theirs.comp.valid /\ theirs.comp.asks = (Offer["caller"] # {}) /\ ways = Agreed
  BY DEF Proposal, Agreed
<1>3. t = Queue(b, reply, FALSE)
  BY <1>2 DEF Agree
<1>4. /\ runs = IF s.state # "Connected" /\ Offer["caller"] # {}
                THEN AskedRuns(Agreed) ELSE s.compression
      /\ s.state # "Connected" => comp = Reply
  BY <1>2 DEF Reply
<1>5. comp \in Compression
  <2>1. ways \in Ways
    BY DEF Ways, Grantable
  <2> HIDE DEF ways
  <2> QED
    BY <2>1 DEF Compression, NoCompression, Ways
<1>6. runs \in Directions
  BY <1>1 DEF EndState, Directions, AskedRuns
<1> HIDE DEF asked, ways, runs, comp
<1>7. /\ k \in Nat /\ n401 \in Nat
      /\ Clamp(theirs.kTx, MaxK) \in Nat /\ Clamp(theirs.n401Tx, MaxN401) \in Nat
  <2>1. /\ k \in 1 .. MaxK /\ n401 \in 1 .. MaxN401
        /\ Clamp(theirs.kTx, MaxK) \in 1 .. MaxK
        /\ Clamp(theirs.n401Tx, MaxN401) \in 1 .. MaxN401
    BY LapmAssumption, ClampBounds DEF Xid
  <2> QED
    BY <2>1, LapmAssumption
<1> HIDE DEF k, n401
<1>8. /\ b \in EndState /\ b.k = k /\ b.n401 = n401 /\ Same(s, b)
      /\ b.retries = s.retries /\ b.compression = runs /\ b.urgent = s.urgent
  BY <1>1, <1>6, <1>7 DEF EndState, Same
<1> HIDE DEF b
<1>9. ours \in Xid /\ ours.comp = comp
  BY <1>5, <1>7, <1>8 DEF Xid
<1> HIDE DEF ours
<1>10. reply \in Frame /\ reply.kind = "XID" /\ ~reply.command /\ reply.xid = ours
  <2>1. reply \in Frame
    BY <1>9, XidIsFrame
  <2> QED
    BY <2>1 DEF XidOf
<1> HIDE DEF reply
<1>11. /\ Same(b, t) /\ t.retries = b.retries /\ t.compression = b.compression
       /\ \A g \in Urges(t) : g \in Urges(b) \/ g = reply
  <2>1. FALSE \in BOOLEAN
    OBVIOUS
  <2> QED
    BY <1>3, <1>8, <1>10, <2>1, QueueFacts, Zenon
<1>12. Same(s, t)
  BY <1>8, <1>11 DEF Same
<1>13. Idles(s, t)
  BY <1>12, SameIdles
<1>14. Urges(b) = Urges(s)
  BY <1>8 DEF Urges
<1>15. \E g \in Frame : /\ \A h \in Urges(t) : h \in Urges(s) \/ h = g
                        /\ g.kind = "XID" /\ ~g.command
                        /\ s.state # "Connected" => g.xid.comp = Reply
  BY <1>4, <1>9, <1>10, <1>11, <1>14
<1>16. t.compression = runs /\ t.retries = s.retries
  BY <1>8, <1>11
<1> QED
  BY <1>4, <1>12, <1>13, <1>15, <1>16 DEF Same

\* The answerer hears a frame that bears no number.
LEMMA AnswererHears ==
  ASSUME NEW s, EndOK("answerer", s), NEW f, FrameOK("caller", f), ~Counted(f),
         NEW t, t = Receive(s, f)
  PROVE  /\ Idles(s, t) /\ Persists(t) /\ t.offer = s.offer
         /\ \/ t.state = s.state
            \/ s.state = "Waiting" /\ t.state = "Connected" /\ f.kind = "SABME"
            \/ /\ s.state = "Connected" /\ t.state = "Released"
               /\ f.kind = "SABME" /\ ~Untouched(s)
         /\ \A g \in Urges(t) :
              \/ g \in Urges(s)
              \/ /\ FrameOK("answerer", g) /\ ~Counted(g) /\ g.kind \in {"UA", "XID"}
                 /\ g.kind = "XID" /\ s.state = "Waiting" =>
                      /\ g.xid.comp = Reply
                      /\ Offer["caller"] # {} => t.compression = AskedRuns(Agreed)
         /\ \/ t.compression = s.compression
            \/ t.compression = AskedRuns(Agreed) /\ Offer["caller"] # {}
<1>1. f \in Frame /\ f.command /\ f.kind \in {"SABME", "XID"}
      /\ (f.kind = "XID" => f.xid.comp = Proposal(Offer["caller"]))
  BY DEF FrameOK, Counted, SKinds
<1>2. /\ s \in EndState /\ Sound(s) /\ Settled(s) /\ s.offer = Offer["answerer"]
      /\ Persists(s) /\ s.state \in {"Waiting", "Connected", "Released"}
  BY DEF EndOK, Sound
<1>3. t = IF s.state = "Released" THEN s ELSE UnnumberedCommand(s, f)
  BY <1>1 DEF Receive, SKinds
<1>4. CASE s.state = "Released"
  <2>1. t = s
    BY <1>3, <1>4
  <2>2. Idles(s, s)
    BY <1>2, SameIdles DEF Same
  <2> QED
    BY <1>2, <2>1, <2>2
<1>5. CASE f.kind = "XID" /\ s.state # "Released"
  <2>1. t = Agree(s, f.xid) /\ f.xid \in Xid
    BY <1>1, <1>3, <1>5, XidFields DEF UnnumberedCommand
  <2>2. /\ Idles(s, t) /\ t.state = s.state /\ t.retries = s.retries /\ t.offer = s.offer
        /\ \E reply \in Frame :
              /\ \A g \in Urges(t) : g \in Urges(s) \/ g = reply
              /\ reply.kind = "XID" /\ ~reply.command
              /\ s.state # "Connected" => reply.xid.comp = Reply
        /\ t.compression = IF s.state # "Connected" /\ Offer["caller"] # {}
                           THEN AskedRuns(Agreed) ELSE s.compression
    BY <1>1, <1>2, <1>5, <2>1, AgreeFacts
  <2>3. PICK reply \in Frame : /\ \A g \in Urges(t) : g \in Urges(s) \/ g = reply
                               /\ reply.kind = "XID" /\ ~reply.command
                               /\ s.state # "Connected" => reply.xid.comp = Reply
    BY <2>2
  <2>4. FrameOK("answerer", reply) /\ ~Counted(reply)
    BY <2>3 DEF FrameOK, Counted, SKinds
  <2>5. Persists(t)
    BY <1>2, <2>2 DEF Persists
  <2> QED
    BY <2>2, <2>3, <2>4, <2>5
<1>6. \A u \in EndState : \A pf \in BOOLEAN : \A v :
        v = Respond(u, "UA", pf) =>
          /\ Same(u, v) /\ v.retries = u.retries /\ v.compression = u.compression
          /\ \A g \in Urges(v) :
               g \in Urges(u) \/ (FrameOK("answerer", g) /\ ~Counted(g) /\ g.kind = "UA")
  <2>1. ASSUME NEW u \in EndState, NEW pf \in BOOLEAN, NEW v, v = Respond(u, "UA", pf)
        PROVE  /\ Same(u, v) /\ v.retries = u.retries /\ v.compression = u.compression
               /\ \A g \in Urges(v) :
                    g \in Urges(u) \/ (FrameOK("answerer", g) /\ ~Counted(g) /\ g.kind = "UA")
    <3> DEFINE ua == Plain("UA", FALSE, pf)
    <3>1. ua \in Frame
      BY PlainIsFrame DEF PlainKinds
    <3>2. ua.kind = "UA" /\ ~ua.command
      BY DEF Plain
    <3>3. v = Queue(u, ua, FALSE) /\ FALSE \in BOOLEAN
      BY <2>1 DEF Respond
    <3> HIDE DEF ua
    <3>4. /\ Same(u, v) /\ v.retries = u.retries /\ v.compression = u.compression
          /\ \A g \in Urges(v) : g \in Urges(u) \/ g = ua
      BY <3>1, <3>3, QueueFacts, Zenon
    <3>5. FrameOK("answerer", ua) /\ ~Counted(ua)
      BY <3>1, <3>2 DEF FrameOK, Counted, SKinds
    <3> QED
      BY <3>2, <3>4, <3>5
  <2> QED
    BY <2>1
<1>7. f.pf \in BOOLEAN
  BY <1>1 DEF Frame, PlainFrame, XidFrame, UiFrame, SFrame, IFrame
<1>8. CASE f.kind = "SABME" /\ s.state = "Waiting"
  <2> DEFINE c == Connect(s)
  <2>1. t = Respond(c, "UA", f.pf)
    BY <1>3, <1>8 DEF UnnumberedCommand
  <2>2. c \in EndState
    BY <1>2, ConnectSound DEF Sound
  <2>3. Opening(s)
    BY <1>8 DEF Opening
  <2>4. /\ c.state = "Connected" /\ c.retries = 0 /\ c.sent = s.sent
        /\ c.va = s.va /\ c.vr = s.vr /\ c.queue = s.queue /\ c.received = s.received
        /\ c.offer = s.offer /\ c.compression = s.compression
        /\ Urges(c) = Urges(s) /\ Idles(s, c)
    BY <1>2, <2>3, ConnectFacts
  <2> HIDE DEF c
  <2>5. /\ Same(c, t) /\ t.retries = c.retries /\ t.compression = c.compression
        /\ \A g \in Urges(t) :
             g \in Urges(c) \/ (FrameOK("answerer", g) /\ ~Counted(g) /\ g.kind = "UA")
    BY <1>6, <1>7, <2>1, <2>2
  <2>6. Idles(s, t)
    BY <1>8, <2>3, <2>4, <2>5 DEF Same, Idles, CarriesOut, CarriesIn
  <2>7. Persists(t)
    BY <2>4, <2>5, LapmAssumption DEF Persists
  <2> QED
    BY <1>8, <2>4, <2>5, <2>6, <2>7 DEF Same
<1>9. CASE f.kind = "SABME" /\ s.state = "Connected"
  <2>1. t = IF Untouched(s) THEN Respond(s, "UA", f.pf) ELSE Release(s)
    BY <1>3, <1>9 DEF UnnumberedCommand
  <2>2. CASE Untouched(s)
    <3>1. /\ Same(s, t) /\ t.retries = s.retries /\ t.compression = s.compression
          /\ \A g \in Urges(t) :
               g \in Urges(s) \/ (FrameOK("answerer", g) /\ ~Counted(g) /\ g.kind = "UA")
      BY <1>2, <1>6, <1>7, <2>1, <2>2
    <3>2. Idles(s, t)
      BY <1>2, <3>1, SameIdles
    <3>3. Persists(t)
      BY <1>2, <3>1 DEF Persists, Same
    <3> QED
      BY <1>9, <3>1, <3>2, <3>3 DEF Same
  <2>3. CASE ~Untouched(s)
    <3>1. t = Release(s)
      BY <2>1, <2>3
    <3> QED
      BY <1>2, <1>9, <2>3, <3>1, ReleaseFacts DEF Persists
  <2> QED
    BY <2>2, <2>3
<1> QED
  BY <1>1, <1>2, <1>4, <1>5, <1>8, <1>9

-----------------------------------------------------------------------------
(***************************************************************************)
(* The steps of an end, with both directions.                              *)
(***************************************************************************)
Both(s, r, out, back, most, some) ==
  Way(s, r, out, back, most) /\ Way(r, s, back, out, some)
CarriesFrom(e, out) == out \in Seq(Frame) /\ \A i \in 1 .. Len(out) : FrameOK(e, out[i])

\* What the computers see of a step.
Reaches(s, t) ==
  /\ s.state = "Released" => t.state = "Released"
  /\ Opening(t) => Opening(s)
  /\ \/ Len(t.received) = Len(s.received)
     \/ t.state = "Connected" /\ Len(t.received) > Len(s.received)

LEMMA IdlesReaches ==
  ASSUME NEW s, NEW t, Idles(s, t)
  PROVE  Reaches(s, t)
BY DEF Idles, CarriesOut, CarriesIn, Reaches, Ended

LEMMA BothIdle ==
  ASSUME NEW s, NEW r, NEW out, NEW back, NEW most, NEW some,
         Both(s, r, out, back, most, some), Settled(r), NEW t, Idles(s, t)
  PROVE  Both(t, r, out, back, most, some)
<1>1. CarriesOut(r, r) /\ CarriesIn(r, r)
  BY DEF Settled, CarriesOut, CarriesIn
<1>2. Way(t, r, out, back, most)
  BY <1>1, WayCarried DEF Both, Idles
<1>3. Way(r, t, back, out, some)
  BY <1>1, WayCarried DEF Both, Idles
<1> QED
  BY <1>2, <1>3 DEF Both

LEMMA EndKept ==
  ASSUME NEW e \in Ends, NEW s, EndOK(e, s), NEW t, Sound(t), Persists(t),
         t.offer = s.offer,
         \/ t.state \in {s.state, "Released"}
         \/ s.state = "Negotiating" /\ t.state = "Establishing"
         \/ t.state = "Connected",
         \A g \in Urges(t) : g \in Urges(s) \/ (FrameOK(e, g) /\ ~Counted(g)),
         NEW r, NEW out, NEW back, NEW most, NEW some, Both(t, r, out, back, most, some)
  PROVE  EndOK(e, t)
<1>1. Settled(t)
  BY WaySettled DEF Both
<1>2. \A g \in Urges(t) : FrameOK(e, g) /\ ~Counted(g)
  BY DEF EndOK
<1>3. t.state \in IF e = "caller"
                  THEN {"Negotiating", "Establishing", "Connected", "Released"}
                  ELSE {"Waiting", "Connected", "Released"}
  BY DEF EndOK
<1> QED
  BY <1>1, <1>2, <1>3 DEF EndOK

LEMMA AskedInTurn ==
  ASSUME NEW e \in Ends, NEW s, EndOK(e, s), NEW g,
         \/ s.state = "Negotiating" /\ g = Ask(s.offer)
         \/ s.state = "Establishing" /\ g = Set
  PROVE  e = "caller" /\ FrameOK(e, g) /\ ~Counted(g)
<1>1. e = "caller" /\ s.offer = Offer["caller"]
  BY DEF EndOK
<1>2. g = Ask(Offer["caller"]) \/ g = Set
  BY <1>1
<1> QED
  BY <1>1, <1>2, AskIsFrame DEF FrameOK, Counted, SKinds

LEMMA ExpireStep ==
  ASSUME NEW e \in Ends, NEW s, EndOK(e, s), NEW r, Settled(r),
         NEW out, NEW back, NEW most, NEW some, Both(s, r, out, back, most, some),
         NEW t, t = Expire(s)
  PROVE  /\ EndOK(e, t) /\ Both(t, r, out, back, most, some) /\ Reaches(s, t)
         /\ t.compression = s.compression /\ t.state \in {s.state, "Released"}
         /\ \A g \in Urges(t) :
              \/ g \in Urges(s)
              \/ s.state = "Negotiating" /\ g = Ask(s.offer)
              \/ s.state = "Establishing" /\ g = Set
         /\ s.state = "Connected" =>
              Same(s, t) \/ (t.state = "Released" /\ s.retries = N400 - 1)
<1>1. Sound(s) /\ Settled(s) /\ Persists(s)
  BY DEF EndOK
<1>2. /\ Sound(t) /\ Idles(s, t) /\ t.offer = s.offer
      /\ t.compression = s.compression
      /\ t.state \in {s.state, "Released"} /\ Persists(t)
      /\ \A g \in Urges(t) :
           \/ g \in Urges(s)
           \/ s.state = "Negotiating" /\ g = Ask(s.offer)
           \/ s.state = "Establishing" /\ g = Set
      /\ s.state = "Connected" =>
           Same(s, t) \/ (t.state = "Released" /\ s.retries = N400 - 1)
  BY <1>1, ExpireFacts
<1>3. Both(t, r, out, back, most, some)
  BY <1>2, BothIdle
<1>4. \A g \in Urges(t) : g \in Urges(s) \/ (FrameOK(e, g) /\ ~Counted(g))
  BY <1>2, AskedInTurn
<1>5. EndOK(e, t)
  BY <1>2, <1>3, <1>4, EndKept
<1> QED
  BY <1>2, <1>3, <1>5, IdlesReaches

LEMMA NumberedIsOK ==
  ASSUME NEW e, NEW f \in Frame, f.kind \in {"RR", "REJ", "I"}
  PROVE  FrameOK(e, f)
BY DEF FrameOK

\* A frame that is not of data goes out.
LEMMA SendStep ==
  ASSUME NEW s, NEW r, Settled(r), NEW out, NEW back, NEW most, NEW some,
         Both(s, r, out, back, most, some), NEW t, Idles(s, t),
         NEW f, f.kind # "I", Counted(f) => f.nr = s.vr, NEW more, Pushed(out, more, f)
  PROVE  Both(t, r, more, back, most, some)
<1>1. Way(s, r, more, back, most)
  BY WayPushed DEF Both
<1>2. Way(r, s, back, more, some)
  BY WayAnswered DEF Both
<1>3. Both(s, r, more, back, most, some)
  BY <1>1, <1>2 DEF Both
<1> QED
  BY <1>3, BothIdle

\* A frame of data goes out.
LEMMA SendDataStep ==
  ASSUME NEW s, Sound(s), Has(s) = "data", NEW r, Settled(r),
         NEW out, Len(out) \in Nat, NEW back, NEW most \in Nat, NEW some,
         Both(s, r, out, back, most, some),
         NEW t, t = AfterNextFrame(s), NEW f, f = NextFrame(s),
         NEW more, Pushed(out, more, f)
  PROVE  Both(t, r, more, back, most, some)
<1> DEFINE c == Cut(s)
<1>1. s \in EndState
  BY DEF Sound
<1>2. /\ c \in EndState /\ c.state = "Connected" /\ s.state = "Connected"
      /\ \/ c = s
         \/ Len(s.sent) < MaxK /\ \E m \in 0 .. Len(s.queue) : Cuts(s, c, m)
  BY CutFacts
<1>3. f.nr = s.vr /\ Sends(c, f) /\ Idles(c, t) /\ CarriesIn(s, t)
  BY DataFacts
<1> HIDE DEF c
<1>4. CarriesOut(r, r) /\ CarriesIn(r, r)
  BY DEF Settled, CarriesOut, CarriesIn
<1>5. Way(c, r, out, back, most)
  <2>1. CASE c = s
    BY <2>1 DEF Both
  <2>2. CASE Len(s.sent) < MaxK /\ \E m \in 0 .. Len(s.queue) : Cuts(s, c, m)
    <3>1. PICK m \in 0 .. Len(s.queue) : Cuts(s, c, m)
      BY <2>2
    <3> QED
      BY <1>1, <1>2, <2>2, <3>1, WayCut DEF Both
  <2> QED
    BY <1>2, <2>1, <2>2
<1>6. Way(c, r, more, back, most)
  BY <1>2, <1>3, <1>5, WaySent
<1>7. Way(t, r, more, back, most)
  BY <1>3, <1>4, <1>6, WayCarried DEF Idles
<1>8. Way(r, s, back, more, some)
  BY <1>3, WayAnswered DEF Both
<1>9. Way(r, t, back, more, some)
  BY <1>3, <1>4, <1>8, WayCarried
<1> QED
  BY <1>7, <1>9 DEF Both

\* The pump takes a frame from an end that has one.
LEMMA TransmitStep ==
  ASSUME NEW e \in Ends, NEW s, EndOK(e, s), Has(s) # "nothing", NEW r, Settled(r),
         NEW out, Len(out) \in Nat, NEW back, NEW most \in Nat, NEW some,
         Both(s, r, out, back, most, some),
         NEW t, t = AfterNextFrame(s), NEW f, f = NextFrame(s),
         NEW more, Pushed(out, more, f)
  PROVE  /\ EndOK(e, t) /\ FrameOK(e, f) /\ Both(t, r, more, back, most, some)
         /\ Reaches(s, t) /\ Plainly(s, t) /\ (Counted(f) \/ f \in Urges(s))
<1>1. Sound(s) /\ Settled(s) /\ Persists(s)
  BY DEF EndOK
<1>2. /\ FrameOK(e, f) /\ Both(t, r, more, back, most, some)
      /\ Reaches(s, t) /\ Plainly(s, t) /\ (Counted(f) \/ f \in Urges(s))
  <2>2. CASE Has(s) = "urgent"
    <3>1. s.urgent # <<>>
      BY <2>2 DEF Has
    <3>2. /\ f = Head(s.urgent).frame
          /\ t = [s EXCEPT !.urgent = Tail(@), !.timer = @ \/ Head(s.urgent).timed]
      BY <2>2 DEF NextFrame, AfterNextFrame
    <3>3. Same(s, t) /\ Plainly(s, t) /\ f \in Urges(s)
      BY <1>1, <3>1, <3>2, UrgentFacts
    <3>4. FrameOK(e, f) /\ ~Counted(f) /\ f.kind # "I"
      BY <3>3 DEF EndOK, Counted
    <3>5. Idles(s, t)
      BY <1>1, <3>3, SameIdles
    <3> QED
      BY <3>3, <3>4, <3>5, SendStep, IdlesReaches
  <2>3. CASE Has(s) \in {"reject", "final", "poll", "ack"}
    <3>1. /\ Same(s, t) /\ Plainly(s, t)
          /\ f \in Frame /\ f.kind \in {"RR", "REJ"} /\ f.nr = s.vr
      BY <1>1, <2>3, OwedFacts
    <3>2. FrameOK(e, f) /\ Counted(f) /\ f.kind # "I"
      BY <3>1, NumberedIsOK DEF Counted, SKinds
    <3>3. Idles(s, t)
      BY <1>1, <3>1, SameIdles
    <3> QED
      BY <3>1, <3>2, <3>3, SendStep, IdlesReaches
  <2>4. CASE Has(s) = "data"
    <3>1. f \in Frame /\ f.kind = "I" /\ CarriesIn(s, t) /\ Plainly(s, t)
      BY <1>1, <2>4, DataFacts
    <3>2. Both(t, r, more, back, most, some)
      BY <1>1, <2>4, SendDataStep
    <3>3. FrameOK(e, f) /\ Counted(f)
      BY <3>1, NumberedIsOK DEF Counted
    <3>4. Reaches(s, t)
      BY <3>1 DEF CarriesIn, Plainly, Reaches
    <3> QED
      BY <3>1, <3>2, <3>3, <3>4
  <2> QED
    BY <2>2, <2>3, <2>4, HasKinds
<1>3. EndOK(e, t)
  <2>1. Sound(t)
    BY <1>1, AfterNextFrameSound
  <2>2. /\ t.state = s.state /\ t.retries = s.retries /\ t.offer = s.offer
        /\ \A g \in Urges(t) : g \in Urges(s)
    BY <1>2 DEF Plainly
  <2>3. Persists(t)
    BY <1>1, <2>2 DEF Persists
  <2> QED
    BY <1>2, <2>1, <2>2, <2>3, EndKept
<1> QED
  BY <1>2, <1>3

\* The oldest frame on its way to an end is lost.
LEMMA LoseStep ==
  ASSUME NEW s, NEW r, NEW out, NEW back, NEW most, NEW some,
         Both(s, r, out, back, most, some), NEW rest, Popped(back, rest)
  PROVE  Both(s, r, out, rest, most, some)
BY WayBackLost, WayOutLost DEF Both

LEMMA AcceptsReaches ==
  ASSUME NEW s \in EndState, s.state # "Released", NEW t, NEW f, Accepts(s, t, f)
  PROVE  Reaches(s, t)
<1> DEFINE all == s.received \o f.info
<1>1. s.received \in Seq(Data) /\ f.info \in Seq(Data)
  BY DEF EndState, Accepts
<1>2. /\ Len(all) = Len(s.received) + Len(f.info)
      /\ Len(s.received) \in Nat /\ Len(f.info) \in Nat
  BY <1>1, ConcatProperties, LenProperties
<1>3. t.received = all /\ t.state = "Connected"
  BY DEF Accepts
<1> HIDE DEF all
<1> DEFINE a == Len(s.received)
           b == Len(f.info)
           c == Len(t.received)
<1>4. a \in Nat /\ b \in Nat /\ c = a + b
  BY <1>2, <1>3
<1>5. c = a \/ c > a
  <2> HIDE DEF a, b, c
  <2> QED
    BY <1>4
<1> QED
  BY <1>3, <1>5 DEF Reaches, Opening

\* An end hears a numbered frame.
LEMMA HearNumberedStep ==
  ASSUME NEW s, Sound(s), Settled(s), NEW r, Settled(r),
         NEW out, Len(out) \in Nat, NEW back, NEW most \in Nat, NEW some \in Nat,
         Both(s, r, out, back, most, some), NEW rest, Popped(back, rest),
         back[1] \in Frame, Counted(back[1]), back[1].kind # "SREJ",
         NEW t, t = Receive(s, back[1])
  PROVE  /\ Both(t, r, out, rest, most, some) /\ Reaches(s, t) /\ Alike(s, t)
         /\ t = s \/ (s.state \in {"Establishing", "Connected"} /\ t.state = "Connected")
<1> DEFINE f == back[1]
<1>1. s \in EndState
  BY DEF Sound
<1>2. f \in SFrame \cup IFrame /\ t = Numbered(s, f)
  <2>1. f.kind \in SKinds \cup {"I"} /\ f.kind # "UNDEFINED"
    BY DEF Counted, SKinds
  <2>2. f \in Frame
    OBVIOUS
  <2> HIDE DEF f
  <2>3. f \in SFrame \cup IFrame
    BY <2>1, <2>2 DEF Frame, SFrame, IFrame, PlainFrame, XidFrame, UiFrame, PlainKinds, SKinds
  <2>4. t = Numbered(s, f)
    BY <2>1 DEF Receive, f
  <2> QED
    BY <2>3, <2>4
<1>3. 1 \in 1 .. Len(back)
  BY PoppedAt
<1>4. CarriesOut(r, r) /\ CarriesIn(r, r)
  BY DEF Settled, CarriesOut, CarriesIn
<1>5. Both(s, r, out, rest, most, some)
  BY LoseStep
<1>6. CASE s.state \notin {"Establishing", "Connected"}
  <2>1. t = s
    BY <1>2, <1>6 DEF Numbered
  <2>2. Reaches(s, s) /\ Alike(s, s)
    BY DEF Reaches, Alike
  <2> QED
    BY <1>5, <2>1, <2>2
<1>7. CASE s.state \in {"Establishing", "Connected"}
  <2>1. s.state # "Released"
    BY <1>7
  <2>2. Valid(s, f.nr)
    BY <1>3, <2>1, WayNumbers DEF Both
  <2>3. Alike(s, t) /\ t.state = "Connected"
    BY <1>2, <1>7, <2>2, NumberedFacts
  <2>4. Idles(s, t) \/ (Drops(s, t, f.nr) /\ (CarriesIn(s, t) \/ Accepts(s, t, f)))
    BY <1>2, <1>7, <2>2, NumberedFacts
  <2>5. CASE Idles(s, t)
    BY <1>5, <1>7, <2>3, <2>5, BothIdle, IdlesReaches
  <2>6. CASE Drops(s, t, f.nr) /\ CarriesIn(s, t)
    <3>1. Way(t, r, out, rest, most)
      BY <1>1, <2>1, <2>6, WayAcknowledged DEF Both
    <3>2. Way(r, s, rest, out, some)
      BY <1>5 DEF Both
    <3>3. Way(r, t, rest, out, some)
      BY <1>4, <2>6, <3>2, WayCarried
    <3>4. Reaches(s, t)
      BY <2>1, <2>3, <2>6 DEF CarriesIn, Reaches
    <3> QED
      BY <1>7, <2>3, <3>1, <3>3, <3>4 DEF Both
  <2>7. CASE Drops(s, t, f.nr) /\ Accepts(s, t, f)
    <3>1. Way(t, r, out, rest, most)
      BY <1>1, <2>1, <2>7, WayAcknowledged DEF Both
    <3>2. Way(r, t, rest, out, some)
      BY <1>1, <2>7, WayTaken DEF Both
    <3>3. Reaches(s, t)
      BY <1>1, <2>1, <2>7, AcceptsReaches
    <3> QED
      BY <1>7, <2>3, <3>1, <3>2, <3>3 DEF Both
  <2> QED
    BY <2>4, <2>5, <2>6, <2>7
<1> QED
  BY <1>6, <1>7

\* An end hears a frame.
LEMMA HearStep ==
  ASSUME NEW e \in Ends, NEW s, EndOK(e, s), NEW r, Settled(r),
         NEW out, Len(out) \in Nat, NEW back, NEW most \in Nat, NEW some \in Nat,
         Both(s, r, out, back, most, some), NEW rest, Popped(back, rest),
         NEW f, f = back[1], FrameOK(Peer(e), f), NEW t, t = Receive(s, f)
  PROVE  /\ EndOK(e, t) /\ Both(t, r, out, rest, most, some) /\ Reaches(s, t)
         /\ s.state = "Connected" /\ t.state = "Released" =>
              e = "answerer" /\ f.kind = "SABME" /\ ~Untouched(s)
<1>1. Sound(s) /\ Settled(s) /\ Persists(s) /\ f \in Frame /\ Sound(t)
  BY ReceiveSound DEF EndOK, FrameOK
<1>2. Both(s, r, out, rest, most, some)
  BY LoseStep
<1>3. CASE Counted(f)
  <2>1. f.kind # "SREJ"
    BY <1>3 DEF FrameOK, Counted, SKinds
  <2>2. /\ Both(t, r, out, rest, most, some) /\ Reaches(s, t) /\ Alike(s, t)
        /\ t = s \/ (s.state \in {"Establishing", "Connected"} /\ t.state = "Connected")
    BY <1>1, <1>3, <2>1, HearNumberedStep
  <2>3. /\ Persists(t) /\ t.offer = s.offer /\ \A g \in Urges(t) : g \in Urges(s)
    BY <1>1, <2>2 DEF Alike
  <2>4. EndOK(e, t)
    BY <1>1, <2>2, <2>3, EndKept
  <2> QED
    BY <2>2, <2>4
<1>4. CASE e = "caller" /\ ~Counted(f)
  <2>1. \/ t = s
        \/ /\ s.state = "Negotiating" /\ f.kind = "XID"
           /\ Idles(s, t) /\ Persists(t) /\ t.offer = s.offer
           /\ t.state \in {"Establishing", "Released"}
           /\ \A g \in Urges(t) : g \in Urges(s) \/ g = Set
        \/ /\ s.state = "Establishing" /\ t.state = "Connected"
           /\ Idles(s, t) /\ Alike(s, t)
    BY <1>4, CallerHears DEF Peer
  <2>2. CASE t = s
    BY <1>2, <2>2 DEF Reaches
  <2>3. CASE /\ s.state = "Negotiating" /\ f.kind = "XID"
             /\ Idles(s, t) /\ Persists(t) /\ t.offer = s.offer
             /\ t.state \in {"Establishing", "Released"}
             /\ \A g \in Urges(t) : g \in Urges(s) \/ g = Set
    <3>1. Both(t, r, out, rest, most, some) /\ Reaches(s, t)
      BY <1>2, <2>3, BothIdle, IdlesReaches
    <3>2. FrameOK(e, Set) /\ ~Counted(Set)
      BY <1>4, AskIsFrame DEF FrameOK, Counted, SKinds
    <3>3. EndOK(e, t)
      BY <1>1, <2>3, <3>1, <3>2, EndKept
    <3> QED
      BY <2>3, <3>1, <3>3
  <2>4. CASE /\ s.state = "Establishing" /\ t.state = "Connected"
             /\ Idles(s, t) /\ Alike(s, t)
    <3>1. Both(t, r, out, rest, most, some) /\ Reaches(s, t)
      BY <1>2, <2>4, BothIdle, IdlesReaches
    <3>2. Persists(t) /\ t.offer = s.offer /\ \A g \in Urges(t) : g \in Urges(s)
      BY <1>1, <2>4 DEF Alike
    <3>3. EndOK(e, t)
      BY <1>1, <2>4, <3>1, <3>2, EndKept
    <3> QED
      BY <2>4, <3>1, <3>3
  <2> QED
    BY <2>1, <2>2, <2>3, <2>4
<1>5. CASE e = "answerer" /\ ~Counted(f)
  <2>1. /\ Idles(s, t) /\ Persists(t) /\ t.offer = s.offer
        /\ \/ t.state = s.state
           \/ s.state = "Waiting" /\ t.state = "Connected" /\ f.kind = "SABME"
           \/ /\ s.state = "Connected" /\ t.state = "Released"
              /\ f.kind = "SABME" /\ ~Untouched(s)
        /\ \A g \in Urges(t) : g \in Urges(s) \/ (FrameOK(e, g) /\ ~Counted(g))
    BY <1>5, AnswererHears DEF Peer
  <2>2. Both(t, r, out, rest, most, some) /\ Reaches(s, t)
    BY <1>2, <2>1, BothIdle, IdlesReaches
  <2>3. EndOK(e, t)
    BY <1>1, <2>1, <2>2, EndKept
  <2> QED
    BY <1>5, <2>1, <2>2, <2>3
<1> QED
  BY <1>3, <1>4, <1>5 DEF Ends

LEMMA ReachesLater ==
  ASSUME NEW p, NEW s, Reaches(p, s), s.state \in {p.state, "Released"},
         p.state = "Connected" => Same(p, s) \/ s.state = "Released",
         NEW t, Reaches(s, t)
  PROVE  Reaches(p, t)
<1>1. Len(s.received) = Len(p.received)
  BY DEF Reaches, Same
<1> QED
  BY <1>1 DEF Reaches

-----------------------------------------------------------------------------
(***************************************************************************)
(* What the ends agree on: the caller runs what it was granted, and once   *)
(* it does, or has asked to connect, the answerer runs the same.           *)
(***************************************************************************)

\* The frames an end has on its way or waiting to go.
Said(s, out) == Urges(s) \cup {out[i] : i \in 1 .. Len(out)}

Agreeing(s) == s.state \in {"Establishing", "Connected"}

Accord(c, a, out, back) ==
  /\ Agreeing(c) => c.compression = AskerRuns(Agreed)
  /\ \/ Agreeing(c) \/ a.state = "Connected"
     \/ \E f \in Said(a, back) : f.kind = "XID"
     \/ \E f \in Said(c, out) : f.kind = "SABME"
     => a.compression = AskedRuns(Agreed)
  /\ c.state = "Negotiating" =>
       /\ a.state # "Connected"
       /\ \A f \in Said(c, out) : f.kind # "SABME"
       /\ \A f \in Said(a, back) : f.kind = "XID" => f.xid.comp = Reply
  /\ a.compression \in {{}, AskedRuns(Agreed)}

AccordOf(e, s, r, out, back) ==
  IF e = "caller" THEN Accord(s, r, out, back) ELSE Accord(r, s, back, out)

LEMMA AccordTurned ==
  ASSUME NEW e \in Ends, NEW s, NEW r, NEW out, NEW back, AccordOf(e, s, r, out, back)
  PROVE  AccordOf(Peer(e), r, s, back, out)
BY DEF AccordOf, Peer, Ends

LEMMA AccordBegins ==
  ASSUME NEW e \in Ends, NEW s, NEW r,
         \A g \in Urges(s) : e = "caller" /\ g = Ask(Offer["caller"]),
         \A g \in Urges(r) : e = "answerer" /\ g = Ask(Offer["caller"]),
         s.state \in {"Waiting", "Negotiating"}, r.state \in {"Waiting", "Negotiating"},
         s.compression = {}, r.compression = {}
  PROVE  AccordOf(e, s, r, <<>>, <<>>)
<1>1. Said(s, <<>>) = Urges(s) /\ Said(r, <<>>) = Urges(r)
  <2>1. 1 .. Len(<<>>) = {}
    OBVIOUS
  <2> QED
    BY <2>1 DEF Said
<1>2. Ask(Offer["caller"]).kind = "XID"
  BY AskIsFrame
<1> QED
  BY <1>1, <1>2 DEF AccordOf, Accord, Agreeing, Ends

\* A step that settles nothing more.
LEMMA AccordKept ==
  ASSUME NEW c, NEW a, NEW out, NEW back, Accord(c, a, out, back),
         NEW d, NEW b, NEW more, NEW rest,
         d.compression = c.compression, b.compression = a.compression,
         Agreeing(d) => Agreeing(c), d.state = "Negotiating" => c.state = "Negotiating",
         b.state = "Connected" => a.state = "Connected",
         \A f \in Said(d, more) : f.kind = "SABME" => f \in Said(c, out) \/ Agreeing(c),
         \A f \in Said(b, rest) : f.kind = "XID" => f \in Said(a, back)
  PROVE  Accord(d, b, more, rest)
<1>1. Agreeing(d) => d.compression = AskerRuns(Agreed)
  BY DEF Accord
<1>2. ASSUME \/ Agreeing(d) \/ b.state = "Connected"
             \/ \E f \in Said(b, rest) : f.kind = "XID"
             \/ \E f \in Said(d, more) : f.kind = "SABME"
      PROVE  b.compression = AskedRuns(Agreed)
  <2>1. \/ Agreeing(c) \/ a.state = "Connected"
        \/ \E f \in Said(a, back) : f.kind = "XID"
        \/ \E f \in Said(c, out) : f.kind = "SABME"
    BY <1>2
  <2> QED
    BY <2>1 DEF Accord
<1>3. ASSUME d.state = "Negotiating"
      PROVE  /\ b.state # "Connected"
             /\ \A f \in Said(d, more) : f.kind # "SABME"
             /\ \A f \in Said(b, rest) : f.kind = "XID" => f.xid.comp = Reply
  <2>1. c.state = "Negotiating" /\ ~Agreeing(c)
    BY <1>3 DEF Agreeing
  <2> QED
    BY <2>1 DEF Accord
<1>4. b.compression \in {{}, AskedRuns(Agreed)}
  BY DEF Accord
<1> QED
  BY <1>1, <1>2, <1>3, <1>4 DEF Accord

\* The same, seen from the end that steps.
LEMMA AccordStays ==
  ASSUME NEW e \in Ends, NEW s, NEW r, NEW out, NEW back, AccordOf(e, s, r, out, back),
         NEW t, NEW more, NEW rest, t.compression = s.compression,
         Agreeing(t) => Agreeing(s), t.state = "Negotiating" => s.state = "Negotiating",
         e = "answerer" => (t.state = "Connected" => s.state = "Connected"),
         \A f \in Said(t, more) :
           \/ f \in Said(s, out) \/ f.kind \notin {"SABME", "XID"}
           \/ e = "caller" /\ f.kind = "XID"
           \/ e = "caller" /\ Agreeing(s),
         \A f \in Said(r, rest) : f \in Said(r, back)
  PROVE  AccordOf(e, t, r, more, rest)
<1>1. CASE e = "caller"
  <2>1. Accord(s, r, out, back)
    BY <1>1 DEF AccordOf
  <2>2. /\ \A f \in Said(t, more) : f.kind = "SABME" => f \in Said(s, out) \/ Agreeing(s)
        /\ \A f \in Said(r, rest) : f.kind = "XID" => f \in Said(r, back)
    OBVIOUS
  <2>3. Accord(t, r, more, rest)
    BY <2>1, <2>2, AccordKept
  <2> QED
    BY <1>1, <2>3 DEF AccordOf
<1>2. CASE e = "answerer"
  <2>1. Accord(r, s, back, out)
    BY <1>2 DEF AccordOf
  <2>2. /\ \A f \in Said(r, rest) : f.kind = "SABME" => f \in Said(r, back) \/ Agreeing(r)
        /\ \A f \in Said(t, more) : f.kind = "XID" => f \in Said(s, out)
    BY <1>2
  <2>3. t.state = "Connected" => s.state = "Connected"
    BY <1>2
  <2>4. Accord(r, t, rest, more)
    BY <2>1, <2>2, <2>3, AccordKept
  <2> QED
    BY <1>2, <2>4 DEF AccordOf
<1> QED
  BY <1>1, <1>2 DEF Ends

LEMMA SaidPushed ==
  ASSUME NEW s, NEW t, \A g \in Urges(t) : g \in Urges(s), NEW out, NEW more, NEW f,
         Pushed(out, more, f), Counted(f) \/ f \in Urges(s)
  PROVE  \A g \in Said(t, more) : g \in Said(s, out) \/ Counted(g)
<1>1. \A i \in 1 .. Len(more) : i \in 1 .. Len(out) \/ i = Len(out) + 1
  BY PushedAt
<1>2. more[Len(out) + 1] = f /\ \A i \in 1 .. Len(out) : more[i] = out[i]
  BY DEF Pushed
<1>3. ASSUME NEW i \in 1 .. Len(more) PROVE more[i] \in Said(s, out) \/ Counted(more[i])
  <2>1. CASE i \in 1 .. Len(out)
    BY <1>2, <2>1 DEF Said
  <2>2. CASE i = Len(out) + 1
    BY <1>2, <2>2 DEF Said
  <2> QED
    BY <1>1, <2>1, <2>2
<1>4. \A g \in Urges(t) : g \in Said(s, out)
  BY DEF Said
<1> QED
  BY <1>3, <1>4 DEF Said

LEMMA SaidPopped ==
  ASSUME NEW r, NEW back, NEW rest, Popped(back, rest)
  PROVE  /\ \A g \in Said(r, rest) : g \in Said(r, back)
         /\ back[1] \in Said(r, back)
<1>1. /\ 1 \in 1 .. Len(back)
      /\ \A i \in 1 .. Len(rest) : i + 1 \in 1 .. Len(back) /\ rest[i] = back[i + 1]
  BY PoppedAt
<1>2. \A i \in 1 .. Len(back) : back[i] \in Said(r, back)
  BY DEF Said
<1>3. \A i \in 1 .. Len(rest) : rest[i] \in Said(r, back)
  BY <1>1, <1>2
<1> QED
  BY <1>1, <1>2, <1>3 DEF Said

LEMMA ExpireAccord ==
  ASSUME NEW e \in Ends, NEW s, EndOK(e, s), NEW r, NEW out, NEW back,
         AccordOf(e, s, r, out, back), NEW t,
         t.compression = s.compression, t.state \in {s.state, "Released"},
         \A g \in Urges(t) :
           \/ g \in Urges(s)
           \/ s.state = "Negotiating" /\ g = Ask(s.offer)
           \/ s.state = "Establishing" /\ g = Set
  PROVE  AccordOf(e, t, r, out, back)
<1>1. ASSUME NEW g \in Urges(t)
      PROVE  \/ g \in Urges(s)
             \/ e = "caller" /\ g.kind = "XID"
             \/ e = "caller" /\ Agreeing(s)
  <2>1. CASE s.state = "Negotiating" /\ g = Ask(s.offer)
    BY <2>1, AskedInTurn, AskIsFrame
  <2>2. CASE s.state = "Establishing" /\ g = Set
    BY <2>2, AskedInTurn DEF Agreeing
  <2> QED
    BY <2>1, <2>2
<1>2. \A f \in Said(t, out) :
        \/ f \in Said(s, out) \/ f.kind \notin {"SABME", "XID"}
        \/ e = "caller" /\ f.kind = "XID"
        \/ e = "caller" /\ Agreeing(s)
  BY <1>1 DEF Said
<1>3. /\ Agreeing(t) => Agreeing(s)
      /\ t.state = "Negotiating" => s.state = "Negotiating"
      /\ t.state = "Connected" => s.state = "Connected"
  BY DEF Agreeing
<1>4. \A f \in Said(r, back) : f \in Said(r, back)
  OBVIOUS
<1> QED
  BY <1>2, <1>3, <1>4, AccordStays

LEMMA TransmitAccord ==
  ASSUME NEW e \in Ends, NEW s, NEW r, NEW out, NEW back, AccordOf(e, s, r, out, back),
         NEW t, Plainly(s, t), NEW f, Counted(f) \/ f \in Urges(s),
         NEW more, Pushed(out, more, f)
  PROVE  AccordOf(e, t, r, more, back)
<1>1. /\ t.state = s.state /\ t.compression = s.compression
      /\ \A g \in Urges(t) : g \in Urges(s)
  BY DEF Plainly
<1>2. \A g \in Said(t, more) : g \in Said(s, out) \/ Counted(g)
  BY <1>1, SaidPushed
<1>3. \A g \in Said(t, more) : g \in Said(s, out) \/ g.kind \notin {"SABME", "XID"}
  BY <1>2 DEF Counted, SKinds
<1>4. \A g \in Said(r, back) : g \in Said(r, back)
  OBVIOUS
<1>5. Agreeing(t) => Agreeing(s)
  BY <1>1 DEF Agreeing
<1> QED
  BY <1>1, <1>3, <1>4, <1>5, AccordStays

LEMMA LoseAccord ==
  ASSUME NEW e \in Ends, NEW s, NEW r, NEW out, NEW back, AccordOf(e, s, r, out, back),
         NEW rest, Popped(back, rest)
  PROVE  AccordOf(e, s, r, out, rest)
<1>1. \A g \in Said(r, rest) : g \in Said(r, back)
  BY SaidPopped
<1> QED
  BY <1>1, AccordStays

\* A step of an end that hears: it may go from asking for the connection to
\* having it.
LEMMA PlainAccord ==
  ASSUME NEW e \in Ends, NEW s, NEW r, NEW out, NEW back, AccordOf(e, s, r, out, back),
         NEW rest, Popped(back, rest), NEW t, Alike(s, t),
         \/ t.state = s.state
         \/ e = "caller" /\ s.state \in {"Establishing", "Connected"} /\ t.state = "Connected"
  PROVE  AccordOf(e, t, r, out, rest)
<1>1. t.compression = s.compression /\ \A g \in Urges(t) : g \in Urges(s)
  BY DEF Alike
<1>2. \A g \in Said(r, rest) : g \in Said(r, back)
  BY SaidPopped
<1>3. \A g \in Said(t, out) : g \in Said(s, out)
  BY <1>1 DEF Said
<1>4. /\ Agreeing(t) => Agreeing(s)
      /\ t.state = "Negotiating" => s.state = "Negotiating"
      /\ e = "answerer" => (t.state = "Connected" => s.state = "Connected")
  BY DEF Agreeing
<1> QED
  BY <1>1, <1>2, <1>3, <1>4, AccordStays

\* The caller is told what was agreed.
LEMMA CallerAccord ==
  ASSUME NEW s, NEW r, NEW out, NEW back, Accord(s, r, out, back),
         NEW rest, Popped(back, rest), s.state = "Negotiating", back[1].kind = "XID",
         NEW t, back[1].xid.comp = Reply =>
                  t.state = "Establishing" /\ t.compression = AskerRuns(Agreed)
  PROVE  Accord(t, r, out, rest)
<1>1. back[1] \in Said(r, back)
  BY SaidPopped
<1>2. r.compression = AskedRuns(Agreed) /\ back[1].xid.comp = Reply
  BY <1>1 DEF Accord
<1>3. t.state = "Establishing" /\ t.compression = AskerRuns(Agreed)
  BY <1>2
<1> QED
  BY <1>2, <1>3 DEF Accord

\* The answerer is asked, or told to connect.
LEMMA AnswererAccord ==
  ASSUME NEW c, NEW s, NEW back, NEW out, Accord(c, s, back, out),
         NEW rest, Popped(back, rest), NEW f, f = back[1], s.state # "Released", NEW t,
         \/ t.state = s.state
         \/ s.state = "Waiting" /\ t.state = "Connected" /\ f.kind = "SABME"
         \/ s.state = "Connected" /\ t.state = "Released",
         s.state \in {"Waiting", "Connected"},
         \A g \in Urges(t) :
           \/ g \in Urges(s)
           \/ /\ g.kind \in {"UA", "XID"}
              /\ g.kind = "XID" /\ s.state = "Waiting" =>
                   /\ g.xid.comp = Reply
                   /\ Offer["caller"] # {} => t.compression = AskedRuns(Agreed),
         \/ t.compression = s.compression
         \/ t.compression = AskedRuns(Agreed) /\ Offer["caller"] # {}
  PROVE  Accord(c, t, rest, out)
<1>1. f \in Said(c, back) /\ \A g \in Said(c, rest) : g \in Said(c, back)
  BY SaidPopped
<1>2. s.compression \in {{}, AskedRuns(Agreed)}
  BY DEF Accord
<1>3. s.compression = AskedRuns(Agreed) => t.compression = AskedRuns(Agreed)
  OBVIOUS
<1>4. Offer["caller"] = {} => AskedRuns(Agreed) = {}
  BY DEF Agreed, Proposal, AskedRuns
<1>5. t.compression \in {{}, AskedRuns(Agreed)}
  BY <1>2
<1>6. \A g \in Said(t, out) : g \in Said(s, out) \/ g \in Urges(t)
  BY DEF Said
<1>6a. Urges(s) \subseteq Said(s, out)
  BY DEF Said
<1>7. Agreeing(c) => c.compression = AskerRuns(Agreed)
  BY DEF Accord
<1>8. ASSUME \/ Agreeing(c) \/ t.state = "Connected"
             \/ \E g \in Said(t, out) : g.kind = "XID"
             \/ \E g \in Said(c, rest) : g.kind = "SABME"
      PROVE  t.compression = AskedRuns(Agreed)
  <2>1. CASE \/ Agreeing(c) \/ s.state = "Connected"
             \/ \E g \in Said(s, out) : g.kind = "XID"
             \/ \E g \in Said(c, back) : g.kind = "SABME"
    BY <1>3, <2>1 DEF Accord
  <2>2. CASE \E g \in Said(t, out) : g.kind = "XID" /\ g \notin Said(s, out)
    <3>1. PICK g \in Said(t, out) : g.kind = "XID" /\ g \notin Said(s, out)
      BY <2>2
    <3>2. g \in Urges(t) /\ g \notin Urges(s)
      BY <1>6, <1>6a, <3>1
    <3>3. CASE s.state = "Waiting"
      <4>1. Offer["caller"] # {} => t.compression = AskedRuns(Agreed)
        BY <3>1, <3>2, <3>3
      <4> QED
        BY <1>4, <1>5, <4>1
    <3>4. CASE s.state = "Connected"
      BY <1>3, <3>4 DEF Accord
    <3> QED
      BY <3>3, <3>4
  <2> QED
    BY <1>1, <1>8, <2>1, <2>2
<1>9. ASSUME c.state = "Negotiating"
      PROVE  /\ t.state # "Connected"
             /\ \A g \in Said(c, rest) : g.kind # "SABME"
             /\ \A g \in Said(t, out) : g.kind = "XID" => g.xid.comp = Reply
  <2>1. /\ s.state # "Connected"
        /\ \A g \in Said(c, back) : g.kind # "SABME"
        /\ \A g \in Said(s, out) : g.kind = "XID" => g.xid.comp = Reply
    BY <1>9 DEF Accord
  <2>2. s.state = "Waiting" /\ t.state # "Connected"
    BY <1>1, <2>1
  <2>3. \A g \in Urges(t) : g.kind = "XID" => g.xid.comp = Reply
    BY <1>6a, <2>1, <2>2
  <2> QED
    BY <1>1, <1>6, <2>1, <2>2, <2>3
<1> QED
  BY <1>5, <1>7, <1>8, <1>9 DEF Accord

LEMMA HearAccord ==
  ASSUME NEW e \in Ends, NEW s, EndOK(e, s), NEW r, Settled(r),
         NEW out, Len(out) \in Nat, NEW back, NEW most \in Nat, NEW some \in Nat,
         Both(s, r, out, back, most, some), AccordOf(e, s, r, out, back),
         NEW rest, Popped(back, rest),
         NEW f, f = back[1], FrameOK(Peer(e), f), NEW t, t = Receive(s, f)
  PROVE  AccordOf(e, t, r, out, rest)
<1>1. Sound(s) /\ Settled(s) /\ f \in Frame
  BY DEF EndOK, FrameOK
<1>2. AccordOf(e, s, r, out, rest)
  BY LoseAccord
<1>3. CASE Counted(f)
  <2>1. f.kind # "SREJ"
    BY <1>3 DEF FrameOK, Counted, SKinds
  <2>2. /\ Alike(s, t)
        /\ t = s \/ (s.state \in {"Establishing", "Connected"} /\ t.state = "Connected")
    BY <1>1, <1>3, <2>1, HearNumberedStep
  <2>3. e = "caller" \/ s.state # "Establishing"
    BY DEF EndOK
  <2>4. \/ t.state = s.state
        \/ e = "caller" /\ s.state \in {"Establishing", "Connected"} /\ t.state = "Connected"
    BY <2>2, <2>3
  <2> QED
    BY <2>2, <2>4, PlainAccord
<1>4. CASE e = "caller" /\ ~Counted(f)
  <2>1. \/ t = s
        \/ /\ s.state = "Negotiating" /\ f.kind = "XID"
           /\ f.xid.comp = Reply =>
                t.state = "Establishing" /\ t.compression = AskerRuns(Agreed)
        \/ s.state = "Establishing" /\ t.state = "Connected" /\ Alike(s, t)
    BY <1>4, CallerHears DEF Peer
  <2>2. CASE t = s
    BY <1>2, <2>2
  <2>3. CASE /\ s.state = "Negotiating" /\ f.kind = "XID"
             /\ f.xid.comp = Reply =>
                  t.state = "Establishing" /\ t.compression = AskerRuns(Agreed)
    BY <1>4, <2>3, CallerAccord DEF AccordOf
  <2>4. CASE s.state = "Establishing" /\ t.state = "Connected" /\ Alike(s, t)
    BY <1>4, <2>4, PlainAccord
  <2> QED
    BY <2>1, <2>2, <2>3, <2>4
<1>5. CASE e = "answerer" /\ ~Counted(f)
  <2>1. CASE s.state = "Released"
    <3>1. t = s
      BY <1>5, <2>1 DEF Receive, Counted, FrameOK
    <3> QED
      BY <1>2, <3>1
  <2>2. CASE s.state # "Released"
    <3>1. s.state \in {"Waiting", "Connected"} /\ Accord(r, s, back, out)
      BY <1>5, <2>2 DEF EndOK, AccordOf
    <3>2. /\ \/ t.state = s.state
             \/ s.state = "Waiting" /\ t.state = "Connected" /\ f.kind = "SABME"
             \/ s.state = "Connected" /\ t.state = "Released"
          /\ \A g \in Urges(t) :
               \/ g \in Urges(s)
               \/ /\ g.kind \in {"UA", "XID"}
                  /\ g.kind = "XID" /\ s.state = "Waiting" =>
                       /\ g.xid.comp = Reply
                       /\ Offer["caller"] # {} => t.compression = AskedRuns(Agreed)
          /\ \/ t.compression = s.compression
             \/ t.compression = AskedRuns(Agreed) /\ Offer["caller"] # {}
      BY <1>5, AnswererHears DEF Peer
    <3>3. Accord(r, t, rest, out)
      BY <2>2, <3>1, <3>2, AnswererAccord
    <3> QED
      BY <1>5, <3>3 DEF AccordOf
  <2> QED
    BY <2>1, <2>2
<1> QED
  BY <1>3, <1>4, <1>5 DEF Ends

-----------------------------------------------------------------------------
(***************************************************************************)
(* The invariant: each end is sound and plays its part, the line carries   *)
(* what such ends say, there are counts for either direction, and the ends  *)
(* agree on compression as far as they have spoken.                        *)
(***************************************************************************)
PairInv ==
  /\ TypeOK
  /\ \A e \in Ends :
       /\ EndOK(e, end[e]) /\ CarriesFrom(e, line[e]) /\ given[e] <= ToSend[e]
       /\ Both(end[e], end[Peer(e)], line[e], line[Peer(e)], given[e], given[Peer(e)])
       /\ AccordOf(e, end[e], end[Peer(e)], line[e], line[Peer(e)])

\* What a step of end e shows: data given to it, or a change of its own state,
\* which is the end of a connection only if the peer was silent or the answerer
\* heard SABME again.
Shows(e) ==
  /\ end' = [end EXCEPT ![e] = end'[e]]
  /\ \/ /\ given' = [given EXCEPT ![e] = @ + 1] /\ end[e].state # "Released"
        /\ end'[e].state = end[e].state
        /\ Len(end'[e].received) = Len(end[e].received)
     \/ given' = given /\ Reaches(end[e], end'[e])
  /\ end[e].state = "Connected" /\ end'[e].state = "Released" =>
       \/ end[e].retries = N400 - 1
       \/ /\ e = "answerer" /\ line["caller"] # <<>>
          /\ Head(line["caller"]).kind = "SABME"
          /\ line' # line /\ ~Untouched(end[e])

LEMMA Peers ==
  ASSUME NEW e \in Ends
  PROVE  /\ Peer(e) \in Ends /\ Peer(e) # e /\ Peer(Peer(e)) = e
         /\ \A d \in Ends : d = e \/ d = Peer(e)
BY DEF Ends, Peer

\* A step of end e that changes nothing of its peer.
LEMMA StepKeeps ==
  ASSUME PairInv, NEW e \in Ends, NEW t, EndOK(e, t), end' = [end EXCEPT ![e] = t],
         line' \in [Ends -> Seq(Frame)], CarriesFrom(e, line'[e]),
         CarriesFrom(Peer(e), line'[Peer(e)]),
         NEW n \in Nat, n <= ToSend[e], given' = [given EXCEPT ![e] = n],
         upsets' \in 0 .. MaxUpsets,
         Both(t, end[Peer(e)], line'[e], line'[Peer(e)], n, given[Peer(e)]),
         AccordOf(e, t, end[Peer(e)], line'[e], line'[Peer(e)])
  PROVE  PairInv'
<1> DEFINE d == Peer(e)
<1>1. d \in Ends /\ d # e /\ Peer(d) = e /\ \A c \in Ends : c = e \/ c = d
  BY Peers
<1>2. t \in EndState
  BY DEF EndOK, Sound
<1>3. end \in [Ends -> EndState] /\ given \in [Ends -> Nat]
  BY DEF PairInv, TypeOK
<1>4. EndOK(d, end[d]) /\ given[d] <= ToSend[d]
  BY <1>1 DEF PairInv
<1> HIDE DEF d
<1>5. end'[e] = t /\ end'[d] = end[d] /\ given'[e] = n /\ given'[d] = given[d]
  BY <1>1, <1>3
<1>6. TypeOK'
  BY <1>2, <1>3 DEF TypeOK
<1>7. Both(t, end[d], line'[e], line'[d], n, given[d]) /\ CarriesFrom(d, line'[d])
  BY DEF d
<1>8. Both(end[d], t, line'[d], line'[e], given[d], n)
  BY <1>7 DEF Both
<1>8a. /\ AccordOf(e, t, end[d], line'[e], line'[d])
       /\ AccordOf(d, end[d], t, line'[d], line'[e])
  BY AccordTurned DEF d
<1>9. ASSUME NEW c \in Ends
      PROVE  /\ EndOK(c, end'[c]) /\ CarriesFrom(c, line'[c]) /\ given'[c] <= ToSend[c]
             /\ Both(end'[c], end'[Peer(c)], line'[c], line'[Peer(c)], given'[c], given'[Peer(c)])
             /\ AccordOf(c, end'[c], end'[Peer(c)], line'[c], line'[Peer(c)])
  <2>1. CASE c = e
    BY <1>5, <1>7, <1>8a, <2>1 DEF d
  <2>2. CASE c = d
    BY <1>1, <1>4, <1>5, <1>7, <1>8, <1>8a, <2>2
  <2> QED
    BY <1>1, <2>1, <2>2
<1> QED
  BY <1>6, <1>9 DEF PairInv

LEMMA Beginnings ==
  ASSUME NEW e \in Ends,
         NEW s, s = IF e = "caller" THEN Originate(Offer[e]) ELSE Answer(Offer[e])
  PROVE  /\ EndOK(e, s) /\ s.state \in {"Waiting", "Negotiating"} /\ s.compression = {}
         /\ s.va = 0 /\ s.vr = 0 /\ s.sent = <<>> /\ s.queue = <<>> /\ s.received = <<>>
         /\ s.state = "Negotiating" <=> e = "caller"
         /\ \A g \in Urges(s) : e = "caller" /\ g = Ask(Offer["caller"])
<1> DEFINE state == IF e = "caller" THEN "Negotiating" ELSE "Waiting"
           p == Fresh(state, Offer[e])
<1>1. Offer[e] \in Directions /\ state \in {"Waiting", "Negotiating"}
  BY LapmPairAssumption
<1>2. Sound(p) /\ p \in EndState
  BY <1>1, FreshSound DEF Sound
<1>3. /\ p.state = state /\ p.va = 0 /\ p.vr = 0 /\ p.sent = <<>> /\ p.queue = <<>>
      /\ p.received = <<>> /\ p.retries = 0 /\ p.offer = Offer[e] /\ p.urgent = <<>>
      /\ p.compression = {}
  BY DEF Fresh
<1>4. Urges(p) = {}
  <2>1. Len(p.urgent) = 0
    BY <1>3
  <2> QED
    BY <2>1 DEF Urges
<1>5. s = IF e = "caller" THEN Queue(p, Ask(Offer["caller"]), TRUE) ELSE p
  BY <1>3 DEF Originate, Answer, SendXidCommand, Ask
<1>5a. Sound(s)
  <2>1. s = IF e = "caller" THEN SendXidCommand(p) ELSE p
    BY DEF Originate, Answer
  <2> QED
    BY <1>2, <2>1, SendXidCommandSound
<1> HIDE DEF p
<1>6. /\ s.state = state /\ s.va = 0 /\ s.vr = 0 /\ s.sent = <<>> /\ s.queue = <<>>
      /\ s.received = <<>> /\ s.retries = 0 /\ s.offer = Offer[e] /\ s.compression = {}
      /\ \A g \in Urges(s) : e = "caller" /\ g = Ask(Offer["caller"])
  <2>1. CASE e = "caller"
    <3>1. TRUE \in BOOLEAN /\ Ask(Offer["caller"]) \in Frame
      BY AskIsFrame
    <3>2. s = Queue(p, Ask(Offer["caller"]), TRUE)
      BY <1>5, <2>1
    <3>3. /\ Same(p, s) /\ s.retries = p.retries /\ s.compression = p.compression
          /\ \A g \in Urges(s) : g \in Urges(p) \/ g = Ask(Offer["caller"])
      BY <1>2, <3>1, <3>2, QueueFacts, Zenon
    <3> QED
      BY <1>3, <1>4, <2>1, <3>3 DEF Same
  <2>2. CASE e # "caller"
    BY <1>3, <1>4, <1>5, <2>2
  <2> QED
    BY <2>1, <2>2
<1>7. Settled(s) /\ Persists(s)
  BY <1>6, LapmAssumption DEF Settled, Persists, Opening
<1>8. \A g \in Urges(s) : FrameOK(e, g) /\ ~Counted(g)
  BY <1>6, AskIsFrame DEF FrameOK, Counted, SKinds
<1>9. EndOK(e, s)
  BY <1>5a, <1>6, <1>7, <1>8 DEF EndOK
<1> QED
  BY <1>6, <1>9 DEF Ends

LEMMA InitKept == Init => PairInv
<1> SUFFICES ASSUME Init PROVE PairInv
  OBVIOUS
<1>1. \A e \in Ends :
        /\ EndOK(e, end[e]) /\ end[e].state \in {"Waiting", "Negotiating"}
        /\ end[e].compression = {}
        /\ \A g \in Urges(end[e]) : e = "caller" /\ g = Ask(Offer["caller"])
        /\ end[e].va = 0 /\ end[e].vr = 0
        /\ end[e].sent = <<>> /\ end[e].queue = <<>> /\ end[e].received = <<>>
  BY Beginnings DEF Init
<1>2. \A e \in Ends : line[e] = <<>> /\ given[e] = 0
  BY DEF Init
<1>3. \A e \in Ends : end[e] \in EndState /\ 0 <= ToSend[e]
  BY <1>1, LapmPairAssumption DEF EndOK, Sound
<1>4. TypeOK
  <2>1. end = [e \in Ends |-> end[e]]
    BY DEF Init
  <2>2. end \in [Ends -> EndState]
    BY <1>3, <2>1
  <2>3. line \in [Ends -> Seq(Frame)] /\ given \in [Ends -> Nat]
    BY EmptySeq DEF Init
  <2> QED
    BY <2>2, <2>3, LapmPairAssumption DEF Init, TypeOK
<1>5. \A e \in Ends : CarriesFrom(e, line[e])
  <2>1. <<>> \in Seq(Frame) /\ 1 .. Len(<<>>) = {}
    BY EmptySeq
  <2> QED
    BY <1>2, <2>1 DEF CarriesFrom
<1>6. \A e \in Ends :
        Both(end[e], end[Peer(e)], line[e], line[Peer(e)], given[e], given[Peer(e)])
  <2>1. ASSUME NEW e \in Ends, NEW d \in Ends PROVE Way(end[e], end[d], line[e], line[d], given[e])
    BY <1>1, <1>2, WayBegins
  <2> QED
    BY <2>1, Peers DEF Both
<1>7. \A e \in Ends : AccordOf(e, end[e], end[Peer(e)], line[e], line[Peer(e)])
  <2> SUFFICES ASSUME NEW e \in Ends
               PROVE  AccordOf(e, end[e], end[Peer(e)], line[e], line[Peer(e)])
    OBVIOUS
  <2> DEFINE s == end[e]
             r == end[Peer(e)]
  <2>1. Peer(e) \in Ends /\ Peer(e) # e /\ (Peer(e) = "caller" => e = "answerer")
    BY DEF Ends, Peer
  <2>2. /\ s.state \in {"Waiting", "Negotiating"} /\ s.compression = {}
        /\ r.state \in {"Waiting", "Negotiating"} /\ r.compression = {}
        /\ \A g \in Urges(s) : e = "caller" /\ g = Ask(Offer["caller"])
        /\ \A g \in Urges(r) : e = "answerer" /\ g = Ask(Offer["caller"])
    BY <1>1, <2>1
  <2>3. line[e] = <<>> /\ line[Peer(e)] = <<>>
    BY <1>2, <2>1
  <2> HIDE DEF s, r
  <2>4. AccordOf(e, s, r, <<>>, <<>>)
    BY <2>2, AccordBegins
  <2> QED
    BY <2>3, <2>4 DEF s, r
<1> QED
  BY <1>1, <1>2, <1>3, <1>4, <1>5, <1>6, <1>7 DEF PairInv

\* What holds of an end and its peer.
LEMMA InvOf ==
  ASSUME PairInv, NEW e \in Ends
  PROVE  /\ EndOK(e, end[e]) /\ end[e] \in EndState /\ CarriesFrom(e, line[e])
         /\ given[e] \in Nat /\ given[e] <= ToSend[e] /\ Settled(end[e])
         /\ line[e] \in Seq(Frame) /\ Len(line[e]) \in Nat
         /\ Both(end[e], end[Peer(e)], line[e], line[Peer(e)], given[e], given[Peer(e)])
         /\ AccordOf(e, end[e], end[Peer(e)], line[e], line[Peer(e)])
<1>1. EndOK(e, end[e]) /\ end[e] \in EndState /\ Settled(end[e]) /\ given[e] \in Nat
  BY DEF PairInv, TypeOK, EndOK
<1>2. line[e] \in Seq(Frame) /\ Len(line[e]) \in Nat
  BY LenProperties DEF PairInv, TypeOK
<1> QED
  BY <1>1, <1>2 DEF PairInv

LEMMA SendKept ==
  ASSUME PairInv, NEW e \in Ends, Send(e)
  PROVE  PairInv' /\ Shows(e)
<1> DEFINE d == Peer(e)
           s == end[e]
           n == given[e]
           t == SendData(s, n + 1)
<1>1. d \in Ends /\ d # e
  BY Peers
<1>2. /\ EndOK(e, s) /\ s \in EndState /\ CarriesFrom(e, line[e]) /\ n \in Nat
      /\ Both(s, end[d], line[e], line[d], n, given[d])
      /\ AccordOf(e, s, end[d], line[e], line[d])
  BY InvOf
<1>3. Settled(end[d]) /\ CarriesFrom(d, line[d])
  BY <1>1, InvOf
<1>4. n < ToSend[e] /\ s.state # "Released"
  BY DEF Send
<1>5. n + 1 \in Nat /\ n + 1 <= ToSend[e] /\ n + 1 \in Data
  <2>1. ToSend[e] \in Nat /\ 1 .. ToSend[e] \subseteq Data
    BY LapmPairAssumption
  <2> QED
    BY <1>2, <1>4, <2>1
<1>6. /\ t.state = s.state /\ t.vr = s.vr /\ t.received = s.received /\ t.offer = s.offer
      /\ t.retries = s.retries /\ t.urgent = s.urgent /\ Sound(t)
      /\ t.compression = s.compression
  <2>1. Sound(t)
    BY <1>2, <1>5, SendDataSound DEF EndOK
  <2> QED
    BY <1>2, <1>4, <2>1 DEF SendData, EndState
<1>7. Both(t, end[d], line[e], line[d], n + 1, given[d])
  <2>1. Way(t, end[d], line[e], line[d], n + 1)
    BY <1>2, <1>4, <1>5, WayGiven DEF Both
  <2>2. CarriesIn(s, t) /\ CarriesOut(end[d], end[d])
    BY <1>3, <1>6 DEF CarriesIn, CarriesOut, Settled, Opening
  <2>3. Way(end[d], t, line[d], line[e], given[d])
    BY <1>2, <2>2, WayCarried DEF Both
  <2> QED
    BY <2>1, <2>3 DEF Both
<1>8. /\ end' = [end EXCEPT ![e] = t] /\ given' = [given EXCEPT ![e] = n + 1]
      /\ line' = line /\ upsets' = upsets
  BY DEF Send
<1>9. end \in [Ends -> EndState] /\ line \in [Ends -> Seq(Frame)] /\ upsets \in 0 .. MaxUpsets
  BY DEF PairInv, TypeOK
<1> HIDE DEF t, n, s
<1>10. EndOK(e, t)
  <2>1. Urges(t) = Urges(s)
    BY <1>6 DEF Urges
  <2>2. Persists(t)
    BY <1>2, <1>6 DEF EndOK, Persists
  <2> QED
    BY <1>2, <1>6, <1>7, <2>1, <2>2, EndKept
<1>10a. AccordOf(e, t, end[d], line[e], line[d])
  <2>1. \A g \in Said(t, line[e]) : g \in Said(s, line[e])
    BY <1>6 DEF Urges, Said
  <2>2. \A g \in Said(end[d], line[d]) : g \in Said(end[d], line[d])
    OBVIOUS
  <2>3. Agreeing(t) => Agreeing(s)
    BY <1>6 DEF Agreeing
  <2> QED
    BY <1>2, <1>6, <2>1, <2>2, <2>3, AccordStays
<1>11. PairInv'
  BY <1>2, <1>3, <1>5, <1>7, <1>8, <1>9, <1>10, <1>10a, StepKeeps
<1>12. Shows(e)
  <2>1. end'[e] = t
    BY <1>8, <1>9
  <2> QED
    BY <1>4, <1>6, <1>8, <2>1 DEF Shows, s, n
<1> QED
  BY <1>11, <1>12

LEMMA NextIsFrame ==
  ASSUME NEW e, NEW s, EndOK(e, s), Has(s) # "nothing"
  PROVE  NextFrame(s) \in Frame
<1>1. Sound(s)
  BY DEF EndOK
<1>2. CASE Has(s) = "urgent"
  <2> DEFINE t == [s EXCEPT !.urgent = Tail(@), !.timer = @ \/ Head(s.urgent).timed]
             f == Head(s.urgent).frame
  <2>1. s.urgent # <<>> /\ NextFrame(s) = f
    BY <1>2 DEF Has, NextFrame
  <2>2. f \in Urges(s)
    BY <1>1, <2>1, UrgentFacts
  <2> HIDE DEF f
  <2> QED
    BY <2>1, <2>2 DEF EndOK, FrameOK
<1>3. CASE Has(s) \in {"reject", "final", "poll", "ack"}
  BY <1>1, <1>3, OwedFacts
<1>4. CASE Has(s) = "data"
  BY <1>1, <1>4, DataFacts
<1> QED
  BY <1>2, <1>3, <1>4, HasKinds

LEMMA CarriesMore ==
  ASSUME NEW e, NEW out, NEW more \in Seq(Frame), NEW f, CarriesFrom(e, out), FrameOK(e, f),
         Pushed(out, more, f)
  PROVE  CarriesFrom(e, more)
<1>1. Len(more) = Len(out) + 1 /\ \A i \in 1 .. Len(out) + 1 : i \in 1 .. Len(out) \/ i = Len(out) + 1
  BY PushedAt
<1>2. more[Len(out) + 1] = f /\ \A i \in 1 .. Len(out) : more[i] = out[i]
  BY DEF Pushed
<1>3. ASSUME NEW i \in 1 .. Len(more) PROVE FrameOK(e, more[i])
  BY <1>1, <1>2, <1>3 DEF CarriesFrom
<1> QED
  BY <1>3 DEF CarriesFrom

LEMMA CarriesLess ==
  ASSUME NEW e, NEW out, NEW rest \in Seq(Frame), CarriesFrom(e, out), Popped(out, rest)
  PROVE  CarriesFrom(e, rest) /\ FrameOK(e, out[1])
<1>1. /\ 1 \in 1 .. Len(out)
      /\ \A i \in 1 .. Len(rest) : i + 1 \in 1 .. Len(out) /\ rest[i] = out[i + 1]
  BY PoppedAt
<1> QED
  BY <1>1 DEF CarriesFrom

\* The pump asks end e for a frame.
LEMMA TransmitKept ==
  ASSUME PairInv, NEW e \in Ends, NEW s, EndOK(e, s),
         Both(s, end[Peer(e)], line[e], line[Peer(e)], given[e], given[Peer(e)]),
         AccordOf(e, s, end[Peer(e)], line[e], line[Peer(e)]),
         TransmitFrom(e, s), upsets' \in 0 .. MaxUpsets
  PROVE  /\ PairInv' /\ end' = [end EXCEPT ![e] = end'[e]] /\ given' = given
         /\ Reaches(s, end'[e]) /\ end'[e].state = s.state
<1> DEFINE d == Peer(e)
           t == AfterNextFrame(s)
           f == NextFrame(s)
           more == Append(line[e], f)
<1>1. d \in Ends /\ d # e
  BY Peers
<1>2. /\ CarriesFrom(e, line[e]) /\ given[e] \in Nat /\ given[e] <= ToSend[e]
      /\ line[e] \in Seq(Frame) /\ Len(line[e]) \in Nat
  BY InvOf
<1>3. Settled(end[d]) /\ CarriesFrom(d, line[d])
  BY <1>1, InvOf
<1>4. /\ end \in [Ends -> EndState] /\ line \in [Ends -> Seq(Frame)]
      /\ given \in [Ends -> Nat]
  BY DEF PairInv, TypeOK
<1>5. given' = given /\ given' = [given EXCEPT ![e] = given[e]] /\ end' = [end EXCEPT ![e] = t]
  BY <1>4 DEF TransmitFrom
<1>6. end'[e] = t
  BY <1>4, <1>5
<1>7. /\ EndOK(e, t) /\ Reaches(s, t) /\ t.state = s.state
      /\ line' \in [Ends -> Seq(Frame)] /\ line'[d] = line[d] /\ CarriesFrom(e, line'[e])
      /\ Both(t, end[d], line'[e], line'[d], given[e], given[d])
      /\ AccordOf(e, t, end[d], line'[e], line'[d])
  <2>1. CASE Has(s) = "nothing"
    <3>1. t = s /\ line' = line
      BY <2>1 DEF AfterNextFrame, TransmitFrom
    <3>2. Reaches(s, s)
      BY DEF Reaches
    <3> HIDE DEF t
    <3> QED
      BY <1>2, <1>4, <3>1, <3>2
  <2>2. CASE Has(s) # "nothing"
    <3>1. f \in Frame
      BY <2>2, NextIsFrame
    <3>2. more \in Seq(Frame) /\ Pushed(line[e], more, f)
      BY <1>2, <3>1, AppendPushes
    <3>3. line' = [line EXCEPT ![e] = more]
      BY <2>2 DEF TransmitFrom
    <3>4. /\ EndOK(e, t) /\ FrameOK(e, f)
          /\ Both(t, end[d], more, line[d], given[e], given[d])
          /\ Reaches(s, t) /\ Plainly(s, t) /\ (Counted(f) \/ f \in Urges(s))
      <4>1. t = AfterNextFrame(s) /\ f = NextFrame(s)
        OBVIOUS
      <4>2. Both(s, end[d], line[e], line[d], given[e], given[d])
        OBVIOUS
      <4> HIDE DEF more, t, f, d
      <4> QED
        BY <1>2, <1>3, <2>2, <3>2, <4>1, <4>2, TransmitStep
    <3> HIDE DEF more, t, f
    <3>4a. AccordOf(e, t, end[d], more, line[d])
      BY <3>2, <3>4, TransmitAccord
    <3>5. CarriesFrom(e, more)
      BY <1>2, <3>2, <3>4, CarriesMore
    <3>6. line' \in [Ends -> Seq(Frame)] /\ line'[e] = more /\ line'[d] = line[d]
      BY <1>1, <1>4, <3>2, <3>3
    <3> QED
      BY <3>4, <3>4a, <3>5, <3>6 DEF Plainly
  <2> QED
    BY <2>1, <2>2
<1> HIDE DEF t
<1>8. PairInv'
  BY <1>2, <1>3, <1>5, <1>7, StepKeeps
<1> QED
  BY <1>5, <1>6, <1>7, <1>8

\* The frame at the head of the line to an end leaves it.
LEMMA LineShortened ==
  ASSUME PairInv, NEW e \in Ends, line[Peer(e)] # <<>>,
         line' = [line EXCEPT ![Peer(e)] = Tail(@)]
  PROVE  /\ line' \in [Ends -> Seq(Frame)] /\ line'[e] = line[e]
         /\ Popped(line[Peer(e)], line'[Peer(e)]) /\ line' # line
         /\ CarriesFrom(Peer(e), line'[Peer(e)])
         /\ Head(line[Peer(e)]) = line[Peer(e)][1] /\ FrameOK(Peer(e), line[Peer(e)][1])
<1> DEFINE d == Peer(e)
           rest == Tail(line[d])
<1>1. d \in Ends /\ d # e
  BY Peers
<1>2. line \in [Ends -> Seq(Frame)] /\ CarriesFrom(d, line[d])
  BY <1>1 DEF PairInv, TypeOK
<1>3. /\ rest \in Seq(Frame) /\ Popped(line[d], rest) /\ Head(line[d]) = line[d][1]
  BY <1>1, <1>2, TailPops
<1>4. CarriesFrom(d, rest) /\ FrameOK(d, line[d][1])
  BY <1>2, <1>3, CarriesLess
<1>5. line' = [line EXCEPT ![d] = rest]
  OBVIOUS
<1> HIDE DEF rest
<1>6. line'[e] = line[e] /\ line'[d] = rest /\ line' \in [Ends -> Seq(Frame)]
  BY <1>1, <1>2, <1>3, <1>5
<1>7. line' # line
  <2>1. Len(line[d]) = Len(rest) + 1 /\ Len(rest) \in Nat
    BY <1>3 DEF Popped
  <2>2. Len(line[d]) # Len(rest)
    BY <2>1
  <2> QED
    BY <1>6, <2>2
<1> QED
  BY <1>3, <1>4, <1>6, <1>7

LEMMA HearKept ==
  ASSUME PairInv, NEW e \in Ends, NEW s, EndOK(e, s),
         Both(s, end[Peer(e)], line[e], line[Peer(e)], given[e], given[Peer(e)]),
         AccordOf(e, s, end[Peer(e)], line[e], line[Peer(e)]),
         HearWith(e, s), upsets' \in 0 .. MaxUpsets
  PROVE  /\ PairInv' /\ end' = [end EXCEPT ![e] = end'[e]] /\ given' = given
         /\ Reaches(s, end'[e])
         /\ s.state = "Connected" /\ end'[e].state = "Released" =>
              /\ e = "answerer" /\ line["caller"] # <<>>
              /\ Head(line["caller"]).kind = "SABME"
              /\ line' # line /\ ~Untouched(s)
<1> DEFINE d == Peer(e)
           f == line[d][1]
           t == Receive(s, f)
<1>1. d \in Ends /\ d # e
  BY Peers
<1>2. /\ CarriesFrom(e, line[e]) /\ given[e] \in Nat /\ given[e] <= ToSend[e]
      /\ Len(line[e]) \in Nat
  BY InvOf
<1>3. Settled(end[d]) /\ given[d] \in Nat
  BY <1>1, InvOf
<1>4. /\ end \in [Ends -> EndState] /\ given \in [Ends -> Nat]
  BY DEF PairInv, TypeOK
<1>5. /\ line' \in [Ends -> Seq(Frame)] /\ line'[e] = line[e]
      /\ Popped(line[d], line'[d]) /\ line' # line /\ CarriesFrom(d, line'[d])
      /\ Head(line[d]) = f /\ FrameOK(d, f)
  BY LineShortened DEF HearWith
<1>6. given' = given /\ given' = [given EXCEPT ![e] = given[e]] /\ end' = [end EXCEPT ![e] = t]
  BY <1>4, <1>5 DEF HearWith
<1>7. end'[e] = t
  BY <1>4, <1>6
<1>8. /\ EndOK(e, t) /\ Both(t, end[d], line[e], line'[d], given[e], given[d])
      /\ Reaches(s, t) /\ AccordOf(e, t, end[d], line[e], line'[d])
      /\ s.state = "Connected" /\ t.state = "Released" =>
           e = "answerer" /\ f.kind = "SABME" /\ ~Untouched(s)
  <2>1. /\ Both(s, end[d], line[e], line[d], given[e], given[d]) /\ FrameOK(Peer(e), f)
        /\ AccordOf(e, s, end[d], line[e], line[d])
    BY <1>5
  <2>2. t = Receive(s, f) /\ f = line[d][1]
    OBVIOUS
  <2> DEFINE rest == line'[d]
  <2>3. Popped(line[d], rest)
    BY <1>5
  <2> HIDE DEF t, f, d, rest
  <2>4. /\ EndOK(e, t) /\ Both(t, end[d], line[e], rest, given[e], given[d])
        /\ Reaches(s, t)
        /\ s.state = "Connected" /\ t.state = "Released" =>
             e = "answerer" /\ f.kind = "SABME" /\ ~Untouched(s)
    BY <1>2, <1>3, <2>1, <2>2, <2>3, HearStep
  <2>5. AccordOf(e, t, end[d], line[e], rest)
    BY <1>2, <1>3, <2>1, <2>2, <2>3, HearAccord
  <2> QED
    BY <2>4, <2>5 DEF rest
<1>9. line[d] # <<>>
  BY DEF HearWith
<1> HIDE DEF t
<1>10. PairInv'
  BY <1>2, <1>5, <1>6, <1>8, StepKeeps
<1>11. s.state = "Connected" /\ t.state = "Released" =>
         /\ e = "answerer" /\ line["caller"] # <<>>
         /\ Head(line["caller"]).kind = "SABME"
         /\ line' # line /\ ~Untouched(s)
  BY <1>5, <1>8, <1>9 DEF Peer
<1> QED
  BY <1>6, <1>7, <1>8, <1>10, <1>11

LEMMA LoseKept ==
  ASSUME PairInv, NEW e \in Ends, Lose(e)
  PROVE  PairInv' /\ Shows(e)
<1> DEFINE d == Peer(e)
           s == end[e]
<1>1. d \in Ends /\ d # e
  BY Peers
<1>2. /\ EndOK(e, s) /\ CarriesFrom(e, line[e]) /\ given[e] \in Nat /\ given[e] <= ToSend[e]
      /\ Both(s, end[d], line[e], line[d], given[e], given[d])
      /\ AccordOf(e, s, end[d], line[e], line[d])
  BY InvOf
<1>3. /\ line' \in [Ends -> Seq(Frame)] /\ line'[e] = line[e]
      /\ Popped(line[d], line'[d]) /\ CarriesFrom(d, line'[d])
  BY LineShortened DEF Lose
<1>4. /\ end' = [end EXCEPT ![e] = s] /\ given' = [given EXCEPT ![e] = given[e]]
      /\ given' = given /\ end'[e] = s /\ upsets' \in 0 .. MaxUpsets
  <2>1. upsets \in 0 .. MaxUpsets /\ upsets < MaxUpsets /\ upsets' = upsets + 1
    BY DEF PairInv, TypeOK, Lose
  <2>2. end \in [Ends -> EndState] /\ given \in [Ends -> Nat]
    BY DEF PairInv, TypeOK
  <2> QED
    BY <2>1, <2>2, LapmPairAssumption DEF Lose
<1>5. Both(s, end[d], line[e], line'[d], given[e], given[d])
  BY <1>2, <1>3, LoseStep
<1>5a. AccordOf(e, s, end[d], line[e], line'[d])
  BY <1>2, <1>3, LoseAccord
<1>6. PairInv'
  BY <1>2, <1>3, <1>4, <1>5, <1>5a, StepKeeps
<1>7. Shows(e)
  BY <1>4 DEF Shows, Reaches
<1> QED
  BY <1>6, <1>7

LEMMA TransmitShows ==
  ASSUME PairInv, NEW e \in Ends, Transmit(e)
  PROVE  PairInv' /\ Shows(e)
<1>1. /\ EndOK(e, end[e])
      /\ Both(end[e], end[Peer(e)], line[e], line[Peer(e)], given[e], given[Peer(e)])
      /\ AccordOf(e, end[e], end[Peer(e)], line[e], line[Peer(e)])
  BY InvOf
<1>2. TransmitFrom(e, end[e]) /\ upsets' \in 0 .. MaxUpsets
  BY DEF Transmit, PairInv, TypeOK
<1>3. /\ PairInv' /\ end' = [end EXCEPT ![e] = end'[e]] /\ given' = given
      /\ Reaches(end[e], end'[e]) /\ end'[e].state = end[e].state
  BY <1>1, <1>2, TransmitKept
<1> QED
  BY <1>3 DEF Shows

LEMMA HearShows ==
  ASSUME PairInv, NEW e \in Ends, Hear(e)
  PROVE  PairInv' /\ Shows(e)
<1>1. /\ EndOK(e, end[e])
      /\ Both(end[e], end[Peer(e)], line[e], line[Peer(e)], given[e], given[Peer(e)])
      /\ AccordOf(e, end[e], end[Peer(e)], line[e], line[Peer(e)])
  BY InvOf
<1>2. HearWith(e, end[e]) /\ upsets' \in 0 .. MaxUpsets
  BY DEF Hear, PairInv, TypeOK
<1>3. /\ PairInv' /\ end' = [end EXCEPT ![e] = end'[e]] /\ given' = given
      /\ Reaches(end[e], end'[e])
      /\ end[e].state = "Connected" /\ end'[e].state = "Released" =>
           /\ e = "answerer" /\ line["caller"] # <<>>
           /\ Head(line["caller"]).kind = "SABME"
           /\ line' # line /\ ~Untouched(end[e])
  BY <1>1, <1>2, HearKept
<1> QED
  BY <1>3 DEF Shows

\* What an end is once its instant has passed.
LEMMA LateEnd ==
  ASSUME PairInv, NEW e \in Ends, RunOut(e), NEW s, s = Expire(end[e])
  PROVE  /\ EndOK(e, s) /\ Reaches(end[e], s) /\ s.state \in {end[e].state, "Released"}
         /\ Both(s, end[Peer(e)], line[e], line[Peer(e)], given[e], given[Peer(e)])
         /\ AccordOf(e, s, end[Peer(e)], line[e], line[Peer(e)])
         /\ end[e].state = "Connected" =>
              Same(end[e], s) \/ (s.state = "Released" /\ end[e].retries = N400 - 1)
         /\ upsets' \in 0 .. MaxUpsets
<1> DEFINE d == Peer(e)
           p == end[e]
<1>1. d \in Ends
  BY Peers
<1>2. /\ EndOK(e, p) /\ Both(p, end[d], line[e], line[d], given[e], given[d])
      /\ AccordOf(e, p, end[d], line[e], line[d])
  BY InvOf
<1>3. Settled(end[d])
  BY <1>1, InvOf
<1>4. upsets' \in 0 .. MaxUpsets
  <2>1. upsets \in 0 .. MaxUpsets /\ MaxUpsets \in Nat
    BY LapmPairAssumption DEF PairInv, TypeOK
  <2>2. upsets' = upsets \/ (upsets < MaxUpsets /\ upsets' = upsets + 1)
    BY DEF RunOut
  <2> QED
    BY <2>1, <2>2
<1>5. s = Expire(p)
  OBVIOUS
<1> HIDE DEF p, d
<1>6. /\ EndOK(e, s) /\ Both(s, end[d], line[e], line[d], given[e], given[d]) /\ Reaches(p, s)
      /\ s.state \in {p.state, "Released"}
      /\ p.state = "Connected" =>
           Same(p, s) \/ (s.state = "Released" /\ p.retries = N400 - 1)
      /\ s.compression = p.compression
      /\ \A g \in Urges(s) :
           \/ g \in Urges(p)
           \/ p.state = "Negotiating" /\ g = Ask(p.offer)
           \/ p.state = "Establishing" /\ g = Set
  BY <1>2, <1>3, <1>5, ExpireStep
<1>7. AccordOf(e, s, end[d], line[e], line[d])
  BY <1>2, <1>6, ExpireAccord
<1> QED
  BY <1>4, <1>6, <1>7 DEF p, d

LEMMA TransmitLateShows ==
  ASSUME PairInv, NEW e \in Ends, TransmitLate(e)
  PROVE  PairInv' /\ Shows(e)
<1> DEFINE p == end[e]
           s == Expire(p)
<1>1. RunOut(e) /\ TransmitFrom(e, s)
  BY DEF TransmitLate
<1>2. /\ EndOK(e, s) /\ Reaches(p, s) /\ s.state \in {p.state, "Released"}
      /\ Both(s, end[Peer(e)], line[e], line[Peer(e)], given[e], given[Peer(e)])
      /\ AccordOf(e, s, end[Peer(e)], line[e], line[Peer(e)])
      /\ p.state = "Connected" =>
           Same(p, s) \/ (s.state = "Released" /\ p.retries = N400 - 1)
      /\ upsets' \in 0 .. MaxUpsets
  BY <1>1, LateEnd
<1> HIDE DEF s
<1>3. /\ PairInv' /\ end' = [end EXCEPT ![e] = end'[e]] /\ given' = given
      /\ Reaches(s, end'[e]) /\ end'[e].state = s.state
  BY <1>1, <1>2, TransmitKept
<1> HIDE DEF p
<1>4. Reaches(p, end'[e])
  BY <1>2, <1>3, ReachesLater
<1>5. p.state = "Connected" /\ end'[e].state = "Released" => p.retries = N400 - 1
  BY <1>2, <1>3 DEF Same
<1> QED
  BY <1>3, <1>4, <1>5 DEF Shows, p

LEMMA HearLateShows ==
  ASSUME PairInv, NEW e \in Ends, HearLate(e)
  PROVE  PairInv' /\ Shows(e)
<1> DEFINE p == end[e]
           s == Expire(p)
<1>1. RunOut(e) /\ HearWith(e, s)
  BY DEF HearLate
<1>2. /\ EndOK(e, s) /\ Reaches(p, s) /\ s.state \in {p.state, "Released"}
      /\ Both(s, end[Peer(e)], line[e], line[Peer(e)], given[e], given[Peer(e)])
      /\ AccordOf(e, s, end[Peer(e)], line[e], line[Peer(e)])
      /\ p.state = "Connected" =>
           Same(p, s) \/ (s.state = "Released" /\ p.retries = N400 - 1)
      /\ upsets' \in 0 .. MaxUpsets
  BY <1>1, LateEnd
<1> HIDE DEF s
<1>3. /\ PairInv' /\ end' = [end EXCEPT ![e] = end'[e]] /\ given' = given
      /\ Reaches(s, end'[e])
      /\ s.state = "Connected" /\ end'[e].state = "Released" =>
           /\ e = "answerer" /\ line["caller"] # <<>>
           /\ Head(line["caller"]).kind = "SABME"
           /\ line' # line /\ ~Untouched(s)
  BY <1>1, <1>2, HearKept
<1> HIDE DEF p
<1>4. Reaches(p, end'[e])
  BY <1>2, <1>3, ReachesLater
<1>5. p.state = "Connected" /\ end'[e].state = "Released" =>
        \/ p.retries = N400 - 1
        \/ /\ e = "answerer" /\ line["caller"] # <<>>
           /\ Head(line["caller"]).kind = "SABME"
           /\ line' # line /\ ~Untouched(p)
  <2>1. Same(p, s) /\ ~Untouched(s) => ~Untouched(p)
    BY DEF Same, Untouched
  <2>2. Same(p, s) => s.state = p.state
    BY DEF Same
  <2> QED
    BY <1>2, <1>3, <2>1, <2>2
<1> QED
  BY <1>3, <1>4, <1>5 DEF Shows, p

LEMMA PairStep ==
  ASSUME PairInv, [Next]_vars
  PROVE  PairInv' /\ (UNCHANGED vars \/ \E e \in Ends : Shows(e))
<1>1. CASE UNCHANGED vars
  BY <1>1 DEF PairInv, TypeOK, vars
<1>2. ASSUME NEW e \in Ends,
             Send(e) \/ Transmit(e) \/ TransmitLate(e) \/ Hear(e) \/ HearLate(e) \/ Lose(e)
      PROVE  PairInv' /\ Shows(e)
  BY <1>2, SendKept, TransmitShows, TransmitLateShows, HearShows, HearLateShows, LoseKept
<1> QED
  BY <1>1, <1>2 DEF Next

-----------------------------------------------------------------------------
(***************************************************************************)
(* The theorems.                                                           *)
(***************************************************************************)

\* The counts of both directions are kept by every step of the two ends and of
\* the line: sending, retransmission, recovery, loss, and numbers that wrap.
THEOREM PairInvariance == Spec => []PairInv
<1>1. PairInv /\ [Next]_vars => PairInv'
  BY PairStep
<1> QED
  BY InitKept, <1>1, PTL DEF Spec

\* The two ends and the line keep their types, whatever is lost or late.
THEOREM PairTypeCorrect == Spec => []TypeOK
<1>1. PairInv => TypeOK
  BY DEF PairInv
<1> QED
  BY PairInvariance, <1>1, PTL

\* V(R) of an end names a frame its peer keeps, or the one that comes next.
THEOREM NumbersAlwaysAgree == Spec => []NumbersAgree
<1>1. PairInv => NumbersAgree
  <2> SUFFICES ASSUME PairInv, NEW e \in Ends, end[e].state = "Connected"
               PROVE  Past(end[Peer(e)].vr, end[e].va) <= Len(end[e].sent)
    BY DEF NumbersAgree
  <2>1. Way(end[e], end[Peer(e)], line[e], line[Peer(e)], given[e])
    BY InvOf DEF Both
  <2>2. end[e].state # "Released"
    OBVIOUS
  <2> QED
    BY <2>1, <2>2, WayNumbers
<1> QED
  BY PairInvariance, <1>1, PTL

\* What the computer at an end gave its modem has arrived, or the modem keeps
\* it, until it gives the connection up.
THEOREM NothingIsLost == Spec => []NothingLost
<1>1. PairInv => NothingLost
  <2> SUFFICES ASSUME PairInv, NEW e \in Ends, end[e].state # "Released"
               PROVE  LET kept == Append(end[e].sent, end[e].queue)
                      IN  /\ \A u \in Len(end[Peer(e)].received) + 1 .. given[e] :
                               \E i \in 1 .. Len(kept) : \E j \in 1 .. Len(kept[i]) : kept[i][j] = u
                          /\ \A i, k \in 1 .. Len(kept) :
                               \A j \in 1 .. Len(kept[i]), l \in 1 .. Len(kept[k]) :
                                 /\ kept[i][j] <= given[e]
                                 /\ i < k \/ (i = k /\ j < l) => kept[i][j] < kept[k][l]
    BY DEF NothingLost
  <2> DEFINE kept == Append(end[e].sent, end[e].queue)
             s == end[e]
             r == end[Peer(e)]
             most == given[e]
  <2>1. Way(s, r, line[e], line[Peer(e)], most) /\ most \in Nat /\ s \in EndState
    BY InvOf DEF Both
  <2>2. s.sent \in Seq(Seq(Data)) /\ s.queue \in Seq(Data)
    BY <2>1 DEF EndState
  <2>3. Pushed(s.sent, kept, s.queue)
    BY <2>2, AppendPushes
  <2>4. s.state # "Released"
    OBVIOUS
  <2> HIDE DEF kept, s, r, most
  <2>5. /\ \A u \in Len(r.received) + 1 .. most :
             \E i \in 1 .. Len(kept) : \E j \in 1 .. Len(kept[i]) : kept[i][j] = u
        /\ \A i, k \in 1 .. Len(kept) :
             \A j \in 1 .. Len(kept[i]), l \in 1 .. Len(kept[k]) :
               /\ kept[i][j] <= most
               /\ i < k \/ (i = k /\ j < l) => kept[i][j] < kept[k][l]
    BY <2>1, <2>3, <2>4, WayKept
  <2> QED
    BY <2>5 DEF kept, s, r, most
<1> QED
  BY PairInvariance, <1>1, PTL

\* Each computer gets what the other sent, in order and each unit once.
THEOREM DeliveredInOrder == Spec => []InOrderOnce
<1>1. PairInv => InOrderOnce
  <2> SUFFICES ASSUME PairInv, NEW e \in Ends
               PROVE  /\ Len(end[Peer(e)].received) <= given[e]
                      /\ \A i \in 1 .. Len(end[Peer(e)].received) : end[Peer(e)].received[i] = i
    BY DEF InOrderOnce
  <2>1. Way(end[e], end[Peer(e)], line[e], line[Peer(e)], given[e]) /\ given[e] \in Nat
    BY InvOf DEF Both
  <2>2. end[Peer(e)] \in EndState
    BY Peers, InvOf
  <2> QED
    BY <2>1, <2>2, WayInOrder
<1> QED
  BY PairInvariance, <1>1, PTL

\* Once both are connected they compress and expand in the directions agreed
\* on, mirrored, and in no direction that an end did not offer.
THEOREM CompressionAlwaysAgrees == Spec => []CompressionAgrees
<1>1. PairInv => CompressionAgrees
  <2> SUFFICES ASSUME PairInv, \A e \in Ends : end[e].state = "Connected", NEW e \in Ends
               PROVE  /\ end[e].compression \subseteq Offer[e]
                      /\ "transmit" \in end[e].compression <=>
                           "receive" \in end[Peer(e)].compression
    BY DEF CompressionAgrees
  <2>1. Accord(end["caller"], end["answerer"], line["caller"], line["answerer"])
    BY InvOf DEF AccordOf, Ends, Peer
  <2>2. end["caller"].state = "Connected"
    BY DEF Ends
  <2>3. /\ end["caller"].compression = AskerRuns(Agreed)
        /\ end["answerer"].compression = AskedRuns(Agreed)
    BY <2>1, <2>2 DEF Accord, Agreeing
  <2>4. /\ AskerRuns(Agreed) \subseteq Offer["caller"]
        /\ AskedRuns(Agreed) \subseteq Offer["answerer"]
        /\ "transmit" \in AskerRuns(Agreed) <=> "receive" \in AskedRuns(Agreed)
        /\ "transmit" \in AskedRuns(Agreed) <=> "receive" \in AskerRuns(Agreed)
    BY DEF AskerRuns, AskedRuns, Agreed, Proposal, Grantable
  <2>5. CASE e = "caller"
    BY <2>3, <2>4, <2>5 DEF Peer
  <2>6. CASE e = "answerer"
    BY <2>3, <2>4, <2>6 DEF Peer
  <2> QED
    BY <2>5, <2>6 DEF Ends
<1> QED
  BY PairInvariance, <1>1, PTL

\* Only N400 polls without an answer, or SABME again once data has flowed, end
\* a connection of two such ends.
THEOREM SilenceAloneReleases == Spec => OnlySilenceReleases
<1> DEFINE Kept ==
             \A e \in Ends :
               end[e].state = "Connected" /\ end'[e].state = "Released" =>
                 \/ end[e].retries = N400 - 1
                 \/ /\ e = "answerer" /\ line["caller"] # <<>>
                    /\ Head(line["caller"]).kind = "SABME"
                    /\ line' # line /\ ~Untouched(end[e])
<1>1. PairInv /\ [Next]_vars => [Kept]_vars
  <2> SUFFICES ASSUME PairInv, [Next]_vars, ~ UNCHANGED vars, NEW c \in Ends,
                      end[c].state = "Connected", end'[c].state = "Released"
               PROVE  \/ end[c].retries = N400 - 1
                      \/ /\ c = "answerer" /\ line["caller"] # <<>>
                         /\ Head(line["caller"]).kind = "SABME"
                         /\ line' # line /\ ~Untouched(end[c])
    BY DEF vars
  <2>1. PICK e \in Ends : Shows(e)
    BY PairStep
  <2>2. end \in [Ends -> EndState] /\ end' = [end EXCEPT ![e] = end'[e]]
    BY <2>1 DEF Shows, PairInv, TypeOK
  <2>3. c = e
    BY <2>2
  <2> QED
    BY <2>1, <2>3 DEF Shows
<1>2. OnlySilenceReleases <=> [][Kept]_vars
  BY DEF OnlySilenceReleases
<1> QED
  BY PairInvariance, <1>1, <1>2, PTL DEF Spec


-----------------------------------------------------------------------------
(***************************************************************************)
(* The two ends and the line implement the stream.                         *)
(***************************************************************************)
StatusOf(s) ==
  CASE s.state = "Connected" -> "open"
    [] s.state = "Released" -> "closed"
    [] OTHER -> "opening"
Got == [e \in Ends |-> Len(end[Peer(e)].received)]
Status == [e \in Ends |-> StatusOf(end[e])]

LEMMA StatusIs ==
  ASSUME NEW s
  PROVE  /\ s.state = "Connected" => StatusOf(s) = "open"
         /\ s.state = "Released" => StatusOf(s) = "closed"
         /\ s.state \notin {"Connected", "Released"} => StatusOf(s) = "opening"
BY DEF StatusOf

LEMMA StreamInit == PairInv /\ Init => Stream!Init
<1> SUFFICES ASSUME PairInv, Init PROVE Stream!Init
  OBVIOUS
<1>1. \A e \in Ends : end[e].state \in {"Waiting", "Negotiating"} /\ end[e].received = <<>>
  BY Beginnings DEF Init
<1>2. given = [e \in Ends |-> 0]
  BY DEF Init
<1>3. Got = [e \in Ends |-> 0]
  <2>1. \A e \in Ends : Len(end[Peer(e)].received) = 0
    BY <1>1, Peers
  <2> QED
    BY <2>1 DEF Got
<1>4. Status = [e \in Ends |-> "opening"]
  <2>1. \A e \in Ends : StatusOf(end[e]) = "opening"
    BY <1>1, StatusIs
  <2> QED
    BY <2>1 DEF Status
<1> QED
  BY <1>2, <1>3, <1>4 DEF Stream!Init, Got, Status, StatusOf

LEMMA StreamStep ==
  ASSUME PairInv, PairInv', NEW e \in Ends, Shows(e)
  PROVE  Stream!Next \/ UNCHANGED Stream!vars
<1> DEFINE d == Peer(e)
           p == end[e]
           t == end'[e]
<1>1. d \in Ends /\ d # e /\ Peer(d) = e /\ \A c \in Ends : c = e \/ c = d
  BY Peers
<1>2. end \in [Ends -> EndState] /\ end' = [end EXCEPT ![e] = t]
  BY DEF Shows, PairInv, TypeOK
<1>3. end'[d] = end[d]
  BY <1>1, <1>2
<1>4. /\ Got' = [Got EXCEPT ![d] = Len(t.received)]
      /\ Got[d] = Len(p.received) /\ Got = [c \in Ends |-> Got[c]]
  <2>1. \A c \in Ends : Got'[c] = IF c = d THEN Len(t.received) ELSE Got[c]
    BY <1>1, <1>3 DEF Got
  <2>2. Got' = [c \in Ends |-> Got'[c]] /\ Got = [c \in Ends |-> Got[c]]
    BY DEF Got
  <2>3. Got[d] = Len(p.received)
    BY <1>1 DEF Got
  <2> QED
    BY <2>1, <2>2, <2>3
<1>5. /\ Status' = [Status EXCEPT ![e] = StatusOf(t)]
      /\ Status[e] = StatusOf(p) /\ Status = [c \in Ends |-> Status[c]]
  <2>1. \A c \in Ends : Status'[c] = IF c = e THEN StatusOf(t) ELSE Status[c]
    BY <1>1, <1>3 DEF Status
  <2>2. Status' = [c \in Ends |-> Status'[c]] /\ Status = [c \in Ends |-> Status[c]]
    BY DEF Status
  <2>3. Status[e] = StatusOf(p)
    BY DEF Status
  <2> QED
    BY <2>1, <2>2, <2>3
<1>6. Len(t.received) <= given'[d] /\ Len(t.received) \in Nat /\ given'[d] \in Nat
  <2>1. Way(end'[d], t, line'[d], line'[e], given'[d]) /\ given'[d] \in Nat /\ t \in EndState
    BY <1>1 DEF PairInv, TypeOK, Both
  <2>2. t.received \in Seq(Data)
    BY <2>1 DEF EndState
  <2> HIDE DEF t
  <2> QED
    BY <2>1, <2>2, WayInOrder, LenProperties
<1>7. Len(p.received) \in Nat
  BY <1>2, LenProperties DEF EndState
<1>8. \/ /\ given' = [given EXCEPT ![e] = @ + 1] /\ p.state # "Released"
         /\ t.state = p.state /\ Len(t.received) = Len(p.received)
      \/ given' = given /\ Reaches(p, t)
  BY DEF Shows
<1> HIDE DEF p, t, d
<1>9. Len(t.received) = Len(p.received) => Got' = Got
  BY <1>1, <1>4
<1>10. StatusOf(t) = StatusOf(p) => Status' = Status
  BY <1>5
<1>11. CASE /\ given' = [given EXCEPT ![e] = @ + 1] /\ p.state # "Released"
            /\ t.state = p.state /\ Len(t.received) = Len(p.received)
  <2>1. StatusOf(t) = StatusOf(p) /\ StatusOf(p) # "closed"
    BY <1>11 DEF StatusOf
  <2>2. Got' = Got /\ Status' = Status /\ Status[e] # "closed"
    BY <1>5, <1>9, <1>10, <1>11, <2>1
  <2>3. Stream!Put(e)
    BY <1>11, <2>2 DEF Stream!Put, Got, Status, StatusOf
  <2> QED
    BY <2>3 DEF Stream!Next
<1>12. CASE given' = given /\ Reaches(p, t) /\ Len(t.received) = Len(p.received)
  <2>1. Got' = Got
    BY <1>9, <1>12
  <2>2. CASE StatusOf(t) = StatusOf(p)
    <3>1. Status' = Status
      BY <1>10, <2>2
    <3> QED
      BY <1>12, <2>1, <3>1 DEF Stream!vars, Got, Status, StatusOf
  <2>3. CASE t.state = "Released"
    <3>1. Status' = [Status EXCEPT ![e] = "closed"]
      BY <1>5, <2>3, StatusIs
    <3>2. Stream!Close(e)
      BY <1>12, <2>1, <3>1 DEF Stream!Close, Got, Status, StatusOf
    <3> QED
      BY <3>2 DEF Stream!Next
  <2>4. CASE t.state # "Released" /\ StatusOf(t) # StatusOf(p)
    <3>1. p.state # "Released"
      BY <1>12, <2>4 DEF Reaches
    <3>2. t.state = "Connected" /\ p.state # "Connected"
      <4>1. p.state \in States /\ t.state \in States
        BY <1>1, <1>2 DEF PairInv, TypeOK, EndState, p, t
      <4>2. Opening(t) => Opening(p)
        BY <1>12 DEF Reaches
      <4>3. CASE Opening(t)
        BY <2>4, <4>2, <4>3, StatusIs DEF Opening
      <4> QED
        BY <2>4, <4>1, <4>3, StatusIs DEF Opening, States
    <3>3. StatusOf(t) = "open" /\ StatusOf(p) = "opening"
      BY <3>1, <3>2, StatusIs
    <3>4. Status[e] = "opening" /\ Status' = [Status EXCEPT ![e] = "open"]
      BY <1>5, <3>3
    <3>5. Stream!Open(e)
      BY <1>12, <2>1, <3>4 DEF Stream!Open, Got, Status, StatusOf
    <3> QED
      BY <3>5 DEF Stream!Next
  <2> QED
    BY <2>2, <2>3, <2>4
<1>13. CASE /\ given' = given /\ Reaches(p, t)
            /\ t.state = "Connected" /\ Len(t.received) > Len(p.received)
  <2>1. p.state # "Released"
    BY <1>13 DEF Reaches
  <2>2. StatusOf(p) # "closed" /\ StatusOf(t) = "open"
    BY <1>13, <2>1 DEF StatusOf
  <2>3. Status[e] # "closed" /\ Status' = [Status EXCEPT ![e] = "open"]
    BY <1>5, <2>2
  <2> DEFINE n == Len(t.received)
  <2>4. n \in Got[d] + 1 .. given[d] /\ Got' = [Got EXCEPT ![d] = n]
    BY <1>4, <1>6, <1>7, <1>13
  <2> HIDE DEF n
  <2>5. [c \in Ends |-> Peer(c)][d] = e
    BY <1>1
  <2>6. Stream!Get(d)
    BY <1>13, <2>3, <2>4, <2>5 DEF Stream!Get, Got, Status, StatusOf
  <2> QED
    BY <1>1, <2>6 DEF Stream!Next
<1> QED
  BY <1>8, <1>11, <1>12, <1>13 DEF Reaches

\* Every step of the two ends and the line is a step of the reliable stream, or
\* nothing the computers see.
THEOREM PairImplementsStream == Spec => ImplementsStream
<1>1. PairInv /\ [Next]_vars => PairInv' /\ [Stream!Next]_(Stream!vars)
  <2> SUFFICES ASSUME PairInv, [Next]_vars
               PROVE  PairInv' /\ (Stream!Next \/ UNCHANGED Stream!vars)
    OBVIOUS
  <2>1. PairInv'
    BY PairStep
  <2>2. CASE UNCHANGED vars
    <3>1. UNCHANGED Stream!vars
      BY <2>2 DEF vars, Stream!vars
    <3> QED
      BY <2>1, <3>1
  <2>3. CASE \E e \in Ends : Shows(e)
    BY <2>1, <2>3, StreamStep
  <2> QED
    BY <2>2, <2>3, PairStep
<1>2. Init => PairInv /\ Stream!Init
  BY InitKept, StreamInit
<1> QED
  BY <1>1, <1>2, PTL DEF Spec, ImplementsStream, Stream!Safe
=============================================================================
