----------------------------- MODULE LinkProofs -----------------------------
(***************************************************************************)
(* Proofs about LinkPair.  That the two ends do not take the call for      *)
(* different things rests on where frames come from: only an end that has  *)
(* decided on V.42 sends any, such an end never falls back to plain        *)
(* characters, and no connection is established without a frame heard.     *)
(* That no text is lost in between rests on what an end that has not       *)
(* decided sends: its text and ODPs, in which there is no ADP to drop      *)
(* what is held.                                                           *)
(***************************************************************************)
EXTENDS LinkPair, SequenceTheorems, WellFoundedInduction, TLAPS

\* Some number of a set of natural numbers is the least: induction, for what
\* is defined by recursion.
LEMMA LeastOf ==
  ASSUME NEW T \in SUBSET Nat, T # {}
  PROVE  \E n \in T : \A m \in T : n <= m
<1>1. PICK n \in T : \A m \in T : ~(<<m, n>> \in OpToRel(<, Nat))
  BY NatLessThanWellFounded, WFMin, Zenon
<1>2. \A m \in T : ~(m < n)
  BY <1>1 DEF OpToRel
<1> QED
  BY <1>2

\* A sequence of whatever.
IsSeq(q) == \E S : q \in Seq(S)

Carries(q) == \E i \in 1 .. Len(q) : q[i].kind = "frame"

\* The end has decided on V.42, whatever became of it.
Decided(l) == l.phase \in {"Protocol", "Released"}

Connected(l) == l.phase = "Protocol" /\ l.lapm.state = "Connected"

\* What a step needs to know of a link: the fields it goes by.
Shaped(l) ==
  /\ {"phase", "lapm", "tx"} \subseteq DOMAIN l
  /\ l.phase \in Phases /\ "state" \in DOMAIN l.lapm /\ IsSeq(l.tx)

\* What becomes of a link that may have heard a frame.
GoesTo(l, r, frame) ==
  /\ Shaped(r)
  /\ Decided(l) => Decided(r)
  /\ Carries(r.tx) => Carries(l.tx) \/ Decided(r)
  /\ Connected(r) => Connected(l) \/ frame

-----------------------------------------------------------------------------
(***************************************************************************)
(* LAPM.                                                                   *)
(***************************************************************************)
\* LAPM goes on and does not get connected.
Stays(s, t) ==
  "state" \in DOMAIN t /\ (t.state = "Connected" => s.state = "Connected")

LEMMA LapmExpires ==
  ASSUME NEW s, "state" \in DOMAIN s
  PROVE  Stays(s, LAPM!Expire(s))
<1>1. CASE s.state = "Waiting"
  BY <1>1 DEF LAPM!Expire, LAPM!Release, Stays
<1>2. CASE s.state \in {"Negotiating", "Establishing"}
  BY <1>2 DEF LAPM!Expire, LAPM!Retry, LAPM!Release, LAPM!SendXidCommand, LAPM!SendSabme,
              LAPM!Queue, Stays
<1>3. CASE s.state = "Connected"
  BY <1>3 DEF LAPM!Expire, LAPM!StartPolling, LAPM!Release, Stays
<1> QED
  BY <1>1, <1>2, <1>3 DEF LAPM!Expire, Stays

LEMMA LapmTakesData ==
  ASSUME NEW s, "state" \in DOMAIN s, NEW d
  PROVE  Stays(s, LAPM!SendData(s, d))
BY DEF LAPM!SendData, Stays

LEMMA LapmSends ==
  ASSUME NEW s, "state" \in DOMAIN s
  PROVE  Stays(s, LAPM!AfterNextFrame(s))
<1>1. Stays(s, LAPM!Cut(s))
  BY DEF LAPM!Cut, Stays
<1>2. LAPM!Has(s) \in {"urgent", "nothing", "reject", "final", "poll", "data", "ack"}
  BY DEF LAPM!Has
<1>3. CASE LAPM!Has(s) = "data"
  BY <1>1, <1>3 DEF LAPM!AfterNextFrame, Stays
<1>4. CASE LAPM!Has(s) # "data"
  BY <1>2, <1>4 DEF LAPM!AfterNextFrame, Stays
<1> QED
  BY <1>3, <1>4

LEMMA LapmHears ==
  ASSUME NEW s, "state" \in DOMAIN s, NEW f
  PROVE  "state" \in DOMAIN LAPM!Receive(s, f)
<1> DEFINE E(t) == "state" \in DOMAIN t
<1>1. \A t : E(t) => E(LAPM!Release(t)) /\ E(LAPM!Connect(t))
  BY DEF LAPM!Release, LAPM!Connect
<1>2. \A t, g, timed : E(t) => E(LAPM!Queue(t, g, timed))
  BY DEF LAPM!Queue
<1>3. \A t, nr : E(t) => E(LAPM!Acknowledge(t, nr))
  BY DEF LAPM!Acknowledge
<1>4. \A t, kind, pf : E(t) => E(LAPM!Respond(t, kind, pf))
  BY <1>2 DEF LAPM!Respond
<1>5. \A t : E(t) => E(LAPM!SendSabme(t))
  BY <1>2 DEF LAPM!SendSabme
<1> HIDE DEF E
<1>6. \A t : E(t) => E(LAPM!Information(t, f))
  <2> SUFFICES ASSUME NEW t, E(t) PROVE E(LAPM!Information(t, f))
    OBVIOUS
  <2> DEFINE a == LAPM!Acknowledge(t, f.nr)
  <2>1. E(a)
    BY <1>3
  <2> HIDE DEF a
  <2>2. LAPM!Information(t, f) =
          IF ~LAPM!Valid(t, f.nr) THEN LAPM!Release(t)
          ELSE IF f.ns = a.vr THEN
            [a EXCEPT !.received = @ \o f.info, !.vr = LAPM!After(@), !.reject = FALSE,
                      !.owedFinal = @ \/ f.pf, !.owedAck = @ \/ ~f.pf]
          ELSE IF ~a.reject THEN
            [a EXCEPT !.reject = TRUE,
                      !.owedReject = IF f.pf THEN "final" ELSE "plain"]
          ELSE [a EXCEPT !.owedFinal = @ \/ f.pf]
    BY DEF LAPM!Information, a
  <2> QED
    BY <1>1, <2>1, <2>2 DEF E
<1>7. \A t : E(t) => E(LAPM!EndRecovery(t, f))
  <2> SUFFICES ASSUME NEW t, E(t) PROVE E(LAPM!EndRecovery(t, f))
    OBVIOUS
  <2>1. E(LAPM!Acknowledge(t, f.nr))
    BY <1>3
  <2> QED
    BY <2>1 DEF LAPM!EndRecovery, E
<1>8. \A t : E(t) => E(LAPM!SupervisoryIn(t, f))
  <2> SUFFICES ASSUME NEW t, E(t) PROVE E(LAPM!SupervisoryIn(t, f))
    OBVIOUS
  <2>1. E(LAPM!Acknowledge(t, f.nr))
    BY <1>3
  <2> QED
    BY <1>1, <1>7, <2>1 DEF LAPM!SupervisoryIn, E
<1>9. E(LAPM!Numbered(s, f))
  BY <1>1, <1>6, <1>8 DEF LAPM!Numbered, E
<1>10. E(LAPM!Agree(s, f.xid))
  BY <1>1, <1>2 DEF LAPM!Agree, E
<1>11. E(LAPM!Conclude(s, f.xid))
  BY <1>1, <1>5 DEF LAPM!Conclude, E
<1>12. E(LAPM!BreakSignal(s, f))
  BY <1>2 DEF LAPM!BreakSignal, E
<1>13. E(LAPM!UnnumberedCommand(s, f))
  BY <1>1, <1>4, <1>10, <1>12 DEF LAPM!UnnumberedCommand, E
<1>14. E(LAPM!UnnumberedResponse(s, f))
  BY <1>1, <1>11 DEF LAPM!UnnumberedResponse, E
<1> QED
  BY <1>1, <1>9, <1>13, <1>14 DEF LAPM!Receive, E

LEMMA LapmStarts ==
  ASSUME NEW offer
  PROVE  /\ "state" \in DOMAIN LAPM!Originate(offer)
         /\ LAPM!Originate(offer).state = "Negotiating"
         /\ "state" \in DOMAIN LAPM!Answer(offer) /\ LAPM!Answer(offer).state = "Waiting"
BY DEF LAPM!Originate, LAPM!Answer, LAPM!Fresh, LAPM!SendXidCommand, LAPM!Queue

-----------------------------------------------------------------------------
(***************************************************************************)
(* Sequences.                                                              *)
(***************************************************************************)
LEMMA Joined ==
  ASSUME NEW q, IsSeq(q), NEW r, IsSeq(r)
  PROVE  /\ IsSeq(q \o r)
         /\ Carries(q \o r) <=> Carries(q) \/ Carries(r)
<1>1. PICK S : q \in Seq(S)
  BY DEF IsSeq
<1>2. PICK T : r \in Seq(T)
  BY DEF IsSeq
<1> DEFINE U == S \cup T
<1>3. q \in Seq(U) /\ r \in Seq(U)
  BY <1>1, <1>2
<1> HIDE DEF U
<1>4. /\ q \o r \in Seq(U) /\ Len(q \o r) = Len(q) + Len(r)
      /\ Len(q) \in Nat /\ Len(r) \in Nat
      /\ \A i \in 1 .. Len(q) : (q \o r)[i] = q[i]
      /\ \A i \in 1 .. Len(r) : (q \o r)[Len(q) + i] = r[i]
  BY <1>3
<1>5. ASSUME Carries(q) \/ Carries(r) PROVE Carries(q \o r)
  <2>1. CASE Carries(q)
    <3>1. PICK i \in 1 .. Len(q) : q[i].kind = "frame"
      BY <2>1 DEF Carries
    <3>2. i \in 1 .. Len(q \o r)
      BY <1>4
    <3> QED
      BY <1>4, <3>1, <3>2 DEF Carries
  <2>2. CASE Carries(r)
    <3>1. PICK i \in 1 .. Len(r) : r[i].kind = "frame"
      BY <2>2 DEF Carries
    <3>2. Len(q) + i \in 1 .. Len(q \o r)
      BY <1>4
    <3> QED
      BY <1>4, <3>1, <3>2 DEF Carries
  <2> QED
    BY <1>5, <2>1, <2>2
<1>6. ASSUME Carries(q \o r) PROVE Carries(q) \/ Carries(r)
  <2>1. PICK i \in 1 .. Len(q \o r) : (q \o r)[i].kind = "frame"
    BY <1>6 DEF Carries
  <2>2. CASE i <= Len(q)
    <3>1. i \in 1 .. Len(q)
      BY <2>2
    <3> QED
      BY <1>4, <2>1, <3>1 DEF Carries
  <2>3. CASE ~(i <= Len(q))
    <3>1. i - Len(q) \in 1 .. Len(r) /\ i = Len(q) + (i - Len(q))
      BY <1>4, <2>3
    <3>2. (q \o r)[i] = r[i - Len(q)]
      BY <1>4, <3>1
    <3> QED
      BY <2>1, <3>1, <3>2 DEF Carries
  <2> QED
    BY <2>2, <2>3
<1>7. IsSeq(q \o r)
  BY <1>4 DEF IsSeq
<1> QED
  BY <1>5, <1>6, <1>7

\* Sequences of one or of none, and what the detection phase sends.
LEMMA Short ==
  ASSUME NEW x
  PROVE  IsSeq(<<x>>) /\ (Carries(<<x>>) <=> x.kind = "frame")
<1>1. <<x>> \in Seq({x}) /\ Len(<<x>>) = 1 /\ <<x>>[1] = x
  OBVIOUS
<1>2. \A i \in 1 .. 1 : i = 1
  OBVIOUS
<1>3. Carries(<<x>>) <=> x.kind = "frame"
  BY <1>1, <1>2 DEF Carries
<1> QED
  BY <1>1, <1>3 DEF IsSeq

LEMMA Bare ==
  /\ IsSeq(<<>>) /\ ~Carries(<<>>)
  /\ IsSeq(Odp) /\ ~Carries(Odp) /\ IsSeq(Adp) /\ ~Carries(Adp)
  /\ IsSeq([i \in 1 .. OpeningFlags |-> Flag]) /\ ~Carries([i \in 1 .. OpeningFlags |-> Flag])
  /\ IsSeq(<<Flag>>) /\ ~Carries(<<Flag>>)
<1>1. IsSeq(<<>>) /\ ~Carries(<<>>)
  BY DEF IsSeq, Carries
<1>2. \A c, d : IsSeq(<<Character(c), Character(d)>>) /\ ~Carries(<<Character(c), Character(d)>>)
  <2> SUFFICES ASSUME NEW c, NEW d
               PROVE  IsSeq(<<Character(c), Character(d)>>) /\ ~Carries(<<Character(c), Character(d)>>)
    OBVIOUS
  <2> DEFINE a == Character(c)  b == Character(d)
  <2>1. a.kind # "frame" /\ b.kind # "frame"
    BY DEF Character
  <2> HIDE DEF a, b
  <2>2. <<a, b>> \in Seq({a, b}) /\ Len(<<a, b>>) = 2 /\ <<a, b>>[1] = a /\ <<a, b>>[2] = b
    OBVIOUS
  <2>3. \A i \in 1 .. 2 : i = 1 \/ i = 2
    OBVIOUS
  <2>4. ~Carries(<<a, b>>)
    BY <2>1, <2>2, <2>3 DEF Carries
  <2>5. IsSeq(<<a, b>>) /\ ~Carries(<<a, b>>)
    BY <2>2, <2>4 DEF IsSeq
  <2> QED
    BY <2>5 DEF a, b
<1>3. IsSeq(<<Flag>>) /\ ~Carries(<<Flag>>)
  BY Short DEF Flag
<1>4. OpeningFlags \in Nat
  BY LinkPairAssumption
<1>5. [i \in 1 .. OpeningFlags |-> Flag] \in Seq({Flag})
  BY <1>4
<1>6. Len([i \in 1 .. OpeningFlags |-> Flag]) = OpeningFlags
  BY <1>4
<1>7. IsSeq([i \in 1 .. OpeningFlags |-> Flag]) /\ ~Carries([i \in 1 .. OpeningFlags |-> Flag])
  BY <1>5, <1>6 DEF IsSeq, Carries, Flag
<1> QED
  BY <1>1, <1>2, <1>3, <1>7 DEF Odp, Adp

LEMMA Later ==
  ASSUME NEW q, IsSeq(q), q # <<>>
  PROVE  /\ IsSeq(Tail(q)) /\ (Carries(Tail(q)) => Carries(q))
         /\ Head(q).kind = "frame" => Carries(q)
<1>1. PICK S : q \in Seq(S)
  BY DEF IsSeq
<1>2. /\ Tail(q) \in Seq(S) /\ Len(q) \in Nat \ {0} /\ Len(Tail(q)) = Len(q) - 1
      /\ \A i \in 1 .. Len(Tail(q)) : Tail(q)[i] = q[i + 1]
      /\ Head(q) = q[1]
  BY <1>1
<1>3. \A i \in 1 .. Len(Tail(q)) : i + 1 \in 1 .. Len(q)
  BY <1>2
<1> QED
  BY <1>2, <1>3 DEF IsSeq, Carries

LEMMA Part ==
  ASSUME NEW q, IsSeq(q), NEW n \in 0 .. Len(q)
  PROVE  /\ IsSeq(SubSeq(q, 1, n)) /\ (Carries(SubSeq(q, 1, n)) => Carries(q))
         /\ IsSeq(SubSeq(q, n + 1, Len(q))) /\ (Carries(SubSeq(q, n + 1, Len(q))) => Carries(q))
         /\ Len(SubSeq(q, 1, n)) = n
<1>1. PICK S : q \in Seq(S)
  BY DEF IsSeq
<1>2. Len(q) \in Nat /\ n \in Nat /\ n <= Len(q)
  BY <1>1
<1>3. /\ SubSeq(q, 1, n) \in Seq(S) /\ Len(SubSeq(q, 1, n)) = n
      /\ \A i \in 1 .. n : SubSeq(q, 1, n)[i] = q[i]
  BY <1>1, <1>2
<1>4. /\ SubSeq(q, n + 1, Len(q)) \in Seq(S) /\ Len(SubSeq(q, n + 1, Len(q))) = Len(q) - n
      /\ \A i \in 1 .. Len(q) - n : SubSeq(q, n + 1, Len(q))[i] = q[n + i]
  BY <1>1, <1>2
<1>5. Carries(SubSeq(q, 1, n)) => Carries(q)
  BY <1>2, <1>3 DEF Carries
<1>6. Carries(SubSeq(q, n + 1, Len(q))) => Carries(q)
  <2> SUFFICES ASSUME NEW i \in 1 .. Len(q) - n, q[n + i].kind = "frame" PROVE Carries(q)
    BY <1>4 DEF Carries
  <2>1. n + i \in 1 .. Len(q)
    BY <1>2
  <2> QED
    BY <2>1 DEF Carries
<1> QED
  BY <1>3, <1>4, <1>5, <1>6 DEF IsSeq

-----------------------------------------------------------------------------
(***************************************************************************)
(* One link.                                                               *)
(***************************************************************************)
LEMMA GoesSame ==
  ASSUME NEW l, Shaped(l), NEW frame
  PROVE  GoesTo(l, l, frame)
BY DEF GoesTo

LEMMA GoesOn ==
  ASSUME NEW l, NEW m, NEW r, NEW frame, GoesTo(l, m, frame), GoesTo(m, r, frame)
  PROVE  GoesTo(l, r, frame)
BY DEF GoesTo

LEMMA FallsBack ==
  ASSUME NEW l, Shaped(l), ~Decided(l), NEW frame
  PROVE  GoesTo(l, FallBack(l), frame)
<1> DEFINE r == FallBack(l)
<1>1. /\ {"phase", "lapm", "tx"} \subseteq DOMAIN r /\ r.phase \in {"Released", "Normal"}
      /\ r.lapm = l.lapm /\ r.tx = l.tx
  BY DEF FallBack, Shaped
<1> HIDE DEF r
<1>2. Shaped(r)
  BY <1>1 DEF Shaped, Phases
<1> QED
  BY <1>1, <1>2 DEF GoesTo, Connected, r

LEMMA TakesUp ==
  ASSUME NEW l, Shaped(l), NEW lapm, "state" \in DOMAIN lapm, NEW frame,
         lapm.state = "Connected" => frame
  PROVE  /\ GoesTo(l, Protocol(l, lapm), frame)
         /\ Protocol(l, lapm).phase = "Protocol" /\ Protocol(l, lapm).lapm = lapm
<1> DEFINE r == Protocol(l, lapm)
           more == [i \in 1 .. OpeningFlags |-> Flag]
<1>1. /\ {"phase", "lapm", "tx"} \subseteq DOMAIN r /\ r.phase = "Protocol" /\ r.lapm = lapm
      /\ r.tx = l.tx \/ r.tx = l.tx \o more
  BY DEF Protocol, Shaped
<1> HIDE DEF r
<1>2. IsSeq(more) /\ ~Carries(more)
  BY Bare
<1> HIDE DEF more
<1>3. IsSeq(r.tx) /\ (Carries(r.tx) => Carries(l.tx))
  BY <1>1, <1>2, Joined DEF Shaped
<1>4. Shaped(r)
  BY <1>1, <1>3 DEF Shaped, Phases
<1> QED
  BY <1>1, <1>3, <1>4 DEF GoesTo, Connected, Decided, r

\* A change of nothing that matters here.
LEMMA GoesAlike ==
  ASSUME NEW l, Shaped(l), NEW r, {"phase", "lapm", "tx"} \subseteq DOMAIN r,
         r.phase = l.phase, r.lapm = l.lapm, r.tx = l.tx, NEW frame
  PROVE  GoesTo(l, r, frame)
<1>1. Shaped(r)
  BY DEF Shaped
<1> QED
  BY <1>1 DEF GoesTo, Connected, Decided

\* A change of LAPM alone, or of what is to be sent.
LEMMA GoesWithLapm ==
  ASSUME NEW l, Shaped(l), NEW r, {"phase", "lapm", "tx"} \subseteq DOMAIN r,
         r.phase = l.phase, r.tx = l.tx, "state" \in DOMAIN r.lapm, NEW frame,
         r.lapm.state = "Connected" => l.lapm.state = "Connected" \/ frame
  PROVE  GoesTo(l, r, frame)
<1>1. Shaped(r)
  BY DEF Shaped
<1> QED
  BY <1>1 DEF GoesTo, Connected, Decided

\* The call is released.
LEMMA GoesReleased ==
  ASSUME NEW l, Shaped(l), NEW r, {"phase", "lapm", "tx"} \subseteq DOMAIN r,
         r.phase = "Released", r.tx = l.tx, "state" \in DOMAIN r.lapm, NEW frame
  PROVE  GoesTo(l, r, frame)
<1>1. Shaped(r)
  BY DEF Shaped, Phases
<1> QED
  BY <1>1 DEF GoesTo, Connected, Decided

LEMMA Starting ==
  ASSUME NEW l, Shaped(l), NEW slow
  PROVE  GoesTo(l, Start(l, slow), FALSE)
<1> DEFINE s == [l EXCEPT !.setup.lapm = @ /\ ~slow]
           r == Start(l, slow)
<1>1. /\ {"phase", "lapm", "tx"} \subseteq DOMAIN s
      /\ s.phase = l.phase /\ s.lapm = l.lapm /\ s.tx = l.tx
  BY DEF Shaped
<1>2. Start(l, slow) =
        CASE l.phase # "Idle" -> l
          [] l.phase = "Idle" /\ ~s.setup.lapm -> FallBack(s)
          [] l.phase = "Idle" /\ s.setup.lapm /\ ~l.originates ->
               [s EXCEPT !.phase = "Listening"]
          [] l.phase = "Idle" /\ s.setup.lapm /\ l.originates ->
               IF l.setup.detection THEN [s EXCEPT !.phase = "Originating"]
               ELSE Protocol(s, LAPM!Originate(l.setup.offer))
  BY DEF Start
<1> HIDE DEF s, r
<1>3. GoesTo(l, s, FALSE) /\ Shaped(s)
  <2>1. GoesTo(l, s, FALSE)
    BY <1>1, GoesAlike
  <2> QED
    BY <2>1 DEF GoesTo
<1>4. CASE l.phase # "Idle"
  BY <1>2, <1>4, GoesSame DEF r
<1>5. ASSUME l.phase = "Idle" PROVE GoesTo(s, FallBack(s), FALSE)
  BY <1>1, <1>3, <1>5, FallsBack DEF Decided
<1>6. ASSUME NEW phase \in {"Listening", "Originating"}, l.phase = "Idle"
      PROVE  GoesTo(s, [s EXCEPT !.phase = phase], FALSE)
  <2> DEFINE m == [s EXCEPT !.phase = phase]
  <2>1. /\ {"phase", "lapm", "tx"} \subseteq DOMAIN m
        /\ m.phase = phase /\ m.lapm = s.lapm /\ m.tx = s.tx
    BY <1>1
  <2> HIDE DEF m
  <2>2. Shaped(m)
    BY <1>3, <2>1 DEF Shaped, Phases
  <2>3. GoesTo(s, m, FALSE)
    BY <1>1, <1>6, <2>1, <2>2 DEF GoesTo, Connected, Decided
  <2> QED
    BY <2>3 DEF m
<1>7. GoesTo(s, Protocol(s, LAPM!Originate(l.setup.offer)), FALSE)
  BY <1>3, LapmStarts, TakesUp
<1>8. CASE l.phase = "Idle"
  <2>1. GoesTo(s, r, FALSE)
    BY <1>2, <1>5, <1>6, <1>7, <1>8 DEF r
  <2> QED
    BY <1>3, <2>1, GoesOn DEF r
<1> QED
  BY <1>4, <1>8

LEMMA Expires ==
  ASSUME NEW l, Shaped(l), NEW late, NEW frame
  PROVE  GoesTo(l, Expire(l, late), frame)
<1>1. CASE l.phase \in {"Originating", "Listening"} /\ late
  <2>1. Expire(l, late) = FallBack(l)
    BY <1>1 DEF Expire
  <2>2. ~Decided(l)
    BY <1>1 DEF Decided
  <2> QED
    BY <2>1, <2>2, FallsBack
<1>2. CASE l.phase = "Protocol" /\ l.lapm.state = "Released"
  <2> DEFINE r == [l EXCEPT !.phase = "Released"]
  <2>1. Expire(l, late) = r
    BY <1>2 DEF Expire
  <2>2. /\ {"phase", "lapm", "tx"} \subseteq DOMAIN r
        /\ r.phase = "Released" /\ r.lapm = l.lapm /\ r.tx = l.tx
    BY DEF Shaped
  <2> HIDE DEF r
  <2>3. "state" \in DOMAIN r.lapm
    BY <2>2 DEF Shaped
  <2> QED
    BY <2>1, <2>2, <2>3, GoesReleased
<1>3. CASE /\ ~(l.phase \in {"Originating", "Listening"} /\ late)
           /\ ~(l.phase = "Protocol" /\ l.lapm.state = "Released")
  <2>1. Expire(l, late) = l
    BY <1>3 DEF Expire
  <2> QED
    BY <2>1, GoesSame
<1> QED
  BY <1>1, <1>2, <1>3

LEMMA SetsUpCodec ==
  ASSUME NEW l, Shaped(l), NEW frame
  PROVE  GoesTo(l, SetUpCodec(l), frame)
<1> DEFINE r == SetUpCodec(l)
<1>1. /\ {"phase", "lapm", "tx"} \subseteq DOMAIN r /\ r.lapm = l.lapm /\ r.tx = l.tx
      /\ r.phase = l.phase \/ r.phase = "Released"
  BY DEF SetUpCodec, Shaped
<1> HIDE DEF r
<1>2. "state" \in DOMAIN r.lapm
  BY <1>1 DEF Shaped
<1>3. GoesTo(l, r, frame)
  BY <1>1, <1>2, GoesAlike, GoesReleased
<1> QED
  BY <1>3 DEF r

LEMMA Queues ==
  ASSUME NEW l, Shaped(l), NEW text, NEW coded, NEW frame
  PROVE  GoesTo(l, Queued(l, text, coded), frame)
<1> DEFINE d == [text |-> text, coded |-> coded]
           r == Queued(l, text, coded)
<1>1. /\ {"phase", "lapm", "tx"} \subseteq DOMAIN r /\ r.phase = l.phase /\ r.tx = l.tx
      /\ r.lapm = LAPM!SendData(l.lapm, d)
  BY DEF Queued, Shaped
<1> HIDE DEF r, d
<1>2. Stays(l.lapm, r.lapm)
  BY <1>1, LapmTakesData DEF Shaped
<1>3. GoesTo(l, r, frame)
  BY <1>1, <1>2, GoesWithLapm DEF Stays
<1> QED
  BY <1>3 DEF r

LEMMA Flushes ==
  ASSUME NEW l, Shaped(l), NEW frame
  PROVE  GoesTo(l, FlushString(l), frame)
<1>1. CASE l.string = <<>>
  BY <1>1, GoesSame DEF FlushString
<1>2. CASE l.string # <<>>
  <2> DEFINE m == Queued(l, Head(l.string), TRUE)
             r == [m EXCEPT !.string = <<>>]
  <2>1. FlushString(l) = r
    BY <1>2 DEF FlushString
  <2>2. GoesTo(l, m, frame)
    BY Queues
  <2> HIDE DEF m
  <2>3. Shaped(m)
    BY <2>2 DEF GoesTo
  <2>4. /\ {"phase", "lapm", "tx"} \subseteq DOMAIN r
        /\ r.phase = m.phase /\ r.lapm = m.lapm /\ r.tx = m.tx
    BY <2>3 DEF Shaped
  <2> HIDE DEF r
  <2> QED
    BY <2>1, <2>2, <2>3, <2>4, GoesAlike, GoesOn
<1> QED
  BY <1>1, <1>2

\* The modem gives the link a character.
LEMMA Sends ==
  ASSUME NEW l, Shaped(l), NEW text
  PROVE  GoesTo(l, Send(l, text), FALSE)
<1> DEFINE s == SetUpCodec(l)
           r == Send(l, text)
<1>1. GoesTo(l, s, FALSE)
  BY SetsUpCodec
<1>2. r = CASE s.phase = "Protocol" /\ s.codec.encoder ->
                  [FlushString(s) EXCEPT !.string = <<text>>]
            [] s.phase = "Protocol" /\ ~s.codec.encoder -> Queued(s, text, FALSE)
            [] s.phase = "Normal" -> [s EXCEPT !.tx = Append(@, Character(text))]
            [] OTHER -> s
  BY DEF Send
<1> HIDE DEF s, r
<1>3. Shaped(s)
  BY <1>1 DEF GoesTo
<1>4. CASE s.phase = "Protocol" /\ s.codec.encoder
  <2> DEFINE m == FlushString(s)
  <2>1. r = [m EXCEPT !.string = <<text>>]
    BY <1>2, <1>4
  <2>2. GoesTo(s, m, FALSE)
    BY <1>3, Flushes
  <2> HIDE DEF m
  <2>3. Shaped(m)
    BY <2>2 DEF GoesTo
  <2>4. /\ {"phase", "lapm", "tx"} \subseteq DOMAIN r
        /\ r.phase = m.phase /\ r.lapm = m.lapm /\ r.tx = m.tx
    BY <2>1, <2>3 DEF Shaped
  <2>5. GoesTo(s, r, FALSE)
    BY <2>2, <2>3, <2>4, GoesAlike, GoesOn
  <2> QED
    BY <1>1, <2>5, GoesOn DEF r
<1>5. CASE s.phase = "Protocol" /\ ~s.codec.encoder
  <2>1. r = Queued(s, text, FALSE)
    BY <1>2, <1>5
  <2>2. GoesTo(s, r, FALSE)
    BY <1>3, <2>1, Queues
  <2> QED
    BY <1>1, <2>2, GoesOn DEF r
<1>6. CASE s.phase = "Normal"
  <2> DEFINE x == Character(text)
  <2>0. x.kind = "character"
    BY DEF Character
  <2>1. r = [s EXCEPT !.tx = Append(@, x)]
    BY <1>2, <1>6
  <2> HIDE DEF x
  <2>2. /\ {"phase", "lapm", "tx"} \subseteq DOMAIN r
        /\ r.phase = s.phase /\ r.lapm = s.lapm /\ r.tx = Append(s.tx, x)
    BY <1>3, <2>1 DEF Shaped
  <2>3. r.tx = s.tx \o <<x>>
    <3>1. PICK S : s.tx \in Seq(S)
      BY <1>3 DEF Shaped, IsSeq
    <3> DEFINE T == S \cup {x}
    <3>2. s.tx \in Seq(T) /\ x \in T
      BY <3>1
    <3> HIDE DEF T
    <3>3. Append(s.tx, x) = s.tx \o <<x>>
      BY <3>2, AppendIsConcat
    <3> QED
      BY <2>2, <3>3
  <2>4. IsSeq(r.tx) /\ (Carries(r.tx) => Carries(s.tx))
    BY <1>3, <2>0, <2>3, Joined, Short DEF Shaped
  <2>5. Shaped(r)
    BY <1>3, <2>2, <2>4 DEF Shaped
  <2>6. GoesTo(s, r, FALSE)
    BY <2>2, <2>4, <2>5 DEF GoesTo, Connected, Decided
  <2> QED
    BY <1>1, <2>6, GoesOn DEF r
<1>7. CASE s.phase \notin {"Protocol", "Normal"}
  BY <1>1, <1>2, <1>7 DEF r
<1> QED
  BY <1>4, <1>5, <1>6, <1>7

LEMMA Delivers ==
  ASSUME NEW l, Shaped(l), NEW frame
  PROVE  GoesTo(l, Deliver(l), frame)
<1> DEFINE taken == [l EXCEPT !.lapm.received = <<>>]
           r == Deliver(l)
<1>1. /\ {"phase", "lapm", "tx"} \subseteq DOMAIN taken
      /\ taken.phase = l.phase /\ taken.tx = l.tx
      /\ "state" \in DOMAIN taken.lapm /\ taken.lapm.state = l.lapm.state
  BY DEF Shaped
<1>2. \/ r = l
      \/ r = [taken EXCEPT !.phase = "Released"]
      \/ \E got : r = [taken EXCEPT !.received = got]
  BY DEF Deliver
<1> HIDE DEF taken
<1>3. \/ r = l
      \/ /\ {"phase", "lapm", "tx"} \subseteq DOMAIN r
         /\ r.phase = l.phase \/ r.phase = "Released"
         /\ r.lapm = taken.lapm /\ r.tx = l.tx
  <2> HIDE DEF r
  <2> QED
    BY <1>1, <1>2
<1> HIDE DEF r
<1>4. GoesTo(l, r, frame)
  BY <1>1, <1>3, GoesSame, GoesReleased, GoesWithLapm
<1> QED
  BY <1>4 DEF r

-----------------------------------------------------------------------------
(***************************************************************************)
(* What a link sends and hears.                                            *)
(***************************************************************************)
LEMMA Ticks ==
  ASSUME NEW lapm, "state" \in DOMAIN lapm, NEW late
  PROVE  Stays(lapm, Ticked(lapm, late))
<1>1. Stays(lapm, LAPM!Expire(lapm))
  BY LapmExpires
<1> QED
  BY <1>1 DEF Ticked, Stays

LEMMA SendsFrame ==
  ASSUME NEW l, Shaped(l), l.phase = "Protocol", NEW late
  PROVE  GoesTo(l, TickedFrame(l, late), FALSE)
<1> DEFINE s == Ticked(l.lapm, late)
           sym == NextLapmSymbol(s)
           first == IF l.adps > 0 THEN <<Flag>> ELSE <<>>
           r == TickedFrame(l, late)
<1>1. r = [l EXCEPT !.adps = 0, !.lapm = LAPM!AfterNextFrame(s),
                    !.tx = @ \o first \o <<sym>>]
  BY DEF TickedFrame, NextFrameOf
<1>2. Stays(l.lapm, s)
  BY Ticks DEF Shaped
<1> HIDE DEF s
<1>3. Stays(s, LAPM!AfterNextFrame(s))
  BY <1>2, LapmSends DEF Stays
<1>4. IsSeq(first) /\ IsSeq(<<sym>>)
  BY Bare, Short
<1> HIDE DEF first, sym
<1>5. IsSeq(l.tx \o first \o <<sym>>)
  BY <1>4, Joined DEF Shaped
<1> DEFINE tx == l.tx \o first \o <<sym>>
<1>6. /\ {"phase", "lapm", "tx"} \subseteq DOMAIN r /\ r.phase = "Protocol"
      /\ r.lapm = LAPM!AfterNextFrame(s) /\ r.tx = tx
  BY <1>1 DEF Shaped
<1> HIDE DEF r, tx
<1>7. Shaped(r)
  BY <1>3, <1>5, <1>6 DEF Shaped, Stays, Phases, tx
<1>8. GoesTo(l, r, FALSE)
  BY <1>2, <1>3, <1>6, <1>7 DEF GoesTo, Decided, Connected, Stays
<1> QED
  BY <1>8 DEF r

LEMMA Fills ==
  ASSUME NEW l, Shaped(l), NEW late
  PROVE  GoesTo(l, Fill(l, late), FALSE)
<1> DEFINE r == Fill(l, late)
<1>1. \/ r = l
      \/ l.tx = <<>> /\ r = [l EXCEPT !.tx = Odp]
      \/ \E n : l.tx = <<>> /\ r = [l EXCEPT !.tx = Adp, !.adps = n]
      \/ l.phase = "Protocol" /\ r = FrameOrFlag(l, late)
  <2>1. CASE l.tx # <<>>
    BY <2>1 DEF Fill
  <2>2. CASE l.tx = <<>> /\ l.phase = "Originating"
    BY <2>2 DEF Fill, SendsAdp
  <2>3. CASE l.tx = <<>> /\ SendsAdp(l)
    <3>1. l.phase # "Originating"
      BY <2>3 DEF SendsAdp
    <3> QED
      BY <2>3, <3>1 DEF Fill
  <2>4. CASE l.tx = <<>> /\ l.phase = "Protocol" /\ ~SendsAdp(l)
    BY <2>4 DEF Fill
  <2>5. CASE l.tx = <<>> /\ l.phase \notin {"Originating", "Protocol"} /\ ~SendsAdp(l)
    BY <2>5 DEF Fill
  <2> QED
    BY <2>1, <2>2, <2>3, <2>4, <2>5
<1> HIDE DEF r
<1>2. ASSUME {"phase", "lapm", "tx"} \subseteq DOMAIN r, r.phase = l.phase,
             r.lapm = l.lapm, r.tx \in {Odp, Adp}
      PROVE  GoesTo(l, r, FALSE)
  <2>1. IsSeq(r.tx) /\ ~Carries(r.tx)
    BY <1>2, Bare
  <2>2. Shaped(r)
    BY <1>2, <2>1 DEF Shaped
  <2> QED
    BY <1>2, <2>1, <2>2 DEF GoesTo, Decided, Connected
<1>3. ASSUME l.phase = "Protocol", r = FrameOrFlag(l, late) PROVE GoesTo(l, r, FALSE)
  <2> DEFINE m == IF l.lapm.queue = <<>> THEN FlushString(l) ELSE l
  <2>1. GoesTo(l, m, FALSE)
    BY GoesSame, Flushes
  <2>2. r = TickedFrame(m, late)
    BY <1>3 DEF FrameOrFlag
  <2>3. m.phase = "Protocol"
    <3>1. FlushString(l).phase = l.phase
      BY DEF FlushString, Queued, Shaped
    <3> QED
      BY <1>3, <3>1
  <2> HIDE DEF m
  <2>4. Shaped(m)
    BY <2>1 DEF GoesTo
  <2>5. GoesTo(m, r, FALSE)
    BY <2>2, <2>3, <2>4, SendsFrame
  <2> QED
    BY <2>1, <2>5, GoesOn
<1>4. GoesTo(l, r, FALSE)
  <2>1. r = l => GoesTo(l, r, FALSE)
    BY GoesSame
  <2>2. ASSUME NEW tx \in {Odp, Adp}, NEW n,
               r = [l EXCEPT !.tx = tx] \/ r = [l EXCEPT !.tx = tx, !.adps = n]
        PROVE  GoesTo(l, r, FALSE)
    <3>1. /\ {"phase", "lapm", "tx"} \subseteq DOMAIN r /\ r.phase = l.phase
          /\ r.lapm = l.lapm /\ r.tx = tx
      BY <2>2 DEF Shaped
    <3> QED
      BY <1>2, <3>1
  <2> QED
    BY <1>1, <1>3, <2>1, <2>2
<1> QED
  BY <1>4 DEF r

LEMMA FilledKeeps ==
  ASSUME NEW l, Shaped(l), NEW late
  PROVE  GoesTo(l, Filled(l, late), FALSE)
<1>1. GoesTo(l, Expire(l, late), FALSE)
  BY Expires
<1>2. Shaped(Expire(l, late))
  BY <1>1 DEF GoesTo
<1>3. GoesTo(Expire(l, late), Filled(l, late), FALSE)
  BY <1>2, Fills DEF Filled
<1> QED
  BY <1>1, <1>3, GoesOn

LEMMA Deframes ==
  ASSUME NEW l, Shaped(l), NEW x, NEW frame
  PROVE  GoesTo(l, Deframed(l, x), frame)
<1> DEFINE r == Deframed(l, x)
<1>1. /\ {"phase", "lapm", "tx"} \subseteq DOMAIN r
      /\ r.phase = l.phase /\ r.lapm = l.lapm /\ r.tx = l.tx
  BY DEF Deframed, Shaped
<1> HIDE DEF r
<1>2. GoesTo(l, r, frame)
  BY <1>1, GoesAlike
<1> QED
  BY <1>2 DEF r

\* In the protocol phase: LAPM takes a frame, and what it makes of it counts.
LEMMA HearsLapm ==
  ASSUME NEW l, Shaped(l), NEW x, NEW late, NEW frame, x.kind = "frame" => frame
  PROVE  GoesTo(l, HearLapm(l, x, late), frame)
<1> DEFINE m == Deframed(l, x)
           r == HearLapm(l, x, late)
<1>1. GoesTo(l, m, frame)
  BY Deframes
<1>2. \/ /\ BringsFrame(l, x)
         /\ r = [m EXCEPT !.flagsHeard = TRUE,
                          !.lapm = LAPM!Receive(Ticked(@, late), x.frame)]
      \/ \E any : r = [m EXCEPT !.flagsHeard = any]
  BY DEF HearLapm
<1> HIDE DEF m, r
<1>3. Shaped(m)
  BY <1>1 DEF GoesTo
<1>4. "state" \in DOMAIN LAPM!Receive(Ticked(m.lapm, late), x.frame)
  <2>1. Stays(m.lapm, Ticked(m.lapm, late))
    BY <1>3, Ticks DEF Shaped
  <2> QED
    BY <2>1, LapmHears DEF Stays
<1>5. /\ {"phase", "lapm", "tx"} \subseteq DOMAIN r /\ r.phase = m.phase /\ r.tx = m.tx
      /\ \/ frame /\ r.lapm = LAPM!Receive(Ticked(m.lapm, late), x.frame)
         \/ r.lapm = m.lapm
  BY <1>2, <1>3 DEF Shaped, BringsFrame
<1>6. "state" \in DOMAIN r.lapm
  BY <1>3, <1>4, <1>5 DEF Shaped
<1>7. GoesTo(m, r, frame)
  BY <1>3, <1>5, <1>6, GoesWithLapm
<1>8. GoesTo(l, r, frame)
  BY <1>1, <1>7, GoesOn
<1> QED
  BY <1>8 DEF r

LEMMA Decodes ==
  ASSUME NEW l, Shaped(l), NEW x, NEW frame
  PROVE  GoesTo(l, Decoded(l, x), frame)
<1> DEFINE r == Decoded(l, x)
<1>1. /\ {"phase", "lapm", "tx"} \subseteq DOMAIN r
      /\ r.phase = l.phase /\ r.lapm = l.lapm /\ r.tx = l.tx
  <2>1. \/ \E a, b : r = [l EXCEPT !.heard = a, !.held = b]
        \/ \E a : r = [l EXCEPT !.heard = a]
        \/ r = l
    BY DEF Decoded
  <2> HIDE DEF r
  <2> QED
    BY <2>1 DEF Shaped
<1> HIDE DEF r
<1>2. GoesTo(l, r, frame)
  BY <1>1, GoesAlike
<1> QED
  BY <1>2 DEF r

LEMMA TakesFlags ==
  ASSUME NEW d, Shaped(d), NEW x, NEW brings, NEW frame, brings => frame
  PROVE  GoesTo(d, Flagged(d, brings, x), frame)
<1> DEFINE lapm == IF brings THEN LAPM!Receive(Answering(d), x.frame) ELSE Answering(d)
           m == Protocol(d, lapm)
           r == Flagged(d, brings, x)
<1>1. "state" \in DOMAIN Answering(d) /\ Answering(d).state = "Waiting"
  BY LapmStarts DEF Answering
<1>2. "state" \in DOMAIN lapm /\ (lapm.state = "Connected" => frame)
  BY <1>1, LapmHears
<1>3. r = [m EXCEPT !.tx = Append(@, Flag)]
  BY DEF Flagged
<1> HIDE DEF lapm
<1>4. GoesTo(d, m, frame) /\ m.phase = "Protocol"
  BY <1>2, TakesUp
<1> HIDE DEF m, r
<1>5. Shaped(m)
  BY <1>4 DEF GoesTo
<1>6. r.tx = m.tx \o <<Flag>>
  <2>1. PICK S : m.tx \in Seq(S)
    BY <1>5 DEF Shaped, IsSeq
  <2> DEFINE T == S \cup {Flag}
  <2>2. m.tx \in Seq(T) /\ Flag \in T
    BY <2>1
  <2> HIDE DEF T
  <2>3. Append(m.tx, Flag) = m.tx \o <<Flag>>
    BY <2>2, AppendIsConcat
  <2> QED
    BY <1>3, <1>5, <2>3 DEF Shaped
<1>7. IsSeq(r.tx) /\ (Carries(r.tx) => Carries(m.tx))
  BY <1>5, <1>6, Joined, Bare DEF Shaped
<1>8. {"phase", "lapm", "tx"} \subseteq DOMAIN r /\ r.phase = m.phase /\ r.lapm = m.lapm
  BY <1>3, <1>5 DEF Shaped
<1>9. Shaped(r)
  BY <1>5, <1>7, <1>8 DEF Shaped
<1>10. GoesTo(m, r, frame)
  BY <1>7, <1>8, <1>9 DEF GoesTo, Decided, Connected
<1>11. GoesTo(d, r, frame)
  BY <1>4, <1>10, GoesOn
<1> QED
  BY <1>11 DEF r

\* An originator and an answerer take up V.42, or the originator falls back.
LEMMA Detects ==
  ASSUME NEW d, Shaped(d), NEW x, NEW brings, NEW frame, brings => frame
  PROVE  GoesTo(d, Detected(d, brings, x), frame)
<1>0. ~(HeardAdp(d, "C") /\ HeardAdp(d, "NULL"))
  <2>1. <<"E", "C", "E", "C">> # <<"E", "NULL", "E", "NULL">>
    OBVIOUS
  <2> QED
    BY <2>1 DEF HeardAdp
<1>1. CASE d.phase = "Originating" /\ HeardAdp(d, "C")
  <2>1. Detected(d, brings, x) = Protocol(d, LAPM!Originate(d.setup.offer))
    BY <1>0, <1>1 DEF Detected
  <2> QED
    BY <2>1, LapmStarts, TakesUp
<1>2. CASE d.phase = "Originating" /\ ~HeardAdp(d, "C") /\ HeardAdp(d, "NULL")
  <2> DEFINE m == [d EXCEPT !.held = <<>>]
  <2>1. Detected(d, brings, x) = FallBack(m)
    BY <1>2 DEF Detected
  <2>2. /\ {"phase", "lapm", "tx"} \subseteq DOMAIN m
        /\ m.phase = d.phase /\ m.lapm = d.lapm /\ m.tx = d.tx
    BY DEF Shaped
  <2> HIDE DEF m
  <2>3. GoesTo(d, m, frame)
    BY <2>2, GoesAlike
  <2>4. Shaped(m) /\ ~Decided(m)
    BY <1>2, <2>2, <2>3 DEF GoesTo, Decided
  <2>5. GoesTo(m, FallBack(m), frame)
    BY <2>4, FallsBack
  <2> QED
    BY <2>1, <2>3, <2>5, GoesOn
<1>3. CASE d.phase = "Listening" /\ HeardOdp(d)
  <2> DEFINE m == Protocol(d, Answering(d))
             r == [m EXCEPT !.adps = 1, !.tx = @ \o Adp]
  <2>1. Detected(d, brings, x) = r
    BY <1>3 DEF Detected
  <2>2. GoesTo(d, m, frame) /\ m.phase = "Protocol"
    BY LapmStarts, TakesUp DEF Answering
  <2> HIDE DEF m
  <2>3. Shaped(m)
    BY <2>2 DEF GoesTo
  <2>4. /\ {"phase", "lapm", "tx"} \subseteq DOMAIN r /\ r.phase = m.phase /\ r.lapm = m.lapm
        /\ r.tx = m.tx \o Adp
    BY <2>3 DEF Shaped
  <2> HIDE DEF r
  <2>5. IsSeq(r.tx) /\ (Carries(r.tx) => Carries(m.tx))
    BY <2>3, <2>4, Joined, Bare DEF Shaped
  <2>6. Shaped(r)
    BY <2>3, <2>4, <2>5 DEF Shaped
  <2>7. GoesTo(m, r, frame)
    BY <2>4, <2>5, <2>6 DEF GoesTo, Decided, Connected
  <2> QED
    BY <2>1, <2>2, <2>7, GoesOn
<1>4. CASE d.phase = "Listening" /\ ~HeardOdp(d) /\ (brings \/ d.flags = FlagsHeard)
  <2>1. Detected(d, brings, x) = Flagged(d, brings, x)
    BY <1>4 DEF Detected
  <2> QED
    BY <2>1, TakesFlags
<1>5. CASE /\ ~(d.phase = "Originating" /\ HeardAdp(d, "C"))
           /\ ~(d.phase = "Originating" /\ HeardAdp(d, "NULL"))
           /\ ~(d.phase = "Listening" /\ HeardOdp(d))
           /\ ~(d.phase = "Listening" /\ ~HeardOdp(d) /\ (brings \/ d.flags = FlagsHeard))
  <2>1. Detected(d, brings, x) = d
    BY <1>5 DEF Detected
  <2> QED
    BY <2>1, GoesSame
<1> QED
  BY <1>1, <1>2, <1>3, <1>4, <1>5

LEMMA HearsSymbol ==
  ASSUME NEW l, Shaped(l), NEW x, NEW late, NEW frame, x.kind = "frame" => frame
  PROVE  GoesTo(l, HearSymbol(l, x, late), frame)
<1>1. CASE l.phase = "Protocol"
  BY <1>1, HearsLapm DEF HearSymbol
<1>2. CASE l.phase = "Normal"
  <2> DEFINE r == HearSymbol(l, x, late)
  <2>1. r = l \/ \E got : r = [l EXCEPT !.received = got]
    BY <1>2 DEF HearSymbol
  <2> HIDE DEF r
  <2>2. /\ {"phase", "lapm", "tx"} \subseteq DOMAIN r
        /\ r.phase = l.phase /\ r.lapm = l.lapm /\ r.tx = l.tx
    BY <2>1 DEF Shaped
  <2>3. GoesTo(l, r, frame)
    BY <2>2, GoesAlike
  <2> QED
    BY <2>3 DEF r
<1>3. CASE l.phase = "Released"
  BY <1>3, GoesSame DEF HearSymbol
<1>4. CASE l.phase \notin {"Protocol", "Normal", "Released"}
  <2> DEFINE m == Deframed(l, x)
             d == Decoded(m, x)
  <2>1. HearSymbol(l, x, late) = Detected(d, BringsFrame(l, x), x)
    BY <1>4 DEF HearSymbol, Detect
  <2>2. GoesTo(l, m, frame)
    BY Deframes
  <2> HIDE DEF m
  <2>3. GoesTo(m, d, frame)
    BY <2>2, Decodes DEF GoesTo
  <2> HIDE DEF d
  <2>4. Shaped(d)
    BY <2>3 DEF GoesTo
  <2>5. BringsFrame(l, x) => frame
    BY DEF BringsFrame
  <2>6. GoesTo(d, Detected(d, BringsFrame(l, x), x), frame)
    BY <2>4, <2>5, Detects
  <2> QED
    BY <2>1, <2>2, <2>3, <2>6, GoesOn
<1> QED
  BY <1>1, <1>2, <1>3, <1>4

\* The states after each of the first symbols of a run.
Heard(f, l, symbols, late, n) ==
  f = [i \in 0 .. n |->
         IF i = 0 THEN Expire(l, late) ELSE HearSymbol(f[i - 1], symbols[i], late)]

\* There are such states: induction on how many symbols there are.
LEMMA HeardExists ==
  ASSUME NEW l, NEW symbols, NEW late, NEW n \in Nat
  PROVE  \E f : Heard(f, l, symbols, late, n)
<1> DEFINE Without == {k \in Nat : ~\E f : Heard(f, l, symbols, late, k)}
<1>1. SUFFICES ASSUME Without # {} PROVE FALSE
  BY Zenon
<1>2. PICK k \in Without : \A m \in Without : k <= m
  BY <1>1, LeastOf
<1>3. k # 0
  <2>1. Heard([i \in 0 .. 0 |-> Expire(l, late)], l, symbols, late, 0)
    BY DEF Heard
  <2> QED
    BY <2>1
<1>4. k - 1 \in Nat /\ k - 1 \notin Without
  BY <1>2, <1>3
<1>5. PICK g : Heard(g, l, symbols, late, k - 1)
  BY <1>4
<1> DEFINE f == [i \in 0 .. k |-> IF i = 0 THEN Expire(l, late)
                                 ELSE HearSymbol(g[i - 1], symbols[i], late)]
<1>6. \A j \in 0 .. k - 1 : f[j] = g[j]
  BY <1>5 DEF Heard
<1> HIDE DEF f
<1>7. \A i \in 0 .. k :
        f[i] = IF i = 0 THEN Expire(l, late) ELSE HearSymbol(f[i - 1], symbols[i], late)
  <2> SUFFICES ASSUME NEW i \in 0 .. k, i # 0
               PROVE  f[i] = HearSymbol(f[i - 1], symbols[i], late)
    BY DEF f
  <2>1. i - 1 \in 0 .. k - 1
    BY <1>4
  <2>2. f[i] = HearSymbol(g[i - 1], symbols[i], late)
    BY DEF f
  <2> QED
    BY <1>6, <2>1, <2>2
<1>8. Heard(f, l, symbols, late, k)
  <2>1. f = [i \in 0 .. k |-> f[i]]
    BY DEF f
  <2> QED
    BY <1>7, <2>1, Zenon DEF Heard
<1> QED
  BY <1>8

LEMMA Hears ==
  ASSUME NEW l, Shaped(l), NEW symbols, IsSeq(symbols), NEW late
  PROVE  GoesTo(l, Receive(l, symbols, late), Carries(symbols))
<1> DEFINE n == Len(symbols)
           f == CHOOSE f : Heard(f, l, symbols, late, n)
           frame == Carries(symbols)
<1>0. n \in Nat
  BY DEF IsSeq
<1>1. Receive(l, symbols, late) = Expire(Deliver(SetUpCodec(f[n])), late)
  BY DEF Receive, Heard
<1>2. Heard(f, l, symbols, late, n)
  <2>1. \E g : Heard(g, l, symbols, late, n)
    BY <1>0, HeardExists, Zenon
  <2> QED
    BY <2>1, Zenon
<1> HIDE DEF f
<1>3. /\ f[0] = Expire(l, late)
      /\ \A i \in 1 .. n : f[i] = HearSymbol(f[i - 1], symbols[i], late)
  BY <1>0, <1>2 DEF Heard
<1>4. \A i \in 1 .. n : symbols[i].kind = "frame" => frame
  BY DEF Carries
<1> HIDE DEF n, frame
<1> DEFINE Right(i) == GoesTo(l, f[i], frame)
           Wrong == {i \in Nat : i <= n /\ ~Right(i)}
<1>5. Right(0)
  BY <1>3, Expires
<1>6. ASSUME NEW i \in 1 .. n, Right(i - 1) PROVE Right(i)
  <2> DEFINE m == f[i - 1]
  <2>1. GoesTo(l, m, frame) /\ f[i] = HearSymbol(m, symbols[i], late)
    BY <1>3, <1>6
  <2> HIDE DEF m
  <2>2. Shaped(m)
    BY <2>1 DEF GoesTo
  <2>3. GoesTo(m, HearSymbol(m, symbols[i], late), frame)
    BY <1>4, <2>2, HearsSymbol
  <2> QED
    BY <2>1, <2>3, GoesOn
<1> HIDE DEF Right
<1>7. Wrong = {}
  <2> SUFFICES ASSUME Wrong # {} PROVE FALSE
    OBVIOUS
  <2>1. PICK i \in Wrong : \A j \in Wrong : i <= j
    BY LeastOf
  <2>2. i \in Nat /\ i <= n /\ ~Right(i)
    BY <2>1
  <2>3. i # 0
    BY <1>5, <2>2
  <2>4. i \in 1 .. n /\ i - 1 \in Nat /\ i - 1 <= n /\ ~(i <= i - 1)
    BY <1>0, <2>2, <2>3
  <2>5. i - 1 \notin Wrong
    BY <2>1, <2>4
  <2>6. Right(i - 1)
    BY <2>4, <2>5
  <2> QED
    BY <1>6, <2>2, <2>4, <2>6
<1>8. Right(n)
  <2>1. n <= n
    BY <1>0
  <2> QED
    BY <1>0, <1>7, <2>1
<1> DEFINE a == f[n]  b == SetUpCodec(a)  c == Deliver(b)
<1>9. GoesTo(l, a, frame)
  BY <1>8 DEF Right
<1> HIDE DEF a
<1>10. GoesTo(a, b, frame)
  BY <1>9, SetsUpCodec DEF GoesTo
<1> HIDE DEF b
<1>11. GoesTo(b, c, frame)
  BY <1>10, Delivers DEF GoesTo
<1> HIDE DEF c
<1>12. Shaped(c)
  BY <1>11 DEF GoesTo
<1>13. GoesTo(c, Expire(c, late), frame)
  BY <1>12, Expires
<1>14. Receive(l, symbols, late) = Expire(c, late)
  BY <1>1 DEF a, b, c
<1> QED
  BY <1>9, <1>10, <1>11, <1>13, <1>14, GoesOn DEF frame

-----------------------------------------------------------------------------
(***************************************************************************)
(* Both.                                                                   *)
(***************************************************************************)
\* An end that has sent a frame, or whose peer is connected, has decided on
\* V.42 for good.
SplitInv ==
  /\ link = [e \in Ends |-> link[e]] /\ line = [e \in Ends |-> line[e]]
  /\ \A e \in Ends :
       /\ Shaped(link[e]) /\ IsSeq(line[e])
       /\ Carries(link[e].tx) \/ Carries(line[e]) \/ Connected(link[Peer(e)])
            => Decided(link[e])

LEMMA Others ==
  ASSUME NEW e \in Ends
  PROVE  Peer(e) \in Ends /\ Peer(e) # e /\ Peer(Peer(e)) = e
         /\ \A f \in Ends : f = e \/ f = Peer(e)
BY DEF Ends, Peer

LEMMA SplitInitially == Init => SplitInv
<1> SUFFICES ASSUME Init PROVE SplitInv
  OBVIOUS
<1>1. ASSUME NEW originates, NEW setup
      PROVE  LET l == NewLink(originates, setup)
             IN  Shaped(l) /\ l.tx = <<>> /\ l.phase = "Idle"
  <2>1. "state" \in DOMAIN LAPM!Fresh("Released", {})
    BY DEF LAPM!Fresh
  <2> QED
    BY <2>1, Bare DEF NewLink, Shaped, Phases
<1>2. link = [e \in Ends |-> link[e]] /\ line = [e \in Ends |-> line[e]]
  BY DEF Init
<1>3. \A e \in Ends : Shaped(link[e]) /\ link[e].tx = <<>> /\ link[e].phase = "Idle"
  BY <1>1 DEF Init
<1>4. \A e \in Ends : line[e] = <<>>
  BY DEF Init
<1>5. \A e \in Ends : ~Connected(link[Peer(e)])
  BY <1>3, Others DEF Connected
<1> QED
  BY <1>2, <1>3, <1>4, <1>5, Bare DEF SplitInv

\* What a step of one end has to show: it goes on from what it was, and the
\* line each way has lost something or got what this end had to send.
LEMMA SplitSteps ==
  ASSUME SplitInv, NEW e \in Ends, NEW r, NEW mine, NEW theirs, NEW frame,
         link' = [link EXCEPT ![e] = r],
         line' = [line EXCEPT ![e] = mine, ![Peer(e)] = theirs],
         GoesTo(link[e], r, frame), IsSeq(mine), IsSeq(theirs),
         frame => Carries(line[Peer(e)]),
         Carries(theirs) => Carries(line[Peer(e)]),
         Carries(mine) => Carries(line[e]) \/ Carries(link[e].tx) \/ Decided(r)
  PROVE  SplitInv'
<1> DEFINE f == Peer(e)
<1>0. f \in Ends /\ f # e /\ Peer(f) = e /\ \A g \in Ends : g = e \/ g = f
  BY Others
<1>1. /\ link' = [g \in Ends |-> link'[g]] /\ line' = [g \in Ends |-> line'[g]]
      /\ link'[e] = r /\ link'[f] = link[f] /\ line'[e] = mine /\ line'[f] = theirs
  BY <1>0 DEF SplitInv
<1>2. Decided(link[f]) \/ ~Connected(link[e])
  BY <1>0 DEF SplitInv
<1>3. Carries(line[f]) => Decided(link[f])
  BY <1>0 DEF SplitInv
<1>4. /\ Shaped(r) /\ (Decided(link[e]) => Decided(r))
      /\ Carries(r.tx) => Carries(link[e].tx) \/ Decided(r)
      /\ Connected(r) => Connected(link[e]) \/ frame
  BY DEF GoesTo
<1>5. Carries(r.tx) \/ Carries(mine) \/ Connected(link[f]) => Decided(r)
  BY <1>0, <1>4 DEF SplitInv
<1>6. Carries(link[f].tx) \/ Carries(theirs) \/ Connected(r) => Decided(link[f])
  BY <1>0, <1>2, <1>3, <1>4 DEF SplitInv
<1>7. Shaped(link[f])
  BY <1>0 DEF SplitInv
<1> HIDE DEF f
<1> QED
  BY <1>0, <1>1, <1>4, <1>5, <1>6, <1>7 DEF SplitInv

LEMMA SplitTransmits ==
  ASSUME SplitInv, NEW e \in Ends, NEW late \in BOOLEAN, TransmitWith(e, late)
  PROVE  SplitInv'
<1> DEFINE l == Filled(link[e], late)
           r == AfterTransmit(l)
           mine == line[e] \o SymbolSent(l)
<1>1. Shaped(link[e]) /\ IsSeq(line[e]) /\ IsSeq(line[Peer(e)])
  BY Others DEF SplitInv
<1>2. link' = [link EXCEPT ![e] = r] /\ line' = [line EXCEPT ![e] = mine]
  BY DEF TransmitWith, Becomes
<1>3. GoesTo(link[e], l, FALSE)
  BY <1>1, FilledKeeps
<1> HIDE DEF l
<1>4. Shaped(l)
  BY <1>3 DEF GoesTo
<1>5. /\ GoesTo(l, r, FALSE) /\ IsSeq(SymbolSent(l))
      /\ Carries(SymbolSent(l)) => Carries(l.tx)
  <2>1. CASE l.tx = <<>>
    <3>1. r = l /\ SymbolSent(l) = <<>>
      BY <2>1 DEF AfterTransmit, SymbolSent, Transmits
    <3> QED
      BY <1>4, <3>1, Bare, GoesSame
  <2>2. CASE l.tx # <<>>
    <3>1. r = [l EXCEPT !.tx = Tail(@)] /\ SymbolSent(l) = <<Head(l.tx)>>
      BY <2>2 DEF AfterTransmit, SymbolSent, Transmits
    <3>2. /\ IsSeq(Tail(l.tx)) /\ (Carries(Tail(l.tx)) => Carries(l.tx))
          /\ Head(l.tx).kind = "frame" => Carries(l.tx)
      BY <1>4, <2>2, Later DEF Shaped
    <3> HIDE DEF r
    <3>3. /\ {"phase", "lapm", "tx"} \subseteq DOMAIN r /\ r.phase = l.phase
          /\ r.lapm = l.lapm /\ r.tx = Tail(l.tx)
      BY <1>4, <3>1 DEF Shaped
    <3>4. Shaped(r)
      BY <1>4, <3>2, <3>3 DEF Shaped
    <3>5. GoesTo(l, r, FALSE)
      BY <3>2, <3>3, <3>4 DEF GoesTo, Decided, Connected
    <3>6. IsSeq(SymbolSent(l)) /\ (Carries(SymbolSent(l)) => Carries(l.tx))
      BY <3>1, <3>2, Short
    <3> QED
      BY <3>5, <3>6 DEF r
  <2> QED
    BY <2>1, <2>2
<1> HIDE DEF r
<1>6. GoesTo(link[e], r, FALSE)
  BY <1>3, <1>5, GoesOn
<1>7. IsSeq(mine) /\ (Carries(mine) => Carries(line[e]) \/ Carries(l.tx))
  BY <1>1, <1>5, Joined
<1>8. Carries(l.tx) => Carries(link[e].tx) \/ Decided(r)
  BY <1>3, <1>5 DEF GoesTo
<1> HIDE DEF mine
<1>9. line' = [line EXCEPT ![e] = mine, ![Peer(e)] = line[Peer(e)]]
  BY <1>2, Others DEF SplitInv
<1> QED
  BY <1>1, <1>2, <1>6, <1>7, <1>8, <1>9, SplitSteps

LEMMA SplitHears ==
  ASSUME SplitInv, NEW e \in Ends, NEW symbols, NEW late \in BOOLEAN,
         HearWith(e, symbols, late), IsSeq(symbols),
         Len(symbols) \in 1 .. Len(line[Peer(e)]),
         Carries(symbols) => Carries(line[Peer(e)])
  PROVE  SplitInv'
<1> DEFINE q == line[Peer(e)]
           n == Len(symbols)
           r == Receive(link[e], symbols, late)
           theirs == SubSeq(q, n + 1, Len(q))
<1>0. Peer(e) \in Ends /\ Peer(e) # e
  BY Others
<1>1. Shaped(link[e]) /\ IsSeq(line[e]) /\ IsSeq(q)
  BY <1>0 DEF SplitInv
<1>2. link' = [link EXCEPT ![e] = r] /\ line' = [line EXCEPT ![Peer(e)] = theirs]
  BY <1>0 DEF HearWith, Becomes, SplitInv
<1>3. GoesTo(link[e], r, Carries(symbols))
  BY <1>1, Hears
<1>4. n \in 0 .. Len(q)
  <2>1. Len(q) \in Nat
    BY <1>1 DEF IsSeq
  <2> QED
    BY <2>1
<1>5. IsSeq(theirs) /\ (Carries(theirs) => Carries(q))
  BY <1>1, <1>4, Part
<1>6. line' = [line EXCEPT ![e] = line[e], ![Peer(e)] = theirs]
  BY <1>0, <1>2 DEF SplitInv
<1> HIDE DEF r, theirs
<1> QED
  BY <1>1, <1>2, <1>3, <1>5, <1>6, SplitSteps

LEMMA SplitStays ==
  ASSUME SplitInv, NEW e \in Ends, NEW r, GoesTo(link[e], r, FALSE),
         link' = [link EXCEPT ![e] = r], line' = line
  PROVE  SplitInv'
<1>1. IsSeq(line[e]) /\ IsSeq(line[Peer(e)])
  BY Others DEF SplitInv
<1>2. line' = [line EXCEPT ![e] = line[e], ![Peer(e)] = line[Peer(e)]]
  BY Others DEF SplitInv
<1> QED
  BY <1>1, <1>2, SplitSteps

LEMMA SplitKept == SplitInv /\ [Next]_vars => SplitInv'
<1> SUFFICES ASSUME SplitInv, [Next]_vars PROVE SplitInv'
  OBVIOUS
<1>0. \A e \in Ends : Shaped(link[e]) /\ IsSeq(line[e])
  BY DEF SplitInv
<1>1. ASSUME NEW e \in Ends, Begin(e) PROVE SplitInv'
  <2>1. GoesTo(link[e], Start(link[e], call.slow), FALSE)
    BY <1>0, Starting
  <2> QED
    BY <1>1, <2>1, SplitStays DEF Begin, Becomes
<1>2. ASSUME NEW e \in Ends, SendText(e) PROVE SplitInv'
  <2>1. GoesTo(link[e], Send(link[e], call.texts[e][given[e] + 1]), FALSE)
    BY <1>0, Sends
  <2> QED
    BY <1>2, <2>1, SplitStays DEF SendText, Becomes
<1>3. ASSUME NEW e \in Ends, Transmit(e) \/ TransmitLate(e) PROVE SplitInv'
  BY <1>3, SplitTransmits DEF Transmit, TransmitLate
<1>4. ASSUME NEW e \in Ends, Hear(e) PROVE SplitInv'
  <2> DEFINE q == line[Peer(e)]
  <2>1. PICK n \in 1 .. Len(q) : HearWith(e, SubSeq(q, 1, n), FALSE)
    BY <1>4 DEF Hear
  <2>2. IsSeq(q) /\ n \in 0 .. Len(q)
    BY <1>0, <2>1, Others
  <2>3. IsSeq(SubSeq(q, 1, n)) /\ (Carries(SubSeq(q, 1, n)) => Carries(q))
        /\ Len(SubSeq(q, 1, n)) = n
    BY <2>2, Part
  <2> QED
    BY <2>1, <2>3, SplitHears
<1>5. ASSUME NEW e \in Ends, HearLate(e) PROVE SplitInv'
  <2> DEFINE q == line[Peer(e)]  s == <<Head(q)>>
  <2>1. q # <<>> /\ HearWith(e, s, TRUE) /\ IsSeq(q)
    BY <1>0, <1>5, Others DEF HearLate
  <2>2. IsSeq(s) /\ (Carries(s) => Carries(q))
    BY <2>1, Short, Later
  <2>3. Len(s) \in 1 .. Len(q)
    BY <2>1 DEF IsSeq
  <2> HIDE DEF s
  <2> QED
    BY <2>1, <2>2, <2>3, SplitHears
<1>6. ASSUME NEW e \in Ends, HearDamaged(e) PROVE SplitInv'
  <2> DEFINE q == line[Peer(e)]  s == <<Noise>>
  <2>1. q # <<>> /\ HearWith(e, s, FALSE) /\ IsSeq(q)
    BY <1>0, <1>6, Others DEF HearDamaged
  <2>2. IsSeq(s) /\ ~Carries(s)
    BY Short DEF Noise
  <2>3. Len(s) \in 1 .. Len(q)
    BY <2>1 DEF IsSeq
  <2> HIDE DEF s
  <2> QED
    BY <2>1, <2>2, <2>3, SplitHears
<1>7. CASE UNCHANGED vars
  <2>1. link' = link /\ line' = line
    BY <1>7 DEF vars
  <2> QED
    BY <2>1 DEF SplitInv
<1> QED
  BY <1>1, <1>2, <1>3, <1>4, <1>5, <1>6, <1>7 DEF Next

\* For any setups, texts, speeds, repetitions and bounds, and whatever is damaged
\* or late, one end is not told of an error-corrected connection while the other
\* has fallen back to plain characters: lib.rs expire, detect and status.
THEOREM NeverTornApart == Spec => []NeverSplit
<1>1. SplitInv => NeverSplit
  <2> SUFFICES ASSUME SplitInv, NEW e \in Ends, Status(link[e]) = "Reliable"
               PROVE  Status(link[Peer(e)]) # "Normal"
    BY DEF NeverSplit
  <2>1. \A f \in Ends : link[f].phase \in Phases
    BY DEF SplitInv, Shaped
  <2>2. Connected(link[e])
    BY <2>1 DEF Status, Connected, Phases
  <2>3. Decided(link[Peer(e)])
    BY <2>2, Others DEF SplitInv
  <2> QED
    BY <2>3 DEF Decided, Status
<1>2. Spec => []SplitInv
  BY SplitInitially, SplitKept, PTL DEF Spec
<1> QED
  BY <1>1, <1>2, PTL

-----------------------------------------------------------------------------
(***************************************************************************)
(* The text on a line.                                                     *)
(***************************************************************************)
\* The text of the first symbols of a sequence.
Texts(f, q, n) ==
  f = [i \in 0 .. n |-> IF i = 0 THEN <<>> ELSE f[i - 1] \o TextOf(q[i])]

LEMMA TextsExist ==
  ASSUME NEW q, NEW n \in Nat
  PROVE  \E f : Texts(f, q, n)
<1> DEFINE Without == {k \in Nat : ~\E f : Texts(f, q, k)}
<1>1. SUFFICES ASSUME Without # {} PROVE FALSE
  BY Zenon
<1>2. PICK k \in Without : \A m \in Without : k <= m
  BY <1>1, LeastOf
<1>3. k # 0
  <2>1. Texts([i \in 0 .. 0 |-> <<>>], q, 0)
    BY DEF Texts
  <2> QED
    BY <2>1
<1>4. k - 1 \in Nat /\ k - 1 \notin Without
  BY <1>2, <1>3
<1>5. PICK g : Texts(g, q, k - 1)
  BY <1>4
<1> DEFINE f == [i \in 0 .. k |-> IF i = 0 THEN <<>> ELSE g[i - 1] \o TextOf(q[i])]
<1>6. \A j \in 0 .. k - 1 : f[j] = g[j]
  BY <1>5 DEF Texts
<1> HIDE DEF f
<1>7. \A i \in 0 .. k : f[i] = IF i = 0 THEN <<>> ELSE f[i - 1] \o TextOf(q[i])
  <2> SUFFICES ASSUME NEW i \in 0 .. k, i # 0 PROVE f[i] = f[i - 1] \o TextOf(q[i])
    BY DEF f
  <2>1. i - 1 \in 0 .. k - 1
    BY <1>4
  <2>2. f[i] = g[i - 1] \o TextOf(q[i])
    BY DEF f
  <2> QED
    BY <1>6, <2>1, <2>2
<1>8. Texts(f, q, k)
  <2>1. f = [i \in 0 .. k |-> f[i]]
    BY DEF f
  <2> QED
    BY <1>7, <2>1, Zenon DEF Texts
<1> QED
  BY <1>8

\* The text of a sequence, step by step.
LEMMA TextBuilt ==
  ASSUME NEW q, IsSeq(q)
  PROVE  \E f : /\ TextOn(q) = f[Len(q)] /\ f[0] = <<>>
                /\ \A i \in 1 .. Len(q) : f[i] = f[i - 1] \o TextOf(q[i])
                /\ \A i \in 0 .. Len(q) : f[i] \in Seq(Text)
<1> DEFINE n == Len(q)
           f == CHOOSE f : Texts(f, q, n)
<1>0. n \in Nat
  BY DEF IsSeq
<1>1. TextOn(q) = f[n]
  BY DEF TextOn, Texts
<1>2. Texts(f, q, n)
  <2>1. \E g : Texts(g, q, n)
    BY <1>0, TextsExist, Zenon
  <2> QED
    BY <2>1, Zenon
<1> HIDE DEF f, n
<1>3. f[0] = <<>> /\ \A i \in 1 .. n : f[i] = f[i - 1] \o TextOf(q[i])
  <2>1. f[0] = <<>>
    BY <1>0, <1>2 DEF Texts
  <2>2. ASSUME NEW i \in 1 .. n PROVE f[i] = f[i - 1] \o TextOf(q[i])
    <3>1. i \in 0 .. n /\ i # 0
      BY <1>0
    <3> QED
      BY <1>2, <3>1 DEF Texts
  <2> QED
    BY <2>1, <2>2
<1>4. \A x : TextOf(x) \in Seq(Text)
  BY DEF TextOf
<1> DEFINE Wrong == {i \in Nat : i <= n /\ f[i] \notin Seq(Text)}
<1>5. Wrong = {}
  <2> SUFFICES ASSUME Wrong # {} PROVE FALSE
    OBVIOUS
  <2>1. PICK i \in Wrong : \A j \in Wrong : i <= j
    BY LeastOf
  <2>2. i \in Nat /\ i <= n /\ f[i] \notin Seq(Text)
    BY <2>1
  <2>3. i # 0
    <3>1. f[0] \in Seq(Text)
      <4>1. <<>> \in Seq(Text)
        OBVIOUS
      <4> QED
        BY <1>3, <4>1
    <3> QED
      BY <2>2, <3>1
  <2>4. i \in 1 .. n /\ i - 1 \in Nat /\ i - 1 <= n /\ ~(i <= i - 1)
    BY <1>0, <2>2, <2>3
  <2>5. i - 1 \notin Wrong
    BY <2>1, <2>4
  <2>6. f[i - 1] \in Seq(Text)
    BY <2>4, <2>5
  <2>7. f[i - 1] \o TextOf(q[i]) \in Seq(Text)
    BY <1>4, <2>6, ConcatProperties
  <2> QED
    BY <1>3, <2>2, <2>4, <2>7
<1>6. \A i \in 0 .. n : f[i] \in Seq(Text)
  BY <1>0, <1>5
<1> QED
  BY <1>1, <1>3, <1>6 DEF n

LEMMA TextOfOne ==
  ASSUME NEW x
  PROVE  TextOn(<<x>>) = TextOf(x) /\ TextOn(<<>>) = <<>> /\ TextOf(x) \in Seq(Text)
<1>0. TextOf(x) \in Seq(Text)
  BY DEF TextOf
<1>1. TextOn(<<x>>) = TextOf(x)
  <2>1. IsSeq(<<x>>) /\ Len(<<x>>) = 1 /\ <<x>>[1] = x
    BY Short
  <2>2. PICK f : /\ TextOn(<<x>>) = f[1] /\ f[0] = <<>>
                 /\ \A i \in 1 .. 1 : f[i] = f[i - 1] \o TextOf(<<x>>[i])
    BY <2>1, TextBuilt
  <2>3. f[1] = f[0] \o TextOf(x)
    <3>1. 1 \in 1 .. 1 /\ 1 - 1 = 0
      OBVIOUS
    <3>2. f[1] = f[1 - 1] \o TextOf(<<x>>[1])
      BY <2>2, <3>1
    <3> QED
      BY <2>1, <3>1, <3>2, Zenon
  <2>4. <<>> \o TextOf(x) = TextOf(x)
    BY <1>0, ConcatEmptySeq
  <2> QED
    BY <2>2, <2>3, <2>4
<1>2. TextOn(<<>>) = <<>>
  <2>1. Len(<<>>) = 0
    OBVIOUS
  <2> QED
    BY <2>1, Bare, TextBuilt
<1> QED
  BY <1>0, <1>1, <1>2

\* The text of two stretches is that of the first and then that of the second.
LEMMA TextJoined ==
  ASSUME NEW q, IsSeq(q), NEW r, IsSeq(r)
  PROVE  /\ TextOn(q \o r) = TextOn(q) \o TextOn(r)
         /\ TextOn(q) \in Seq(Text)
<1> DEFINE s == q \o r
           a == Len(q)
           b == Len(r)
<1>0. /\ a \in Nat /\ b \in Nat /\ Len(s) = a + b /\ IsSeq(s)
      /\ \A i \in 1 .. a : s[i] = q[i]
      /\ \A i \in 1 .. b : s[a + i] = r[i]
  <2>1. PICK S : q \in Seq(S)
    BY DEF IsSeq
  <2>2. PICK T : r \in Seq(T)
    BY DEF IsSeq
  <2> DEFINE U == S \cup T
  <2>3. q \in Seq(U) /\ r \in Seq(U)
    BY <2>1, <2>2
  <2> HIDE DEF U
  <2>4. IsSeq(s)
    BY Joined
  <2> QED
    BY <2>3, <2>4
<1>1. PICK f : /\ TextOn(q) = f[a] /\ f[0] = <<>>
               /\ \A i \in 1 .. a : f[i] = f[i - 1] \o TextOf(q[i])
               /\ \A i \in 0 .. a : f[i] \in Seq(Text)
  BY TextBuilt
<1>2. PICK g : /\ TextOn(r) = g[b] /\ g[0] = <<>>
               /\ \A i \in 1 .. b : g[i] = g[i - 1] \o TextOf(r[i])
               /\ \A i \in 0 .. b : g[i] \in Seq(Text)
  BY TextBuilt
<1>3. PICK h : /\ TextOn(s) = h[Len(s)] /\ h[0] = <<>>
               /\ \A i \in 1 .. Len(s) : h[i] = h[i - 1] \o TextOf(s[i])
  BY <1>0, TextBuilt
<1> HIDE DEF s, a, b
<1> DEFINE Wrong1 == {i \in Nat : i <= a /\ h[i] # f[i]}
<1>4. Wrong1 = {}
  <2> SUFFICES ASSUME Wrong1 # {} PROVE FALSE
    OBVIOUS
  <2>1. PICK i \in Wrong1 : \A j \in Wrong1 : i <= j
    BY LeastOf
  <2>2. i \in Nat /\ i <= a /\ h[i] # f[i]
    BY <2>1
  <2>3. i # 0
    BY <1>1, <1>3, <2>2
  <2>4. i \in 1 .. a /\ i - 1 \in Nat /\ i - 1 <= a /\ ~(i <= i - 1) /\ i \in 1 .. Len(s)
    BY <1>0, <2>2, <2>3
  <2>5. i - 1 \notin Wrong1
    BY <2>1, <2>4
  <2>6. h[i - 1] = f[i - 1] /\ s[i] = q[i]
    BY <1>0, <2>4, <2>5
  <2> QED
    BY <1>1, <1>3, <2>2, <2>4, <2>6
<1>5. h[a] = f[a]
  BY <1>0, <1>4
<1> DEFINE Wrong2 == {i \in Nat : i <= b /\ h[a + i] # f[a] \o g[i]}
<1>6. f[a] \in Seq(Text)
  BY <1>0, <1>1
<1>7. Wrong2 = {}
  <2> SUFFICES ASSUME Wrong2 # {} PROVE FALSE
    OBVIOUS
  <2>1. PICK i \in Wrong2 : \A j \in Wrong2 : i <= j
    BY LeastOf
  <2>2. i \in Nat /\ i <= b /\ h[a + i] # f[a] \o g[i]
    BY <2>1
  <2>3. i # 0
    <3>1. f[a] \o g[0] = f[a]
      BY <1>2, <1>6, ConcatEmptySeq
    <3>2. h[a + 0] = f[a]
      <4>1. a + 0 = a
        BY <1>0
      <4> QED
        BY <1>5, <4>1
    <3> QED
      BY <2>2, <3>1, <3>2
  <2>4. i \in 1 .. b /\ i - 1 \in Nat /\ i - 1 <= b /\ ~(i <= i - 1) /\ a + i \in 1 .. Len(s)
        /\ i - 1 \in 0 .. b /\ (a + i) - 1 = a + (i - 1)
    BY <1>0, <2>2, <2>3
  <2>5. i - 1 \notin Wrong2
    BY <2>1, <2>4
  <2>6. h[a + (i - 1)] = f[a] \o g[i - 1]
    BY <2>4, <2>5
  <2>7. h[a + i] = h[a + (i - 1)] \o TextOf(s[a + i])
    BY <1>3, <2>4
  <2>8. s[a + i] = r[i] /\ g[i] = g[i - 1] \o TextOf(r[i]) /\ g[i - 1] \in Seq(Text)
    BY <1>0, <1>2, <2>4
  <2>a. TextOf(r[i]) \in Seq(Text)
    BY TextOfOne
  <2>9. (f[a] \o g[i - 1]) \o TextOf(r[i]) = f[a] \o (g[i - 1] \o TextOf(r[i]))
    <3>1. \A t, u, v \in Seq(Text) : (t \o u) \o v = t \o (u \o v)
      BY ConcatAssociative
    <3> QED
      BY <1>6, <2>8, <2>a, <3>1
  <2> QED
    BY <2>2, <2>6, <2>7, <2>8, <2>9
<1>8. h[a + b] = f[a] \o g[b]
  <2>1. b \in Nat /\ b <= b
    BY <1>0
  <2> QED
    BY <1>7, <2>1
<1> QED
  BY <1>0, <1>1, <1>2, <1>3, <1>6, <1>8 DEF s

-----------------------------------------------------------------------------
(***************************************************************************)
(* One link, until it decides on V.42.                                     *)
(***************************************************************************)
Plain(l) == l.phase \in {"Idle", "Originating", "Listening", "Normal"}

\* What an end sends until then: the characters of its computer, and ODPs.
PlainCharacters == Text \cup {"DC1even", "DC1odd"}
PlainSymbol == {Character(c) : c \in PlainCharacters}

\* What its computer has, or will have when the end falls back.
Got(l) == l.received \o l.held

Soft(l) ==
  Plain(l) =>
    /\ {"phase", "tx", "heard", "held", "received"} \subseteq DOMAIN l
    /\ l.tx \in Seq(PlainSymbol) /\ l.held \in Seq(Text) /\ l.received \in Seq(Text)
    /\ l.phase = "Normal" => l.held = <<>>

\* It has heard an end that has not decided either.
Clean(l) == l.heard \in Seq(PlainCharacters)

\* A step that keeps what was heard.
Same(l, r) ==
  /\ Soft(r)
  /\ Plain(r) => /\ Plain(l) /\ r.tx = l.tx /\ r.heard = l.heard
                 /\ Got(r) = Got(l)

\* A step that hears a text, if what is heard is plain.
Grows(l, r, plain, text) ==
  /\ Soft(r)
  /\ Plain(r) => /\ Plain(l) /\ r.tx = l.tx
                 /\ plain /\ Clean(l) => Clean(r) /\ Got(r) = Got(l) \o text

LEMMA PlainBefore ==
  ASSUME NEW l, Shaped(l), NEW r, NEW frame, GoesTo(l, r, frame), Plain(r)
  PROVE  Plain(l)
BY DEF GoesTo, Shaped, Phases, Plain, Decided

LEMMA SameUnless ==
  ASSUME NEW l, Shaped(l), NEW r, NEW frame, GoesTo(l, r, frame),
         Plain(l) => Same(l, r)
  PROVE  Same(l, r)
<1>1. CASE Plain(r)
  BY <1>1, PlainBefore
<1>2. CASE ~Plain(r)
  BY <1>2 DEF Same, Soft
<1> QED
  BY <1>1, <1>2

LEMMA SameItself ==
  ASSUME NEW l, Soft(l)
  PROVE  Same(l, l)
BY DEF Same

LEMMA SameThrough ==
  ASSUME NEW l, NEW m, NEW r, Same(l, m), Same(m, r)
  PROVE  Same(l, r)
BY DEF Same

LEMMA TextFallsBack ==
  ASSUME NEW l, Soft(l), Plain(l)
  PROVE  Same(l, FallBack(l))
<1> DEFINE r == FallBack(l)
<1>0. {"phase", "tx", "heard", "held", "received"} \subseteq DOMAIN l
  BY DEF Soft
<1>1. CASE l.setup.required
  <2>1. r.phase = "Released"
    BY <1>0, <1>1 DEF FallBack
  <2> HIDE DEF r
  <2>2. Same(l, r)
    BY <2>1 DEF Same, Soft, Plain
  <2> QED
    BY <2>2 DEF r
<1>2. CASE ~l.setup.required
  <2>1. r = [l EXCEPT !.phase = "Normal", !.held = <<>>, !.received = @ \o l.held]
    BY <1>2 DEF FallBack
  <2> HIDE DEF r
  <2>2. /\ {"phase", "tx", "heard", "held", "received"} \subseteq DOMAIN r
        /\ r.phase = "Normal" /\ r.tx = l.tx /\ r.heard = l.heard
        /\ r.held = <<>> /\ r.received = l.received \o l.held
    BY <1>0, <2>1
  <2>3. /\ l.received \in Seq(Text) /\ l.held \in Seq(Text) /\ l.tx \in Seq(PlainSymbol)
    BY DEF Soft
  <2>4. r.received \in Seq(Text)
    BY <2>2, <2>3, ConcatProperties
  <2>5. r.received \o <<>> = r.received
    BY <2>4, ConcatEmptySeq
  <2>6. <<>> \in Seq(Text)
    OBVIOUS
  <2>7. Soft(r)
    BY <2>2, <2>3, <2>4, <2>6 DEF Soft
  <2>8. Got(r) = Got(l)
    BY <2>2, <2>5 DEF Got
  <2>9. Same(l, r)
    BY <2>2, <2>7, <2>8 DEF Same
  <2> QED
    BY <2>9 DEF r
<1> QED
  BY <1>1, <1>2

LEMMA TextExpires ==
  ASSUME NEW l, Shaped(l), Soft(l), NEW late
  PROVE  Same(l, Expire(l, late))
<1>1. GoesTo(l, Expire(l, late), FALSE)
  BY Expires
<1>2. ASSUME Plain(l) PROVE Same(l, Expire(l, late))
  <2>1. Expire(l, late) = FallBack(l) \/ Expire(l, late) = l
    BY <1>2 DEF Expire, Plain
  <2> QED
    BY <1>2, <2>1, TextFallsBack, SameItself
<1> QED
  BY <1>1, <1>2, SameUnless

LEMMA TextStarts ==
  ASSUME NEW l, Shaped(l), Soft(l), NEW slow
  PROVE  Same(l, Start(l, slow))
<1> DEFINE s == [l EXCEPT !.setup.lapm = @ /\ ~slow]
           r == Start(l, slow)
<1>1. CASE l.phase # "Idle"
  <2>1. r = l
    BY <1>1 DEF Start
  <2> QED
    BY <2>1, SameItself
<1>2. CASE l.phase = "Idle"
  <2>1. /\ Plain(l) /\ {"phase", "tx", "heard", "held", "received"} \subseteq DOMAIN l
    BY <1>2 DEF Soft, Plain
  <2>2. /\ {"phase", "tx", "heard", "held", "received"} \subseteq DOMAIN s
        /\ s.phase = "Idle" /\ s.tx = l.tx /\ s.heard = l.heard
        /\ s.held = l.held /\ s.received = l.received
    BY <1>2, <2>1
  <2>3. \/ r = FallBack(s)
        \/ r = [s EXCEPT !.phase = "Listening"]
        \/ r = [s EXCEPT !.phase = "Originating"]
        \/ r = Protocol(s, LAPM!Originate(l.setup.offer))
    BY <1>2 DEF Start
  <2> HIDE DEF s, r
  <2>4. Soft(s) /\ Plain(s) /\ Same(l, s)
    BY <2>1, <2>2 DEF Soft, Plain, Same, Got
  <2>5. ASSUME NEW phase \in {"Listening", "Originating"}, r = [s EXCEPT !.phase = phase]
        PROVE  Same(s, r)
    <3>1. /\ {"phase", "tx", "heard", "held", "received"} \subseteq DOMAIN r
          /\ r.phase = phase /\ r.tx = s.tx /\ r.heard = s.heard
          /\ r.held = s.held /\ r.received = s.received
      BY <2>2, <2>5
    <3> QED
      BY <2>4, <3>1 DEF Same, Soft, Plain, Got
  <2>6. ASSUME r = Protocol(s, LAPM!Originate(l.setup.offer)) PROVE Same(s, r)
    <3>1. r.phase = "Protocol"
      BY <2>2, <2>6 DEF Protocol
    <3> QED
      BY <3>1 DEF Same, Soft, Plain
  <2>7. Same(s, r)
    BY <2>3, <2>4, <2>5, <2>6, TextFallsBack
  <2>8. Same(l, r)
    BY <2>4, <2>7, SameThrough
  <2> QED
    BY <2>8 DEF r
<1> QED
  BY <1>1, <1>2

LEMMA TextSetsUpCodec ==
  ASSUME NEW l, Shaped(l), Soft(l)
  PROVE  Same(l, SetUpCodec(l))
<1>1. GoesTo(l, SetUpCodec(l), FALSE)
  BY SetsUpCodec
<1>2. Plain(l) => SetUpCodec(l) = l
  BY DEF SetUpCodec, Plain
<1> QED
  BY <1>1, <1>2, SameUnless, SameItself

LEMMA TextDelivers ==
  ASSUME NEW l, Shaped(l), Soft(l)
  PROVE  Same(l, Deliver(l))
<1>1. GoesTo(l, Deliver(l), FALSE)
  BY Delivers
<1>2. Plain(l) => Deliver(l) = l
  BY DEF Deliver, Plain
<1> QED
  BY <1>1, <1>2, SameUnless, SameItself

\* A plain character's text is the character, and it is heard as it is.
LEMMA PlainIs ==
  ASSUME NEW x \in PlainSymbol
  PROVE  /\ x.kind = "character" /\ x.character \in PlainCharacters
         /\ x.character \in Text => TextOf(x) = <<x.character>>
         /\ x.character \notin Text => TextOf(x) = <<>>
<1>1. PICK c \in PlainCharacters : x = Character(c)
  BY DEF PlainSymbol
<1>2. x.kind = "character" /\ x.character = c
  BY <1>1 DEF Character
<1> QED
  BY <1>2 DEF TextOf

LEMMA LastOfSeq ==
  ASSUME NEW S, NEW q \in Seq(S), NEW c \in S
  PROVE  LastFour(Append(q, c)) \in Seq(S)
<1>1. ASSUME NEW p \in Seq(S) PROVE LastFour(p) \in Seq(S)
  <2>1. Len(p) \in Nat /\ \A i \in 1 .. Len(p) : p[i] \in S
    OBVIOUS
  <2>2. CASE Len(p) <= 4
    BY <2>2 DEF LastFour
  <2>3. CASE ~(Len(p) <= 4)
    <3>1. \A i \in Len(p) - 3 .. Len(p) : p[i] \in S
      BY <2>1, <2>3
    <3>2. SubSeq(p, Len(p) - 3, Len(p)) \in Seq(S)
      BY <2>1, <3>1, SubSeqProperties
    <3> QED
      BY <2>3, <3>2 DEF LastFour
  <2> QED
    BY <2>2, <2>3
<1>2. Append(q, c) \in Seq(S)
  OBVIOUS
<1> QED
  BY <1>1, <1>2

\* A symbol in the detection phase, before the link makes something of it.
LEMMA TextDecoded ==
  ASSUME NEW l, Soft(l), l.phase \in {"Idle", "Originating", "Listening"}, NEW x
  PROVE  LET d == Decoded(Deframed(l, x), x)
         IN  /\ d.phase = l.phase /\ d.tx = l.tx /\ Soft(d)
             /\ x \in PlainSymbol /\ Clean(l) => Clean(d) /\ Got(d) = Got(l) \o TextOf(x)
<1> DEFINE m == Deframed(l, x)
           d == Decoded(m, x)
<1>0. /\ Plain(l) /\ {"phase", "tx", "heard", "held", "received"} \subseteq DOMAIN l
      /\ l.tx \in Seq(PlainSymbol) /\ l.held \in Seq(Text) /\ l.received \in Seq(Text)
  BY DEF Soft, Plain
<1>1. /\ {"phase", "tx", "heard", "held", "received"} \subseteq DOMAIN m
      /\ m.phase = l.phase /\ m.tx = l.tx /\ m.heard = l.heard
      /\ m.held = l.held /\ m.received = l.received
  BY <1>0 DEF Deframed
<1>2. /\ {"phase", "tx", "heard", "held", "received"} \subseteq DOMAIN d
      /\ d.phase = m.phase /\ d.tx = m.tx /\ d.received = m.received
      /\ d.held = IF x.kind = "character" /\ x.character \in Text
                  THEN Append(m.held, x.character) ELSE m.held
      /\ x.kind = "character" => d.heard = LastFour(Append(m.heard, x.character))
  <2>1. CASE x.kind = "character"
    <3>1. d = [m EXCEPT !.heard = LastFour(Append(@, x.character)),
                        !.held = IF x.character \in Text THEN Append(@, x.character) ELSE @]
      BY <2>1 DEF Decoded
    <3> HIDE DEF d, m
    <3> QED
      BY <1>1, <2>1, <3>1
  <2>2. CASE x.kind # "character"
    <3>1. d = [m EXCEPT !.heard = LastFour(Append(@, "?"))] \/ d = m
      BY <2>2 DEF Decoded
    <3> HIDE DEF d, m
    <3> QED
      BY <1>1, <2>2, <3>1
  <2> QED
    BY <2>1, <2>2
<1> HIDE DEF d, m
<1>3. d.held \in Seq(Text)
  BY <1>0, <1>1, <1>2
<1>4. Soft(d)
  BY <1>0, <1>1, <1>2, <1>3 DEF Soft
<1>5. ASSUME x \in PlainSymbol, Clean(l) PROVE Clean(d) /\ Got(d) = Got(l) \o TextOf(x)
  <2>1. x.kind = "character" /\ x.character \in PlainCharacters
    BY <1>5, PlainIs
  <2>2. Clean(d)
    BY <1>1, <1>2, <1>5, <2>1, LastOfSeq DEF Clean
  <2>3. CASE x.character \in Text
    <3>1. TextOf(x) = <<x.character>> /\ d.held = Append(l.held, x.character)
      BY <1>1, <1>2, <1>5, <2>1, <2>3, PlainIs
    <3>2. d.held = l.held \o <<x.character>> /\ <<x.character>> \in Seq(Text)
      BY <1>0, <2>3, <3>1, AppendIsConcat
    <3>3. l.received \o (l.held \o <<x.character>>) = (l.received \o l.held) \o <<x.character>>
      BY <1>0, <3>2, ConcatAssociative
    <3> QED
      BY <1>1, <1>2, <2>2, <3>1, <3>2, <3>3 DEF Got
  <2>4. CASE x.character \notin Text
    <3>1. TextOf(x) = <<>> /\ d.held = l.held
      BY <1>1, <1>2, <1>5, <2>1, <2>4, PlainIs
    <3>2. l.received \o l.held \in Seq(Text)
      BY <1>0, ConcatProperties
    <3>3. (l.received \o l.held) \o <<>> = l.received \o l.held
      BY <3>2, ConcatEmptySeq
    <3> QED
      BY <1>1, <1>2, <2>2, <3>1, <3>3 DEF Got
  <2> QED
    BY <2>3, <2>4
<1> QED
  BY <1>1, <1>2, <1>4, <1>5 DEF d, m

\* Among plain characters there is no ADP.
LEMMA NoAdp ==
  ASSUME NEW d, Clean(d), NEW second
  PROVE  ~HeardAdp(d, second)
<1> SUFFICES ASSUME d.heard = <<"E", second, "E", second>> PROVE FALSE
  BY DEF HeardAdp
<1>1. Len(d.heard) = 4 /\ d.heard[1] = "E"
  OBVIOUS
<1>2. d.heard[1] \in PlainCharacters
  <2>1. 1 \in 1 .. 4
    OBVIOUS
  <2> QED
    BY <1>1, <2>1 DEF Clean
<1>3. "E" \notin PlainCharacters
  <2>1. "E" \in Patterns
    BY DEF Patterns
  <2>2. "E" \notin Text
    BY <2>1, LinkPairAssumption
  <2> QED
    BY <2>2 DEF PlainCharacters
<1> QED
  BY <1>1, <1>2, <1>3

LEMMA TextDetected ==
  ASSUME NEW d, Shaped(d), Soft(d), d.phase \in {"Idle", "Originating", "Listening"},
         NEW brings, NEW x
  PROVE  LET r == Detected(d, brings, x)
         IN  Soft(r) /\ (Plain(r) => r.tx = d.tx /\ (Clean(d) => r = d))
<1> DEFINE r == Detected(d, brings, x)
<1>0. /\ Plain(d) /\ {"phase", "tx", "heard", "held", "received"} \subseteq DOMAIN d
      /\ d.tx \in Seq(PlainSymbol) /\ d.held \in Seq(Text) /\ d.received \in Seq(Text)
  BY DEF Soft, Plain
<1>1. \A lapm : Protocol(d, lapm).phase = "Protocol"
                /\ {"phase", "tx"} \subseteq DOMAIN Protocol(d, lapm)
  BY <1>0 DEF Protocol
<1>2. ASSUME r.phase = "Protocol"
      PROVE  Soft(r) /\ ~Plain(r)
  BY <1>2 DEF Soft, Plain
<1>3. CASE d.phase = "Originating" /\ HeardAdp(d, "C")
  <2>1. r = Protocol(d, LAPM!Originate(d.setup.offer))
    <3>1. ~HeardAdp(d, "NULL")
      <4>1. <<"E", "C", "E", "C">> # <<"E", "NULL", "E", "NULL">>
        OBVIOUS
      <4> QED
        BY <1>3, <4>1 DEF HeardAdp
    <3> QED
      BY <1>3, <3>1 DEF Detected
  <2> QED
    BY <1>1, <1>2, <2>1
<1>4. CASE d.phase = "Originating" /\ ~HeardAdp(d, "C") /\ HeardAdp(d, "NULL")
  <2> DEFINE m == [d EXCEPT !.held = <<>>]
  <2>1. r = FallBack(m)
    BY <1>4 DEF Detected
  <2>2. /\ {"phase", "tx", "heard", "held", "received"} \subseteq DOMAIN m
        /\ m.phase = d.phase /\ m.tx = d.tx /\ m.heard = d.heard
        /\ m.held = <<>> /\ m.received = d.received
    BY <1>0
  <2> HIDE DEF m, r
  <2>3. Soft(m) /\ Plain(m)
    <3>1. <<>> \in Seq(Text)
      OBVIOUS
    <3> QED
      BY <1>0, <2>2, <3>1 DEF Soft, Plain
  <2>4. Same(m, r)
    BY <2>1, <2>3, TextFallsBack
  <2>5. Soft(r) /\ (Plain(r) => r.tx = d.tx) /\ ~Clean(d)
    BY <1>4, <2>2, <2>4, NoAdp DEF Same
  <2> QED
    BY <2>5 DEF r
<1>5. CASE d.phase = "Listening" /\ HeardOdp(d)
  <2>1. r = [Protocol(d, Answering(d)) EXCEPT !.adps = 1, !.tx = @ \o Adp]
    BY <1>5 DEF Detected
  <2>2. r.phase = "Protocol"
    BY <1>1, <2>1
  <2> QED
    BY <1>2, <2>2
<1>6. CASE d.phase = "Listening" /\ ~HeardOdp(d) /\ (brings \/ d.flags = FlagsHeard)
  <2> DEFINE lapm == IF brings THEN LAPM!Receive(Answering(d), x.frame) ELSE Answering(d)
  <2>1. r = [Protocol(d, lapm) EXCEPT !.tx = Append(@, Flag)]
    BY <1>6 DEF Detected, Flagged
  <2> HIDE DEF lapm, r
  <2>2. r.phase = "Protocol"
    BY <1>1, <2>1
  <2> QED
    BY <1>2, <2>2 DEF r
<1>7. CASE /\ ~(d.phase = "Originating" /\ HeardAdp(d, "C"))
           /\ ~(d.phase = "Originating" /\ HeardAdp(d, "NULL"))
           /\ ~(d.phase = "Listening" /\ HeardOdp(d))
           /\ ~(d.phase = "Listening" /\ ~HeardOdp(d) /\ (brings \/ d.flags = FlagsHeard))
  <2>1. r = d
    BY <1>7 DEF Detected
  <2> QED
    BY <2>1
<1> QED
  BY <1>3, <1>4, <1>5, <1>6, <1>7

LEMMA TextHeard ==
  ASSUME NEW l, Shaped(l), Soft(l), NEW x, NEW late
  PROVE  Grows(l, HearSymbol(l, x, late), x \in PlainSymbol, TextOf(x))
<1> DEFINE r == HearSymbol(l, x, late)
<1>1. CASE ~Plain(l)
  <2>1. GoesTo(l, r, TRUE)
    BY HearsSymbol
  <2>2. ~Plain(r)
    BY <1>1, <2>1, PlainBefore
  <2> QED
    BY <2>2 DEF Grows, Soft
<1>2. CASE l.phase = "Normal"
  <2>0. /\ Plain(l) /\ {"phase", "tx", "heard", "held", "received"} \subseteq DOMAIN l
        /\ l.tx \in Seq(PlainSymbol) /\ l.held = <<>> /\ l.received \in Seq(Text)
        /\ l.held \in Seq(Text)
    BY <1>2 DEF Soft, Plain
  <2>1. CASE x.kind = "character" /\ x.character \in Text
    <3>1. r = [l EXCEPT !.received = Append(@, x.character)]
      BY <1>2, <2>1 DEF HearSymbol
    <3> HIDE DEF r
    <3>2. /\ {"phase", "tx", "heard", "held", "received"} \subseteq DOMAIN r
          /\ r.phase = l.phase /\ r.tx = l.tx /\ r.heard = l.heard /\ r.held = <<>>
          /\ r.received = Append(l.received, x.character)
      BY <2>0, <3>1
    <3>3. /\ r.received = l.received \o <<x.character>> /\ r.received \in Seq(Text)
      BY <2>0, <2>1, <3>2, AppendIsConcat, AppendProperties
    <3>4. r.received \o <<>> = r.received /\ l.received \o <<>> = l.received
      BY <2>0, <3>3, ConcatEmptySeq
    <3>5. TextOf(x) = <<x.character>>
      BY <2>1 DEF TextOf
    <3>6. Soft(r)
      BY <2>0, <3>2, <3>3 DEF Soft
    <3>7. Got(r) = Got(l) \o TextOf(x)
      BY <2>0, <3>2, <3>3, <3>4, <3>5 DEF Got
    <3>8. Grows(l, r, x \in PlainSymbol, TextOf(x))
      BY <2>0, <3>2, <3>6, <3>7 DEF Grows, Clean
    <3> QED
      BY <3>8 DEF r
  <2>2. CASE ~(x.kind = "character" /\ x.character \in Text)
    <3>1. r = l /\ TextOf(x) = <<>>
      BY <1>2, <2>2 DEF HearSymbol, TextOf
    <3>2. l.received \o l.held \in Seq(Text)
      BY <2>0, ConcatProperties
    <3>3. Got(l) \o <<>> = Got(l)
      BY <3>2, ConcatEmptySeq DEF Got
    <3> QED
      BY <2>0, <3>1, <3>3 DEF Grows
  <2> QED
    BY <2>1, <2>2
<1>3. CASE l.phase \in {"Idle", "Originating", "Listening"}
  <2> DEFINE d == Decoded(Deframed(l, x), x)
  <2>1. r = Detected(d, BringsFrame(l, x), x)
    BY <1>3 DEF HearSymbol, Detect
  <2>2. /\ d.phase = l.phase /\ d.tx = l.tx /\ Soft(d)
        /\ x \in PlainSymbol /\ Clean(l) => Clean(d) /\ Got(d) = Got(l) \o TextOf(x)
    BY <1>3, TextDecoded
  <2>3. Shaped(d)
    <3>1. GoesTo(l, Deframed(l, x), FALSE)
      BY Deframes
    <3>2. GoesTo(Deframed(l, x), d, FALSE)
      BY <3>1, Decodes DEF GoesTo
    <3> QED
      BY <3>2 DEF GoesTo
  <2> HIDE DEF d, r
  <2>4. Soft(r) /\ (Plain(r) => r.tx = d.tx /\ (Clean(d) => r = d))
    BY <1>3, <2>1, <2>2, <2>3, TextDetected
  <2>5. Grows(l, r, x \in PlainSymbol, TextOf(x))
    BY <1>3, <2>2, <2>4 DEF Grows, Plain
  <2> QED
    BY <2>5 DEF r
<1> QED
  BY <1>1, <1>2, <1>3 DEF Plain

LEMMA GotText ==
  ASSUME NEW l, Soft(l), Plain(l)
  PROVE  Got(l) \in Seq(Text)
<1>1. l.received \in Seq(Text) /\ l.held \in Seq(Text)
  BY DEF Soft
<1> QED
  BY <1>1, ConcatProperties DEF Got

LEMMA GrowsFromSame ==
  ASSUME NEW l, NEW m, NEW r, NEW plain, NEW text, Same(l, m), Grows(m, r, plain, text)
  PROVE  Grows(l, r, plain, text)
BY DEF Same, Grows, Clean

LEMMA GrowsToSame ==
  ASSUME NEW l, NEW m, NEW r, NEW plain, NEW text, Grows(l, m, plain, text), Same(m, r)
  PROVE  Grows(l, r, plain, text)
BY DEF Same, Grows, Clean

LEMMA GrowsFurther ==
  ASSUME NEW l, Soft(l), NEW m, NEW r, NEW plain, NEW more,
         NEW s \in Seq(Text), NEW t \in Seq(Text),
         Grows(l, m, plain, s), Grows(m, r, more, t), plain => more
  PROVE  Grows(l, r, plain, s \o t)
<1>1. Soft(r)
  BY DEF Grows
<1>2. ASSUME Plain(r) PROVE Plain(m) /\ Plain(l) /\ r.tx = l.tx
  BY <1>2 DEF Grows
<1>3. ASSUME Plain(r), plain, Clean(l) PROVE Clean(r) /\ Got(r) = Got(l) \o (s \o t)
  <2>1. Got(m) = Got(l) \o s /\ Clean(m)
    BY <1>2, <1>3 DEF Grows
  <2>2. Got(r) = Got(m) \o t /\ Clean(r)
    BY <1>2, <1>3, <2>1 DEF Grows
  <2>3. Got(l) \in Seq(Text)
    BY <1>2, <1>3, GotText
  <2>4. (Got(l) \o s) \o t = Got(l) \o (s \o t)
    BY <2>3, ConcatAssociative
  <2> QED
    BY <2>1, <2>2, <2>4
<1> QED
  BY <1>1, <1>2, <1>3 DEF Grows

\* A run of symbols that a pump brings at once.
LEMMA TextReceived ==
  ASSUME NEW l, Shaped(l), Soft(l), NEW symbols, IsSeq(symbols), NEW late
  PROVE  Grows(l, Receive(l, symbols, late), symbols \in Seq(PlainSymbol), TextOn(symbols))
<1> DEFINE n == Len(symbols)
           f == CHOOSE f : Heard(f, l, symbols, late, n)
           plain == symbols \in Seq(PlainSymbol)
           upto(i) == SubSeq(symbols, 1, i)
<1>0. n \in Nat
  BY DEF IsSeq
<1>1. Receive(l, symbols, late) = Expire(Deliver(SetUpCodec(f[n])), late)
  BY DEF Receive, Heard
<1>2. Heard(f, l, symbols, late, n)
  <2>1. \E g : Heard(g, l, symbols, late, n)
    BY <1>0, HeardExists, Zenon
  <2> QED
    BY <2>1, Zenon
<1> HIDE DEF f
<1>3. /\ f[0] = Expire(l, late)
      /\ \A i \in 1 .. n : f[i] = HearSymbol(f[i - 1], symbols[i], late)
  BY <1>0, <1>2 DEF Heard
<1>4. PICK S : symbols \in Seq(S)
  BY DEF IsSeq
<1>5. /\ upto(0) = <<>> /\ upto(n) = symbols
      /\ \A i \in 1 .. n : upto(i) = upto(i - 1) \o <<symbols[i]>>
      /\ \A i \in 0 .. n : IsSeq(upto(i))
  <2>1. upto(0) = <<>>
    BY SubSeqEmpty
  <2>2. upto(n) = symbols
    BY <1>4, SubSeqFull
  <2>3. ASSUME NEW i \in 1 .. n PROVE upto(i) = upto(i - 1) \o <<symbols[i]>>
    <3>1. 1 \in 1 .. Len(symbols) /\ i \in 1 .. Len(symbols)
      BY <1>0
    <3> QED
      BY <1>4, <3>1, SubSeqRecursiveSecond
  <2>4. ASSUME NEW i \in 0 .. n PROVE IsSeq(upto(i))
    BY Part
  <2> QED
    BY <2>1, <2>2, <2>3, <2>4
<1>6. \A i \in 1 .. n : plain => symbols[i] \in PlainSymbol
  OBVIOUS
<1> HIDE DEF plain, upto, n
<1> DEFINE Right(i) == Shaped(f[i]) /\ Grows(l, f[i], plain, TextOn(upto(i)))
           Wrong == {i \in Nat : i <= n /\ ~Right(i)}
<1>7. Right(0)
  <2>1. Shaped(Expire(l, late))
    BY Expires DEF GoesTo
  <2>2. Same(l, Expire(l, late))
    BY TextExpires
  <2>3. TextOn(upto(0)) = <<>>
    BY <1>5, TextOfOne
  <2>4. Plain(l) => Got(l) \o <<>> = Got(l)
    <3>1. Plain(l) => Got(l) \in Seq(Text)
      BY GotText
    <3> QED
      BY <3>1, ConcatEmptySeq
  <2>5. Grows(l, f[0], plain, <<>>)
    BY <1>3, <2>2, <2>4 DEF Same, Grows, Clean
  <2> QED
    BY <1>3, <2>1, <2>3, <2>5
<1>8. ASSUME NEW i \in 1 .. n, Right(i - 1) PROVE Right(i)
  <2> DEFINE m == f[i - 1]
  <2>1. /\ Shaped(m) /\ Grows(l, m, plain, TextOn(upto(i - 1)))
        /\ f[i] = HearSymbol(m, symbols[i], late)
    BY <1>3, <1>8
  <2> HIDE DEF m
  <2>2. Soft(m)
    BY <2>1 DEF Grows
  <2>3. Grows(m, f[i], symbols[i] \in PlainSymbol, TextOf(symbols[i]))
    BY <2>1, <2>2, TextHeard
  <2>4. Shaped(f[i])
    <3>1. GoesTo(m, HearSymbol(m, symbols[i], late), TRUE)
      BY <2>1, HearsSymbol
    <3> QED
      BY <2>1, <3>1 DEF GoesTo
  <2>5. IsSeq(upto(i - 1)) /\ IsSeq(<<symbols[i]>>)
    <3>1. i - 1 \in 0 .. n
      BY <1>0
    <3> QED
      BY <1>5, <3>1, Short
  <2>6. TextOn(upto(i)) = TextOn(upto(i - 1)) \o TextOf(symbols[i])
    <3>1. TextOn(upto(i - 1) \o <<symbols[i]>>) = TextOn(upto(i - 1)) \o TextOn(<<symbols[i]>>)
      BY <2>5, TextJoined
    <3> QED
      BY <1>5, <3>1, TextOfOne
  <2>7. TextOn(upto(i - 1)) \in Seq(Text)
    BY <2>5, TextJoined
  <2>8. TextOf(symbols[i]) \in Seq(Text)
    BY TextOfOne
  <2>9. Grows(l, f[i], plain, TextOn(upto(i - 1)) \o TextOf(symbols[i]))
    BY <1>6, <2>1, <2>3, <2>7, <2>8, GrowsFurther
  <2> QED
    BY <2>4, <2>6, <2>9
<1> HIDE DEF Right
<1>9. Wrong = {}
  <2> SUFFICES ASSUME Wrong # {} PROVE FALSE
    OBVIOUS
  <2>1. PICK i \in Wrong : \A j \in Wrong : i <= j
    BY LeastOf
  <2>2. i \in Nat /\ i <= n /\ ~Right(i)
    BY <2>1
  <2>3. i # 0
    BY <1>7, <2>2
  <2>4. i \in 1 .. n /\ i - 1 \in Nat /\ i - 1 <= n /\ ~(i <= i - 1)
    BY <1>0, <2>2, <2>3
  <2>5. i - 1 \notin Wrong
    BY <2>1, <2>4
  <2>6. Right(i - 1)
    BY <2>4, <2>5
  <2> QED
    BY <1>8, <2>2, <2>4, <2>6
<1>10. Right(n)
  <2>1. n \in Nat /\ n <= n
    BY <1>0
  <2> QED
    BY <1>9, <2>1
<1> DEFINE a == f[n]  b == SetUpCodec(a)  c == Deliver(b)
<1>11. Shaped(a) /\ Grows(l, a, plain, TextOn(symbols))
  BY <1>5, <1>10 DEF Right
<1> HIDE DEF a
<1>12. Soft(a)
  BY <1>11 DEF Grows
<1>13. Same(a, b) /\ Shaped(b)
  <2>1. GoesTo(a, b, TRUE)
    BY <1>11, SetsUpCodec
  <2> QED
    BY <1>11, <1>12, <2>1, TextSetsUpCodec DEF GoesTo
<1> HIDE DEF b
<1>14. Same(b, c) /\ Shaped(c)
  <2>1. GoesTo(b, c, TRUE)
    BY <1>13, Delivers
  <2> QED
    BY <1>13, <2>1, TextDelivers DEF GoesTo, Same
<1> HIDE DEF c
<1>15. Same(c, Expire(c, late))
  BY <1>14, TextExpires DEF Same
<1>16. Same(a, Expire(c, late))
  BY <1>13, <1>14, <1>15, SameThrough
<1>17. Receive(l, symbols, late) = Expire(c, late)
  BY <1>1 DEF a, b, c
<1> QED
  BY <1>11, <1>16, <1>17, GrowsToSame DEF plain

LEMMA OdpBare == Odp \in Seq(PlainSymbol) /\ TextOn(Odp) = <<>>
<1> DEFINE a == Character("DC1even")  b == Character("DC1odd")
<1>1. a \in PlainSymbol /\ b \in PlainSymbol
  BY DEF PlainSymbol, PlainCharacters
<1>2. a.character \notin Text /\ b.character \notin Text
  <2>1. "DC1even" \in Patterns /\ "DC1odd" \in Patterns
    BY DEF Patterns
  <2> QED
    BY <2>1, LinkPairAssumption DEF Character
<1>3. Odp = <<a, b>>
  BY DEF Odp
<1> HIDE DEF a, b
<1>4. TextOf(a) = <<>> /\ TextOf(b) = <<>>
  BY <1>1, <1>2, PlainIs
<1>5. <<a, b>> = <<a>> \o <<b>>
  <2> DEFINE T == {a, b}
  <2>1. <<a>> \in Seq(T) /\ b \in T /\ <<a, b>> = Append(<<a>>, b)
    OBVIOUS
  <2> HIDE DEF T
  <2> QED
    BY <2>1, AppendIsConcat
<1>6. TextOn(<<a>> \o <<b>>) = TextOn(<<a>>) \o TextOn(<<b>>)
  BY Short, TextJoined
<1>7. TextOn(<<a>>) = <<>> /\ TextOn(<<b>>) = <<>>
  BY <1>4, TextOfOne
<1>8. <<>> \o <<>> = <<>>
  OBVIOUS
<1>9. TextOn(Odp) = <<>>
  BY <1>3, <1>5, <1>6, <1>7, <1>8, Zenon
<1>10. Odp \in Seq(PlainSymbol)
  BY <1>1, <1>3
<1> QED
  BY <1>9, <1>10

\* The link is given what it sends next, and the pump takes the first of it.
LEMMA TextTransmitted ==
  ASSUME NEW l, Shaped(l), Soft(l), NEW late
  PROVE  LET filled == Filled(l, late)
             r == AfterTransmit(filled)
         IN  /\ Soft(r)
             /\ Plain(r) => /\ Plain(l) /\ r.heard = l.heard /\ Got(r) = Got(l)
                            /\ SymbolSent(filled) \in Seq(PlainSymbol)
                            /\ TextOn(SymbolSent(filled)) \o TextOn(r.tx) = TextOn(l.tx)
<1> DEFINE k == Expire(l, late)
           m == Fill(k, late)
           r == AfterTransmit(m)
           s == SymbolSent(m)
<1>0. Filled(l, late) = m
  BY DEF Filled
<1>1. Same(l, k) /\ Shaped(k)
  <2>1. GoesTo(l, k, TRUE)
    BY Expires
  <2> QED
    BY <2>1, TextExpires DEF GoesTo
<1> HIDE DEF k
<1>2. Soft(k)
  BY <1>1 DEF Same
<1>3. GoesTo(k, m, FALSE)
  BY <1>1, Fills
<1>4. Plain(k) => \/ m = k
                  \/ k.tx = <<>> /\ m = [k EXCEPT !.tx = Odp]
  <2> SUFFICES ASSUME Plain(k) PROVE m = k \/ (k.tx = <<>> /\ m = [k EXCEPT !.tx = Odp])
    OBVIOUS
  <2>1. ~SendsAdp(k) /\ k.phase # "Protocol"
    BY DEF SendsAdp, Plain
  <2>2. CASE k.tx = <<>> /\ k.phase = "Originating"
    BY <2>1, <2>2 DEF Fill
  <2>3. CASE ~(k.tx = <<>> /\ k.phase = "Originating")
    BY <2>1, <2>3 DEF Fill
  <2> QED
    BY <2>2, <2>3
<1> HIDE DEF m
<1>5. /\ Soft(m)
      /\ Plain(m) => /\ Plain(k) /\ m.heard = k.heard /\ Got(m) = Got(k)
                     /\ TextOn(m.tx) = TextOn(k.tx)
  <2>1. CASE Plain(m)
    <3>1. Plain(k)
      BY <1>1, <1>3, <2>1, PlainBefore
    <3>2. CASE m = k
      BY <1>2, <3>1, <3>2
    <3>3. CASE k.tx = <<>> /\ m = [k EXCEPT !.tx = Odp]
      <4>1. /\ {"phase", "tx", "heard", "held", "received"} \subseteq DOMAIN k
            /\ k.held \in Seq(Text) /\ k.received \in Seq(Text)
            /\ k.phase = "Normal" => k.held = <<>>
        BY <1>2, <3>1 DEF Soft
      <4>2. /\ {"phase", "tx", "heard", "held", "received"} \subseteq DOMAIN m
            /\ m.phase = k.phase /\ m.tx = Odp /\ m.heard = k.heard
            /\ m.held = k.held /\ m.received = k.received
        BY <3>3, <4>1
      <4>3. Soft(m)
        BY <4>1, <4>2, OdpBare DEF Soft
      <4>4. TextOn(m.tx) = TextOn(k.tx)
        BY <3>3, <4>2, OdpBare, TextOfOne
      <4> QED
        BY <3>1, <4>2, <4>3, <4>4 DEF Got
    <3> QED
      BY <1>4, <3>1, <3>2, <3>3
  <2>2. CASE ~Plain(m)
    BY <2>2 DEF Soft
  <2> QED
    BY <2>1, <2>2
<1>6. /\ Soft(r)
      /\ Plain(r) => /\ Plain(m) /\ r.heard = m.heard /\ Got(r) = Got(m)
                     /\ s \in Seq(PlainSymbol)
                     /\ TextOn(s) \o TextOn(r.tx) = TextOn(m.tx)
  <2>1. CASE m.tx = <<>>
    <3>1. r = m /\ s = <<>>
      BY <2>1 DEF AfterTransmit, SymbolSent, Transmits
    <3>2. TextOn(s) = <<>> /\ TextOn(m.tx) = <<>>
      BY <2>1, <3>1, TextOfOne
    <3>3. <<>> \o <<>> = <<>> /\ <<>> \in Seq(PlainSymbol)
      OBVIOUS
    <3>4. TextOn(s) \o TextOn(r.tx) = TextOn(m.tx)
      BY <3>1, <3>2, <3>3, Zenon
    <3>5. s \in Seq(PlainSymbol)
      BY <3>1, <3>3
    <3> QED
      BY <1>5, <3>1, <3>4, <3>5
  <2>2. CASE m.tx # <<>>
    <3>1. r = [m EXCEPT !.tx = Tail(@)] /\ s = <<Head(m.tx)>>
      BY <2>2 DEF AfterTransmit, SymbolSent, Transmits
    <3> HIDE DEF r, s
    <3>2. Shaped(m)
      BY <1>3 DEF GoesTo
    <3>3. r.phase = m.phase /\ {"phase", "tx"} \subseteq DOMAIN r
      BY <3>1, <3>2 DEF Shaped
    <3>4. CASE Plain(m)
      <4>1. /\ {"phase", "tx", "heard", "held", "received"} \subseteq DOMAIN m
            /\ m.tx \in Seq(PlainSymbol) /\ m.held \in Seq(Text) /\ m.received \in Seq(Text)
            /\ m.phase = "Normal" => m.held = <<>>
        BY <1>5, <3>4 DEF Soft
      <4>2. /\ {"phase", "tx", "heard", "held", "received"} \subseteq DOMAIN r
            /\ r.phase = m.phase /\ r.tx = Tail(m.tx) /\ r.heard = m.heard
            /\ r.held = m.held /\ r.received = m.received
        BY <3>1, <4>1
      <4>3. Tail(m.tx) \in Seq(PlainSymbol) /\ Head(m.tx) \in PlainSymbol
            /\ m.tx = s \o Tail(m.tx)
        <5>1. Tail(m.tx) \in Seq(PlainSymbol) /\ Head(m.tx) \in PlainSymbol
          BY <2>2, <4>1, HeadTailProperties
        <5>2. m.tx = <<Head(m.tx)>> \o Tail(m.tx)
          BY <2>2, <4>1
        <5> QED
          BY <3>1, <5>1, <5>2
      <4>4. s \in Seq(PlainSymbol)
        BY <3>1, <4>3
      <4>5. IsSeq(s) /\ IsSeq(Tail(m.tx))
        BY <4>3, <4>4 DEF IsSeq
      <4>6. TextOn(s \o Tail(m.tx)) = TextOn(s) \o TextOn(Tail(m.tx))
        BY <4>5, TextJoined
      <4>7. Soft(r)
        BY <4>1, <4>2, <4>3 DEF Soft
      <4> QED
        BY <3>4, <4>2, <4>3, <4>4, <4>6, <4>7 DEF Got
    <3>5. CASE ~Plain(m)
      BY <3>3, <3>5 DEF Plain, Soft
    <3> QED
      BY <3>4, <3>5
  <2> QED
    BY <2>1, <2>2
<1> HIDE DEF r, s
<1>7. Plain(r) => /\ Plain(l) /\ r.heard = l.heard /\ Got(r) = Got(l)
                  /\ s \in Seq(PlainSymbol)
                  /\ TextOn(s) \o TextOn(r.tx) = TextOn(l.tx)
  BY <1>1, <1>5, <1>6 DEF Same
<1> QED
  BY <1>0, <1>6, <1>7 DEF r, s

\* The link is given a character by its computer.
LEMMA TextSent ==
  ASSUME NEW l, Shaped(l), Soft(l), NEW text \in Text, Plain(l) => l.phase = "Normal"
  PROVE  LET r == Send(l, text)
         IN  /\ Soft(r)
             /\ Plain(r) => /\ Plain(l) /\ r.heard = l.heard /\ Got(r) = Got(l)
                            /\ TextOn(r.tx) = TextOn(l.tx) \o <<text>>
<1> DEFINE r == Send(l, text)
<1>1. CASE ~Plain(l)
  <2>1. GoesTo(l, r, FALSE)
    BY Sends
  <2>2. ~Plain(r)
    BY <1>1, <2>1, PlainBefore
  <2> QED
    BY <2>2 DEF Soft
<1>2. CASE Plain(l)
  <2> DEFINE x == Character(text)
  <2>1. SetUpCodec(l) = l
    BY <1>2 DEF SetUpCodec
  <2>2. r = [l EXCEPT !.tx = Append(@, x)]
    BY <1>2, <2>1 DEF Send
  <2>3. x \in PlainSymbol /\ x.character = text
    BY DEF PlainSymbol, PlainCharacters, Character
  <2> HIDE DEF r, x
  <2>4. /\ {"phase", "tx", "heard", "held", "received"} \subseteq DOMAIN l
        /\ l.tx \in Seq(PlainSymbol) /\ l.held \in Seq(Text) /\ l.received \in Seq(Text)
        /\ l.phase = "Normal" => l.held = <<>>
    BY <1>2 DEF Soft
  <2>5. /\ {"phase", "tx", "heard", "held", "received"} \subseteq DOMAIN r
        /\ r.phase = l.phase /\ r.tx = Append(l.tx, x) /\ r.heard = l.heard
        /\ r.held = l.held /\ r.received = l.received
    BY <2>2, <2>4
  <2>6. Append(l.tx, x) = l.tx \o <<x>> /\ Append(l.tx, x) \in Seq(PlainSymbol)
    BY <2>3, <2>4, AppendIsConcat, AppendProperties
  <2>7. TextOf(x) = <<text>>
    BY <2>3, PlainIs
  <2>8. IsSeq(l.tx) /\ IsSeq(<<x>>)
    BY <2>4, Short DEF IsSeq
  <2>9. TextOn(l.tx \o <<x>>) = TextOn(l.tx) \o TextOn(<<x>>)
    BY <2>8, TextJoined
  <2>10. TextOn(r.tx) = TextOn(l.tx) \o <<text>>
    BY <2>5, <2>6, <2>7, <2>9, TextOfOne
  <2>11. Soft(r)
    BY <2>4, <2>5, <2>6 DEF Soft
  <2>12. Soft(r) /\ (Plain(r) => /\ Plain(l) /\ r.heard = l.heard /\ Got(r) = Got(l)
                                 /\ TextOn(r.tx) = TextOn(l.tx) \o <<text>>)
    BY <1>2, <2>5, <2>10, <2>11 DEF Got
  <2> QED
    BY <2>12 DEF r
<1> QED
  BY <1>1, <1>2

-----------------------------------------------------------------------------
(***************************************************************************)
(* Text and both ends.                                                     *)
(***************************************************************************)
\* The first n characters of a text are in its hearer, on the line or about to
\* be sent, in order.
Stands(far, q, l, text, n) ==
  /\ Clean(far)
  /\ (Got(far) \o TextOn(q)) \o TextOn(l.tx) = SubSeq(text, 1, n)

\* An end that has not decided on V.42 has sent plain characters only, and all
\* that its computer gave it stands, as long as nothing was damaged and
\* the other has not decided either.
TextInv ==
  /\ SplitInv
  /\ call \in Calls /\ upsets \in Nat
  /\ given = [e \in Ends |-> given[e]]
  /\ \A e \in Ends :
       /\ given[e] \in 0 .. Len(call.texts[e])
       /\ Soft(link[e])
       /\ Plain(link[e]) => line[e] \in Seq(PlainSymbol)
       /\ upsets = 0 /\ Plain(link[e]) /\ Plain(link[Peer(e)])
            => Stands(link[Peer(e)], line[e], link[e], call.texts[e], given[e])

LEMMA TextOfCall ==
  ASSUME call \in Calls, NEW e \in Ends
  PROVE  call.texts[e] \in Seq(Text) /\ Len(call.texts[e]) \in Nat
<1>1. call \in [setups : [Ends -> Setup], slow : BOOLEAN,
                texts : [Ends -> Seq(Text)], upsets : Nat]
  BY LinkPairAssumption
<1>2. call.texts \in [Ends -> Seq(Text)]
  BY <1>1
<1>3. call.texts[e] \in Seq(Text)
  BY <1>2
<1> QED
  BY <1>3

LEMMA TextInitially == Init => TextInv
<1> SUFFICES ASSUME Init PROVE TextInv
  OBVIOUS
<1>1. ASSUME NEW originates, NEW setup
      PROVE  LET l == NewLink(originates, setup)
             IN  /\ Soft(l) /\ Clean(l) /\ Got(l) = <<>> /\ l.tx = <<>>
  <2> DEFINE l == NewLink(originates, setup)
  <2>1. /\ {"phase", "tx", "heard", "held", "received"} \subseteq DOMAIN l
        /\ l.tx = <<>> /\ l.held = <<>> /\ l.received = <<>> /\ l.heard = <<>>
    BY DEF NewLink
  <2> HIDE DEF l
  <2>2. /\ <<>> \o <<>> = <<>> /\ <<>> \in Seq(PlainSymbol)
        /\ <<>> \in Seq(PlainCharacters) /\ <<>> \in Seq(Text)
    OBVIOUS
  <2>3. Soft(l) /\ Clean(l) /\ Got(l) = <<>> /\ l.tx = <<>>
    BY <2>1, <2>2 DEF Soft, Clean, Got
  <2> QED
    BY <2>3 DEF l
<1>2. \A e \in Ends : link[e] = NewLink(e = "caller", call.setups[e])
  BY DEF Init
<1>3. \A e \in Ends : /\ Soft(link[e]) /\ Clean(link[e])
                      /\ Got(link[e]) = <<>> /\ link[e].tx = <<>>
  BY <1>1, <1>2
<1>4. \A e \in Ends : line[e] = <<>> /\ given[e] = 0
  BY DEF Init
<1>5. call \in Calls /\ upsets = 0 /\ given = [e \in Ends |-> given[e]]
  BY DEF Init
<1>6. ASSUME NEW e \in Ends
      PROVE  Stands(link[Peer(e)], line[e], link[e], call.texts[e], given[e])
  <2>1. /\ Clean(link[Peer(e)]) /\ Got(link[Peer(e)]) = <<>>
        /\ line[e] = <<>> /\ link[e].tx = <<>> /\ given[e] = 0
    BY <1>3, <1>4, Others
  <2>2. SubSeq(call.texts[e], 1, 0) = <<>>
    BY SubSeqEmpty
  <2>3. (<<>> \o <<>>) \o <<>> = <<>>
    OBVIOUS
  <2>4. TextOn(<<>>) = <<>>
    BY TextOfOne
  <2>5. (Got(link[Peer(e)]) \o TextOn(line[e])) \o TextOn(link[e].tx) = <<>>
    BY <2>1, <2>3, <2>4, Zenon
  <2>6. SubSeq(call.texts[e], 1, given[e]) = <<>>
    BY <2>1, <2>2, Zenon
  <2> QED
    BY <2>1, <2>5, <2>6, Zenon DEF Stands
<1>7. \A e \in Ends : given[e] \in 0 .. Len(call.texts[e])
  BY <1>4, <1>5, TextOfCall
<1>8. \A e \in Ends : line[e] \in Seq(PlainSymbol)
  <2>1. <<>> \in Seq(PlainSymbol)
    OBVIOUS
  <2> QED
    BY <1>4, <2>1
<1> QED
  BY <1>3, <1>5, <1>6, <1>7, <1>8, SplitInitially DEF TextInv

\* What a step of one end has to show.
LEMMA TextSteps ==
  ASSUME TextInv, SplitInv', NEW e \in Ends, NEW r, NEW mine, NEW theirs, NEW n,
         link' = [link EXCEPT ![e] = r],
         line' = [line EXCEPT ![e] = mine, ![Peer(e)] = theirs],
         given' = [given EXCEPT ![e] = n], call' = call,
         n \in 0 .. Len(call.texts[e]),
         upsets' \in Nat, upsets' = 0 => upsets = 0,
         Soft(r), Plain(r) => Plain(link[e]) /\ mine \in Seq(PlainSymbol),
         Plain(link[Peer(e)]) => theirs \in Seq(PlainSymbol),
         upsets' = 0 /\ Plain(r) /\ Plain(link[Peer(e)])
           => /\ Stands(link[Peer(e)], mine, r, call.texts[e], n)
              /\ Stands(r, theirs, link[Peer(e)], call.texts[Peer(e)], given[Peer(e)])
  PROVE  TextInv'
<1> DEFINE f == Peer(e)
<1>0. f \in Ends /\ f # e /\ Peer(f) = e /\ \A g \in Ends : g = e \/ g = f
  BY Others
<1>1. /\ link'[e] = r /\ link'[f] = link[f] /\ line'[e] = mine /\ line'[f] = theirs
      /\ given'[e] = n /\ given'[f] = given[f]
  BY <1>0 DEF TextInv, SplitInv
<1>2. given' = [g \in Ends |-> given'[g]]
  BY DEF TextInv
<1>3. call' \in Calls
  BY DEF TextInv
<1>4. Soft(link[f]) /\ given[f] \in 0 .. Len(call.texts[f])
  BY <1>0 DEF TextInv
<1> DEFINE At(g) == /\ given'[g] \in 0 .. Len(call'.texts[g])
                    /\ Soft(link'[g])
                    /\ Plain(link'[g]) => line'[g] \in Seq(PlainSymbol)
                    /\ upsets' = 0 /\ Plain(link'[g]) /\ Plain(link'[Peer(g)])
                         => Stands(link'[Peer(g)], line'[g], link'[g], call'.texts[g], given'[g])
<1>5. At(e)
  BY <1>0, <1>1
<1>6. At(f)
  BY <1>0, <1>1, <1>4
<1>7. \A g \in Ends : At(g)
  BY <1>0, <1>5, <1>6
<1> QED
  BY <1>2, <1>3, <1>7 DEF TextInv

\* The end alone has changed, and not in what it has heard or sends.
LEMMA TextStays ==
  ASSUME TextInv, SplitInv', NEW e \in Ends, NEW r, Same(link[e], r),
         link' = [link EXCEPT ![e] = r], line' = line, given' = given,
         call' = call, upsets' = upsets
  PROVE  TextInv'
<1> DEFINE f == Peer(e)
<1>0. f \in Ends /\ f # e /\ Peer(f) = e
  BY Others
<1>1. line' = [line EXCEPT ![e] = line[e], ![f] = line[f]]
  BY <1>0 DEF TextInv, SplitInv
<1>2. given' = [given EXCEPT ![e] = given[e]]
  BY DEF TextInv
<1>3. /\ given[e] \in 0 .. Len(call.texts[e])
      /\ Plain(link[e]) => line[e] \in Seq(PlainSymbol)
      /\ Plain(link[f]) => line[f] \in Seq(PlainSymbol)
      /\ upsets \in Nat
  BY <1>0 DEF TextInv
<1>4. ASSUME upsets = 0, Plain(r), Plain(link[f])
      PROVE  /\ Stands(link[f], line[e], r, call.texts[e], given[e])
             /\ Stands(r, line[f], link[f], call.texts[f], given[f])
  <2>1. Plain(link[e]) /\ r.tx = link[e].tx /\ r.heard = link[e].heard /\ Got(r) = Got(link[e])
    BY <1>4 DEF Same
  <2>2. /\ Stands(link[f], line[e], link[e], call.texts[e], given[e])
        /\ Stands(link[e], line[f], link[f], call.texts[f], given[f])
    BY <1>0, <1>4, <2>1 DEF TextInv
  <2> QED
    BY <2>1, <2>2 DEF Stands, Clean
<1>5. Soft(r) /\ (Plain(r) => Plain(link[e]))
  BY DEF Same
<1> QED
  BY <1>0, <1>1, <1>2, <1>3, <1>4, <1>5, TextSteps

LEMMA TextSends ==
  ASSUME TextInv, SplitInv', NEW e \in Ends, SendText(e)
  PROVE  TextInv'
<1> DEFINE f == Peer(e)
           l == link[e]
           n == given[e] + 1
           text == call.texts[e]
           r == Send(l, text[n])
<1>0. f \in Ends /\ f # e /\ Peer(f) = e
  BY Others
<1>1. Shaped(l) /\ Soft(l) /\ call \in Calls
  BY DEF TextInv, SplitInv
<1>2. /\ Status(l) \in {"Reliable", "Normal"} /\ given[e] < Len(text)
      /\ given' = [given EXCEPT ![e] = n] /\ link' = [link EXCEPT ![e] = r]
      /\ line' = line /\ call' = call /\ upsets' = upsets
  <2>1. given[e] \in 0 .. Len(text)
    BY DEF TextInv
  <2> QED
    BY DEF SendText, Becomes, TextInv
<1>3. line' = [line EXCEPT ![e] = line[e], ![f] = line[f]]
  BY <1>0, <1>2 DEF TextInv, SplitInv
<1>4. text \in Seq(Text) /\ Len(text) \in Nat
  BY <1>1, TextOfCall
<1>5. given[e] \in Nat /\ n \in 1 .. Len(text) /\ n - 1 = given[e]
  <2>1. given[e] \in 0 .. Len(text)
    BY DEF TextInv
  <2> HIDE DEF text
  <2> QED
    BY <1>2, <1>4, <2>1
<1>6. text[n] \in Text
  BY <1>4, <1>5, ElementOfSeq
<1>7. Plain(l) => l.phase = "Normal"
  BY <1>2 DEF Plain, Status
<1>8. /\ Soft(r)
      /\ Plain(r) => /\ Plain(l) /\ r.heard = l.heard /\ Got(r) = Got(l)
                     /\ TextOn(r.tx) = TextOn(l.tx) \o <<text[n]>>
  BY <1>1, <1>6, <1>7, TextSent
<1>9. SubSeq(text, 1, n) = SubSeq(text, 1, n - 1) \o <<text[n]>>
  <2>1. 1 \in 1 .. Len(text) /\ n \in 1 .. Len(text)
    BY <1>4, <1>5
  <2> HIDE DEF text, n
  <2> QED
    BY <1>4, <2>1, SubSeqRecursiveSecond
<1>10. /\ Plain(l) => line[e] \in Seq(PlainSymbol) /\ l.tx \in Seq(PlainSymbol)
       /\ Plain(link[f]) => line[f] \in Seq(PlainSymbol)
       /\ upsets \in Nat /\ Soft(link[f])
  BY <1>0 DEF TextInv, Soft
<1> HIDE DEF r
<1>11. ASSUME upsets = 0, Plain(r), Plain(link[f])
       PROVE  /\ Stands(link[f], line[e], r, text, n)
              /\ Stands(r, line[f], link[f], call.texts[f], given[f])
  <2>1. Plain(l) /\ r.heard = l.heard /\ Got(r) = Got(l)
        /\ TextOn(r.tx) = TextOn(l.tx) \o <<text[n]>>
    BY <1>8, <1>11
  <2>2. /\ Stands(link[f], line[e], l, text, given[e])
        /\ Stands(l, line[f], link[f], call.texts[f], given[f])
    BY <1>0, <1>11, <2>1 DEF TextInv
  <2>3. IsSeq(line[e]) /\ IsSeq(l.tx)
    BY <1>10, <2>1 DEF IsSeq
  <2> DEFINE a == Got(link[f]) \o TextOn(line[e])
             b == TextOn(l.tx)
             c == <<text[n]>>
  <2>4. a \in Seq(Text)
    <3>1. Got(link[f]) \in Seq(Text)
      BY <1>10, <1>11, GotText
    <3>2. TextOn(line[e]) \in Seq(Text)
      BY <2>3, TextJoined
    <3> QED
      BY <3>1, <3>2, ConcatProperties
  <2>5. b \in Seq(Text) /\ c \in Seq(Text)
    <3>1. b \in Seq(Text)
      BY <2>3, TextJoined
    <3> QED
      BY <1>6, <3>1
  <2>6. a \o b = SubSeq(text, 1, n - 1) /\ Clean(link[f])
    BY <1>5, <2>2 DEF Stands
  <2> HIDE DEF a, b, c
  <2>7. (a \o b) \o c = a \o (b \o c)
    BY <2>4, <2>5, ConcatAssociative
  <2>8. a \o (b \o c) = SubSeq(text, 1, n)
    BY <1>9, <2>6, <2>7 DEF c
  <2>9. Stands(link[f], line[e], r, text, n)
    BY <2>1, <2>6, <2>8 DEF Stands, a, b, c
  <2>10. Stands(r, line[f], link[f], call.texts[f], given[f])
    BY <2>1, <2>2 DEF Stands, Clean
  <2> QED
    BY <2>9, <2>10
<1>12. n \in 0 .. Len(text)
  BY <1>4, <1>5
<1> HIDE DEF n
<1> QED
  BY <1>0, <1>2, <1>3, <1>8, <1>10, <1>11, <1>12, TextSteps

LEMMA TextTransmits ==
  ASSUME TextInv, SplitInv', NEW e \in Ends, NEW late \in BOOLEAN, TransmitWith(e, late),
         upsets' \in Nat, upsets' = 0 => upsets = 0
  PROVE  TextInv'
<1> DEFINE f == Peer(e)
           l == link[e]
           m == Filled(l, late)
           r == AfterTransmit(m)
           s == SymbolSent(m)
           mine == line[e] \o s
<1>0. f \in Ends /\ f # e /\ Peer(f) = e
  BY Others
<1>1. Shaped(l) /\ Soft(l)
  BY DEF TextInv, SplitInv
<1>2. /\ link' = [link EXCEPT ![e] = r] /\ line' = [line EXCEPT ![e] = mine]
      /\ given' = given /\ call' = call
  BY DEF TransmitWith, Becomes
<1>3. /\ Soft(r)
      /\ Plain(r) => /\ Plain(l) /\ r.heard = l.heard /\ Got(r) = Got(l)
                     /\ s \in Seq(PlainSymbol)
                     /\ TextOn(s) \o TextOn(r.tx) = TextOn(l.tx)
  BY <1>1, TextTransmitted
<1> HIDE DEF m, r, s
<1>4. line' = [line EXCEPT ![e] = mine, ![f] = line[f]]
  BY <1>0, <1>2 DEF TextInv, SplitInv
<1>5. given' = [given EXCEPT ![e] = given[e]]
  BY <1>2 DEF TextInv
<1>6. /\ Plain(l) => line[e] \in Seq(PlainSymbol)
      /\ Plain(link[f]) => line[f] \in Seq(PlainSymbol)
      /\ given[e] \in 0 .. Len(call.texts[e]) /\ Soft(link[f])
  BY <1>0 DEF TextInv
<1>7. Plain(r) => Plain(l) /\ mine \in Seq(PlainSymbol)
  BY <1>3, <1>6, ConcatProperties
<1>8. ASSUME upsets = 0, Plain(r), Plain(link[f])
      PROVE  /\ Stands(link[f], mine, r, call.texts[e], given[e])
             /\ Stands(r, line[f], link[f], call.texts[f], given[f])
  <2>1. /\ Plain(l) /\ r.heard = l.heard /\ Got(r) = Got(l) /\ s \in Seq(PlainSymbol)
        /\ TextOn(s) \o TextOn(r.tx) = TextOn(l.tx) /\ line[e] \in Seq(PlainSymbol)
        /\ r.tx \in Seq(PlainSymbol)
    BY <1>3, <1>6, <1>8 DEF Soft
  <2>2. /\ Stands(link[f], line[e], l, call.texts[e], given[e])
        /\ Stands(l, line[f], link[f], call.texts[f], given[f])
    BY <1>0, <1>8, <2>1 DEF TextInv
  <2>3. IsSeq(line[e]) /\ IsSeq(s) /\ IsSeq(r.tx)
    BY <2>1 DEF IsSeq
  <2> DEFINE a == Got(link[f])
             b == TextOn(line[e])
             c == TextOn(s)
             d == TextOn(r.tx)
  <2>4. a \in Seq(Text)
    BY <1>6, <1>8, GotText
  <2>5. TextOn(mine) = b \o c /\ b \in Seq(Text) /\ c \in Seq(Text) /\ d \in Seq(Text)
    BY <2>3, TextJoined
  <2>6. (a \o b) \o TextOn(l.tx) = SubSeq(call.texts[e], 1, given[e]) /\ Clean(link[f])
    BY <2>2 DEF Stands
  <2>7. c \o d = TextOn(l.tx)
    BY <2>1
  <2> HIDE DEF a, b, c, d
  <2>8. (a \o (b \o c)) \o d = (a \o b) \o (c \o d)
    <3>1. a \o b \in Seq(Text)
      BY <2>4, <2>5, ConcatProperties
    <3>2. a \o (b \o c) = (a \o b) \o c
      BY <2>4, <2>5, ConcatAssociative
    <3>3. ((a \o b) \o c) \o d = (a \o b) \o (c \o d)
      BY <2>5, <3>1, ConcatAssociative
    <3> QED
      BY <3>2, <3>3
  <2>9. (a \o TextOn(mine)) \o d = SubSeq(call.texts[e], 1, given[e])
    BY <2>5, <2>6, <2>7, <2>8
  <2>10. Stands(link[f], mine, r, call.texts[e], given[e])
    BY <2>6, <2>9 DEF Stands, a, d
  <2>11. Stands(r, line[f], link[f], call.texts[f], given[f])
    BY <2>1, <2>2 DEF Stands, Clean
  <2> QED
    BY <2>10, <2>11
<1>9. Plain(link[f]) => line[f] \in Seq(PlainSymbol)
  BY <1>6
<1>10. given[e] \in 0 .. Len(call.texts[e])
  BY <1>6
<1>11. /\ link' = [link EXCEPT ![e] = r] /\ call' = call
       /\ Soft(r) /\ (upsets' = 0 /\ Plain(r) /\ Plain(link[f]) => upsets = 0)
  BY <1>2, <1>3
<1> DEFINE n == given[e]  theirs == line[f]
<1>12. /\ line' = [line EXCEPT ![e] = mine, ![f] = theirs]
       /\ given' = [given EXCEPT ![e] = n] /\ n \in 0 .. Len(call.texts[e])
       /\ Plain(link[f]) => theirs \in Seq(PlainSymbol)
       /\ upsets' = 0 /\ Plain(r) /\ Plain(link[f])
            => /\ Stands(link[f], mine, r, call.texts[e], n)
               /\ Stands(r, theirs, link[f], call.texts[f], given[f])
  BY <1>4, <1>5, <1>8, <1>9, <1>10, <1>11
<1> HIDE DEF mine, n, theirs
<1> QED
  BY <1>7, <1>11, <1>12, TextSteps DEF f

\* What is heard is what the line held first, or something was damaged.
LEMMA TextHears ==
  ASSUME TextInv, SplitInv', NEW e \in Ends, NEW symbols, NEW late \in BOOLEAN,
         HearWith(e, symbols, late), IsSeq(symbols),
         upsets' \in Nat, upsets' = 0 => upsets = 0,
         Len(symbols) \in 1 .. Len(line[Peer(e)]),
         upsets' = 0 => symbols = SubSeq(line[Peer(e)], 1, Len(symbols))
  PROVE  TextInv'
<1> DEFINE f == Peer(e)
           l == link[e]
           q == line[f]
           n == Len(symbols)
           r == Receive(l, symbols, late)
           theirs == SubSeq(q, n + 1, Len(q))
<1>0. f \in Ends /\ f # e /\ Peer(f) = e
  BY Others
<1>1. Shaped(l) /\ Soft(l) /\ IsSeq(q)
  BY <1>0 DEF TextInv, SplitInv
<1>2. /\ link' = [link EXCEPT ![e] = r] /\ line' = [line EXCEPT ![f] = theirs]
      /\ given' = given /\ call' = call
  BY <1>0 DEF HearWith, Becomes, TextInv, SplitInv
<1>3. Grows(l, r, symbols \in Seq(PlainSymbol), TextOn(symbols))
  BY <1>1, TextReceived
<1> HIDE DEF r
<1>4. line' = [line EXCEPT ![e] = line[e], ![f] = theirs]
  BY <1>0, <1>2 DEF TextInv, SplitInv
<1>5. given' = [given EXCEPT ![e] = given[e]]
  BY <1>2 DEF TextInv
<1>6. /\ Plain(l) => line[e] \in Seq(PlainSymbol)
      /\ Plain(link[f]) => q \in Seq(PlainSymbol)
      /\ given[e] \in 0 .. Len(call.texts[e]) /\ Soft(link[f])
  BY <1>0 DEF TextInv
<1>7. Len(q) \in Nat /\ n \in 1 .. Len(q)
  BY <1>1 DEF IsSeq
<1> HIDE DEF q, n
<1>8. ASSUME Plain(link[f])
      PROVE  /\ q \in Seq(PlainSymbol) /\ theirs \in Seq(PlainSymbol)
             /\ SubSeq(q, 1, n) \in Seq(PlainSymbol)
             /\ q = SubSeq(q, 1, n) \o theirs
  <2>1. q \in Seq(PlainSymbol)
    BY <1>6, <1>8
  <2>2. \A i \in 1 .. Len(q) : q[i] \in PlainSymbol
    BY <2>1
  <2>3. theirs \in Seq(PlainSymbol)
    <3>1. \A i \in n + 1 .. Len(q) : q[i] \in PlainSymbol
      BY <1>7, <2>2
    <3> QED
      BY <1>7, <3>1, SubSeqProperties
  <2>4. SubSeq(q, 1, n) \in Seq(PlainSymbol)
    <3>1. \A i \in 1 .. n : q[i] \in PlainSymbol
      BY <1>7, <2>2
    <3> QED
      BY <1>7, <3>1, SubSeqProperties
  <2>5. SubSeq(q, 1, n) \o SubSeq(q, n + 1, Len(q)) = SubSeq(q, 1, Len(q))
    <3>1. 1 \in 1 .. Len(q) + 1 /\ n \in 1 - 1 .. Len(q) /\ Len(q) \in n .. Len(q)
      BY <1>7
    <3> QED
      BY <2>1, <3>1, ConcatAdjacentSubSeq
  <2>6. SubSeq(q, 1, Len(q)) = q
    BY <2>1, SubSeqFull
  <2> QED
    BY <2>1, <2>3, <2>4, <2>5, <2>6
<1>9. Soft(r) /\ (Plain(r) => Plain(l) /\ line[e] \in Seq(PlainSymbol))
  BY <1>3, <1>6 DEF Grows
<1>10. ASSUME upsets' = 0, Plain(r), Plain(link[f])
       PROVE  /\ Stands(link[f], line[e], r, call.texts[e], given[e])
              /\ Stands(r, theirs, link[f], call.texts[f], given[f])
  <2>1. Plain(l) /\ r.tx = l.tx /\ upsets = 0
    BY <1>3, <1>10 DEF Grows
  <2>2. /\ Stands(link[f], line[e], l, call.texts[e], given[e])
        /\ Stands(l, q, link[f], call.texts[f], given[f])
    BY <1>0, <1>10, <2>1 DEF TextInv, q
  <2>3. symbols = SubSeq(q, 1, n)
    BY <1>10 DEF q, n
  <2>4. symbols \in Seq(PlainSymbol) /\ theirs \in Seq(PlainSymbol) /\ q = symbols \o theirs
    BY <1>8, <1>10, <2>3
  <2>5. Clean(l)
    BY <2>2 DEF Stands
  <2>6. Clean(r) /\ Got(r) = Got(l) \o TextOn(symbols)
    BY <1>3, <1>10, <2>4, <2>5 DEF Grows
  <2> HIDE DEF theirs
  <2>7. IsSeq(theirs)
    BY <2>4 DEF IsSeq
  <2>8. TextOn(q) = TextOn(symbols) \o TextOn(theirs)
        /\ TextOn(symbols) \in Seq(Text) /\ TextOn(theirs) \in Seq(Text)
    BY <2>4, <2>7, TextJoined
  <2>9. Got(l) \in Seq(Text)
    BY <1>1, <2>1, GotText
  <2>10. (Got(l) \o TextOn(symbols)) \o TextOn(theirs)
           = Got(l) \o (TextOn(symbols) \o TextOn(theirs))
    <3>1. \A t, u, v \in Seq(Text) : (t \o u) \o v = t \o (u \o v)
      BY ConcatAssociative
    <3> QED
      BY <2>8, <2>9, <3>1, Zenon
  <2>11. (Got(l) \o TextOn(q)) \o TextOn(link[f].tx) = SubSeq(call.texts[f], 1, given[f])
    BY <2>2 DEF Stands
  <2>12. Got(r) \o TextOn(theirs) = Got(l) \o TextOn(q)
    BY <2>6, <2>8, <2>10
  <2>13. Stands(r, theirs, link[f], call.texts[f], given[f])
    BY <2>6, <2>11, <2>12 DEF Stands
  <2>14. Stands(link[f], line[e], r, call.texts[e], given[e])
    BY <2>1, <2>2 DEF Stands
  <2> QED
    BY <2>13, <2>14
<1> DEFINE mine == line[e]  k == given[e]
<1>11. /\ link' = [link EXCEPT ![e] = r] /\ call' = call
       /\ line' = [line EXCEPT ![e] = mine, ![f] = theirs]
       /\ given' = [given EXCEPT ![e] = k] /\ k \in 0 .. Len(call.texts[e])
       /\ Soft(r) /\ (Plain(r) => Plain(l) /\ mine \in Seq(PlainSymbol))
  BY <1>2, <1>4, <1>5, <1>6, <1>9
<1>12. /\ Plain(link[f]) => theirs \in Seq(PlainSymbol)
       /\ upsets' = 0 /\ Plain(r) /\ Plain(link[f])
            => /\ Stands(link[f], mine, r, call.texts[e], k)
               /\ Stands(r, theirs, link[f], call.texts[f], given[f])
  BY <1>8, <1>10
<1> HIDE DEF theirs, mine, k
<1> QED
  BY <1>11, <1>12, TextSteps DEF f, l

LEMMA TextGoesOn == TextInv /\ [Next]_vars => TextInv'
<1> SUFFICES ASSUME TextInv, [Next]_vars PROVE TextInv'
  OBVIOUS
<1>0. SplitInv'
  BY SplitKept DEF TextInv
<1>1. \A e \in Ends : Shaped(link[e]) /\ Soft(link[e]) /\ IsSeq(line[Peer(e)]) /\ IsSeq(line[e])
  BY Others DEF TextInv, SplitInv
<1>2. upsets \in Nat
  BY DEF TextInv
<1>3. ASSUME NEW e \in Ends, RunOut(e) PROVE upsets' \in Nat /\ (upsets' = 0 => upsets = 0)
  BY <1>2, <1>3 DEF RunOut
<1>4. ASSUME NEW e \in Ends, Begin(e) PROVE TextInv'
  <2>1. Same(link[e], Start(link[e], call.slow))
    BY <1>1, TextStarts
  <2> QED
    BY <1>0, <1>4, <2>1, TextStays DEF Begin, Becomes
<1>5. ASSUME NEW e \in Ends, SendText(e) PROVE TextInv'
  BY <1>0, <1>5, TextSends
<1>6. ASSUME NEW e \in Ends, Transmit(e) PROVE TextInv'
  BY <1>0, <1>2, <1>6, TextTransmits DEF Transmit
<1>7. ASSUME NEW e \in Ends, TransmitLate(e) PROVE TextInv'
  BY <1>0, <1>3, <1>7, TextTransmits DEF TransmitLate
<1>8. ASSUME NEW e \in Ends, Hear(e) PROVE TextInv'
  <2> DEFINE q == line[Peer(e)]
  <2>1. PICK n \in 1 .. Len(q) : HearWith(e, SubSeq(q, 1, n), FALSE)
    BY <1>8 DEF Hear
  <2>2. upsets' = upsets
    BY <1>8 DEF Hear
  <2> DEFINE s == SubSeq(q, 1, n)
  <2>3. IsSeq(q) /\ n \in 0 .. Len(q)
    BY <1>1, <2>1
  <2>4. IsSeq(s) /\ Len(s) = n
    BY <2>3, Part
  <2>5. s = SubSeq(q, 1, Len(s)) /\ Len(s) \in 1 .. Len(q)
    BY <2>1, <2>4
  <2> HIDE DEF s
  <2>6. HearWith(e, s, FALSE)
    BY <2>1 DEF s
  <2> QED
    BY <1>0, <1>2, <2>2, <2>4, <2>5, <2>6, TextHears
<1>9. ASSUME NEW e \in Ends, HearLate(e) PROVE TextInv'
  <2> DEFINE q == line[Peer(e)]  s == <<Head(q)>>
  <2>1. q # <<>> /\ HearWith(e, s, TRUE) /\ IsSeq(q) /\ RunOut(e)
    BY <1>1, <1>9 DEF HearLate
  <2>2. PICK S : q \in Seq(S)
    BY <2>1 DEF IsSeq
  <2>3. IsSeq(s) /\ Len(s) = 1 /\ Len(s) \in 1 .. Len(q)
    BY <2>1, <2>2, Short
  <2>4. s = SubSeq(q, 1, 1)
    <3>1. 1 \in 1 .. Len(q)
      BY <2>3
    <3>2. SubSeq(q, 1, 1) = <<q[1]>> \o SubSeq(q, 2, 1)
      BY <2>2, <3>1, SubSeqRecursiveFirst
    <3>3. SubSeq(q, 2, 1) = <<>>
      BY SubSeqEmpty
    <3>4. <<q[1]>> \o <<>> = <<q[1]>>
      OBVIOUS
    <3> QED
      BY <2>1, <2>2, <3>2, <3>3, <3>4
  <2>5. s = SubSeq(q, 1, Len(s))
    BY <2>3, <2>4
  <2> HIDE DEF s
  <2> QED
    BY <1>0, <1>3, <2>1, <2>3, <2>5, TextHears
<1>10. ASSUME NEW e \in Ends, HearDamaged(e) PROVE TextInv'
  <2> DEFINE q == line[Peer(e)]  s == <<Noise>>
  <2>1. q # <<>> /\ HearWith(e, s, FALSE) /\ IsSeq(q) /\ upsets' = upsets + 1
    BY <1>1, <1>10 DEF HearDamaged
  <2>2. IsSeq(s) /\ Len(s) = 1 /\ Len(s) \in 1 .. Len(q)
    BY <2>1, Short DEF IsSeq
  <2>3. upsets' \in Nat /\ upsets' # 0
    BY <1>2, <2>1
  <2> HIDE DEF s
  <2> QED
    BY <1>0, <2>1, <2>2, <2>3, TextHears
<1>11. CASE UNCHANGED vars
  <2>1. link' = link /\ line' = line /\ given' = given /\ call' = call /\ upsets' = upsets
    BY <1>11 DEF vars
  <2> QED
    BY <1>0, <2>1 DEF TextInv
<1> QED
  BY <1>4, <1>5, <1>6, <1>7, <1>8, <1>9, <1>10, <1>11 DEF Next

\* For any setups, texts, repetitions and lengths of the line, whichever end's
\* pump connects first and whenever T400 passes: plain characters reach an end
\* that is still finding out what the other has, in order, as long as nothing is
\* damaged: lib.rs, held, detect and fall_back.
THEOREM NoTextLost == Spec => []TextKept
<1>1. TextInv => TextKept
  <2> SUFFICES ASSUME TextInv, NEW e \in Ends, upsets = 0, link[e].phase = "Normal",
                      link[Peer(e)].phase \in {"Idle", "Originating", "Listening", "Normal"}
               PROVE  link[Peer(e)].received \o link[Peer(e)].held
                        \o TextOn(line[e]) \o TextOn(link[e].tx)
                        = SubSeq(call.texts[e], 1, given[e])
    BY DEF TextKept
  <2>1. Stands(link[Peer(e)], line[e], link[e], call.texts[e], given[e])
    BY DEF TextInv, Plain
  <2> QED
    BY <2>1 DEF Stands, Got
<1>2. Spec => []TextInv
  BY TextInitially, TextGoesOn, PTL DEF Spec
<1> QED
  BY <1>1, <1>2, PTL

=============================================================================
