--------------------------- MODULE RoomTalkProofs ---------------------------
(***************************************************************************)
(* What two pages of a live classroom say to each other, for any pages and *)
(* any number of connections: a stream followed from the page that         *)
(* publishes it to the page that shows it.                                 *)
(*                                                                         *)
(* MediaReaches is about the moment when everything has arrived.  TalkInv  *)
(* says what is still owed before that: what a connection has agreed on is *)
(* known at the other end, in the answer being set there, or in an answer  *)
(* on its way, and an offer or an answer on its way belongs to the one     *)
(* that is out.  StageInv and HeardInv tie the two ends of it to what is   *)
(* published and what is shown.                                            *)
(***************************************************************************)
EXTENDS RoomMeshProofs

-----------------------------------------------------------------------------
(* The talk of two pages: the offers and answers of one on the queue of the *)
(* other.  An offer is in force as long as no answer of the same page is    *)
(* behind it: the page took it back when it gave way.                       *)

Tells(m, kind, x) == m.kind = kind /\ m.from = x

Offers(s, x) == {i \in DOMAIN s : Tells(s[i], "offer", x)}

Answers(s, x) == {i \in DOMAIN s : Tells(s[i], "answer", x)}

InForce(s, x) == {i \in Offers(s, x) : \A j \in Answers(s, x) : j < i}

OfferIn(s, x, S) == \E i \in InForce(s, x) : s[i].sdp = S

AnswerIn(s, x, S) == \E i \in Answers(s, x) : s[i].sdp = S

OneEach(s, x) ==
  /\ \A i, j \in InForce(s, x) : i = j
  /\ \A i, j \in Answers(s, x) : i = j

AllInForce(s, x) == Offers(s, x) \subseteq InForce(s, x)

Speaks(s, x) == \E i \in DOMAIN s : s[i].kind \in {"offer", "answer"} /\ s[i].from = x

\* t says what s says of x.
SameTalk(s, t, x) ==
  /\ \A S : (OfferIn(t, x, S) <=> OfferIn(s, x, S)) /\ (AnswerIn(t, x, S) <=> AnswerIn(s, x, S))
  /\ (OneEach(s, x) => OneEach(t, x)) /\ (AllInForce(s, x) => AllInForce(t, x))
  /\ Speaks(t, x) => Speaks(s, x)

LEMMA TalkAppended ==
  ASSUME NEW s \in Seq(Message), NEW m, NEW x, NEW t, t = Append(s, m)
  PROVE  /\ ~Tells(m, "offer", x) /\ ~Tells(m, "answer", x) => SameTalk(s, t, x)
         /\ Tells(m, "offer", x) =>
               /\ \A S : (OfferIn(t, x, S) <=> OfferIn(s, x, S) \/ S = m.sdp)
                         /\ (AnswerIn(t, x, S) <=> AnswerIn(s, x, S))
               /\ OneEach(s, x) /\ (\A S : ~OfferIn(s, x, S)) => OneEach(t, x)
               /\ AllInForce(s, x) => AllInForce(t, x)
         /\ Tells(m, "answer", x) =>
               /\ \A S : ~OfferIn(t, x, S) /\ (AnswerIn(t, x, S) <=> AnswerIn(s, x, S) \/ S = m.sdp)
               /\ OneEach(s, x) /\ (\A S : ~AnswerIn(s, x, S)) => OneEach(t, x)
               /\ AllInForce(s, x) /\ (\A S : ~OfferIn(s, x, S)) => AllInForce(t, x)
<1>1. PICK n \in Nat : /\ DOMAIN s = 1 .. n /\ DOMAIN t = 1 .. (n + 1) /\ t[n + 1] = m
                       /\ \A i \in 1 .. n : t[i] = s[i]
  BY AppendFields
<1>2. /\ \A i : i \in Offers(t, x) <=> i \in Offers(s, x) \/ (i = n + 1 /\ Tells(m, "offer", x))
      /\ \A i : i \in Answers(t, x) <=> i \in Answers(s, x) \/ (i = n + 1 /\ Tells(m, "answer", x))
      /\ \A i \in Offers(s, x) \cup Answers(s, x) : i \in 1 .. n /\ t[i] = s[i]
  BY <1>1 DEF Offers, Answers
<1>3. CASE ~Tells(m, "offer", x) /\ ~Tells(m, "answer", x)
  <2>1. \A i : /\ i \in Offers(t, x) <=> i \in Offers(s, x)
               /\ i \in Answers(t, x) <=> i \in Answers(s, x)
    BY <1>2, <1>3
  <2>2. \A i : i \in InForce(t, x) <=> i \in InForce(s, x)
    BY <2>1 DEF InForce
  <2>3. \A i \in InForce(s, x) : t[i] = s[i]
    BY <1>2 DEF InForce
  <2>4. Speaks(t, x) => Speaks(s, x)
    BY <1>1, <1>3 DEF Speaks, Tells
  <2>5. \A S : (OfferIn(t, x, S) <=> OfferIn(s, x, S)) /\ (AnswerIn(t, x, S) <=> AnswerIn(s, x, S))
    BY <1>2, <2>1, <2>2, <2>3 DEF OfferIn, AnswerIn
  <2> QED BY <1>3, <2>1, <2>2, <2>4, <2>5 DEF SameTalk, OneEach, AllInForce, Tells
<1>4. CASE Tells(m, "offer", x)
  <2>1. ~Tells(m, "answer", x)
    BY <1>4 DEF Tells
  <2>2. \A i : i \in Answers(t, x) <=> i \in Answers(s, x)
    BY <1>2, <2>1
  <2>3. \A i : i \in InForce(t, x) <=> i \in InForce(s, x) \/ i = n + 1
    BY <1>2, <1>4, <2>2 DEF InForce
  <2>4. \A i \in InForce(s, x) : t[i] = s[i]
    BY <1>2 DEF InForce
  <2>5. \A S : (OfferIn(t, x, S) <=> OfferIn(s, x, S) \/ S = m.sdp)
               /\ (AnswerIn(t, x, S) <=> AnswerIn(s, x, S))
    BY <1>1, <1>2, <2>2, <2>3, <2>4 DEF OfferIn, AnswerIn
  <2>6. ASSUME OneEach(s, x), \A S : ~OfferIn(s, x, S) PROVE OneEach(t, x)
    <3>1. \A i : i \in InForce(t, x) => i = n + 1
      <4> SUFFICES ASSUME NEW i \in InForce(s, x) PROVE FALSE
        BY <2>3
      <4>1. OfferIn(s, x, s[i].sdp)
        BY DEF OfferIn
      <4> QED BY <2>6, <4>1
    <3> QED BY <2>2, <2>6, <3>1 DEF OneEach
  <2>7. AllInForce(s, x) => AllInForce(t, x)
    BY <1>2, <2>3 DEF AllInForce
  <2> QED BY <2>1, <2>5, <2>6, <2>7, <1>4
<1>5. CASE Tells(m, "answer", x)
  <2>1. ~Tells(m, "offer", x)
    BY <1>5 DEF Tells
  <2>2. \A i : i \in Offers(t, x) <=> i \in Offers(s, x)
    BY <1>2, <2>1
  <2>3. \A i : i \in Answers(t, x) <=> i \in Answers(s, x) \/ i = n + 1
    BY <1>2, <1>5
  <2>4. \A i : i \notin InForce(t, x)
    BY <1>2, <2>2, <2>3 DEF InForce
  <2>5. \A S : ~OfferIn(t, x, S) /\ (AnswerIn(t, x, S) <=> AnswerIn(s, x, S) \/ S = m.sdp)
    BY <1>1, <1>2, <2>3, <2>4 DEF OfferIn, AnswerIn
  <2>6. ASSUME OneEach(s, x), \A S : ~AnswerIn(s, x, S) PROVE OneEach(t, x)
    <3>1. \A i : i \in Answers(t, x) => i = n + 1
      <4> SUFFICES ASSUME NEW i \in Answers(s, x) PROVE FALSE
        BY <2>3
      <4>1. AnswerIn(s, x, s[i].sdp)
        BY DEF AnswerIn
      <4> QED BY <2>6, <4>1
    <3> QED BY <2>4, <3>1 DEF OneEach
  <2>7. AllInForce(s, x) /\ (\A S : ~OfferIn(s, x, S)) => AllInForce(t, x)
    BY <2>2 DEF AllInForce, OfferIn
  <2> QED BY <2>1, <2>5, <2>6, <2>7, <1>5
<1> QED
  BY <1>3, <1>4, <1>5

LEMMA TalkTail ==
  ASSUME NEW s \in Seq(Message), s # <<>>, NEW x, NEW t, t = Tail(s), NEW m, m = Head(s)
  PROVE  /\ ~Tells(m, "offer", x) /\ ~Tells(m, "answer", x) => SameTalk(s, t, x)
         /\ \A S : (OfferIn(t, x, S) => OfferIn(s, x, S)) /\ (AnswerIn(t, x, S) => AnswerIn(s, x, S))
         /\ (OneEach(s, x) => OneEach(t, x)) /\ (AllInForce(s, x) => AllInForce(t, x))
         /\ Speaks(t, x) => Speaks(s, x)
         /\ Tells(m, "offer", x) =>
               /\ Speaks(s, x)
               /\ \A S : AnswerIn(s, x, S) => AnswerIn(t, x, S)
               /\ AllInForce(s, x) => \A S : ~AnswerIn(s, x, S)
               /\ (\A S : ~AnswerIn(s, x, S)) =>
                     OfferIn(s, x, m.sdp) /\ (OneEach(s, x) => \A S : ~OfferIn(t, x, S))
         /\ Tells(m, "answer", x) =>
               /\ Speaks(s, x) /\ AnswerIn(s, x, m.sdp)
               /\ OneEach(s, x) => \A S : ~AnswerIn(t, x, S) /\ (AnswerIn(s, x, S) => S = m.sdp)
<1>0. Tail(s) \in Seq(Message)
  OBVIOUS
<1>1. PICK n \in Nat : n = Len(Tail(s))
  BY <1>0, LenProperties
<1>2. /\ DOMAIN s = 1 .. (n + 1) /\ DOMAIN t = 1 .. n /\ m = s[1]
      /\ \A i \in 1 .. n : t[i] = s[i + 1]
  BY <1>1
<1>3. /\ \A i \in Offers(t, x) : i \in 1 .. n /\ i + 1 \in Offers(s, x) /\ t[i] = s[i + 1]
      /\ \A i \in Answers(t, x) : i \in 1 .. n /\ i + 1 \in Answers(s, x) /\ t[i] = s[i + 1]
      /\ \A i \in Offers(s, x) : i \in 1 .. (n + 1) /\ (i # 1 => i - 1 \in Offers(t, x) /\ t[i - 1] = s[i])
      /\ \A i \in Answers(s, x) : i \in 1 .. (n + 1) /\ (i # 1 => i - 1 \in Answers(t, x) /\ t[i - 1] = s[i])
      /\ 1 \in Offers(s, x) <=> Tells(m, "offer", x)
      /\ 1 \in Answers(s, x) <=> Tells(m, "answer", x)
  BY <1>2 DEF Offers, Answers
<1>4. /\ \A i \in InForce(t, x) : i + 1 \in InForce(s, x) /\ i \in 1 .. n /\ t[i] = s[i + 1]
      /\ \A i \in InForce(s, x) : i # 1 => i - 1 \in InForce(t, x) /\ t[i - 1] = s[i]
      /\ \A i \in InForce(s, x) : i \in 1 .. (n + 1) /\ i \in Offers(s, x)
  <2>1. ASSUME NEW i \in InForce(t, x)
        PROVE  i + 1 \in InForce(s, x) /\ i \in 1 .. n /\ t[i] = s[i + 1]
    <3>1. i \in Offers(t, x) /\ i \in 1 .. n /\ i + 1 \in Offers(s, x) /\ t[i] = s[i + 1]
      BY <1>3, <2>1 DEF InForce
    <3>2. ASSUME NEW j \in Answers(s, x) PROVE j < i + 1
      <4>1. j \in 1 .. (n + 1) /\ (j # 1 => j - 1 \in Answers(t, x))
        BY <1>3
      <4>2. j # 1 => j - 1 < i
        BY <2>1, <4>1 DEF InForce
      <4> QED BY <3>1, <4>1, <4>2
    <3> QED BY <3>1, <3>2 DEF InForce
  <2>2. ASSUME NEW i \in InForce(s, x), i # 1 PROVE i - 1 \in InForce(t, x) /\ t[i - 1] = s[i]
    <3>1. i \in 1 .. (n + 1) /\ i - 1 \in Offers(t, x) /\ t[i - 1] = s[i]
      BY <1>3, <2>2 DEF InForce
    <3>2. ASSUME NEW j \in Answers(t, x) PROVE j < i - 1
      <4>1. j \in 1 .. n /\ j + 1 \in Answers(s, x)
        BY <1>3
      <4>2. j + 1 < i
        BY <2>2, <4>1 DEF InForce
      <4> QED BY <3>1, <4>1, <4>2
    <3> QED BY <3>1, <3>2 DEF InForce
  <2> QED BY <1>3, <2>1, <2>2 DEF InForce
<1>5. ASSUME NEW S
      PROVE  (OfferIn(t, x, S) => OfferIn(s, x, S)) /\ (AnswerIn(t, x, S) => AnswerIn(s, x, S))
  <2>1. ASSUME NEW i \in InForce(t, x), t[i].sdp = S PROVE OfferIn(s, x, S)
    <3>1. i + 1 \in InForce(s, x) /\ s[i + 1].sdp = S
      BY <1>4, <2>1
    <3> QED BY <3>1 DEF OfferIn
  <2>2. ASSUME NEW i \in Answers(t, x), t[i].sdp = S PROVE AnswerIn(s, x, S)
    <3>1. i + 1 \in Answers(s, x) /\ s[i + 1].sdp = S
      BY <1>3, <2>2
    <3> QED BY <3>1 DEF AnswerIn
  <2> QED BY <2>1, <2>2 DEF OfferIn, AnswerIn
<1>6. OneEach(s, x) => OneEach(t, x)
  BY <1>3, <1>4 DEF OneEach
<1>7. AllInForce(s, x) => AllInForce(t, x)
  <2> SUFFICES ASSUME AllInForce(s, x), NEW i \in Offers(t, x) PROVE i \in InForce(t, x)
    BY DEF AllInForce
  <2>1. i + 1 \in InForce(s, x) /\ i + 1 # 1 /\ (i + 1) - 1 = i
    BY <1>3 DEF AllInForce
  <2> QED BY <1>4, <2>1
<1>8. Speaks(t, x) => Speaks(s, x)
  BY <1>2 DEF Speaks
<1>9. Tells(m, "offer", x) \/ Tells(m, "answer", x) => Speaks(s, x)
  BY <1>2 DEF Speaks, Tells
<1>10. CASE ~Tells(m, "offer", x) /\ ~Tells(m, "answer", x)
  <2>1. /\ \A i \in InForce(s, x) : i # 1
        /\ \A i \in Answers(s, x) : i # 1
    BY <1>3, <1>4, <1>10
  <2>2. ASSUME NEW S
        PROVE  (OfferIn(s, x, S) => OfferIn(t, x, S)) /\ (AnswerIn(s, x, S) => AnswerIn(t, x, S))
    <3>1. ASSUME NEW i \in InForce(s, x), s[i].sdp = S PROVE OfferIn(t, x, S)
      <4>1. i - 1 \in InForce(t, x) /\ t[i - 1].sdp = S
        BY <1>4, <2>1, <3>1
      <4> QED BY <4>1 DEF OfferIn
    <3>2. ASSUME NEW i \in Answers(s, x), s[i].sdp = S PROVE AnswerIn(t, x, S)
      <4>1. i - 1 \in Answers(t, x) /\ t[i - 1].sdp = S
        BY <1>3, <2>1, <3>2
      <4> QED BY <4>1 DEF AnswerIn
    <3> QED BY <3>1, <3>2 DEF OfferIn, AnswerIn
  <2> QED BY <1>5, <1>6, <1>7, <1>8, <1>10, <2>2 DEF SameTalk
<1>11. CASE Tells(m, "offer", x)
  <2>1. ~Tells(m, "answer", x)
    BY <1>11 DEF Tells
  <2>2. \A i \in Answers(s, x) : i # 1 /\ i - 1 \in Answers(t, x) /\ t[i - 1] = s[i]
    BY <1>3, <2>1
  <2>3. ASSUME NEW S, AnswerIn(s, x, S) PROVE AnswerIn(t, x, S)
    <3>1. PICK i \in Answers(s, x) : s[i].sdp = S
      BY <2>3 DEF AnswerIn
    <3>2. i - 1 \in Answers(t, x) /\ t[i - 1].sdp = S
      BY <2>2, <3>1
    <3> QED BY <3>2 DEF AnswerIn
  <2>4. AllInForce(s, x) => \A S : ~AnswerIn(s, x, S)
    <3> SUFFICES ASSUME AllInForce(s, x), NEW j \in Answers(s, x) PROVE FALSE
      BY DEF AnswerIn
    <3>1. 1 \in InForce(s, x)
      BY <1>3, <1>11 DEF AllInForce
    <3>2. j < 1 /\ j \in 1 .. (n + 1)
      BY <1>3, <3>1 DEF InForce
    <3> QED BY <3>2
  <2>5. (\A S : ~AnswerIn(s, x, S)) => OfferIn(s, x, m.sdp) /\ (OneEach(s, x) => \A S : ~OfferIn(t, x, S))
    <3> SUFFICES ASSUME \A S : ~AnswerIn(s, x, S)
                 PROVE  OfferIn(s, x, m.sdp) /\ (OneEach(s, x) => \A S : ~OfferIn(t, x, S))
      OBVIOUS
    <3>1. \A j : j \notin Answers(s, x)
      BY DEF AnswerIn
    <3>2. 1 \in InForce(s, x) /\ s[1] = m
      BY <1>2, <1>3, <1>11, <3>1 DEF InForce
    <3>3. OneEach(s, x) => \A i : i \notin InForce(t, x)
      <4> SUFFICES ASSUME OneEach(s, x), NEW i \in InForce(t, x) PROVE FALSE
        OBVIOUS
      <4>1. i + 1 \in InForce(s, x) /\ i \in 1 .. n
        BY <1>4
      <4>2. i + 1 = 1
        BY <3>2, <4>1 DEF OneEach
      <4> QED BY <4>1, <4>2
    <3> QED BY <3>2, <3>3 DEF OfferIn
  <2> QED BY <1>5, <1>6, <1>7, <1>8, <1>9, <1>11, <2>1, <2>3, <2>4, <2>5
<1>12. CASE Tells(m, "answer", x)
  <2>1. ~Tells(m, "offer", x)
    BY <1>12 DEF Tells
  <2>2. 1 \in Answers(s, x) /\ s[1] = m
    BY <1>2, <1>3, <1>12
  <2>3. AnswerIn(s, x, m.sdp)
    BY <2>2 DEF AnswerIn
  <2>4. ASSUME OneEach(s, x), NEW S PROVE ~AnswerIn(t, x, S) /\ (AnswerIn(s, x, S) => S = m.sdp)
    <3>1. \A i \in Answers(s, x) : i = 1
      BY <2>2, <2>4 DEF OneEach
    <3>2. \A i : i \notin Answers(t, x)
      BY <1>3, <3>1
    <3> QED BY <2>2, <3>1, <3>2 DEF AnswerIn
  <2> QED BY <1>5, <1>6, <1>7, <1>8, <1>9, <1>12, <2>1, <2>3, <2>4
<1> QED
  BY <1>10, <1>11, <1>12

\* What c, the connection at a's side, and d, at b's side, owe to each other,
\* with the queue s of b and the queue t of a: half of it, as seen from a.
Half(c, d, s, t, a, b) ==
  /\ OneEach(s, a)
  /\ ~(a > b) => AllInForce(s, a)
  /\ \A S : AnswerIn(s, a, S) => d.sig = "offering" /\ d.offered \subseteq c.heard
  /\ \A S : OfferIn(s, a, S) => c.sig = "offering" /\ c.offered = S /\ \A R : ~AnswerIn(t, b, R)
  /\ \A m \in c.agreed : \/ m \in d.heard \/ (d.sig = "answered" /\ m \in d.reply)
                         \/ \E S : AnswerIn(s, a, S) /\ m \in S
  /\ c.sig = "answered" => c.offered \subseteq d.heard /\ d.sig # "none"
  /\ Speaks(s, a) => c.sig # "none"
  /\ c.heard # {} => d.sig # "none"

Sound(c, d, s, t, a, b) == Half(c, d, s, t, a, b) /\ Half(d, c, t, s, b, a)

LEMMA SoundTurned ==
  ASSUME NEW c, NEW d, NEW s, NEW t, NEW a, NEW b, Sound(c, d, s, t, a, b)
  PROVE  Sound(d, c, t, s, b, a)
BY DEF Sound

\* What does not concern the exchange: tracks are added or taken off senders.
Aside(c, n) ==
  /\ n.sig = c.sig \/ (c.sig = "none" /\ n.sig = "stable")
  /\ n.heard = c.heard /\ n.offered = c.offered /\ n.reply = c.reply /\ n.agreed \subseteq c.agreed

LEMMA SoundAside ==
  ASSUME NEW c, NEW d, NEW s, NEW t, NEW a, NEW b, Sound(c, d, s, t, a, b),
         NEW n, Aside(c, n), NEW u, SameTalk(s, u, a), NEW v, SameTalk(t, v, b)
  PROVE  Sound(n, d, u, v, a, b)
<1>1. Half(n, d, u, v, a, b)
  BY DEF Sound, Half, Aside, SameTalk
<1>2. Half(d, n, v, u, b, a)
  BY DEF Sound, Half, Aside, SameTalk
<1> QED
  BY <1>1, <1>2 DEF Sound

\* a makes an offer.
LEMMA SoundOffer ==
  ASSUME NEW c, NEW d, NEW s \in Seq(Message), NEW t, NEW a, NEW b, Sound(c, d, s, t, a, b),
         NEW n, c.sig = "stable", n.sig = "offering", n.heard = c.heard, n.agreed = c.agreed,
         NEW m, Tells(m, "offer", a), n.offered = m.sdp, NEW u, u = Append(s, m)
  PROVE  Sound(n, d, u, t, a, b)
<1>1. \A S : ~OfferIn(s, a, S) /\ ~AnswerIn(t, b, S)
  BY DEF Sound, Half
<1>2. /\ \A S : (OfferIn(u, a, S) <=> OfferIn(s, a, S) \/ S = m.sdp) /\ (AnswerIn(u, a, S) <=> AnswerIn(s, a, S))
      /\ OneEach(s, a) /\ (\A S : ~OfferIn(s, a, S)) => OneEach(u, a)
      /\ AllInForce(s, a) => AllInForce(u, a)
  BY TalkAppended
<1>3. Half(n, d, u, t, a, b)
  BY <1>1, <1>2 DEF Sound, Half
<1>4. Half(d, n, t, u, b, a)
  BY <1>1, <1>2 DEF Sound, Half
<1> QED
  BY <1>3, <1>4 DEF Sound

\* a passes over an offer of b.
LEMMA SoundIgnored ==
  ASSUME NEW c, NEW d, NEW s, NEW t \in Seq(Message), NEW a, NEW b, Sound(c, d, s, t, a, b),
         t # <<>>, NEW m, m = Head(t), Tells(m, "offer", b), NEW v, v = Tail(t)
  PROVE  Sound(c, d, s, v, a, b)
<1>1. /\ \A S : (OfferIn(v, b, S) => OfferIn(t, b, S)) /\ (AnswerIn(v, b, S) <=> AnswerIn(t, b, S))
      /\ (OneEach(t, b) => OneEach(v, b)) /\ (AllInForce(t, b) => AllInForce(v, b))
      /\ Speaks(v, b) => Speaks(t, b)
  BY TalkTail
<1>2. Half(c, d, s, v, a, b)
  BY <1>1 DEF Sound, Half
<1>3. Half(d, c, v, s, b, a)
  BY <1>1 DEF Sound, Half
<1> QED
  BY <1>2, <1>3 DEF Sound

\* a answers an offer of b, giving way if it has one of its own.
LEMMA SoundAnswer ==
  ASSUME NEW c, NEW d, NEW s \in Seq(Message), NEW t \in Seq(Message), NEW a \in Nat, NEW b \in Nat,
         Sound(c, d, s, t, a, b), c.sig # "offering" \/ a > b, c.sig # "answered",
         t # <<>>, NEW m, m = Head(t), Tells(m, "offer", b), NEW v, v = Tail(t),
         NEW r, Tells(r, "answer", a), NEW u, u = Append(s, r),
         NEW n, n.sig = "stable", n.heard = c.heard \cup m.sdp, n.agreed = r.sdp
  PROVE  Sound(n, d, u, v, a, b)
<1>1. /\ \A S : (OfferIn(v, b, S) => OfferIn(t, b, S)) /\ (AnswerIn(v, b, S) => AnswerIn(t, b, S))
      /\ (OneEach(t, b) => OneEach(v, b)) /\ (AllInForce(t, b) => AllInForce(v, b))
      /\ Speaks(v, b) => Speaks(t, b)
      /\ AllInForce(t, b) => \A S : ~AnswerIn(t, b, S)
      /\ (\A S : ~AnswerIn(t, b, S)) => OfferIn(t, b, m.sdp) /\ (OneEach(t, b) => \A S : ~OfferIn(v, b, S))
  BY TalkTail
<1>2. /\ \A S : ~OfferIn(u, a, S) /\ (AnswerIn(u, a, S) <=> AnswerIn(s, a, S) \/ S = r.sdp)
      /\ OneEach(s, a) /\ (\A S : ~AnswerIn(s, a, S)) => OneEach(u, a)
      /\ AllInForce(s, a) /\ (\A S : ~OfferIn(s, a, S)) => AllInForce(u, a)
  BY TalkAppended
<1>3. \A S : ~AnswerIn(t, b, S)
  <2>1. CASE c.sig # "offering"
    BY <2>1 DEF Sound, Half
  <2>2. CASE a > b
    <3>1. ~(b > a)
      BY <2>2
    <3> QED BY <1>1, <3>1 DEF Sound, Half
  <2> QED BY <2>1, <2>2
<1>4. /\ d.sig = "offering" /\ d.offered = m.sdp
      /\ \A S : ~AnswerIn(s, a, S)
      /\ \A S : ~OfferIn(v, b, S) /\ ~AnswerIn(v, b, S)
  BY <1>1, <1>3 DEF Sound, Half
<1>5. ~(a > b) => AllInForce(u, a)
  <2> SUFFICES ASSUME ~(a > b) PROVE AllInForce(u, a)
    OBVIOUS
  <2>1. AllInForce(s, a) /\ \A S : ~OfferIn(s, a, S)
    BY DEF Sound, Half
  <2> QED BY <1>2, <2>1
<1>6. Half(n, d, u, v, a, b)
  BY <1>2, <1>4, <1>5 DEF Sound, Half
<1>7. Half(d, n, v, u, b, a)
  BY <1>1, <1>3, <1>4 DEF Sound, Half
<1> QED
  BY <1>6, <1>7 DEF Sound

\* a begins to set the answer of b to its offer: it had one out.
LEMMA SoundAnswered ==
  ASSUME NEW c, NEW d, NEW s, NEW t \in Seq(Message), NEW a, NEW b, Sound(c, d, s, t, a, b),
         t # <<>>, NEW m, m = Head(t), Tells(m, "answer", b), NEW v, v = Tail(t)
  PROVE  /\ c.sig = "offering"
         /\ \A n : /\ n.sig = "answered" /\ n.heard = c.heard /\ n.agreed = c.agreed
                   /\ n.offered = c.offered /\ n.reply = m.sdp
                   => Sound(n, d, s, v, a, b)
<1>1. /\ \A S : (OfferIn(v, b, S) => OfferIn(t, b, S)) /\ (AnswerIn(v, b, S) => AnswerIn(t, b, S))
      /\ (OneEach(t, b) => OneEach(v, b)) /\ (AllInForce(t, b) => AllInForce(v, b))
      /\ Speaks(v, b) => Speaks(t, b)
      /\ Speaks(t, b) /\ AnswerIn(t, b, m.sdp)
      /\ OneEach(t, b) => \A S : ~AnswerIn(v, b, S) /\ (AnswerIn(t, b, S) => S = m.sdp)
  BY TalkTail
<1>2. c.sig = "offering" /\ c.offered \subseteq d.heard /\ d.sig # "none"
  BY <1>1 DEF Sound, Half
<1>3. ASSUME NEW n, n.sig = "answered", n.heard = c.heard, n.agreed = c.agreed,
             n.offered = c.offered, n.reply = m.sdp
      PROVE  Sound(n, d, s, v, a, b)
  <2>1. \A S : ~OfferIn(s, a, S)
    BY <1>1 DEF Sound, Half
  <2>2. Half(n, d, s, v, a, b)
    BY <1>2, <1>3, <2>1 DEF Sound, Half
  <2>3. Half(d, n, v, s, b, a)
    BY <1>1, <1>3 DEF Sound, Half
  <2> QED BY <2>2, <2>3 DEF Sound
<1> QED
  BY <1>2, <1>3

\* The answer is set.
LEMMA SoundSet ==
  ASSUME NEW c, NEW d, NEW s, NEW t, NEW a, NEW b, Sound(c, d, s, t, a, b), c.sig = "answered",
         NEW n, n.sig = "stable", n.heard = c.heard \cup c.reply, n.agreed = c.agreed \cup c.offered
  PROVE  Sound(n, d, s, t, a, b)
<1>1. /\ \A S : ~OfferIn(s, a, S) /\ ~AnswerIn(t, b, S)
      /\ c.offered \subseteq d.heard /\ d.sig # "none"
  BY DEF Sound, Half
<1>2. Half(n, d, s, t, a, b)
  BY <1>1 DEF Sound, Half
<1>3. Half(d, n, t, s, b, a)
  BY <1>1 DEF Sound, Half
<1> QED
  BY <1>2, <1>3 DEF Sound

\* As long as a hears b or b hears of a, b has its side of the connection.
LEMMA SoundThere ==
  ASSUME NEW c, NEW d, NEW s, NEW t, NEW a, NEW b, Sound(c, d, s, t, a, b),
         c.agreed \cup c.heard # {}, d.sig = "none" => d.heard = {}
  PROVE  d.sig # "none"
BY DEF Sound, Half

-----------------------------------------------------------------------------
(* What a page publishes, and what its steps make of that.                  *)

SameStage(q, n) == n.main = q.main /\ n.cams = q.cams /\ n.used = q.used

\* Of what a page publishes, mute is taken off the senders.
LessStage(q, n) ==
  /\ n.used = q.used
  /\ \/ n.main = NoStream /\ n.cams = q.cams
     \/ n.main = q.main /\ n.cams = {}
     \/ n.main = NoStream /\ n.cams = {}

MoreStage(q, n, stream) ==
  /\ n.used = stream.n
  /\ \/ stream.kind = "main" /\ n.main = stream /\ n.cams = q.cams
     \/ stream.kind = "cam" /\ n.main = q.main /\ n.cams = {stream}

Publishing(p, stream) ==
  /\ stream \in Stream /\ stream.of = p /\ stream.n = page[p].used + 1
  /\ \E n : page' = [page EXCEPT ![p] = n] /\ MoreStage(page[p], n, stream)
  /\ peers' = [peers EXCEPT ![p] = Publishes(p, stream)]
  /\ UNCHANGED <<inbox, streams>>

\* The stage stream goes, or the webcam's.
Withdrawing(p) ==
  /\ page[p].at = "on"
  /\ \E n : page' = [page EXCEPT ![p] = n] /\ LessStage(page[p], n)
                /\ \/ n.main = NoStream /\ peers' = [peers EXCEPT ![p] = Silences(p)]
                   \/ \E cam \in page[p].cams : peers' = [peers EXCEPT ![p] = Removes(p, cam)]
                /\ \/ UNCHANGED inbox
                   \/ \E stream \in Published(page[p]) :
                         inbox' = Gone(inbox, Mine(p), stream) /\ stream \notin Published(n)
  /\ UNCHANGED streams

LEMMA StageSettled ==
  ASSUME TypeInv, NEW p \in Pages, NEW n, page' = [page EXCEPT ![p] = n], SameStage(page[p], n), NEW q \in Pages
  PROVE  SameStage(page[q], page'[q])
BY DEF TypeInv, PageTypes, SameStage

LEMMA PublishingWays ==
  ASSUME TypeInv, NEW p \in Pages, Granted(p) \/ GoLive(p) \/ OpenWebcam(p)
  PROVE  \E stream : Publishing(p, stream)
<1>1. page[p] \in Page /\ page \in [Pages -> Page]
  BY DEF TypeInv, PageTypes
<1>2. PICK used : used = page[p].used + 1
  OBVIOUS
<1>3. CASE Granted(p) \/ GoLive(p)
  <2>1. PICK stream : stream = [of |-> p, kind |-> "main", n |-> used]
    OBVIOUS
  <2>2. stream \in Stream /\ stream.of = p /\ stream.kind = "main" /\ stream.n = used
    <3>1. stream \in Stream
      BY <1>2, <2>1, NextStream DEF TypeInv
    <3> QED BY <2>1, <3>1
  <2>3. OnStage(p, stream) /\ UNCHANGED <<inbox, streams>>
    BY <1>2, <1>3, <2>1 DEF Granted, GoLive, serverVars
  <2>4. PICK next : next = Staged(page[p], stream)
    OBVIOUS
  <2>5. next.main = stream /\ next.cams = page[p].cams /\ next.used = used
    BY <1>1, <1>2, <2>4 DEF Staged, Page
  <2>6. page' = [page EXCEPT ![p] = next] /\ peers' = [peers EXCEPT ![p] = Publishes(p, stream)]
    BY <1>1, <2>3, <2>4 DEF OnStage
  <2>7. MoreStage(page[p], next, stream)
    BY <2>2, <2>5 DEF MoreStage
  <2> QED BY <1>2, <2>2, <2>3, <2>6, <2>7 DEF Publishing
<1>4. CASE OpenWebcam(p)
  <2>1. PICK stream : stream = [of |-> p, kind |-> "cam", n |-> used]
    OBVIOUS
  <2>2. stream \in Stream /\ stream.of = p /\ stream.kind = "cam" /\ stream.n = used
    <3>1. stream \in Stream
      BY <1>2, <2>1, NextStream DEF TypeInv
    <3> QED BY <2>1, <3>1
  <2>3. /\ page' = [page EXCEPT ![p] = [@ EXCEPT !.cams = {stream}, !.used = stream.n]]
        /\ peers' = [peers EXCEPT ![p] = Publishes(p, stream)]
        /\ UNCHANGED <<inbox, streams>>
    BY <1>2, <1>4, <2>1 DEF OpenWebcam
  <2>4. PICK next : next = [page[p] EXCEPT !.cams = {stream}, !.used = stream.n]
    OBVIOUS
  <2>5. next.main = page[p].main /\ next.cams = {stream} /\ next.used = stream.n
    BY <1>1, <2>4 DEF Page
  <2>6. page' = [page EXCEPT ![p] = next]
    BY <1>1, <2>3, <2>4
  <2>7. MoreStage(page[p], next, stream)
    BY <2>2, <2>5 DEF MoreStage
  <2> QED BY <1>2, <2>2, <2>3, <2>6, <2>7 DEF Publishing
<1> QED
  BY <1>3, <1>4

\* A stage stream is no webcam.
KindsInv ==
  \A p \in Pages : /\ page[p].main = NoStream \/ page[p].main.kind = "main"
                   /\ \A m \in page[p].cams : m.kind = "cam"

LEMMA WithdrawingWays ==
  ASSUME TypeInv, KindsInv, NEW p \in Pages, LeaveStage(p) \/ StopLive(p) \/ CloseWebcam(p)
  PROVE  Withdrawing(p)
<1>1. page[p] \in Page /\ page \in [Pages -> Page]
  BY DEF TypeInv, PageTypes
<1>2. NoStream \notin page[p].cams
  <2>1. page[p].cams \subseteq Stream
    BY <1>1 DEF Page
  <2>2. NoStream \notin Stream
    BY DEF NoStream, Stream
  <2> QED BY <2>1, <2>2
<1>3. CASE LeaveStage(p) \/ StopLive(p)
  <2>1. PICK mic : \/ page' = [page EXCEPT ![p] = [page[p] EXCEPT !.main = NoStream, !.mic = mic]]
                   \/ page' = [page EXCEPT ![p] = [page[p] EXCEPT !.main = NoStream]]
    BY <1>3 DEF LeaveStage, StopLive
  <2>2. PICK next : /\ page' = [page EXCEPT ![p] = next]
                    /\ \/ next = [page[p] EXCEPT !.main = NoStream, !.mic = mic]
                       \/ next = [page[p] EXCEPT !.main = NoStream]
    BY <2>1
  <2>3. next.main = NoStream /\ next.cams = page[p].cams /\ next.used = page[p].used
    BY <1>1, <2>2 DEF Page
  <2>4. LessStage(page[p], next)
    BY <2>3 DEF LessStage
  <2>5. /\ page[p].at = "on" /\ page[p].main # NoStream /\ UNCHANGED streams /\ peers' = [peers EXCEPT ![p] = Silences(p)]
        /\ UNCHANGED inbox \/ inbox' = Gone(inbox, Mine(p), page[p].main)
    BY <1>3 DEF LeaveStage, StopLive, InClass, serverVars
  <2>6. page[p].main \in Published(page[p]) /\ page[p].main \notin Published(next)
    <3>1. page[p].main \notin page[p].cams
      BY <2>5 DEF KindsInv
    <3> QED BY <2>3, <2>5, <3>1 DEF Published
  <2> QED BY <2>2, <2>3, <2>4, <2>5, <2>6 DEF Withdrawing
<1>4. CASE CloseWebcam(p)
  <2>1. PICK cam \in page[p].cams : /\ page' = [page EXCEPT ![p].cams = {}]
                                    /\ peers' = [peers EXCEPT ![p] = Removes(p, cam)]
                                    /\ inbox' = Gone(inbox, Mine(p), cam)
                                    /\ UNCHANGED streams /\ page[p].at = "on"
    BY <1>4 DEF CloseWebcam, InClass
  <2>2. PICK next : next = [page[p] EXCEPT !.cams = {}]
    OBVIOUS
  <2>3. next.main = page[p].main /\ next.cams = {} /\ next.used = page[p].used
    BY <1>1, <2>2 DEF Page
  <2>4. page' = [page EXCEPT ![p] = next]
    BY <1>1, <2>1, <2>2
  <2>5. LessStage(page[p], next)
    BY <2>3 DEF LessStage
  <2>6. cam \in Published(page[p]) /\ cam \notin Published(next)
    <3>1. cam.kind = "cam" /\ cam # NoStream
      BY <1>2 DEF KindsInv
    <3>2. next.main = NoStream \/ next.main.kind = "main"
      BY <2>3 DEF KindsInv
    <3> QED BY <2>3, <3>1, <3>2 DEF Published
  <2> QED BY <2>1, <2>4, <2>5, <2>6 DEF Withdrawing
<1> QED
  BY <1>3, <1>4

\* The steps that leave alone what a page publishes.
Unstaged(p) ==
  \/ \E id \in Sockets : Connects(p, id) \/ Negotiate(p, id) \/ AnswerSet(p, id) \/ ConnectionFails(p, id)
  \/ Drop(p) \/ Denied(p) \/ RaiseHand(p) \/ ToggleMic(p) \/ Deliver(p)
  \/ \E id \in Sockets : AnswerHand(p, id, "accept") \/ AnswerHand(p, id, "reject")

LEMMA UnstagedWays ==
  ASSUME TypeInv, NEW p \in Pages, Unstaged(p), NEW q \in Pages
  PROVE  SameStage(page[q], page'[q])
<1>1. page[p] \in Page /\ page \in [Pages -> Page]
  BY DEF TypeInv, PageTypes
<1>2. ASSUME NEW id \in Sockets, Connects(p, id) PROVE SameStage(page[q], page'[q])
  <2>1. PICK next : next = [page[p] EXCEPT !.at = "connecting", !.socket = id]
    OBVIOUS
  <2>2. page' = [page EXCEPT ![p] = next]
    BY <1>1, <1>2, <2>1 DEF Connects
  <2>3. SameStage(page[p], next)
    BY <1>1, <2>1 DEF Page, SameStage
  <2> QED BY <2>2, <2>3, StageSettled
<1>3. CASE Drop(p)
  <2>1. PICK next : next = [page[p] EXCEPT !.at = "dropped"]
    OBVIOUS
  <2>2. page' = [page EXCEPT ![p] = next]
    BY <1>1, <1>3, <2>1 DEF Drop
  <2>3. SameStage(page[p], next)
    BY <1>1, <2>1 DEF Page, SameStage
  <2> QED BY <2>2, <2>3, StageSettled
<1>4. ASSUME NEW asking, page' = [page EXCEPT ![p].asking = asking] PROVE SameStage(page[q], page'[q])
  <2>1. PICK next : next = [page[p] EXCEPT !.asking = asking]
    OBVIOUS
  <2>2. page' = [page EXCEPT ![p] = next]
    BY <1>1, <1>4, <2>1
  <2>3. SameStage(page[p], next)
    BY <1>1, <2>1 DEF Page, SameStage
  <2> QED BY <2>2, <2>3, StageSettled
<1>5. CASE Denied(p)
  <2>1. PICK asking : asking = page[p].asking - 1
    OBVIOUS
  <2>2. page' = [page EXCEPT ![p].asking = asking]
    BY <1>1, <1>5, <2>1 DEF Denied
  <2> QED BY <1>4, <2>2
<1>6. CASE ToggleMic(p)
  <2>1. PICK mic : mic = ~page[p].mic
    OBVIOUS
  <2>2. PICK next : next = [page[p] EXCEPT !.mic = mic]
    OBVIOUS
  <2>3. page' = [page EXCEPT ![p] = next]
    BY <1>1, <1>6, <2>1, <2>2 DEF ToggleMic
  <2>4. SameStage(page[p], next)
    BY <1>1, <2>2 DEF Page, SameStage
  <2> QED BY <2>3, <2>4, StageSettled
<1>7. CASE UNCHANGED page
  BY <1>7 DEF SameStage
<1>8. CASE Deliver(p)
  <2>1. PICK m : m = Head(inbox[Mine(p)])
    OBVIOUS
  <2>2. CASE OnState(p, m)
    <3>1. PICK at : at = IF m.kind = "ack" THEN "on" ELSE page[p].at
      OBVIOUS
    <3>2. PICK next : next = [page[p] EXCEPT !.at = at]
      OBVIOUS
    <3>3. page' = [page EXCEPT ![p] = next]
      BY <1>1, <2>2, <3>1, <3>2 DEF OnState
    <3>4. SameStage(page[p], next)
      BY <1>1, <3>2 DEF Page, SameStage
    <3> QED BY <3>3, <3>4, StageSettled
  <2>3. CASE OnAccepted(p, m.from)
    <3>1. PICK asking : page' = [page EXCEPT ![p].accepted = m.from, ![p].asking = asking]
      <4>1. PICK asking : asking = IF page[p].accepted # m.from /\ page[p].main = NoStream
                                   THEN page[p].asking + 1 ELSE page[p].asking
        OBVIOUS
      <4> QED BY <1>1, <2>3, <4>1 DEF OnAccepted, Page
    <3>2. PICK next : next = [page[p] EXCEPT !.accepted = m.from, !.asking = asking]
      OBVIOUS
    <3>3. page' = [page EXCEPT ![p] = next]
      BY <1>1, <3>1, <3>2
    <3>4. SameStage(page[p], next)
      BY <1>1, <3>2 DEF Page, SameStage
    <3> QED BY <3>3, <3>4, StageSettled
  <2>4. CASE page' = [page EXCEPT ![p].accepted = NoSocket]
    <3>1. PICK next : next = [page[p] EXCEPT !.accepted = NoSocket]
      OBVIOUS
    <3>2. page' = [page EXCEPT ![p] = next]
      BY <1>1, <2>4, <3>1
    <3>3. SameStage(page[p], next)
      BY <1>1, <3>1 DEF Page, SameStage
    <3> QED BY <3>2, <3>3, StageSettled
  <2>5. \/ OnState(p, m) \/ OnAccepted(p, m.from) \/ UNCHANGED page
        \/ page' = [page EXCEPT ![p].accepted = NoSocket]
    BY <1>8, <2>1 DEF Deliver, OnJoined, OnLeft, OnGone
  <2> QED BY <1>7, <2>2, <2>3, <2>4, <2>5
<1> QED
  BY <1>2, <1>3, <1>5, <1>6, <1>7, <1>8 DEF Unstaged, RaiseHand, AnswerHand, Negotiate, AnswerSet, ConnectionFails

LEMMA StageWays ==
  ASSUME TypeInv, KindsInv, NEW p \in Pages, PageStep(p)
  PROVE  \/ \E stream : Publishing(p, stream)
         \/ Withdrawing(p)
         \/ Close(p)
         \/ Unstaged(p)
<1>1. CASE Granted(p) \/ GoLive(p) \/ OpenWebcam(p)
  BY <1>1, PublishingWays
<1>2. CASE LeaveStage(p) \/ StopLive(p) \/ CloseWebcam(p)
  BY <1>2, WithdrawingWays
<1> QED
  BY <1>1, <1>2 DEF PageStep, Button, Signals, Visit, Reconnect, Unstaged

LEMMA CloseStage ==
  ASSUME TypeInv, NEW p \in Pages, Close(p)
  PROVE  /\ page'[p].main = NoStream /\ page'[p].cams = {} /\ page'[p].used = page[p].used
         /\ \A q \in Pages : q # p => page'[q] = page[q]
<1>1. page[p] \in Page /\ page \in [Pages -> Page]
  BY DEF TypeInv, PageTypes
<1>2. PICK next : next = [page[p] EXCEPT !.at = "closed", !.main = NoStream, !.cams = {}, !.asking = 0]
  OBVIOUS
<1>3. next.main = NoStream /\ next.cams = {} /\ next.used = page[p].used
  BY <1>1, <1>2 DEF Page
<1>4. page' = [page EXCEPT ![p] = next]
  BY <1>1, <1>2 DEF Close
<1> QED
  BY <1>1, <1>3, <1>4

\* Streams are numbered as they are published.
Used(p, m) == m.of = p /\ m.n \in Nat /\ m.n <= page[p].used

\* What a page publishes after its step it published before, or has just begun to.
Fresh(p, m) == m.of = p /\ m.n = page[p].used + 1

LEMMA StageMoves ==
  ASSUME TypeInv, KindsInv, NEW p \in Pages, PageStep(p), NEW q \in Pages
  PROVE  /\ page[q].used \in Nat /\ page'[q].used \in Nat /\ page'[q].used >= page[q].used
         /\ \A m \in Published(page'[q]) :
               m \in Published(page[q]) \/ (q = p /\ Fresh(p, m) /\ page'[p].used = page[p].used + 1)
         /\ page'[q].main = NoStream \/ page'[q].main.kind = "main"
         /\ \A m \in page'[q].cams : m.kind = "cam"
<1>1. page[q] \in Page /\ page[p] \in Page /\ page \in [Pages -> Page] /\ page[q].used \in Nat
  BY DEF TypeInv, PageTypes, Page
<1>2. /\ page[q].main = NoStream \/ page[q].main.kind = "main"
      /\ \A m \in page[q].cams : m.kind = "cam"
  BY DEF KindsInv
<1>3. CASE page'[q] = page[q]
  BY <1>1, <1>2, <1>3
<1>4. CASE SameStage(page[q], page'[q])
  BY <1>1, <1>2, <1>4 DEF SameStage, Published
<1>5. ASSUME NEW stream, Publishing(p, stream), q = p
      PROVE  /\ page'[q].used \in Nat /\ page'[q].used >= page[q].used
             /\ \A m \in Published(page'[q]) :
                   m \in Published(page[q]) \/ (q = p /\ Fresh(p, m) /\ page'[p].used = page[p].used + 1)
             /\ page'[q].main = NoStream \/ page'[q].main.kind = "main"
             /\ \A m \in page'[q].cams : m.kind = "cam"
  <2>1. PICK n : page' = [page EXCEPT ![p] = n] /\ MoreStage(page[p], n, stream)
    BY <1>5 DEF Publishing
  <2>2. page'[q] = n
    BY <1>1, <1>5, <2>1
  <2>3. Fresh(p, stream) /\ n.used = page[p].used + 1
    BY <1>5, <2>1 DEF Publishing, MoreStage, Fresh
  <2> QED BY <1>1, <1>2, <1>5, <2>1, <2>2, <2>3 DEF MoreStage, Published
<1>6. CASE Withdrawing(p) /\ q = p
  <2>1. PICK n : page' = [page EXCEPT ![p] = n] /\ LessStage(page[p], n)
    BY <1>6 DEF Withdrawing
  <2>2. page'[q] = n
    BY <1>1, <1>6, <2>1
  <2> QED BY <1>1, <1>2, <1>6, <2>1, <2>2 DEF LessStage, Published
<1>7. CASE Close(p) /\ q = p
  <2>1. page'[p].main = NoStream /\ page'[p].cams = {} /\ page'[p].used = page[p].used
    BY <1>7, CloseStage
  <2> QED BY <1>1, <1>7, <2>1 DEF Published
<1>8. CASE q # p /\ ~Unstaged(p)
  <2>1. (\E stream : Publishing(p, stream)) \/ Withdrawing(p) \/ Close(p)
    BY <1>8, StageWays
  <2>2. page'[q] = page[q]
    <3>1. CASE Close(p)
      BY <1>8, <3>1, CloseStage
    <3>2. ASSUME NEW n, page' = [page EXCEPT ![p] = n] PROVE page'[q] = page[q]
      BY <1>1, <1>8, <3>2
    <3> QED BY <2>1, <3>1, <3>2 DEF Publishing, Withdrawing
  <2> QED BY <1>3, <2>2
<1> QED
  BY <1>1, <1>4, <1>5, <1>6, <1>7, <1>8, StageWays, UnstagedWays

-----------------------------------------------------------------------------
(* Every connection a page has carries what it publishes.                   *)

Tracked(q, c) ==
  c.sig # "none" => Published(q) \subseteq c.sends /\ (q.main # NoStream => q.main \notin c.mute)

TrackStep(q, c, n) == n.sends \subseteq c.sends \cup Published(q) /\ (Tracked(q, c) => Tracked(q, n))

\* The connection n is c with everything on it that q publishes.
Carries(q, c, n) ==
  /\ n.sig # "none" /\ Aside(c, n)
  /\ n.sends = c.sends \cup Published(q) /\ n.mute = c.mute \ Published(q)

LEMMA TrackStays ==
  ASSUME NEW q, NEW c, NEW n, n.sends = c.sends, n.mute = c.mute, c.sig # "none" \/ n.sig = "none"
  PROVE  TrackStep(q, c, n)
BY DEF TrackStep, Tracked

LEMMA TrackCarried ==
  ASSUME NEW q, NEW c, NEW n, n.sends = c.sends \cup Published(q), n.mute = c.mute \ Published(q)
  PROVE  TrackStep(q, c, n)
BY DEF TrackStep, Tracked, Published

LEMMA ConnectedCarries ==
  ASSUME NEW c \in Peer, c.sig = "none" => c = NoPeer, NEW q, q.socket \in Sockets, NEW n, n = ConnectedTo(c, q)
  PROVE  Carries(q, c, n)
<1>1. PICK e : e = Ensured(c, q.socket)
  OBVIOUS
<1>2. /\ e \in Peer /\ e.sig # "none" /\ (c.sig # "none" => e = c)
      /\ c.sig = "none" => /\ e.sig = "stable" /\ e.heard = {} /\ e.sends = {}
                           /\ e.mute = {} /\ e.agreed = {} /\ e.offered = {} /\ e.reply = {}
  BY <1>1, EnsuredFields
<1>3. /\ NoPeer.heard = {} /\ NoPeer.sends = {} /\ NoPeer.mute = {} /\ NoPeer.agreed = {}
      /\ NoPeer.offered = {} /\ NoPeer.reply = {}
  BY DEF NoPeer
<1>4. /\ e.heard = c.heard /\ e.sends = c.sends /\ e.mute = c.mute /\ e.agreed = c.agreed /\ e.offered = c.offered
      /\ e.reply = c.reply
      /\ e.sig = c.sig \/ (c.sig = "none" /\ e.sig = "stable")
  <2>1. CASE c.sig = "none"
    <3>1. c = NoPeer
      BY <2>1
    <3> QED BY <1>2, <1>3, <2>1, <3>1
  <2>2. CASE c.sig # "none"
    BY <1>2, <2>2
  <2> QED BY <2>1, <2>2
<1>5. PICK S : S = Published(q)
  OBVIOUS
<1>6. n = TracksAdded(e, S)
  BY <1>1, <1>5 DEF ConnectedTo
<1>7. /\ n.sig = e.sig /\ n.heard = e.heard /\ n.offered = e.offered /\ n.reply = e.reply
      /\ n.sends = e.sends \cup S /\ n.mute = e.mute \ S /\ n.agreed = e.agreed \ (e.mute \cap S)
  BY <1>2, <1>6, AddedFields
<1> QED
  BY <1>2, <1>4, <1>5, <1>7 DEF Carries, Aside

\* A page has been given a list of sockets.
Rostered(p, ids) == peers' = [peers EXCEPT ![p] = ConnectedToAll(p, ids)]

\* A connection with a socket of the list, or as it was.
LEMMA RosterCarries ==
  ASSUME TypeInv, Blank, NEW p \in Pages, Connected(p), NEW ids, Rostered(p, ids),
         NEW q \in Pages, NEW id \in Sockets
  PROVE  /\ q = p /\ id \in ids /\ id # Mine(p) => Carries(page[p], peers[p][id], peers'[p][id])
         /\ ~(q = p /\ id \in ids /\ id # Mine(p)) => peers'[q][id] = peers[q][id]
<1>1. PICK c \in Peer : c = peers[p][id]
  BY DEF TypeInv, PageTypes
<1>2. c.sig = "none" => c = NoPeer
  BY <1>1 DEF Blank
<1>3. page[p].socket \in Sockets
  BY DEF TypeInv, PageTypes, Mine
<1>4. CASE q = p /\ id \in ids /\ id # Mine(p)
  <2>1. peers'[p][id] = ConnectedTo(c, page[p])
    BY <1>1, <1>4 DEF Rostered, TypeInv, PageTypes, ConnectedToAll
  <2> QED BY <1>1, <1>2, <1>3, <1>4, <2>1, ConnectedCarries
<1>5. CASE q = p /\ ~(id \in ids /\ id # Mine(p))
  BY <1>5 DEF Rostered, TypeInv, PageTypes, ConnectedToAll
<1>6. CASE q # p
  BY <1>6 DEF Rostered, TypeInv, PageTypes
<1> QED
  BY <1>4, <1>5, <1>6

LEMMA UnstagedTracks ==
  ASSUME TypeInv, Blank, NEW p \in Pages, Unstaged(p), NEW q \in Pages, NEW id \in Sockets
  PROVE  TrackStep(page[q], peers[q][id], peers'[q][id])
<1>0. ASSUME peers'[q][id] = peers[q][id] PROVE TrackStep(page[q], peers[q][id], peers'[q][id])
  BY <1>0, TrackStays
<1>1. ASSUME NEW other \in Sockets, NEW n, peers' = [peers EXCEPT ![p][other] = n],
             TrackStep(page[p], peers[p][other], n)
      PROVE  TrackStep(page[q], peers[q][id], peers'[q][id])
  <2>1. peers'[q][id] = IF q = p /\ id = other THEN n ELSE peers[q][id]
    BY <1>1, MeshSet DEF TypeInv, PageTypes
  <2> QED BY <1>0, <1>1, <2>1
<1>2. ASSUME NEW other \in Sockets, PeerClosed(p, other) PROVE TrackStep(page[q], peers[q][id], peers'[q][id])
  <2>1. TrackStep(page[p], peers[p][other], NoPeer)
    <3>1. NoPeer.sig = "none" /\ NoPeer.sends = {}
      BY DEF NoPeer
    <3> QED BY <3>1 DEF TrackStep, Tracked
  <2> QED BY <1>1, <1>2, <2>1 DEF PeerClosed
<1>3. ASSUME NEW other \in Sockets, Negotiate(p, other) PROVE TrackStep(page[q], peers[q][id], peers'[q][id])
  <2>1. PICK c \in Peer : c = peers[p][other]
    BY DEF TypeInv, PageTypes
  <2>2. PICK n : n = Offering(c)
    OBVIOUS
  <2>3. n.sends = c.sends /\ n.mute = c.mute /\ c.sig # "none"
    BY <1>3, <2>1, <2>2 DEF Offering, Peer, Negotiate, Needy
  <2>4. peers' = [peers EXCEPT ![p][other] = n]
    BY <1>3, <2>1, <2>2 DEF Negotiate, TypeInv, PageTypes
  <2>5. TrackStep(page[p], c, n)
    BY <2>3, TrackStays
  <2> QED BY <1>1, <2>1, <2>4, <2>5
<1>4. CASE Deliver(p)
  <2>1. PICK m : m = Head(inbox[Mine(p)])
    OBVIOUS
  <2>2. Connected(p) /\ inbox[Mine(p)] # <<>> /\ Mine(p) \in Sockets
    BY <1>4 DEF Deliver, TypeInv, PageTypes
  <2>3. m \in Message
    BY <2>1, <2>2, FirstMail DEF TypeInv
  <2>4. ASSUME NEW ids, Rostered(p, ids)
        PROVE  TrackStep(page[q], peers[q][id], peers'[q][id])
    <3>1. \/ peers'[q][id] = peers[q][id]
          \/ q = p /\ Carries(page[p], peers[p][id], peers'[p][id])
      BY <2>2, <2>4, RosterCarries
    <3>2. CASE q = p /\ Carries(page[p], peers[p][id], peers'[p][id])
      BY <3>2, TrackCarried DEF Carries
    <3> QED BY <1>0, <3>1, <3>2
  <2>5. CASE m.kind = "offer" /\ OnOffer(p, m.from, m.sdp)
    <3>1. m.from \in Sockets /\ m.sdp \in SUBSET Stream
      BY <2>3, <2>5, MessageFields
    <3>2. PICK c, next \in Peer, answered \in SUBSET Stream, box \in [Sockets -> Seq(Message)] :
             /\ c = Ensured(peers[p][m.from], Mine(p))
             /\ \/ /\ UNCHANGED <<peers, streams>> /\ inbox' = [inbox EXCEPT ![Mine(p)] = Tail(@)]
                   /\ MayRefuse(p, c)
                \/ IgnoresOffer(p, m.from, c, next)
                \/ AnswersOffer(p, m.from, m.sdp, c, next, answered, box)
      BY <2>2, <2>5, <3>1, OnOfferWays
    <3>3. CASE AnswersOffer(p, m.from, m.sdp, c, next, answered, box)
      <4>1. PICK was \in Peer : was = peers[p][m.from]
        BY <3>1 DEF TypeInv, PageTypes
      <4>2. c.sends = was.sends /\ c.mute = was.mute
        <5>1. was.sig = "none" => was = NoPeer
          BY <3>1, <4>1 DEF Blank
        <5>2. NoPeer.sends = {} /\ NoPeer.mute = {}
          BY DEF NoPeer
        <5>3. /\ was.sig # "none" => c = was
              /\ was.sig = "none" => c.sends = {} /\ c.mute = {}
          BY <2>2, <3>2, <4>1, EnsuredFields
        <5> QED BY <5>1, <5>2, <5>3
      <4>3. TrackStep(page[p], was, next)
        BY <3>3, <4>2, TrackCarried DEF AnswersOffer
      <4> QED BY <1>1, <3>1, <3>3, <4>1, <4>3 DEF AnswersOffer
    <3>4. CASE IgnoresOffer(p, m.from, c, next)
      <4>1. PICK was \in Peer : was = peers[p][m.from]
        BY <3>1 DEF TypeInv, PageTypes
      <4>2. was.sig # "none" /\ c = was
        BY <2>2, <3>2, <3>4, <4>1, EnsuredFields DEF IgnoresOffer
      <4>3. TrackStep(page[p], was, next)
        BY <3>4, <4>2, TrackStays DEF IgnoresOffer
      <4> QED BY <1>1, <3>1, <3>4, <4>1, <4>3 DEF IgnoresOffer
    <3> QED BY <1>0, <3>2, <3>3, <3>4
  <2>6. CASE m.kind = "answer" /\ OnAnswer(p, m.from, m.sdp)
    <3>1. m.from \in Sockets
      BY <2>3, <2>6, MessageFields
    <3>2. PICK c \in Peer : c = peers[p][m.from]
      BY <3>1 DEF TypeInv, PageTypes
    <3>3. PICK next : next = [c EXCEPT !.sig = "answered", !.mine = Mine(p), !.reply = m.sdp]
      OBVIOUS
    <3>4. CASE c.sig = "offering" /\ peers' = [peers EXCEPT ![p][m.from] = next]
      <4>1. next.sends = c.sends /\ next.mute = c.mute
        BY <3>3 DEF Peer
      <4>2. TrackStep(page[p], c, next)
        BY <3>4, <4>1, TrackStays
      <4> QED BY <1>1, <3>1, <3>2, <3>4, <4>2
    <3> QED BY <1>0, <2>6, <3>2, <3>3, <3>4 DEF OnAnswer
  <2>7. CASE m.kind \in {"ack", "state"} /\ OnState(p, m)
    BY <2>4, <2>7 DEF OnState, Rostered
  <2>8. CASE m.kind = "joined" /\ OnJoined(p, m.about)
    BY <2>4, <2>8 DEF OnJoined, Rostered
  <2>9. CASE m.kind = "left" /\ OnLeft(p, m.from)
    BY <1>2, <2>3, <2>9, MessageFields DEF OnLeft
  <2>10. CASE UNCHANGED peers
    BY <1>0, <2>10
  <2> QED BY <1>4, <2>1, <2>5, <2>6, <2>7, <2>8, <2>9, <2>10 DEF Deliver, OnAccepted, OnGone
<1>5. CASE UNCHANGED peers
  BY <1>0, <1>5
<1>6. ASSUME NEW other \in Sockets, AnswerSet(p, other) PROVE TrackStep(page[q], peers[q][id], peers'[q][id])
  <2>1. PICK c \in Peer : c = peers[p][other]
    BY DEF TypeInv, PageTypes
  <2>2. PICK n : n = Answered(c)
    OBVIOUS
  <2>3. n.sends = c.sends /\ n.mute = c.mute /\ c.sig # "none"
    BY <1>6, <2>1, <2>2 DEF Answered, Peer, AnswerSet
  <2>4. peers' = [peers EXCEPT ![p][other] = n]
    BY <1>6, <2>1, <2>2 DEF AnswerSet, TypeInv, PageTypes
  <2>5. TrackStep(page[p], c, n)
    BY <2>3, TrackStays
  <2> QED BY <1>1, <2>1, <2>4, <2>5
<1> QED
  BY <1>2, <1>3, <1>4, <1>5, <1>6
     DEF Unstaged, Connects, Drop, Denied, RaiseHand, ToggleMic, AnswerHand, AnswerSet, ConnectionFails

StageInv ==
  /\ KindsInv
  /\ \A p \in Pages : \A m \in Published(page[p]) : Used(p, m)
  /\ \A p \in Pages, id \in Sockets : \A m \in peers[p][id].sends : Used(p, m)
  /\ \A p \in Pages, id \in Sockets : Tracked(page[p], peers[p][id])

LEMMA UsedStays ==
  ASSUME TypeInv, KindsInv, NEW p \in Pages, PageStep(p), NEW q \in Pages, NEW m, Used(q, m)
  PROVE  Used(q, m)'
<1>1. page[q].used \in Nat /\ page'[q].used \in Nat /\ page'[q].used >= page[q].used
  BY StageMoves
<1> QED
  BY <1>1 DEF Used

LEMMA FreshUsed ==
  ASSUME TypeInv, KindsInv, NEW p \in Pages, PageStep(p), NEW m, Fresh(p, m), page'[p].used = page[p].used + 1
  PROVE  Used(p, m)'
<1>1. page[p].used \in Nat /\ page'[p].used \in Nat
  BY StageMoves
<1> QED
  BY <1>1 DEF Used, Fresh

\* What becomes of a page's connections as it publishes and takes back.
LEMMA PublishingTracks ==
  ASSUME TypeInv, StageInv, NEW p \in Pages, NEW stream, Publishing(p, stream), NEW id \in Sockets
  PROVE  /\ peers'[p][id].sends \subseteq peers[p][id].sends \cup {stream}
         /\ Tracked(page'[p], peers'[p][id])
         /\ Aside(peers[p][id], peers'[p][id]) \/ peers[p][id].sig = "none"
         /\ peers[p][id].sig = "none" => peers'[p][id] = NoPeer
         /\ \A q \in Pages : q # p => peers'[q][id] = peers[q][id] /\ page'[q] = page[q]
<1>1. PICK c \in Peer : c = peers[p][id]
  BY DEF TypeInv, PageTypes
<1>2. PICK n : n = peers'[p][id]
  OBVIOUS
<1>3. n = IF c.sig = "none" THEN NoPeer ELSE TracksAdded(c, {stream})
  BY <1>1, <1>2 DEF TypeInv, PageTypes, Publishing, Publishes
<1>4. PICK after : page' = [page EXCEPT ![p] = after] /\ MoreStage(page[p], after, stream)
  BY DEF Publishing
<1>5. page'[p] = after
  BY <1>4 DEF TypeInv, PageTypes
<1>6. Published(after) \subseteq Published(page[p]) \cup {stream}
  BY <1>4 DEF MoreStage, Published
<1>7. Tracked(page[p], c)
  BY <1>1 DEF StageInv
<1>8. ASSUME NEW q \in Pages, q # p PROVE peers'[q][id] = peers[q][id] /\ page'[q] = page[q]
  BY <1>4, <1>8 DEF Publishing, TypeInv, PageTypes
<1>9. CASE c.sig = "none"
  <2>1. n = NoPeer /\ n.sig = "none" /\ n.sends = {}
    BY <1>3, <1>9 DEF NoPeer
  <2> QED BY <1>1, <1>2, <1>5, <1>8, <1>9, <2>1 DEF Tracked
<1>10. CASE c.sig # "none"
  <2>1. /\ n.sig = c.sig /\ n.heard = c.heard /\ n.offered = c.offered /\ n.reply = c.reply /\ n.agreed \subseteq c.agreed
        /\ n.sends = c.sends \cup {stream} /\ n.mute = c.mute \ {stream}
    BY <1>3, <1>10, AddedFields
  <2>2. Published(after) \subseteq n.sends
    BY <1>6, <1>7, <1>10, <2>1 DEF Tracked
  <2>3. after.main # NoStream => after.main \notin n.mute
    BY <1>4, <1>7, <1>10, <2>1 DEF Tracked, MoreStage
  <2> QED BY <1>1, <1>2, <1>5, <1>8, <1>10, <2>1, <2>2, <2>3 DEF Tracked, Aside
<1> QED
  BY <1>9, <1>10

LEMMA WithdrawingTracks ==
  ASSUME TypeInv, StageInv, NEW p \in Pages, Withdrawing(p), NEW id \in Sockets
  PROVE  /\ peers'[p][id].sends = peers[p][id].sends
         /\ Tracked(page'[p], peers'[p][id])
         /\ Aside(peers[p][id], peers'[p][id])
         /\ \A q \in Pages : q # p => peers'[q][id] = peers[q][id] /\ page'[q] = page[q]
<1>1. PICK c \in Peer : c = peers[p][id]
  BY DEF TypeInv, PageTypes
<1>2. PICK n : n = peers'[p][id]
  OBVIOUS
<1>3. PICK after : /\ page' = [page EXCEPT ![p] = after] /\ LessStage(page[p], after)
                   /\ \/ after.main = NoStream /\ peers' = [peers EXCEPT ![p] = Silences(p)]
                      \/ \E cam \in page[p].cams : peers' = [peers EXCEPT ![p] = Removes(p, cam)]
  BY DEF Withdrawing
<1>4. page'[p] = after
  BY <1>3 DEF TypeInv, PageTypes
<1>5. Published(after) \subseteq Published(page[p]) /\ (after.main # NoStream => after.main = page[p].main)
  BY <1>3 DEF LessStage, Published
<1>6. Tracked(page[p], c)
  BY <1>1 DEF StageInv
<1>7. PICK mute : /\ n = [c EXCEPT !.mute = mute]
                  /\ after.main # NoStream => \E cam \in page[p].cams : mute \subseteq c.mute \cup {cam}
  <2>1. CASE after.main = NoStream /\ peers' = [peers EXCEPT ![p] = Silences(p)]
    <3>1. n = [c EXCEPT !.mute = c.sends]
      BY <1>1, <1>2, <2>1 DEF TypeInv, PageTypes, Silences
    <3> QED BY <2>1, <3>1
  <2>2. ASSUME NEW cam \in page[p].cams, peers' = [peers EXCEPT ![p] = Removes(p, cam)]
        PROVE  \E mute : n = [c EXCEPT !.mute = mute] /\ mute \subseteq c.mute \cup {cam}
    <3>1. PICK mute : mute = c.mute \cup ({cam} \cap c.sends)
      OBVIOUS
    <3>2. n = [c EXCEPT !.mute = mute]
      <4>1. n = [c EXCEPT !.mute = @ \cup ({cam} \cap c.sends)]
        BY <1>1, <1>2, <2>2 DEF TypeInv, PageTypes, Removes
      <4> QED BY <3>1, <4>1 DEF Peer
    <3> QED BY <3>1, <3>2
  <2> QED BY <1>3, <2>1, <2>2
<1>8. /\ n.sig = c.sig /\ n.heard = c.heard /\ n.offered = c.offered /\ n.reply = c.reply /\ n.agreed = c.agreed
      /\ n.sends = c.sends /\ n.mute = mute
  BY <1>7 DEF Peer
<1>9. after.main # NoStream => after.main \notin n.mute \/ c.sig = "none"
  <2> SUFFICES ASSUME after.main # NoStream, c.sig # "none" PROVE after.main \notin n.mute
    OBVIOUS
  <2>1. PICK cam \in page[p].cams : mute \subseteq c.mute \cup {cam}
    BY <1>7
  <2>2. after.main = page[p].main /\ after.main \notin c.mute
    BY <1>5, <1>6 DEF Tracked
  <2>3. after.main # cam
    BY <2>2 DEF StageInv, KindsInv
  <2> QED BY <1>8, <2>1, <2>2, <2>3
<1>10. Tracked(after, n)
  BY <1>5, <1>6, <1>8, <1>9 DEF Tracked
<1>11. ASSUME NEW q \in Pages, q # p PROVE peers'[q][id] = peers[q][id] /\ page'[q] = page[q]
  BY <1>3, <1>11 DEF TypeInv, PageTypes
<1> QED
  BY <1>1, <1>2, <1>4, <1>8, <1>10, <1>11 DEF Aside

LEMMA CloseTracks ==
  ASSUME TypeInv, NEW p \in Pages, Close(p), NEW id \in Sockets
  PROVE  peers'[p][id] = NoPeer /\ \A q \in Pages : q # p => peers'[q][id] = peers[q][id]
BY DEF Close, TypeInv, PageTypes

LEMMA PageStepStage ==
  ASSUME TypeInv, Blank, StageInv, NEW p \in Pages, PageStep(p)
  PROVE  StageInv'
<1>1. KindsInv
  BY DEF StageInv
<1>2. KindsInv'
  BY <1>1, StageMoves DEF KindsInv
<1>3. ASSUME NEW q \in Pages, NEW m \in Published(page'[q]) PROVE Used(q, m)'
  <2>1. CASE m \in Published(page[q])
    BY <1>1, <2>1, UsedStays DEF StageInv
  <2>2. CASE q = p /\ Fresh(p, m) /\ page'[p].used = page[p].used + 1
    BY <1>1, <2>2, FreshUsed
  <2> QED BY <1>1, <1>3, <2>1, <2>2, StageMoves
<1>4. ASSUME NEW q \in Pages, NEW id \in Sockets
      PROVE  (\A m \in peers'[q][id].sends : Used(q, m)') /\ Tracked(page'[q], peers'[q][id])
  <2>0. CASE peers'[q][id] = peers[q][id] /\ page'[q] = page[q]
    BY <1>1, <2>0, UsedStays DEF StageInv
  <2>1. ASSUME NEW stream, Publishing(p, stream)
        PROVE  (\A m \in peers'[q][id].sends : Used(q, m)') /\ Tracked(page'[q], peers'[q][id])
    <3>1. CASE q # p
      BY <2>0, <2>1, <3>1, PublishingTracks
    <3>2. CASE q = p
      <4>1. /\ peers'[p][id].sends \subseteq peers[p][id].sends \cup {stream}
            /\ Tracked(page'[p], peers'[p][id])
        BY <2>1, PublishingTracks
      <4>2. Used(p, stream)'
        <5>1. PICK n : page' = [page EXCEPT ![p] = n] /\ n.used = stream.n
          BY <2>1 DEF Publishing, MoreStage
        <5>2. page'[p].used = page[p].used + 1 /\ Fresh(p, stream)
          BY <2>1, <5>1 DEF Publishing, TypeInv, PageTypes, Fresh
        <5> QED BY <1>1, <5>2, FreshUsed
      <4> QED BY <1>1, <3>2, <4>1, <4>2, UsedStays DEF StageInv
    <3> QED BY <3>1, <3>2
  <2>2. CASE Withdrawing(p)
    <3>1. CASE q # p
      BY <2>0, <2>2, <3>1, WithdrawingTracks
    <3>2. CASE q = p
      BY <1>1, <2>2, <3>2, WithdrawingTracks, UsedStays DEF StageInv
    <3> QED BY <3>1, <3>2
  <2>3. CASE Close(p)
    <3>1. CASE q # p
      BY <2>0, <2>3, <3>1, CloseTracks, CloseStage
    <3>2. CASE q = p
      <4>1. peers'[q][id] = NoPeer /\ NoPeer.sig = "none" /\ NoPeer.sends = {}
        BY <2>3, <3>2, CloseTracks DEF NoPeer
      <4> QED BY <4>1 DEF Tracked
    <3> QED BY <3>1, <3>2
  <2>4. CASE Unstaged(p)
    <3>1. TrackStep(page[q], peers[q][id], peers'[q][id]) /\ SameStage(page[q], page'[q])
      BY <2>4, UnstagedTracks, UnstagedWays
    <3>2. Published(page'[q]) = Published(page[q]) /\ page'[q].main = page[q].main
      BY <3>1 DEF SameStage, Published
    <3>3. \A m \in peers'[q][id].sends : Used(q, m)
      BY <3>1 DEF TrackStep, StageInv
    <3>4. Tracked(page[q], peers'[q][id])
      BY <3>1 DEF TrackStep, StageInv
    <3> QED BY <1>1, <3>2, <3>3, <3>4, UsedStays DEF Tracked
  <2> QED BY <1>1, <2>1, <2>2, <2>3, <2>4, StageWays
<1> QED
  BY <1>2, <1>3, <1>4 DEF StageInv

-----------------------------------------------------------------------------
(* What a page has heard of it shows, as long as it is published.           *)

HeardInv ==
  /\ \A k \in Sockets : \A m \in MailTo(inbox, k) :
        /\ m.kind \in {"offer", "answer"} => \A x \in m.sdp : Used(owner[m.from], x)
        /\ m.kind = "gone" => /\ link[m.from] # "free" /\ Used(owner[m.from], m.stream)
                              /\ m.stream \notin Published(page[owner[m.from]])
  /\ \A q \in Pages, id \in Sockets : \A m \in peers[q][id].heard :
        Used(owner[id], m) /\ (m \in Published(page[owner[id]]) => m \in streams[q][id])
  /\ \A q \in Pages, id \in Sockets : \A m \in peers[q][id].reply : Used(owner[id], m)

\* How a step of p changes the answer that q is setting ...
ReplyWays(p, q, id, next) ==
  \/ next.reply \subseteq peers[q][id].reply
  \/ /\ q = p /\ Mine(p) \in Sockets
     /\ \E m \in MailTo(inbox, Mine(p)) : m.kind = "answer" /\ m.from = id /\ next.reply = m.sdp

\* ... and what q has heard of and shows.
HeardWays(p, q, id, next, shown) ==
  \/ next.heard = {}
  \/ /\ next.heard \subseteq peers[q][id].heard \cup peers[q][id].reply
     /\ streams[q][id] \cup (peers[q][id].reply \ peers[q][id].heard) \subseteq shown
  \/ next.heard = peers[q][id].heard /\ streams[q][id] \subseteq shown
  \/ /\ q = p /\ Mine(p) \in Sockets /\ next.heard = peers[q][id].heard
     /\ \E m \in MailTo(inbox, Mine(p)) : /\ m.kind = "gone" /\ m.from = id
                                          /\ streams[q][id] \ {m.stream} \subseteq shown
  \/ /\ q = p /\ Mine(p) \in Sockets
     /\ \E m \in MailTo(inbox, Mine(p)) :
           /\ m.kind \in {"offer", "answer"} /\ m.from = id
           /\ next.heard \subseteq peers[q][id].heard \cup m.sdp
           /\ streams[q][id] \cup (m.sdp \ peers[q][id].heard) \subseteq shown

LEMMA HeardStays ==
  ASSUME NEW p \in Pages, NEW q \in Pages, NEW id \in Sockets, NEW next, NEW shown,
         next = peers[q][id] \/ Aside(peers[q][id], next), shown = streams[q][id]
  PROVE  HeardWays(p, q, id, next, shown) /\ ReplyWays(p, q, id, next)
BY DEF HeardWays, ReplyWays, Aside

LEMMA DeliverHeard ==
  ASSUME TypeInv, Blank, NEW p \in Pages, Deliver(p), NEW q \in Pages, NEW id \in Sockets
  PROVE  HeardWays(p, q, id, peers'[q][id], streams'[q][id]) /\ ReplyWays(p, q, id, peers'[q][id])
<1>0. CASE UNCHANGED <<peers, streams>>
  BY <1>0, HeardStays
<1>1. PICK m : m = Head(inbox[Mine(p)])
  OBVIOUS
<1>2. Connected(p) /\ inbox[Mine(p)] # <<>> /\ Mine(p) \in Sockets
  BY DEF Deliver, TypeInv, PageTypes
<1>3. m \in Message /\ m \in MailTo(inbox, Mine(p))
  BY <1>1, <1>2, FirstMail DEF TypeInv
<1>4. ASSUME m.from \in Sockets, NEW next, NEW shown,
             peers' = [peers EXCEPT ![p][m.from] = next], streams' = [streams EXCEPT ![p][m.from] = shown],
             HeardWays(p, p, m.from, next, shown), ReplyWays(p, p, m.from, next)
      PROVE  HeardWays(p, q, id, peers'[q][id], streams'[q][id]) /\ ReplyWays(p, q, id, peers'[q][id])
  <2>1. /\ peers'[q][id] = IF q = p /\ id = m.from THEN next ELSE peers[q][id]
        /\ streams'[q][id] = IF q = p /\ id = m.from THEN shown ELSE streams[q][id]
    BY <1>4, MeshSet, StageSet DEF TypeInv, PageTypes
  <2>2. CASE q = p /\ id = m.from
    BY <1>4, <2>1, <2>2
  <2>3. CASE ~(q = p /\ id = m.from)
    BY <2>1, <2>3, HeardStays
  <2> QED BY <2>2, <2>3
<1>5. ASSUME NEW ids, Rostered(p, ids), UNCHANGED streams
      PROVE  HeardWays(p, q, id, peers'[q][id], streams'[q][id]) /\ ReplyWays(p, q, id, peers'[q][id])
  <2>1. \/ peers'[q][id] = peers[q][id]
        \/ q = p /\ Carries(page[p], peers[p][id], peers'[p][id])
    BY <1>2, <1>5, RosterCarries
  <2>2. CASE q = p /\ Carries(page[p], peers[p][id], peers'[p][id])
    BY <1>5, <2>2, HeardStays DEF Carries
  <2>3. CASE peers'[q][id] = peers[q][id]
    BY <1>5, <2>3, HeardStays
  <2> QED BY <2>1, <2>2, <2>3
<1>6. CASE m.kind = "offer" /\ OnOffer(p, m.from, m.sdp)
  <2>1. m.from \in Sockets /\ m.sdp \in SUBSET Stream
    BY <1>3, <1>6, MessageFields
  <2>2. PICK c, next \in Peer, answered \in SUBSET Stream, box \in [Sockets -> Seq(Message)] :
           /\ c = Ensured(peers[p][m.from], Mine(p))
           /\ \/ /\ UNCHANGED <<peers, streams>> /\ inbox' = [inbox EXCEPT ![Mine(p)] = Tail(@)]
                 /\ MayRefuse(p, c)
              \/ IgnoresOffer(p, m.from, c, next)
              \/ AnswersOffer(p, m.from, m.sdp, c, next, answered, box)
    BY <1>2, <1>6, <2>1, OnOfferWays
  <2>3. CASE AnswersOffer(p, m.from, m.sdp, c, next, answered, box)
    <3>1. PICK was \in Peer : was = peers[p][m.from]
      BY <2>1 DEF TypeInv, PageTypes
    <3>2. c.heard = was.heard /\ c.reply = was.reply
      <4>1. was.sig = "none" => was = NoPeer
        BY <2>1, <3>1 DEF Blank
      <4>2. NoPeer.heard = {} /\ NoPeer.reply = {}
        BY DEF NoPeer
      <4>3. (was.sig # "none" => c = was) /\ (was.sig = "none" => c.heard = {} /\ c.reply = {})
        BY <1>2, <2>2, <3>1, EnsuredFields
      <4> QED BY <4>1, <4>2, <4>3
    <3>3. PICK shown : shown = ShownAfter(streams[p][m.from], m.sdp, c)
      OBVIOUS
    <3>4. /\ peers' = [peers EXCEPT ![p][m.from] = next]
          /\ streams' = [streams EXCEPT ![p][m.from] = shown]
          /\ next.heard = c.heard \cup m.sdp /\ next.reply = c.reply
      BY <2>1, <2>3, <3>3 DEF AnswersOffer, TypeInv, PageTypes
    <3>5. HeardWays(p, p, m.from, next, shown)
      BY <1>2, <1>3, <1>6, <3>1, <3>2, <3>3, <3>4 DEF HeardWays, ShownAfter
    <3>6. ReplyWays(p, p, m.from, next)
      BY <3>1, <3>2, <3>4 DEF ReplyWays
    <3> QED BY <1>4, <2>1, <3>4, <3>5, <3>6
  <2>4. CASE IgnoresOffer(p, m.from, c, next)
    <3>1. PICK was \in Peer : was = peers[p][m.from]
      BY <2>1 DEF TypeInv, PageTypes
    <3>2. c = was
      BY <1>2, <2>2, <2>4, <3>1, EnsuredFields DEF IgnoresOffer
    <3>3. next.heard = was.heard /\ next.reply = was.reply
      BY <2>4, <3>2 DEF IgnoresOffer
    <3>4. peers' = [peers EXCEPT ![p][m.from] = next] /\ UNCHANGED streams
      BY <2>4 DEF IgnoresOffer
    <3>5. peers'[q][id] = IF q = p /\ id = m.from THEN next ELSE peers[q][id]
      BY <2>1, <3>4, MeshSet DEF TypeInv, PageTypes
    <3>6. CASE q = p /\ id = m.from
      BY <3>1, <3>3, <3>4, <3>5, <3>6 DEF HeardWays, ReplyWays
    <3>7. CASE ~(q = p /\ id = m.from)
      BY <3>4, <3>5, <3>7, HeardStays
    <3> QED BY <3>6, <3>7
  <2> QED BY <1>0, <2>2, <2>3, <2>4
<1>7. CASE m.kind = "answer" /\ OnAnswer(p, m.from, m.sdp)
  <2>1. m.from \in Sockets
    BY <1>3, <1>7, MessageFields
  <2>2. PICK c \in Peer : c = peers[p][m.from]
    BY <2>1 DEF TypeInv, PageTypes
  <2>3. PICK next : next = [c EXCEPT !.sig = "answered", !.mine = Mine(p), !.reply = m.sdp]
    OBVIOUS
  <2>4. UNCHANGED streams
    BY <1>7 DEF OnAnswer
  <2>5. CASE peers' = [peers EXCEPT ![p][m.from] = next]
    <3>1. peers'[q][id] = IF q = p /\ id = m.from THEN next ELSE peers[q][id]
      BY <2>1, <2>5, MeshSet DEF TypeInv, PageTypes
    <3>2. next.heard = c.heard /\ next.reply = m.sdp
      BY <2>3 DEF Peer
    <3>3. CASE q = p /\ id = m.from
      BY <1>2, <1>3, <1>7, <2>2, <2>4, <3>1, <3>2, <3>3 DEF HeardWays, ReplyWays
    <3>4. CASE ~(q = p /\ id = m.from)
      BY <2>4, <3>1, <3>4, HeardStays
    <3> QED BY <3>3, <3>4
  <2>6. UNCHANGED peers \/ peers' = [peers EXCEPT ![p][m.from] = next]
    BY <1>7, <2>2, <2>3 DEF OnAnswer
  <2> QED BY <1>0, <2>4, <2>5, <2>6
<1>8. CASE m.kind \in {"ack", "state"} /\ OnState(p, m)
  BY <1>5, <1>8 DEF OnState, Rostered
<1>9. CASE m.kind = "joined" /\ OnJoined(p, m.about)
  BY <1>5, <1>9 DEF OnJoined, Rostered
<1>10. CASE m.kind = "left" /\ OnLeft(p, m.from)
  <2>1. m.from \in Sockets
    BY <1>3, <1>10, MessageFields
  <2>2. NoPeer.heard = {} /\ NoPeer.reply = {}
    BY DEF NoPeer
  <2> QED BY <1>4, <1>10, <2>1, <2>2 DEF OnLeft, PeerClosed, HeardWays, ReplyWays
<1>11. CASE m.kind = "gone" /\ OnGone(p, m.from, m.stream)
  <2>1. m.from \in Sockets
    BY <1>3, <1>11, MessageFields
  <2>2. streams'[q][id] = IF q = p /\ id = m.from THEN streams[p][m.from] \ {m.stream} ELSE streams[q][id]
    BY <1>11, <2>1, StageSet DEF OnGone, TypeInv, PageTypes
  <2>3. peers'[q][id] = peers[q][id]
    BY <1>11 DEF OnGone
  <2>4. CASE q = p /\ id = m.from
    BY <1>2, <1>3, <1>11, <2>2, <2>3, <2>4 DEF HeardWays, ReplyWays
  <2>5. CASE ~(q = p /\ id = m.from)
    BY <2>2, <2>3, <2>5, HeardStays
  <2> QED BY <2>4, <2>5
<1> QED
  BY <1>0, <1>1, <1>6, <1>7, <1>8, <1>9, <1>10, <1>11 DEF Deliver, OnAccepted

LEMMA PageStepHeard ==
  ASSUME TypeInv, Blank, StageInv, NEW p \in Pages, PageStep(p), NEW q \in Pages, NEW id \in Sockets
  PROVE  HeardWays(p, q, id, peers'[q][id], streams'[q][id]) /\ ReplyWays(p, q, id, peers'[q][id])
<1>0. CASE UNCHANGED <<peers, streams>>
  BY <1>0, HeardStays
<1>1. NoPeer.heard = {} /\ NoPeer.reply = {} /\ NoPeer.sig = "none"
  BY DEF NoPeer
<1>2. ASSUME NEW stream, Publishing(p, stream)
      PROVE  HeardWays(p, q, id, peers'[q][id], streams'[q][id]) /\ ReplyWays(p, q, id, peers'[q][id])
  <2>1. UNCHANGED streams
    BY <1>2 DEF Publishing
  <2>2. CASE q # p
    BY <1>2, <2>1, <2>2, PublishingTracks, HeardStays
  <2>3. CASE q = p
    <3>1. Aside(peers[p][id], peers'[p][id]) \/ peers'[p][id] = NoPeer
      BY <1>2, PublishingTracks
    <3> QED BY <1>1, <2>1, <2>3, <3>1, HeardStays DEF HeardWays, ReplyWays
  <2> QED BY <2>2, <2>3
<1>3. CASE Withdrawing(p)
  <2>1. UNCHANGED streams
    BY <1>3 DEF Withdrawing
  <2>2. CASE q # p
    BY <1>3, <2>1, <2>2, WithdrawingTracks, HeardStays
  <2>3. CASE q = p
    BY <1>3, <2>1, <2>3, WithdrawingTracks, HeardStays
  <2> QED BY <2>2, <2>3
<1>4. CASE Close(p)
  <2>1. CASE q # p
    <3>1. peers'[q][id] = peers[q][id] /\ streams'[q][id] = streams[q][id]
      BY <1>4, <2>1 DEF Close, TypeInv, PageTypes
    <3> QED BY <3>1, HeardStays
  <2>2. CASE q = p
    BY <1>1, <1>4, <2>2, CloseTracks DEF HeardWays, ReplyWays
  <2> QED BY <2>1, <2>2
<1>5. ASSUME NEW other \in Sockets, PeerClosed(p, other)
      PROVE  HeardWays(p, q, id, peers'[q][id], streams'[q][id]) /\ ReplyWays(p, q, id, peers'[q][id])
  <2>1. /\ peers'[q][id] = IF q = p /\ id = other THEN NoPeer ELSE peers[q][id]
        /\ streams'[q][id] = IF q = p /\ id = other THEN {} ELSE streams[q][id]
    BY <1>5, MeshSet, StageSet DEF PeerClosed, TypeInv, PageTypes
  <2>2. CASE q = p /\ id = other
    BY <1>1, <2>1, <2>2 DEF HeardWays, ReplyWays
  <2>3. CASE ~(q = p /\ id = other)
    BY <2>1, <2>3, HeardStays
  <2> QED BY <2>2, <2>3
<1>6. ASSUME NEW other \in Sockets, Negotiate(p, other)
      PROVE  HeardWays(p, q, id, peers'[q][id], streams'[q][id]) /\ ReplyWays(p, q, id, peers'[q][id])
  <2>1. PICK c \in Peer : c = peers[p][other]
    BY DEF TypeInv, PageTypes
  <2>2. PICK n : n = Offering(c)
    OBVIOUS
  <2>3. n.heard = c.heard /\ n.reply = c.reply
    BY <2>1, <2>2 DEF Offering, Peer
  <2>4. peers' = [peers EXCEPT ![p][other] = n] /\ UNCHANGED streams
    BY <1>6, <2>1, <2>2 DEF Negotiate, TypeInv, PageTypes
  <2>5. peers'[q][id] = IF q = p /\ id = other THEN n ELSE peers[q][id]
    BY <2>4, MeshSet DEF TypeInv, PageTypes
  <2>6. CASE q = p /\ id = other
    BY <2>1, <2>3, <2>4, <2>5, <2>6 DEF HeardWays, ReplyWays
  <2>7. CASE ~(q = p /\ id = other)
    BY <2>4, <2>5, <2>7, HeardStays
  <2> QED BY <2>6, <2>7
<1>8. ASSUME NEW other \in Sockets, AnswerSet(p, other)
      PROVE  HeardWays(p, q, id, peers'[q][id], streams'[q][id]) /\ ReplyWays(p, q, id, peers'[q][id])
  <2>1. PICK c \in Peer : c = peers[p][other]
    BY DEF TypeInv, PageTypes
  <2>2. PICK n : n = Answered(c)
    OBVIOUS
  <2>3. n.heard = c.heard \cup c.reply /\ n.reply = {}
    BY <2>1, <2>2 DEF Answered, Peer
  <2>4. PICK shown : shown = ShownAfter(streams[p][other], c.reply, c)
    OBVIOUS
  <2>5. peers' = [peers EXCEPT ![p][other] = n] /\ streams' = [streams EXCEPT ![p][other] = shown]
    BY <1>8, <2>1, <2>2, <2>4 DEF AnswerSet, TypeInv, PageTypes
  <2>6. /\ peers'[q][id] = IF q = p /\ id = other THEN n ELSE peers[q][id]
        /\ streams'[q][id] = IF q = p /\ id = other THEN shown ELSE streams[q][id]
    BY <2>5, MeshSet, StageSet DEF TypeInv, PageTypes
  <2>7. CASE q = p /\ id = other
    BY <2>1, <2>3, <2>4, <2>6, <2>7 DEF HeardWays, ReplyWays, ShownAfter
  <2>8. CASE ~(q = p /\ id = other)
    BY <2>6, <2>8, HeardStays
  <2> QED BY <2>7, <2>8
<1>7. CASE Unstaged(p)
  BY <1>0, <1>5, <1>6, <1>7, <1>8, DeliverHeard
     DEF Unstaged, Connects, Drop, Denied, RaiseHand, ToggleMic, AnswerHand, AnswerSet, ConnectionFails
<1> QED
  BY <1>2, <1>3, <1>4, <1>7, StageWays DEF StageInv

-----------------------------------------------------------------------------
(* What a page says by its step.                                            *)

Speech(p, k, m) ==
  \/ /\ m.kind \in {"offer", "answer"} /\ m.from = Mine(p) /\ Connected(p)
     /\ m.sdp \subseteq peers'[p][k].sends
  \/ m = LeftMessage(Mine(p)) /\ Close(p)
  \/ /\ m.kind = "gone" /\ m.from = Mine(p) /\ page[p].at = "on"
     /\ m.stream \in Published(page[p]) /\ m.stream \notin Published(page'[p])

LEMMA AnswerSpeech ==
  ASSUME TypeInv, NEW p \in Pages, Connected(p), inbox[Mine(p)] # <<>>, NEW offer,
         offer = Head(inbox[Mine(p)]), offer.kind = "offer", OnOffer(p, offer.from, offer.sdp),
         NEW k \in Sockets, NEW m \in MailTo(inbox', k), m \notin MailTo(inbox, k)
  PROVE  Speech(p, k, m)
<1>1. Mine(p) \in Sockets /\ inbox \in [Sockets -> Seq(Message)] /\ inbox[Mine(p)] \in Seq(Message)
  BY DEF TypeInv, PageTypes, MailTypes, Connected
<1>2. offer \in MailTo(inbox, Mine(p)) /\ offer \in Message
  BY <1>1, FirstMail DEF TypeInv
<1>3. offer.from \in Sockets /\ offer.sdp \in SUBSET Stream
  BY <1>2, MessageFields
<1>4. CASE inbox' = [inbox EXCEPT ![Mine(p)] = Tail(@)]
  BY <1>1, <1>4, TakenOnly
<1>5. ASSUME NEW c, NEW next, NEW answered, NEW box \in [Sockets -> Seq(Message)],
             AnswersOffer(p, offer.from, offer.sdp, c, next, answered, box)
      PROVE  Speech(p, k, m)
  <2>1. PICK a : a = [kind |-> "answer", from |-> Mine(p), sdp |-> answered]
    OBVIOUS
  <2>2. /\ box = Sent(inbox, {offer.from}, a) /\ inbox' = [box EXCEPT ![Mine(p)] = Tail(@)]
        /\ peers' = [peers EXCEPT ![p][offer.from] = next] /\ answered \subseteq next.sends
    BY <1>5, <2>1 DEF AnswersOffer
  <2>3. box[Mine(p)] # <<>>
    BY <1>1, <2>2, SentNotEmpty
  <2>4. m \in MailTo(box, k)
    BY <1>1, <2>2, <2>3, TakenOnly
  <2>5. m \in MailTo(inbox, k) \/ (m = a /\ k \in {offer.from} /\ Online(k))
    <3>1. box = Sent(inbox, {offer.from}, a)
      BY <2>2
    <3> QED BY <1>1, <2>4, <3>1, SentOnly
  <2>6. m = a /\ k = offer.from
    BY <2>5
  <2>7. peers'[p][k] = next
    BY <1>3, <2>2, <2>6, MeshSet DEF TypeInv, PageTypes
  <2>8. a.kind = "answer" /\ a.from = Mine(p) /\ a.sdp = answered
    BY <2>1
  <2> QED BY <2>2, <2>6, <2>7, <2>8 DEF Speech
<1>6. ASSUME NEW c, NEW next, IgnoresOffer(p, offer.from, c, next) PROVE Speech(p, k, m)
  BY <1>4, <1>6 DEF IgnoresOffer
<1> QED
  BY <1>3, <1>4, <1>5, <1>6, OnOfferWays

LEMMA PageStepSpeech ==
  ASSUME TypeInv, KindsInv, NEW p \in Pages, PageStep(p), NEW k \in Sockets, NEW m \in MailTo(inbox', k),
         m \notin MailTo(inbox, k)
  PROVE  Speech(p, k, m)
<1>1. inbox \in [Sockets -> Seq(Message)]
  BY DEF TypeInv, MailTypes
<1>2. ASSUME NEW id \in Sockets, Negotiate(p, id) PROVE Speech(p, k, m)
  <2>1. PICK c \in Peer : c = peers[p][id]
    BY DEF TypeInv, PageTypes
  <2>2. PICK offer : offer = [kind |-> "offer", from |-> Mine(p), sdp |-> c.sends]
    OBVIOUS
  <2>3. inbox' = Sent(inbox, {id}, offer)
    BY <1>2, <2>1, <2>2 DEF Negotiate, Relayed
  <2>4. m \in MailTo(inbox, k) \/ (m = offer /\ k \in {id} /\ Online(k))
    BY <1>1, <2>3, SentOnly
  <2>5. m = offer /\ k = id
    BY <2>4
  <2>6. PICK n : n = Offering(c)
    OBVIOUS
  <2>7. peers' = [peers EXCEPT ![p][id] = n] /\ Connected(p)
    BY <1>2, <2>1, <2>6 DEF Negotiate
  <2>8. peers'[p][id] = n /\ n.sends = c.sends
    <3>1. peers'[p][id] = n
      BY <2>7, MeshSet DEF TypeInv, PageTypes
    <3>2. n.sends = c.sends
      BY <2>1, <2>6 DEF Offering, Peer
    <3> QED BY <3>1, <3>2
  <2>9. offer.kind = "offer" /\ offer.from = Mine(p) /\ offer.sdp = c.sends
    BY <2>2
  <2> QED BY <2>5, <2>7, <2>8, <2>9 DEF Speech
<1>3. CASE Deliver(p)
  <2>1. Connected(p) /\ inbox[Mine(p)] # <<>> /\ Mine(p) \in Sockets
    BY <1>3 DEF Deliver, TypeInv, PageTypes
  <2>2. PICK head : head = Head(inbox[Mine(p)])
    OBVIOUS
  <2>3. CASE head.kind = "offer" /\ OnOffer(p, head.from, head.sdp)
    BY <2>1, <2>2, <2>3, AnswerSpeech
  <2>4. CASE inbox' = [inbox EXCEPT ![Mine(p)] = Tail(@)]
    BY <1>1, <2>1, <2>4, TakenOnly
  <2> QED BY <1>3, <2>2, <2>3, <2>4 DEF Deliver
<1>4. CASE Close(p)
  <2>1. Mine(p) \in Sockets
    BY <1>4 DEF TypeInv, PageTypes, Connected, Close
  <2>2. PICK left : left = LeftMessage(Mine(p))
    OBVIOUS
  <2>3. PICK box : box = Sent(inbox, room, left)
    OBVIOUS
  <2>4. inbox' = [box EXCEPT ![Mine(p)] = <<>>] /\ DOMAIN box = Sockets
    BY <1>4, <2>2, <2>3 DEF Close, Sent
  <2>5. k # Mine(p)
    BY <2>1, <2>4 DEF MailTo, MailOf
  <2>6. m \in MailTo(box, k)
    BY <2>4, <2>5 DEF MailTo
  <2>7. m \in MailTo(inbox, k) \/ (m = left /\ k \in room /\ Online(k))
    BY <1>1, <2>3, <2>6, SentOnly
  <2> QED BY <1>4, <2>2, <2>7 DEF Speech
<1>5. CASE Drop(p)
  <2>1. inbox' = [inbox EXCEPT ![Mine(p)] = <<>>]
    BY <1>5 DEF Drop
  <2>2. inbox'[k] = inbox[k] \/ inbox'[k] = <<>>
    BY <1>1, <2>1
  <2> QED BY <2>2 DEF MailTo, MailOf
<1>6. CASE UNCHANGED inbox
  BY <1>6
<1>7. CASE Withdrawing(p)
  <2>1. PICK n : /\ page' = [page EXCEPT ![p] = n] /\ page[p].at = "on"
                 /\ \/ UNCHANGED inbox
                    \/ \E stream \in Published(page[p]) :
                         inbox' = Gone(inbox, Mine(p), stream) /\ stream \notin Published(n)
    BY <1>7 DEF Withdrawing
  <2>2. page'[p] = n
    BY <2>1 DEF TypeInv, PageTypes
  <2>3. PICK stream \in Published(page[p]) : inbox' = Gone(inbox, Mine(p), stream) /\ stream \notin Published(n)
    BY <1>6, <2>1
  <2>4. PICK gone : gone = [kind |-> "gone", from |-> Mine(p), stream |-> stream]
    OBVIOUS
  <2>5. PICK ids : ids = room \ {Mine(p)}
    OBVIOUS
  <2>6. inbox' = Sent(inbox, ids, gone)
    BY <2>3, <2>4, <2>5 DEF Gone
  <2>7. m = gone
    BY <1>1, <2>6, SentOnly
  <2>8. gone.kind = "gone" /\ gone.from = Mine(p) /\ gone.stream = stream
    BY <2>4
  <2> QED BY <2>1, <2>2, <2>3, <2>7, <2>8 DEF Speech
<1>8. CASE \E stream : Publishing(p, stream)
  BY <1>6, <1>8 DEF Publishing
<1>9. CASE Unstaged(p)
  BY <1>2, <1>3, <1>5, <1>6, <1>9
     DEF Unstaged, Connects, Denied, RaiseHand, ToggleMic, AnswerHand, AnswerSet, ConnectionFails, serverVars
<1> QED
  BY <1>4, <1>7, <1>8, <1>9, StageWays

LEMMA StreamKept ==
  ASSUME TypeInv, KindsInv, NEW p \in Pages, PageStep(p), NEW id \in Sockets, link[id] # "free",
         NEW x, Used(owner[id], x)
  PROVE  /\ link'[id] # "free" /\ owner'[id] = owner[id] /\ Used(owner[id], x)'
         /\ x \in Published(page[owner[id]])' => x \in Published(page[owner[id]])
<1>1. PICK q \in Pages : q = owner[id]
  BY DEF TypeInv, ServerTypes
<1>2. link'[id] # "free" /\ owner'[id] = q
  BY <1>1, PageStepForward DEF Forward
<1>3. Used(q, x) /\ Used(q, x)'
  BY <1>1, UsedStays
<1>4. page[q].used \in Nat /\ \A m \in Published(page'[q]) : m \in Published(page[q]) \/ (q = p /\ Fresh(p, m))
  BY StageMoves
<1>5. ~(q = p /\ Fresh(p, x))
  BY <1>3, <1>4 DEF Used, Fresh
<1>6. x \in Published(page'[q]) => x \in Published(page[q])
  BY <1>4, <1>5
<1>7. Used(owner[id], x)'
  BY <1>2, <1>3 DEF Used
<1> QED
  BY <1>1, <1>2, <1>6, <1>7

LEMMA PageStepHeardMail ==
  ASSUME TypeInv, PresenceInv, PictureInv, StageInv, HeardInv, NEW p \in Pages, PageStep(p),
         NEW k \in Sockets, NEW m \in MailTo(inbox', k)
  PROVE  /\ m.kind \in {"offer", "answer"} => \A x \in m.sdp : Used(owner[m.from], x)'
         /\ m.kind = "gone" => /\ link'[m.from] # "free" /\ Used(owner[m.from], m.stream)'
                               /\ m.stream \notin Published(page[owner[m.from]])'
<1>1. KindsInv /\ StageInv'
  BY PageStepStage DEF StageInv, PictureInv
<1>2. CASE m \in MailTo(inbox, k)
  <2>1. m \in Message
    BY <1>2, MailTyped DEF TypeInv
  <2>2. ASSUME m.kind \in {"offer", "answer"}, NEW x \in m.sdp PROVE Used(owner[m.from], x)'
    <3>1. m.from \in Sockets /\ link[m.from] # "free" /\ Used(owner[m.from], x)
      BY <1>2, <2>2 DEF PictureInv, Foreign, HeardInv
    <3> QED BY <1>1, <3>1, StreamKept
  <2>3. ASSUME m.kind = "gone"
        PROVE  /\ link'[m.from] # "free" /\ Used(owner[m.from], m.stream)'
               /\ m.stream \notin Published(page[owner[m.from]])'
    <3>1. m.from \in Sockets
      BY <2>1, <2>3, MessageFields
    <3>2. /\ link[m.from] # "free" /\ Used(owner[m.from], m.stream)
          /\ m.stream \notin Published(page[owner[m.from]])
      BY <1>2, <2>3 DEF HeardInv
    <3> QED BY <1>1, <3>1, <3>2, StreamKept
  <2> QED BY <2>2, <2>3
<1>3. CASE m \notin MailTo(inbox, k)
  <2>1. Speech(p, k, m)
    BY <1>1, <1>3, PageStepSpeech
  <2>2. ASSUME m.kind \in {"offer", "answer"}, NEW x \in m.sdp PROVE Used(owner[m.from], x)'
    <3>1. m.from = Mine(p) /\ Connected(p) /\ m.sdp \subseteq peers'[p][k].sends
      BY <2>1, <2>2 DEF Speech, LeftMessage
    <3>2. Mine(p) \in Sockets /\ link[Mine(p)] # "free" /\ owner[Mine(p)] = p
      BY <3>1 DEF TypeInv, PageTypes, PresenceInv
    <3>3. owner'[m.from] = p
      BY <3>1, <3>2, PageStepForward DEF Forward
    <3>4. Used(p, x)'
      BY <1>1, <2>2, <3>1 DEF StageInv
    <3> QED BY <3>3, <3>4 DEF Used
  <2>3. ASSUME m.kind = "gone"
        PROVE  /\ link'[m.from] # "free" /\ Used(owner[m.from], m.stream)'
               /\ m.stream \notin Published(page[owner[m.from]])'
    <3>1. /\ m.from = Mine(p) /\ page[p].at = "on" /\ m.stream \in Published(page[p])
          /\ m.stream \notin Published(page'[p])
      BY <2>1, <2>3 DEF Speech, LeftMessage
    <3>2. Mine(p) \in Sockets /\ link[Mine(p)] # "free" /\ owner[Mine(p)] = p
      BY <3>1 DEF TypeInv, PageTypes, PresenceInv, Connected
    <3>3. Used(p, m.stream)
      BY <3>1 DEF StageInv
    <3>4. owner'[m.from] = p
      BY <3>1, <3>2, PageStepForward DEF Forward
    <3> QED BY <1>1, <3>1, <3>2, <3>3, <3>4, StreamKept
  <2> QED BY <2>2, <2>3
<1> QED
  BY <1>2, <1>3

LEMMA PageStepHeardInv ==
  ASSUME TypeInv, PresenceInv, PictureInv, StageInv, HeardInv, NEW p \in Pages, PageStep(p)
  PROVE  HeardInv'
<1>1. KindsInv /\ Blank
  BY DEF StageInv, PictureInv
<1>2. ASSUME NEW q \in Pages, NEW id \in Sockets, NEW x \in peers'[q][id].heard
      PROVE  Used(owner[id], x)' /\ (x \in Published(page[owner[id]])' => x \in streams'[q][id])
  <2>1. HeardWays(p, q, id, peers'[q][id], streams'[q][id])
    BY <1>1, PageStepHeard
  <2>2. ASSUME link[id] # "free", Used(owner[id], x),
               x \in Published(page[owner[id]]) => x \in streams'[q][id]
        PROVE  Used(owner[id], x)' /\ (x \in Published(page[owner[id]])' => x \in streams'[q][id])
    BY <1>1, <2>2, StreamKept
  <2>3. ASSUME x \in peers[q][id].heard
        PROVE  /\ link[id] # "free" /\ Used(owner[id], x)
               /\ x \in Published(page[owner[id]]) => x \in streams[q][id]
    <3>1. peers[q][id].sig # "none"
      BY <1>1, <2>3 DEF Blank, NoPeer
    <3> QED BY <2>3, <3>1 DEF PictureInv, HeardInv
  <2>4. CASE peers'[q][id].heard = peers[q][id].heard /\ streams[q][id] \subseteq streams'[q][id]
    BY <2>2, <2>3, <2>4
  <2>5. ASSUME NEW m \in MailTo(inbox, Mine(p)), Mine(p) \in Sockets, m.kind = "gone", m.from = id,
               peers'[q][id].heard = peers[q][id].heard, streams[q][id] \ {m.stream} \subseteq streams'[q][id]
        PROVE  Used(owner[id], x)' /\ (x \in Published(page[owner[id]])' => x \in streams'[q][id])
    <3>1. m.stream \notin Published(page[owner[id]])
      BY <2>5 DEF HeardInv
    <3> QED BY <2>2, <2>3, <2>5, <3>1
  <2>6. ASSUME NEW m \in MailTo(inbox, Mine(p)), Mine(p) \in Sockets, m.kind \in {"offer", "answer"}, m.from = id,
               peers'[q][id].heard \subseteq peers[q][id].heard \cup m.sdp,
               streams[q][id] \cup (m.sdp \ peers[q][id].heard) \subseteq streams'[q][id]
        PROVE  Used(owner[id], x)' /\ (x \in Published(page[owner[id]])' => x \in streams'[q][id])
    <3>1. link[id] # "free"
      BY <2>6 DEF PictureInv, Foreign
    <3>2. \A y \in m.sdp : Used(owner[id], y)
      BY <2>6 DEF HeardInv
    <3>3. x \in peers[q][id].heard \/ x \in m.sdp \ peers[q][id].heard
      BY <2>6
    <3> QED BY <2>2, <2>3, <2>6, <3>1, <3>2, <3>3
  <2>7. ASSUME x \in peers[q][id].reply PROVE link[id] # "free" /\ Used(owner[id], x)
    <3>1. peers[q][id].sig # "none"
      BY <1>1, <2>7 DEF Blank, NoPeer
    <3> QED BY <2>7, <3>1 DEF PictureInv, HeardInv
  <2>8. CASE /\ peers'[q][id].heard \subseteq peers[q][id].heard \cup peers[q][id].reply
             /\ streams[q][id] \cup (peers[q][id].reply \ peers[q][id].heard) \subseteq streams'[q][id]
    <3>1. x \in peers[q][id].heard \/ x \in peers[q][id].reply \ peers[q][id].heard
      BY <2>8
    <3> QED BY <2>2, <2>3, <2>7, <2>8, <3>1
  <2> QED BY <2>1, <2>4, <2>5, <2>6, <2>8 DEF HeardWays
<1>3. ASSUME NEW q \in Pages, NEW id \in Sockets, NEW x \in peers'[q][id].reply
      PROVE  Used(owner[id], x)'
  <2>1. ReplyWays(p, q, id, peers'[q][id])
    BY <1>1, PageStepHeard
  <2>2. CASE x \in peers[q][id].reply
    <3>1. peers[q][id].sig # "none"
      BY <1>1, <2>2 DEF Blank, NoPeer
    <3>2. link[id] # "free" /\ Used(owner[id], x)
      BY <2>2, <3>1 DEF PictureInv, HeardInv
    <3> QED BY <1>1, <3>2, StreamKept
  <2>3. ASSUME NEW m \in MailTo(inbox, Mine(p)), Mine(p) \in Sockets, m.kind = "answer", m.from = id,
               peers'[q][id].reply = m.sdp
        PROVE  Used(owner[id], x)'
    <3>1. link[id] # "free" /\ Used(owner[id], x)
      BY <1>3, <2>3 DEF PictureInv, Foreign, HeardInv
    <3> QED BY <1>1, <3>1, StreamKept
  <2> QED BY <1>3, <2>1, <2>2, <2>3 DEF ReplyWays
<1> QED
  BY <1>2, <1>3, PageStepHeardMail DEF HeardInv

\* What the server does is no matter of streams.
LEMMA HandlerStreams ==
  ASSUME TypeInv, StageInv, HeardInv, NEW j \in jobs, HandlerStep(j), UNCHANGED pageVars
  PROVE  StageInv' /\ HeardInv'
<1>1. UNCHANGED <<owner, link, page, peers, streams>>
  BY DEF HandlerStep, JoinRoom, JoinAnnounced, TakeSnapshot, HandAnnounced, HandAccepted, HandRejected,
         MediaToggled, Left, Bye, pageVars
<1>2. ASSUME NEW k \in Sockets, NEW m \in MailTo(inbox', k), m.kind \in {"offer", "answer", "gone"}
      PROVE  m \in MailTo(inbox, k)
  BY <1>2, HandlerMail DEF LeftMessage
<1>3. StageInv'
  BY <1>1 DEF StageInv, KindsInv, Used, Published, Tracked
<1>4. \A q, m : (Used(q, m)' <=> Used(q, m)) /\ (m \in Published(page[q])' <=> m \in Published(page[q]))
  BY <1>1 DEF Used, Published
<1>5. \A k \in Sockets : \A m \in MailTo(inbox', k) :
        /\ m.kind \in {"offer", "answer"} => \A x \in m.sdp : Used(owner[m.from], x)'
        /\ m.kind = "gone" => /\ link'[m.from] # "free" /\ Used(owner[m.from], m.stream)'
                              /\ m.stream \notin Published(page[owner[m.from]])'
  BY <1>1, <1>2 DEF HeardInv, Used, Published
<1> QED
  BY <1>1, <1>3, <1>5 DEF HeardInv, Used, Published

LEMMA NoticedStreams ==
  ASSUME TypeInv, StageInv, HeardInv, NEW gone \in Sockets, Noticed(gone)
  PROVE  StageInv' /\ HeardInv'
<1>1. /\ UNCHANGED <<owner, inbox, page, peers, streams>>
      /\ \A id : link'[id] = "free" => link[id] = "free"
  BY DEF Noticed, Disconnect, pageVars, TypeInv, ServerTypes
<1>2. StageInv'
  BY <1>1 DEF StageInv, KindsInv, Used, Published, Tracked
<1> QED
  BY <1>1, <1>2 DEF HeardInv, Used, Published, MailTo

LEMMA InitStreams == Init => StageInv /\ HeardInv
<1> SUFFICES ASSUME Init PROVE StageInv /\ HeardInv
  OBVIOUS
<1>1. /\ \A p \in Pages, id \in Sockets : peers[p][id] = NoPeer
      /\ \A p \in Pages : page[p].main = NoStream /\ page[p].cams = {}
      /\ \A id \in Sockets : inbox[id] = <<>>
  BY DEF Init, ServerInit, NewPage
<1>2. NoPeer.sig = "none" /\ NoPeer.sends = {} /\ NoPeer.heard = {} /\ NoPeer.reply = {}
  BY DEF NoPeer
<1>3. \A id \in Sockets : MailTo(inbox, id) = {}
  BY <1>1 DEF MailTo, MailOf
<1> QED
  BY <1>1, <1>2, <1>3 DEF StageInv, KindsInv, HeardInv, Tracked, Published

-----------------------------------------------------------------------------
(* Who is said to have left is gone.                                        *)

Parted(id) == link[id] \in {"lost", "down"}

LeftInv ==
  /\ \A k \in Sockets : \A m \in MailTo(inbox, k) : m.kind = "left" => Parted(m.from)
  /\ \A j \in jobs : j.kind = "bye" => Parted(j.id)

LEMMA HandlerLeft ==
  ASSUME TypeInv, LeftInv, NEW j \in jobs, HandlerStep(j)
  PROVE  LeftInv'
<1>1. UNCHANGED link
  BY DEF HandlerStep, JoinRoom, JoinAnnounced, TakeSnapshot, HandAnnounced, HandAccepted, HandRejected,
         MediaToggled, Left, Bye
<1>2. ASSUME NEW k \in jobs', k.kind = "bye" PROVE k \in jobs
  <2>1. CASE TakeSnapshot(j)
    <3>1. \A x \in j.rest : Read(j, x).kind = "snapshot"
      BY <2>1, ReadMore DEF TakeSnapshot
    <3> QED BY <1>2, <2>1, <3>1 DEF TakeSnapshot, SnapshotSent, Continues
  <2>2. CASE ~TakeSnapshot(j)
    BY <1>2, <2>2 DEF HandlerStep, JoinRoom, JoinAnnounced, HandAnnounced, HandAccepted, HandRejected,
                      MediaToggled, Left, Bye, Continues, Snapshot, Job
  <2> QED BY <2>1, <2>2
<1>3. ASSUME NEW k \in Sockets, NEW m \in MailTo(inbox', k), m.kind = "left" PROVE Parted(m.from)
  <2>1. m \in MailTo(inbox, k) \/ (m = LeftMessage(j.id) /\ j.kind = "bye")
    BY <1>3, HandlerMail
  <2> QED BY <1>3, <2>1 DEF LeftInv, LeftMessage
<1> QED
  BY <1>1, <1>2, <1>3 DEF LeftInv, Parted

LEMMA NoticedLeft ==
  ASSUME TypeInv, LeftInv, NEW gone \in Sockets, Noticed(gone)
  PROVE  LeftInv'
<1>1. /\ UNCHANGED inbox /\ link' = [link EXCEPT ![gone] = "down"]
      /\ \A j \in jobs' : j \in jobs \/ j = Job("bye", gone)
  BY DEF Noticed, Disconnect
<1>2. \A id \in Sockets : Parted(id) => Parted(id)'
  BY <1>1 DEF Parted, TypeInv, ServerTypes
<1>3. Parted(gone)'
  BY <1>1 DEF Parted, TypeInv, ServerTypes
<1>4. ASSUME NEW j \in jobs', j.kind = "bye" PROVE Parted(j.id)'
  <2>1. j \in jobs => j.id \in Sockets
    BY JobFields DEF TypeInv, ServerTypes
  <2> QED BY <1>1, <1>2, <1>3, <1>4, <2>1 DEF LeftInv, Job
<1>5. ASSUME NEW k \in Sockets, NEW m \in MailTo(inbox, k), m.kind = "left" PROVE Parted(m.from)'
  <2>1. m.from \in Sockets
    BY <1>5, MailTyped, MessageFields DEF TypeInv
  <2> QED BY <1>2, <1>5, <2>1 DEF LeftInv
<1> QED
  BY <1>1, <1>4, <1>5 DEF LeftInv, MailTo, Parted

LEMMA PageStepLinks ==
  ASSUME TypeInv, NEW p \in Pages, PageStep(p), NEW id \in Sockets, Parted(id)
  PROVE  Parted(id)'
<1>1. ASSUME NEW new \in Sockets, Connects(p, new) PROVE Parted(id)'
  BY <1>1 DEF Connects, Parted, TypeInv, ServerTypes
<1>2. CASE Drop(p) \/ Close(p)
  BY <1>2 DEF Drop, Close, Parted, TypeInv, ServerTypes, PageTypes, Connected
<1>3. CASE Steady(p)
  BY <1>3, SteadyLinks DEF Parted
<1> QED
  BY <1>1, <1>2, <1>3 DEF Steady, Visit, Reconnect

LEMMA PageStepLeft ==
  ASSUME TypeInv, KindsInv, LeftInv, NEW p \in Pages, PageStep(p)
  PROVE  LeftInv'
<1>1. ASSUME NEW k \in Sockets, NEW m \in MailTo(inbox', k), m.kind = "left" PROVE Parted(m.from)'
  <2>1. CASE m \in MailTo(inbox, k)
    <3>1. m.from \in Sockets
      BY <1>1, <2>1, MailTyped, MessageFields DEF TypeInv
    <3> QED BY <1>1, <2>1, <3>1, PageStepLinks DEF LeftInv
  <2>2. CASE m \notin MailTo(inbox, k)
    <3>1. m = LeftMessage(Mine(p)) /\ Close(p)
      BY <1>1, <2>2, PageStepSpeech DEF Speech
    <3>2. m.from = Mine(p)
      BY <3>1 DEF LeftMessage
    <3>3. link'[Mine(p)] = "lost"
      BY <3>1 DEF Close, TypeInv, ServerTypes, PageTypes, Connected
    <3> QED BY <3>2, <3>3 DEF Parted
  <2> QED BY <2>1, <2>2
<1>2. ASSUME NEW j \in jobs', j.kind = "bye" PROVE Parted(j.id)'
  <2>1. j \in jobs
    BY <1>2, PageStepJobs DEF Starts, Job
  <2>2. j.id \in Sockets
    BY <2>1, JobFields DEF TypeInv, ServerTypes
  <2> QED BY <1>2, <2>1, <2>2, PageStepLinks DEF LeftInv
<1> QED
  BY <1>1, <1>2 DEF LeftInv, Parted

LEMMA InitLeft == Init => LeftInv
BY DEF Init, ServerInit, LeftInv, MailTo, MailOf

LEMMA NextStreams ==
  TypeInv /\ PresenceInv /\ PictureInv /\ StageInv /\ HeardInv /\ LeftInv /\ [Next]_vars =>
    StageInv' /\ HeardInv' /\ LeftInv'
<1> SUFFICES ASSUME TypeInv, PresenceInv, PictureInv, StageInv, HeardInv, LeftInv, [Next]_vars
             PROVE  StageInv' /\ HeardInv' /\ LeftInv'
  OBVIOUS
<1>1. CASE UNCHANGED vars
  BY <1>1
     DEF vars, serverVars, pageVars, StageInv, KindsInv, Used, Published, Tracked, HeardInv, LeftInv, Parted,
         MailTo
<1>2. ASSUME NEW p \in Pages, PageStep(p) PROVE StageInv' /\ HeardInv' /\ LeftInv'
  BY <1>2, PageStepStage, PageStepHeardInv, PageStepLeft DEF PictureInv, StageInv
<1> QED
  BY <1>1, <1>2, HandlerStreams, NoticedStreams, HandlerLeft, NoticedLeft DEF Next

-----------------------------------------------------------------------------
(* Two pages of the class talk: what the one says to the other.             *)

Together(p, q) == p # q /\ Connected(p) /\ Connected(q)

Talk(p, q) ==
  Sound(peers[p][Mine(q)], peers[q][Mine(p)], inbox[Mine(q)], inbox[Mine(p)], Mine(p), Mine(q))

LEMMA TogetherFacts ==
  ASSUME TypeInv, PresenceInv, NEW p \in Pages, NEW q \in Pages, Together(p, q)
  PROVE  /\ Mine(p) \in Sockets /\ Mine(q) \in Sockets /\ Mine(p) # Mine(q)
         /\ Mine(p) \in Nat /\ Mine(q) \in Nat
         /\ owner[Mine(p)] = p /\ owner[Mine(q)] = q /\ Online(Mine(p)) /\ Online(Mine(q))
         /\ Connected(p) /\ Connected(q) /\ p # q
<1>1. Mine(p) \in Sockets /\ Mine(q) \in Sockets
  BY DEF Together, TypeInv, PageTypes
<1>2. owner[Mine(p)] = p /\ owner[Mine(q)] = q /\ link[Mine(p)] = "up" /\ link[Mine(q)] = "up"
  BY DEF Together, PresenceInv
<1>3. Sockets \subseteq Nat
  BY ServerAssumption
<1> QED
  BY <1>1, <1>2, <1>3 DEF Together, Online

LEMMA SameTalkSame ==
  ASSUME NEW s, NEW x
  PROVE  SameTalk(s, s, x)
BY DEF SameTalk

LEMMA SameTalkOn ==
  ASSUME NEW s, NEW t, NEW u, NEW x, SameTalk(s, t, x), SameTalk(t, u, x)
  PROVE  SameTalk(s, u, x)
BY DEF SameTalk

\* Neither an offer nor an answer of x.
Beside(m, x) == ~Tells(m, "offer", x) /\ ~Tells(m, "answer", x)

LEMMA SentTalk ==
  ASSUME NEW box \in [Sockets -> Seq(Message)], NEW ids, NEW m, NEW next, next = Sent(box, ids, m),
         NEW k \in Sockets, NEW x, Beside(m, x)
  PROVE  SameTalk(box[k], next[k], x)
<1>1. PICK s \in Seq(Message) : s = box[k]
  OBVIOUS
<1>2. PICK t : t = Append(s, m)
  OBVIOUS
<1>3. SameTalk(s, t, x)
  BY <1>2, TalkAppended DEF Beside
<1>4. next[k] = s \/ next[k] = t
  BY <1>1, <1>2 DEF Sent
<1> QED
  BY <1>1, <1>3, <1>4, SameTalkSame

LEMMA TakenTalk ==
  ASSUME NEW box \in [Sockets -> Seq(Message)], NEW me \in Sockets, box[me] # <<>>, NEW m, m = Head(box[me]),
         NEW next, next = Taken(box, me), NEW k \in Sockets, NEW x, k # me \/ Beside(m, x)
  PROVE  SameTalk(box[k], next[k], x)
<1>1. CASE k # me
  <2>1. next[k] = box[k]
    BY <1>1 DEF Taken
  <2> QED BY <2>1, SameTalkSame
<1>2. CASE k = me
  <2>1. PICK s \in Seq(Message) : s = box[me]
    OBVIOUS
  <2>2. PICK t : t = Tail(s)
    OBVIOUS
  <2>3. SameTalk(s, t, x)
    BY <1>2, <2>1, <2>2, TalkTail DEF Beside
  <2>4. next[k] = t
    BY <1>2, <2>1, <2>2 DEF Taken
  <2> QED BY <1>2, <2>1, <2>3, <2>4
<1> QED
  BY <1>1, <1>2

\* What a handler says is no offer and no answer.
LEMMA HandlerTalk ==
  ASSUME TypeInv, NEW j \in jobs, HandlerStep(j), NEW k \in Sockets, NEW x
  PROVE  SameTalk(inbox[k], inbox'[k], x)
<1>1. inbox \in [Sockets -> Seq(Message)]
  BY DEF TypeInv, MailTypes
<1>2. CASE TakeSnapshot(j)
  <2>1. j.kind = "snapshot" /\ j.got \in Roster
    BY <1>2, SnapshotFields DEF TakeSnapshot, TypeInv, ServerTypes
  <2>2. ASSUME NEW got \in Roster, SnapshotSent(j, got) PROVE SameTalk(inbox[k], inbox'[k], x)
    <3>1. PICK ack, state : /\ ack = StateMessage("ack", got) /\ state = StateMessage("state", got)
                            /\ Beside(ack, x) /\ Beside(state, x)
      <4>1. Beside(StateMessage("ack", got), x) /\ Beside(StateMessage("state", got), x)
        BY DEF StateMessage, Beside, Tells
      <4> QED BY <4>1
    <3>2. PICK acked : /\ acked = IF j.ack THEN Sent(inbox, {j.id}, ack) ELSE inbox
                       /\ inbox' = Sent(acked, room, state)
      BY <2>2, <3>1 DEF SnapshotSent
    <3>3. ack \in Message
      BY <3>1, MessagesMade
    <3>4. acked \in [Sockets -> Seq(Message)]
      BY <1>1, <3>2, <3>3, SentTyped
    <3>5. PICK ids : acked = Sent(inbox, ids, ack) \/ acked = inbox
      BY <3>2
    <3>6. SameTalk(inbox[k], acked[k], x)
      BY <1>1, <3>1, <3>5, SentTalk, SameTalkSame
    <3>7. SameTalk(acked[k], inbox'[k], x)
      BY <3>1, <3>2, <3>4, SentTalk
    <3> QED BY <3>6, <3>7, SameTalkOn
  <2>3. ASSUME NEW y \in j.rest, SnapshotSent(j, Read(j, y).got) PROVE SameTalk(inbox[k], inbox'[k], x)
    <3>1. PICK got \in Roster : got = Read(j, y).got
      BY <2>1, ReadMore
    <3> QED BY <2>2, <2>3, <3>1
  <2> QED BY <1>2, <2>1, <2>2, <2>3, SameTalkSame DEF TakeSnapshot
<1>3. CASE ~TakeSnapshot(j)
  <2>1. UNCHANGED inbox \/ \E ids, m : Beside(m, x) /\ inbox' = Sent(inbox, ids, m)
    <3>1. CASE JoinAnnounced(j) \/ HandAnnounced(j) \/ MediaToggled(j)
      <4>1. UNCHANGED inbox \/ \E ids, kind, y : kind \in {"joined", "updated"} /\ inbox' = Sent(inbox, ids, About(kind, y))
        BY <3>1 DEF JoinAnnounced, HandAnnounced, MediaToggled
      <4>2. \A y : Beside(About("joined", y), x) /\ Beside(About("updated", y), x)
        BY DEF About, Beside, Tells
      <4> QED BY <4>1, <4>2
    <3>2. CASE Bye(j)
      <4>1. PICK m : m = LeftMessage(j.id)
        OBVIOUS
      <4>2. Beside(m, x) /\ inbox' = Sent(inbox, room, m)
        BY <3>2, <4>1 DEF Bye, LeftMessage, Beside, Tells
      <4> QED BY <4>2
    <3>3. CASE HandAccepted(j) \/ HandRejected(j)
      <4>1. PICK yes, no : yes = [kind |-> "accepted", from |-> j.id] /\ no = [kind |-> "rejected", from |-> j.id]
        OBVIOUS
      <4>2. Beside(yes, x) /\ Beside(no, x)
        BY <4>1 DEF Beside, Tells
      <4>3. UNCHANGED inbox \/ (\E ids : inbox' = Sent(inbox, ids, yes)) \/ (\E ids : inbox' = Sent(inbox, ids, no))
        BY <3>3, <4>1 DEF HandAccepted, HandRejected
      <4> QED BY <4>2, <4>3
    <3> QED BY <1>3, <3>1, <3>2, <3>3 DEF HandlerStep, JoinRoom, Left
  <2> QED BY <1>1, <2>1, SentTalk, SameTalkSame
<1> QED
  BY <1>2, <1>3

\* What a page says is its own, and it handles its own queue.
LEMMA OthersTalk ==
  ASSUME TypeInv, NEW a \in Pages, Steady(a), NEW k \in Sockets, k # Mine(a), NEW x, x # Mine(a)
  PROVE  SameTalk(inbox[k], inbox'[k], x)
<1>1. inbox \in [Sockets -> Seq(Message)]
  BY DEF TypeInv, MailTypes
<1>2. CASE UNCHANGED inbox
  BY <1>2, SameTalkSame
<1>3. ASSUME NEW m, m.kind \notin {"offer", "answer"} \/ m.from = Mine(a), NEW ids, inbox' = Sent(inbox, ids, m)
      PROVE  SameTalk(inbox[k], inbox'[k], x)
  BY <1>1, <1>3, SentTalk DEF Beside, Tells
<1>4. CASE Deliver(a) /\ inbox' = Taken(inbox, Mine(a))
  <2>1. inbox'[k] = inbox[k]
    BY <1>1, <1>4 DEF Taken
  <2> QED BY <2>1, SameTalkSame
<1>5. ASSUME NEW to \in Sockets, NEW m, NEW out, AnswersFirst(a, to, m, out)
      PROVE  SameTalk(inbox[k], inbox'[k], x)
  <2>1. PICK ids : /\ out = Sent(inbox, ids, m) /\ out \in [Sockets -> Seq(Message)]
                   /\ inbox' = Taken(out, Mine(a)) /\ m.from = Mine(a)
    BY <1>5 DEF AnswersFirst
  <2>2. SameTalk(inbox[k], out[k], x)
    BY <1>1, <2>1, SentTalk DEF Beside, Tells
  <2>3. inbox'[k] = out[k]
    BY <2>1 DEF Taken
  <2> QED BY <2>2, <2>3
<1> QED
  BY <1>2, <1>3, <1>4, <1>5, SteadyInbox DEF SteadyMail

\* What the step of a makes of its talk with q.
TalkStep(a, q) ==
  /\ Sound(peers'[a][Mine(q)], peers'[q][Mine(a)], inbox'[Mine(q)], inbox'[Mine(a)], Mine(a), Mine(q))
  /\ peers[a][Mine(q)].sig # "none" => peers'[a][Mine(q)].sig # "none"

LEMMA TalkAside ==
  ASSUME NEW a \in Pages, NEW q \in Pages, Talk(a, q), NEW n, n = peers'[a][Mine(q)],
         Aside(peers[a][Mine(q)], n) \/ n = peers[a][Mine(q)], peers'[q][Mine(a)] = peers[q][Mine(a)],
         SameTalk(inbox[Mine(q)], inbox'[Mine(q)], Mine(a)), SameTalk(inbox[Mine(a)], inbox'[Mine(a)], Mine(q))
  PROVE  TalkStep(a, q)
<1>1. Aside(peers[a][Mine(q)], n)
  BY DEF Aside
<1>2. Sound(n, peers'[q][Mine(a)], inbox'[Mine(q)], inbox'[Mine(a)], Mine(a), Mine(q))
  BY <1>1, SoundAside DEF Talk
<1> QED
  BY <1>1, <1>2 DEF TalkStep, Aside

LEMMA NegotiateTalk ==
  ASSUME TypeInv, PresenceInv, PictureInv, NEW a \in Pages, NEW q \in Pages, Together(a, q), Talk(a, q),
         NEW id \in Sockets, Negotiate(a, id)
  PROVE  TalkStep(a, q)
<1>1. /\ Mine(a) \in Sockets /\ Mine(q) \in Sockets /\ Mine(a) # Mine(q) /\ Online(Mine(q))
      /\ inbox \in [Sockets -> Seq(Message)] /\ Connected(a) /\ a # q
  BY TogetherFacts DEF TypeInv, MailTypes
<1>2. PICK c \in Peer : c = peers[a][id]
  BY DEF TypeInv, PageTypes
<1>3. PICK n, m : n = Offering(c) /\ m = [kind |-> "offer", from |-> Mine(a), sdp |-> c.sends]
  OBVIOUS
<1>4. /\ c.sig = "stable" /\ n.sig = "offering" /\ n.heard = c.heard /\ n.agreed = c.agreed
      /\ n.offered = m.sdp /\ Tells(m, "offer", Mine(a)) /\ Beside(m, Mine(q))
  BY <1>1, <1>2, <1>3 DEF Negotiate, Needy, Offering, Peer, Tells, Beside
<1>5. peers' = [peers EXCEPT ![a][id] = n] /\ inbox' = Sent(inbox, {id}, m)
  BY <1>2, <1>3 DEF Negotiate, Relayed
<1>6. \A r \in Pages, k \in Sockets : peers'[r][k] = IF r = a /\ k = id THEN n ELSE peers[r][k]
  BY <1>5, MeshSet DEF TypeInv, PageTypes
<1>7. id # Mine(a)
  BY <1>1, <1>2, <1>4 DEF PictureInv
<1>8. inbox'[Mine(a)] = inbox[Mine(a)]
  BY <1>1, <1>5, <1>7 DEF Sent
<1>9. CASE id = Mine(q)
  <2>1. PICK s \in Seq(Message) : s = inbox[Mine(q)]
    BY <1>1
  <2>2. inbox'[Mine(q)] = Append(s, m)
    BY <1>1, <1>5, <1>9, <2>1 DEF Sent, Online
  <2>3. PICK u : u = Append(s, m)
    OBVIOUS
  <2>4. Sound(c, peers[q][Mine(a)], s, inbox[Mine(a)], Mine(a), Mine(q))
    BY <1>2, <1>9, <2>1 DEF Talk
  <2>5. Sound(n, peers[q][Mine(a)], u, inbox[Mine(a)], Mine(a), Mine(q))
    BY <1>4, <2>3, <2>4, SoundOffer
  <2>6. peers'[a][Mine(q)] = n /\ peers'[q][Mine(a)] = peers[q][Mine(a)]
    BY <1>1, <1>6, <1>9
  <2> QED BY <1>4, <1>8, <2>2, <2>3, <2>5, <2>6 DEF TalkStep
<1>10. CASE id # Mine(q)
  <2>1. inbox'[Mine(q)] = inbox[Mine(q)]
    BY <1>1, <1>5, <1>10 DEF Sent
  <2>2. peers'[a][Mine(q)] = peers[a][Mine(q)] /\ peers'[q][Mine(a)] = peers[q][Mine(a)]
    BY <1>1, <1>6, <1>10
  <2> QED BY <1>8, <2>1, <2>2, TalkAside, SameTalkSame
<1> QED
  BY <1>9, <1>10

\* The offer of q, or of somebody else.
LEMMA OfferTalk ==
  ASSUME TypeInv, PresenceInv, PictureInv, NEW a \in Pages, NEW q \in Pages, Together(a, q), Talk(a, q),
         inbox[Mine(a)] # <<>>, NEW m, m = Head(inbox[Mine(a)]), m.kind = "offer",
         OnOffer(a, m.from, m.sdp)
  PROVE  TalkStep(a, q)
<1>1. /\ Mine(a) \in Sockets /\ Mine(q) \in Sockets /\ Mine(a) # Mine(q) /\ Online(Mine(q))
      /\ inbox \in [Sockets -> Seq(Message)] /\ Connected(a) /\ a # q /\ owner[Mine(a)] = a
      /\ Mine(a) \in Nat /\ Mine(q) \in Nat
  BY TogetherFacts DEF TypeInv, MailTypes
<1>2. m \in MailTo(inbox, Mine(a)) /\ m \in Message
  BY <1>1, FirstMail DEF TypeInv
<1>3. m.from \in Sockets /\ m.sdp \in SUBSET Stream /\ m.from # Mine(a)
  BY <1>1, <1>2, MessageFields DEF PictureInv, Foreign
<1>4. PICK c, next \in Peer, answered \in SUBSET Stream, box \in [Sockets -> Seq(Message)] :
           /\ c = Ensured(peers[a][m.from], Mine(a))
           /\ \/ /\ UNCHANGED <<peers, streams>> /\ inbox' = [inbox EXCEPT ![Mine(a)] = Tail(@)]
                 /\ MayRefuse(a, c)
              \/ IgnoresOffer(a, m.from, c, next)
              \/ AnswersOffer(a, m.from, m.sdp, c, next, answered, box)
  BY <1>1, <1>3, OnOfferWays
<1>5. PICK t \in Seq(Message) : t = inbox[Mine(a)] /\ t # <<>> /\ m = Head(t)
  BY <1>1
<1>6. PICK v : v = Tail(t)
  OBVIOUS
<1>7. m.from # Mine(q) => Beside(m, Mine(q))
  BY DEF Beside, Tells
<1>8. CASE UNCHANGED <<peers, streams>> /\ inbox' = [inbox EXCEPT ![Mine(a)] = Tail(@)]
  <2>1. inbox'[Mine(a)] = v /\ inbox'[Mine(q)] = inbox[Mine(q)]
    BY <1>1, <1>5, <1>6, <1>8
  <2>2. CASE m.from = Mine(q)
    <3>1. Sound(peers[a][Mine(q)], peers[q][Mine(a)], inbox[Mine(q)], t, Mine(a), Mine(q))
      BY <1>5 DEF Talk
    <3>2. Tells(m, "offer", Mine(q))
      BY <2>2 DEF Tells
    <3>3. Sound(peers[a][Mine(q)], peers[q][Mine(a)], inbox[Mine(q)], v, Mine(a), Mine(q))
      BY <1>5, <1>6, <3>1, <3>2, SoundIgnored
    <3> QED BY <1>8, <2>1, <3>3 DEF TalkStep
  <2>3. CASE m.from # Mine(q)
    <3>1. SameTalk(t, v, Mine(q))
      BY <1>5, <1>6, <1>7, <2>3, TalkTail DEF Beside
    <3> QED BY <1>5, <1>8, <2>1, <3>1, TalkAside, SameTalkSame
  <2> QED BY <2>2, <2>3
<1>9. CASE AnswersOffer(a, m.from, m.sdp, c, next, answered, box)
  <2>1. PICK r : r = [kind |-> "answer", from |-> Mine(a), sdp |-> answered]
    OBVIOUS
  <2>2. Tells(r, "answer", Mine(a)) /\ r.sdp = answered /\ Beside(r, Mine(q))
    BY <1>1, <2>1 DEF Tells, Beside
  <2>3. /\ box = Sent(inbox, {m.from}, r) /\ inbox' = [box EXCEPT ![Mine(a)] = Tail(@)]
        /\ peers' = [peers EXCEPT ![a][m.from] = next]
        /\ c.sig = "stable" \/ (c.sig = "offering" /\ IsPolite(a, m.from))
        /\ next.sig = "stable" /\ next.heard = c.heard \cup m.sdp /\ next.agreed = r.sdp
    BY <1>9, <2>1, <2>2 DEF AnswersOffer
  <2>4. \A p \in Pages, k \in Sockets : peers'[p][k] = IF p = a /\ k = m.from THEN next ELSE peers[p][k]
    BY <1>3, <2>3, MeshSet DEF TypeInv, PageTypes
  <2>5. box[Mine(a)] = t
    BY <1>1, <1>3, <1>5, <2>3 DEF Sent
  <2>6. inbox'[Mine(a)] = v /\ inbox'[Mine(q)] = box[Mine(q)]
    BY <1>1, <1>6, <2>3, <2>5
  <2>7. CASE m.from = Mine(q)
    <3>1. PICK s \in Seq(Message) : s = inbox[Mine(q)]
      BY <1>1
    <3>2. PICK u : u = Append(s, r)
      OBVIOUS
    <3>3. box[Mine(q)] = u
      BY <1>1, <2>3, <2>7, <3>1, <3>2 DEF Sent, Online
    <3>4. PICK was \in Peer : was = peers[a][Mine(q)]
      BY <1>1 DEF TypeInv, PageTypes
    <3>5. Sound(was, peers[q][Mine(a)], s, t, Mine(a), Mine(q))
      BY <1>5, <3>1, <3>4 DEF Talk
    <3>6. c.heard = was.heard /\ (was.sig # "none" => c = was)
      <4>1. was.sig = "none" => was = NoPeer
        BY <1>1, <3>4 DEF PictureInv, Blank
      <4>2. NoPeer.heard = {}
        BY DEF NoPeer
      <4>3. /\ was.sig # "none" => c = was
            /\ was.sig = "none" => c.heard = {}
        BY <1>1, <1>4, <2>7, <3>4, EnsuredFields
      <4> QED BY <4>1, <4>2, <4>3
    <3>7. (was.sig # "offering" \/ Mine(a) > Mine(q)) /\ was.sig # "answered"
      BY <2>3, <2>7, <3>6 DEF IsPolite
    <3>8. Tells(m, "offer", Mine(q))
      BY <2>7 DEF Tells
    <3>9. Sound(next, peers[q][Mine(a)], u, v, Mine(a), Mine(q))
      BY <1>1, <1>5, <1>6, <2>2, <2>3, <3>2, <3>5, <3>6, <3>7, <3>8, SoundAnswer
    <3>10. peers'[a][Mine(q)] = next /\ peers'[q][Mine(a)] = peers[q][Mine(a)]
      BY <1>1, <2>4, <2>7
    <3> QED BY <2>3, <2>6, <3>3, <3>9, <3>10 DEF TalkStep
  <2>8. CASE m.from # Mine(q)
    <3>1. SameTalk(t, v, Mine(q))
      BY <1>5, <1>6, <1>7, <2>8, TalkTail DEF Beside
    <3>2. box[Mine(q)] = inbox[Mine(q)]
      BY <1>1, <2>3, <2>8 DEF Sent
    <3>3. peers'[a][Mine(q)] = peers[a][Mine(q)] /\ peers'[q][Mine(a)] = peers[q][Mine(a)]
      BY <1>1, <2>4, <2>8
    <3> QED BY <1>5, <2>6, <3>1, <3>2, <3>3, TalkAside, SameTalkSame
  <2> QED BY <2>7, <2>8
<1>10. CASE IgnoresOffer(a, m.from, c, next)
  <2>1. c = peers[a][m.from]
    <3>1. PICK was \in Peer : was = peers[a][m.from]
      BY <1>3 DEF TypeInv, PageTypes
    <3>2. was.sig # "none" => c = was
      BY <1>1, <1>4, <3>1, EnsuredFields
    <3>3. was.sig = "none" => c.sig = "stable"
      BY <1>1, <1>4, <3>1, EnsuredFields
    <3>4. c.sig # "stable"
      BY <1>10 DEF IgnoresOffer
    <3> QED BY <3>1, <3>2, <3>3, <3>4
  <2>2. Aside(peers[a][m.from], next) /\ next.sig # "none"
    BY <1>10, <2>1 DEF IgnoresOffer, Aside
  <2>3. peers' = [peers EXCEPT ![a][m.from] = next] /\ inbox' = [inbox EXCEPT ![Mine(a)] = Tail(@)]
    BY <1>10 DEF IgnoresOffer
  <2>4. inbox'[Mine(a)] = v /\ inbox'[Mine(q)] = inbox[Mine(q)]
    BY <1>1, <1>5, <1>6, <2>3
  <2>5. \A p \in Pages, k \in Sockets : peers'[p][k] = IF p = a /\ k = m.from THEN next ELSE peers[p][k]
    BY <1>3, <2>3, MeshSet DEF TypeInv, PageTypes
  <2>6. CASE m.from = Mine(q)
    <3>1. PICK d, s : d = peers[q][Mine(a)] /\ s = inbox[Mine(q)]
      OBVIOUS
    <3>2. PICK was : was = peers[a][Mine(q)]
      OBVIOUS
    <3>3. Sound(was, d, s, t, Mine(a), Mine(q))
      BY <1>5, <3>1, <3>2 DEF Talk
    <3>4. Tells(m, "offer", Mine(q))
      BY <2>6 DEF Tells
    <3>5. Sound(was, d, s, v, Mine(a), Mine(q))
      BY <1>5, <1>6, <3>3, <3>4, SoundIgnored
    <3>6. Aside(was, next)
      BY <2>2, <2>6, <3>2
    <3>7. Sound(next, d, s, v, Mine(a), Mine(q))
      BY <3>5, <3>6, SoundAside, SameTalkSame
    <3>8. peers'[a][Mine(q)] = next /\ peers'[q][Mine(a)] = d
      BY <1>1, <2>5, <2>6, <3>1
    <3> QED BY <2>2, <2>4, <3>1, <3>7, <3>8 DEF TalkStep
  <2>7. CASE m.from # Mine(q)
    <3>1. SameTalk(t, v, Mine(q))
      BY <1>5, <1>6, <1>7, <2>7, TalkTail DEF Beside
    <3>2. peers'[a][Mine(q)] = peers[a][Mine(q)] /\ peers'[q][Mine(a)] = peers[q][Mine(a)]
      BY <1>1, <2>5, <2>7
    <3> QED BY <1>5, <2>4, <3>1, <3>2, TalkAside, SameTalkSame
  <2> QED BY <2>6, <2>7
<1> QED
  BY <1>4, <1>8, <1>9, <1>10

LEMMA AnswerTalk ==
  ASSUME TypeInv, PresenceInv, PictureInv, NEW a \in Pages, NEW q \in Pages, Together(a, q), Talk(a, q),
         Belongs(a), inbox[Mine(a)] # <<>>, NEW m, m = Head(inbox[Mine(a)]), m.kind = "answer",
         inbox' = Taken(inbox, Mine(a)), OnAnswer(a, m.from, m.sdp)
  PROVE  TalkStep(a, q)
<1>1. /\ Mine(a) \in Sockets /\ Mine(q) \in Sockets /\ Mine(a) # Mine(q)
      /\ inbox \in [Sockets -> Seq(Message)] /\ Connected(a) /\ a # q
  BY TogetherFacts DEF TypeInv, MailTypes
<1>2. m \in MailTo(inbox, Mine(a)) /\ m \in Message
  BY <1>1, FirstMail DEF TypeInv
<1>3. m.from \in Sockets
  BY <1>2, MessageFields
<1>4. PICK c \in Peer : c = peers[a][m.from]
  BY <1>3 DEF TypeInv, PageTypes
<1>5. PICK n : n = [c EXCEPT !.sig = "answered", !.mine = Mine(a), !.reply = m.sdp]
  OBVIOUS
<1>6. /\ n.sig = "answered" /\ n.heard = c.heard /\ n.agreed = c.agreed
      /\ n.offered = c.offered /\ n.reply = m.sdp
  BY <1>4, <1>5 DEF Peer
<1>7. \/ peers' = [peers EXCEPT ![a][m.from] = n]
      \/ UNCHANGED peers /\ (c.sig # "offering" \/ c.mine # Mine(a))
  BY <1>4, <1>5 DEF OnAnswer, MayRefuse
<1>8. PICK t \in Seq(Message) : t = inbox[Mine(a)] /\ t # <<>> /\ m = Head(t)
  BY <1>1
<1>9. PICK v : v = Tail(t)
  OBVIOUS
<1>10. inbox'[Mine(a)] = v /\ inbox'[Mine(q)] = inbox[Mine(q)]
  BY <1>1, <1>8, <1>9 DEF Taken
<1>11. CASE m.from = Mine(q)
  <2>1. Sound(c, peers[q][Mine(a)], inbox[Mine(q)], t, Mine(a), Mine(q))
    BY <1>4, <1>8, <1>11 DEF Talk
  <2>2. Tells(m, "answer", Mine(q))
    BY <1>11 DEF Tells
  <2>3. c.sig = "offering" /\ Sound(n, peers[q][Mine(a)], inbox[Mine(q)], v, Mine(a), Mine(q))
    BY <1>6, <1>8, <1>9, <2>1, <2>2, SoundAnswered
  <2>4. c.mine = Mine(a)
    BY <1>1, <1>3, <1>4, <2>3 DEF Belongs
  <2>5. peers' = [peers EXCEPT ![a][m.from] = n]
    BY <1>7, <2>3, <2>4
  <2>6. peers'[a][Mine(q)] = n /\ peers'[q][Mine(a)] = peers[q][Mine(a)]
    BY <1>1, <1>11, <2>5, MeshSet DEF TypeInv, PageTypes
  <2> QED BY <1>6, <1>10, <2>3, <2>6 DEF TalkStep
<1>12. CASE m.from # Mine(q)
  <2>1. SameTalk(t, v, Mine(q))
    BY <1>8, <1>9, <1>12, TalkTail DEF Tells
  <2>2. peers'[a][Mine(q)] = peers[a][Mine(q)] /\ peers'[q][Mine(a)] = peers[q][Mine(a)]
    BY <1>1, <1>3, <1>7, <1>12, MeshSet DEF TypeInv, PageTypes
  <2> QED BY <1>8, <1>10, <2>1, <2>2, TalkAside, SameTalkSame
<1> QED
  BY <1>11, <1>12

\* An answer is set: of q, or of somebody else.
LEMMA SetTalk ==
  ASSUME TypeInv, PresenceInv, NEW a \in Pages, NEW q \in Pages, Together(a, q), Talk(a, q),
         NEW id \in Sockets, AnswerSet(a, id)
  PROVE  TalkStep(a, q)
<1>1. Mine(a) \in Sockets /\ Mine(q) \in Sockets /\ a # q
  BY TogetherFacts
<1>2. PICK c \in Peer : c = peers[a][id]
  BY DEF TypeInv, PageTypes
<1>3. PICK n : n = Answered(c)
  OBVIOUS
<1>4. c.sig = "answered" /\ n.sig = "stable" /\ n.heard = c.heard \cup c.reply /\ n.agreed = c.agreed \cup c.offered
  BY <1>2, <1>3 DEF AnswerSet, Answered, Peer
<1>5. peers' = [peers EXCEPT ![a][id] = n] /\ UNCHANGED inbox
  BY <1>2, <1>3 DEF AnswerSet, serverVars
<1>6. \A p \in Pages, k \in Sockets : peers'[p][k] = IF p = a /\ k = id THEN n ELSE peers[p][k]
  BY <1>5, MeshSet DEF TypeInv, PageTypes
<1>7. CASE id = Mine(q)
  <2>1. PICK d, s, t : d = peers[q][Mine(a)] /\ s = inbox[Mine(q)] /\ t = inbox[Mine(a)]
    OBVIOUS
  <2>2. Sound(c, d, s, t, Mine(a), Mine(q))
    BY <1>2, <1>7, <2>1 DEF Talk
  <2>3. Sound(n, d, s, t, Mine(a), Mine(q))
    BY <1>4, <2>2, SoundSet
  <2>4. peers'[a][Mine(q)] = n /\ peers'[q][Mine(a)] = d
    BY <1>1, <1>6, <1>7, <2>1
  <2> QED BY <1>4, <1>5, <2>1, <2>3, <2>4 DEF TalkStep
<1>8. CASE id # Mine(q)
  <2>1. peers'[a][Mine(q)] = peers[a][Mine(q)] /\ peers'[q][Mine(a)] = peers[q][Mine(a)]
    BY <1>1, <1>6, <1>8
  <2> QED BY <1>5, <2>1, TalkAside, SameTalkSame
<1> QED
  BY <1>7, <1>8

LEMMA DeliverTalk ==
  ASSUME TypeInv, PresenceInv, PictureInv, LeftInv, NEW a \in Pages, NEW q \in Pages, Together(a, q),
         Talk(a, q), Belongs(a), Deliver(a)
  PROVE  TalkStep(a, q)
<1>1. /\ Mine(a) \in Sockets /\ Mine(q) \in Sockets /\ Mine(a) # Mine(q) /\ Online(Mine(q))
      /\ inbox \in [Sockets -> Seq(Message)] /\ Connected(a) /\ a # q /\ inbox[Mine(a)] # <<>>
  BY TogetherFacts DEF TypeInv, MailTypes, Deliver
<1>2. PICK m : m = Head(inbox[Mine(a)])
  OBVIOUS
<1>3. m \in MailTo(inbox, Mine(a)) /\ m \in Message
  BY <1>1, <1>2, FirstMail DEF TypeInv
<1>4. CASE m.kind = "offer" /\ OnOffer(a, m.from, m.sdp)
  BY <1>1, <1>2, <1>4, OfferTalk
<1>5. ASSUME m.kind # "offer", inbox' = [inbox EXCEPT ![Mine(a)] = Tail(@)] PROVE inbox' = Taken(inbox, Mine(a))
  BY <1>5 DEF Taken
<1>6. ASSUME inbox' = Taken(inbox, Mine(a)), m.kind \notin {"offer", "answer"},
             \/ Aside(peers[a][Mine(q)], peers'[a][Mine(q)])
             \/ peers'[a][Mine(q)] = peers[a][Mine(q)],
             peers'[q][Mine(a)] = peers[q][Mine(a)]
      PROVE  TalkStep(a, q)
  <2>1. /\ SameTalk(inbox[Mine(q)], inbox'[Mine(q)], Mine(a))
        /\ SameTalk(inbox[Mine(a)], inbox'[Mine(a)], Mine(q))
    BY <1>1, <1>2, <1>6, TakenTalk DEF Beside, Tells
  <2> QED BY <1>6, <2>1, TalkAside
<1>7. ASSUME NEW ids, Rostered(a, ids), inbox' = Taken(inbox, Mine(a)), m.kind \notin {"offer", "answer"}
      PROVE  TalkStep(a, q)
  <2>1. /\ Carries(page[a], peers[a][Mine(q)], peers'[a][Mine(q)]) \/ peers'[a][Mine(q)] = peers[a][Mine(q)]
        /\ peers'[q][Mine(a)] = peers[q][Mine(a)]
    BY <1>1, <1>7, RosterCarries DEF PictureInv
  <2> QED BY <1>6, <1>7, <2>1 DEF Carries
<1>8. CASE m.kind = "answer" /\ inbox' = Taken(inbox, Mine(a)) /\ OnAnswer(a, m.from, m.sdp)
  BY <1>1, <1>2, <1>8, AnswerTalk
<1>9. CASE m.kind \in {"ack", "state"} /\ inbox' = Taken(inbox, Mine(a)) /\ OnState(a, m)
  BY <1>7, <1>9 DEF OnState, Rostered
<1>10. CASE m.kind = "joined" /\ inbox' = Taken(inbox, Mine(a)) /\ OnJoined(a, m.about)
  BY <1>7, <1>10 DEF OnJoined, Rostered
<1>11. CASE m.kind = "left" /\ inbox' = Taken(inbox, Mine(a)) /\ OnLeft(a, m.from)
  <2>1. m.from \in Sockets /\ m.from # Mine(q)
    BY <1>1, <1>3, <1>11, MessageFields DEF LeftInv, Parted, Online
  <2>2. PICK none : none = NoPeer
    OBVIOUS
  <2>3. peers' = [peers EXCEPT ![a][m.from] = none]
    BY <1>11, <2>2 DEF OnLeft, PeerClosed
  <2>4. peers'[a][Mine(q)] = peers[a][Mine(q)] /\ peers'[q][Mine(a)] = peers[q][Mine(a)]
    BY <1>1, <2>1, <2>3, MeshSet DEF TypeInv, PageTypes
  <2> QED BY <1>6, <1>11, <2>4
<1>12. CASE m.kind \in {"updated", "accepted", "rejected", "gone"} /\ inbox' = Taken(inbox, Mine(a)) /\ UNCHANGED peers
  BY <1>6, <1>12
<1> QED
  BY <1>2, <1>4, <1>5, <1>8, <1>9, <1>10, <1>11, <1>12 DEF Deliver, OnAccepted, OnGone

LEMMA PublishTalk ==
  ASSUME TypeInv, PresenceInv, PictureInv, StageInv, NEW a \in Pages, NEW q \in Pages, Together(a, q),
         Talk(a, q), Withdrawing(a) \/ \E stream : Publishing(a, stream)
  PROVE  TalkStep(a, q)
<1>1. /\ Mine(a) \in Sockets /\ Mine(q) \in Sockets /\ a # q /\ inbox \in [Sockets -> Seq(Message)]
  BY TogetherFacts DEF TypeInv, MailTypes
<1>2. ASSUME NEW stream, Publishing(a, stream) PROVE TalkStep(a, q)
  <2>1. /\ \/ Aside(peers[a][Mine(q)], peers'[a][Mine(q)])
           \/ peers[a][Mine(q)].sig = "none" /\ peers'[a][Mine(q)] = NoPeer
        /\ peers'[q][Mine(a)] = peers[q][Mine(a)]
    BY <1>1, <1>2, PublishingTracks
  <2>2. peers[a][Mine(q)].sig = "none" => peers[a][Mine(q)] = NoPeer
    BY <1>1 DEF PictureInv, Blank
  <2>3. UNCHANGED inbox
    BY <1>2 DEF Publishing
  <2> QED BY <2>1, <2>2, <2>3, TalkAside, SameTalkSame
<1>3. CASE Withdrawing(a)
  <2>1. Aside(peers[a][Mine(q)], peers'[a][Mine(q)]) /\ peers'[q][Mine(a)] = peers[q][Mine(a)]
    BY <1>1, <1>3, WithdrawingTracks
  <2>2. UNCHANGED inbox \/ \E stream : inbox' = Gone(inbox, Mine(a), stream)
    BY <1>3 DEF Withdrawing
  <2>3. ASSUME NEW k \in Sockets, NEW x, NEW stream, inbox' = Gone(inbox, Mine(a), stream)
        PROVE  SameTalk(inbox[k], inbox'[k], x)
    <3>1. PICK gone, ids : gone = [kind |-> "gone", from |-> Mine(a), stream |-> stream] /\ ids = room \ {Mine(a)}
      OBVIOUS
    <3>2. Beside(gone, x) /\ (inbox' = Sent(inbox, ids, gone) \/ inbox' = inbox)
      BY <2>3, <3>1 DEF Beside, Tells, Gone
    <3> QED BY <1>1, <3>2, SentTalk, SameTalkSame
  <2>4. \A k \in Sockets : \A x : SameTalk(inbox[k], inbox'[k], x)
    BY <2>2, <2>3, SameTalkSame
  <2> QED BY <1>1, <2>1, <2>4, TalkAside
<1> QED
  BY <1>2, <1>3

\* A connection to a page that is there does not fail.
LEMMA FailsTalk ==
  ASSUME TypeInv, PresenceInv, PictureInv, NEW a \in Pages, NEW q \in Pages, Together(a, q),
         Talk(a, q), Belongs(a), NEW id \in Sockets, ConnectionFails(a, id)
  PROVE  TalkStep(a, q)
<1>1. /\ Mine(a) \in Sockets /\ Mine(q) \in Sockets /\ Mine(a) # Mine(q) /\ a # q
      /\ Connected(a) /\ Connected(q) /\ owner[Mine(q)] = q
  BY TogetherFacts
<1>2. id # Mine(q)
  <2> SUFFICES ASSUME id = Mine(q) PROVE FALSE
    OBVIOUS
  <2>1. /\ peers[a][Mine(q)].agreed \cup peers[a][Mine(q)].heard # {}
        /\ peers[q][peers[a][Mine(q)].mine].sig = "none" \/ page[q].at = "closed"
    BY <1>1 DEF ConnectionFails, Orphaned
  <2>2. peers[a][Mine(q)].sig # "none"
    BY <1>1, <2>1 DEF PictureInv, Blank, NoPeer
  <2>3. peers[a][Mine(q)].mine = Mine(a) /\ page[q].at # "closed"
    BY <1>1, <2>2 DEF Belongs, Connected
  <2>4. peers[q][Mine(a)].sig = "none" => peers[q][Mine(a)].heard = {}
    BY <1>1 DEF PictureInv, Blank, NoPeer
  <2>5. peers[q][Mine(a)].sig # "none"
    BY <2>1, <2>4, SoundThere DEF Talk
  <2> QED BY <2>1, <2>3, <2>5
<1>3. PICK none : none = NoPeer
  OBVIOUS
<1>4. peers' = [peers EXCEPT ![a][id] = none] /\ UNCHANGED inbox
  BY <1>3 DEF ConnectionFails, PeerClosed, serverVars
<1>5. peers'[a][Mine(q)] = peers[a][Mine(q)] /\ peers'[q][Mine(a)] = peers[q][Mine(a)]
  BY <1>1, <1>2, <1>4, MeshSet DEF TypeInv, PageTypes
<1> QED
  BY <1>4, <1>5, TalkAside, SameTalkSame

LEMMA SteadyTalk ==
  ASSUME TypeInv, PresenceInv, PictureInv, StageInv, LeftInv, NEW a \in Pages, NEW q \in Pages,
         Together(a, q), Talk(a, q), Belongs(a), Steady(a)
  PROVE  TalkStep(a, q)
<1>1. CASE UNCHANGED <<peers, inbox>>
  BY <1>1, TalkAside, SameTalkSame
<1>2. KindsInv
  BY DEF StageInv
<1>3. ASSUME NEW id \in Sockets, Connects(a, id) PROVE FALSE
  <2>1. UNCHANGED link
    BY SteadyLinks
  <2> QED BY <1>3, <2>1 DEF Connects, TypeInv, ServerTypes
<1>4. CASE Unstaged(a)
  BY <1>1, <1>3, <1>4, NegotiateTalk, DeliverTalk, SetTalk, FailsTalk
     DEF Unstaged, Steady, Denied, RaiseHand, ToggleMic, AnswerHand, serverVars
<1> QED
  BY <1>2, <1>4, PublishTalk, StageWays DEF Steady

-----------------------------------------------------------------------------
(* Two pages of the class get to know each other: whoever has no connection *)
(* to the other yet is about to be told of it.                              *)

\* A message from which a page learns that it has to connect to id.
Introduces(m, id) == m.kind \in {"ack", "state", "joined"} /\ \E x \in Told(m) : x.id = id

\* The acknowledgement being made for me, with id on it.
Lists(j, me, id) ==
  /\ j.kind = "snapshot" /\ j.ack /\ j.id = me
  /\ id \in j.rest \/ \E x \in j.got : x.id = id

Arriving(tasks, id) == Job("join", id) \in tasks \/ Job("joined", id) \in tasks

WillMeet(box, tasks, me, id) ==
  \/ Arriving(tasks, id) \/ Arriving(tasks, me)
  \/ \E j \in tasks : Lists(j, me, id)
  \/ \E m \in MailTo(box, me) : Introduces(m, id)

LEMMA OutsideTheRoom ==
  ASSUME PresenceInv, NEW id \in Sockets, Online(id), id \notin room
  PROVE  Job("join", id) \in jobs
<1>1. Connected(owner[id])
  BY DEF PresenceInv, Online
<1>2. ~GoneFor(id)
  BY <1>1 DEF GoneFor, Connected
<1> QED
  BY <1>2 DEF PresenceInv, Online, Admitted

\* The acknowledgement goes out.
LEMMA ListSent ==
  ASSUME TypeInv, NEW j \in jobs, j.ack, j.id \in Sockets, Online(j.id), NEW got \in Roster, SnapshotSent(j, got),
         NEW x \in got
  PROVE  \E m \in MailTo(inbox', j.id) : Introduces(m, x.id)
<1>1. PICK ack, state : ack = StateMessage("ack", got) /\ state = StateMessage("state", got)
  OBVIOUS
<1>2. PICK acked : acked = Sent(inbox, {j.id}, ack) /\ inbox' = Sent(acked, room, state)
  BY <1>1 DEF SnapshotSent
<1>3. ack \in Message /\ inbox \in [Sockets -> Seq(Message)]
  BY <1>1, MessagesMade DEF TypeInv, MailTypes
<1>4. acked \in [Sockets -> Seq(Message)]
  BY <1>2, <1>3, SentTyped
<1>5. ack \in MailTo(acked, j.id)
  BY <1>2, <1>3, MailSent
<1>6. ack \in MailTo(inbox', j.id)
  BY <1>2, <1>4, <1>5, SentKeeps
<1>7. Introduces(ack, x.id)
  BY <1>1 DEF Introduces, StateMessage, Told
<1> QED
  BY <1>6, <1>7

LEMMA ListGoesOn ==
  ASSUME TypeInv, NEW j \in jobs, HandlerStep(j), NEW me \in Sockets, NEW id \in Sockets, Online(me),
         Lists(j, me, id)
  PROVE  WillMeet(inbox', jobs', me, id)
<1>1. /\ TakeSnapshot(j) /\ j.kind = "snapshot" /\ j.ack /\ j.id = me
      /\ j.got \in Roster /\ j.rest \in SUBSET Sockets
  <2>1. j.kind = "snapshot" /\ j.ack /\ j.id = me
    BY DEF Lists
  <2>2. TakeSnapshot(j)
    BY <2>1 DEF HandlerStep, JoinRoom, JoinAnnounced, HandAnnounced, HandAccepted, HandRejected,
                MediaToggled, Left, Bye
  <2> QED BY <2>1, <2>2, SnapshotFields DEF TypeInv, ServerTypes
<1>2. ASSUME NEW got \in Roster, SnapshotSent(j, got), NEW x \in got, x.id = id
      PROVE  WillMeet(inbox', jobs', me, id)
  <2>1. \E m \in MailTo(inbox', me) : Introduces(m, id)
    BY <1>1, <1>2, ListSent
  <2> QED BY <2>1 DEF WillMeet
<1>3. CASE j.rest = {} /\ SnapshotSent(j, j.got)
  BY <1>1, <1>2, <1>3 DEF Lists
<1>4. ASSUME NEW y \in j.rest, j.rest = {y}, SnapshotSent(j, Read(j, y).got)
      PROVE  WillMeet(inbox', jobs', me, id)
  <2>1. PICK got \in Roster : got = Read(j, y).got /\ got = j.got \cup {Described(y)}
    BY <1>1, ReadMore
  <2>2. Described(y) \in got /\ Described(y).id = y
    BY <2>1 DEF Described
  <2>3. \E x \in got : x.id = id
    BY <1>4, <2>1, <2>2 DEF Lists
  <2> QED BY <1>2, <1>4, <2>1, <2>3
<1>5. ASSUME NEW y \in j.rest, Continues(j, {Read(j, y)})
      PROVE  WillMeet(inbox', jobs', me, id)
  <2>1. PICK n : n = Read(j, y)
    OBVIOUS
  <2>2. /\ n \in jobs' /\ n.kind = "snapshot" /\ n.id = me /\ n.ack
        /\ n.got = j.got \cup {Described(y)} /\ n.rest = j.rest \ {y}
    BY <1>1, <1>5, <2>1, ReadMore DEF Continues
  <2>3. Described(y).id = y
    BY DEF Described
  <2>4. id \in n.rest \/ \E x \in n.got : x.id = id
    BY <2>2, <2>3 DEF Lists
  <2>5. Lists(n, me, id)
    BY <2>2, <2>4 DEF Lists
  <2> QED BY <2>2, <2>5 DEF WillMeet
<1> QED
  BY <1>1, <1>3, <1>4, <1>5 DEF TakeSnapshot

LEMMA ArrivalGoesOn ==
  ASSUME TypeInv, PresenceInv, NEW j \in jobs, HandlerStep(j), NEW me \in Sockets, NEW id \in Sockets,
         Online(me), Online(id), me # id, j \in {Job("join", id), Job("joined", id), Job("join", me), Job("joined", me)}
  PROVE  WillMeet(inbox', jobs', me, id)
<1>1. \A kind, y : Job(kind, y).kind = kind /\ Job(kind, y).id = y
  BY DEF Job
<1>2. ASSUME NEW y \in {me, id}, j = Job("join", y) PROVE WillMeet(inbox', jobs', me, id)
  <2>1. j.kind = "join" /\ j.id = y
    BY <1>1, <1>2
  <2>2. JoinRoom(j)
    BY <2>1 DEF HandlerStep, JoinAnnounced, TakeSnapshot, HandAnnounced, HandAccepted, HandRejected,
                MediaToggled, Left, Bye
  <2>3. Job("joined", y) \in jobs'
    BY <2>1, <2>2 DEF JoinRoom, Continues
  <2> QED BY <2>3 DEF WillMeet, Arriving
<1>3. ASSUME NEW y \in {me, id}, y \notin room PROVE WillMeet(inbox', jobs', me, id)
  <2>1. Job("join", y) \in jobs
    BY <1>3, OutsideTheRoom
  <2>2. j # Job("join", y) => Job("join", y) \in jobs'
    BY <2>1, HandlerGoesOn
  <2> QED BY <1>2, <2>2 DEF WillMeet, Arriving
<1>4. ASSUME j.kind = "joined" PROVE JoinAnnounced(j)
  BY <1>4 DEF HandlerStep, JoinRoom, TakeSnapshot, HandAnnounced, HandAccepted, HandRejected,
              MediaToggled, Left, Bye
<1>5. CASE j = Job("joined", id) /\ me \in room
  <2>1. j.kind = "joined" /\ j.id = id
    BY <1>1, <1>5
  <2>2. PICK x : x = [Described(id) EXCEPT !.hand = FALSE]
    OBVIOUS
  <2>3. x.id = id
    BY <2>2, DescribedTyped DEF TypeInv
  <2>4. PICK m : m = About("joined", x)
    OBVIOUS
  <2>5. Introduces(m, id)
    BY <2>3, <2>4 DEF Introduces, About, Told
  <2>6. PICK ids : me \in ids /\ inbox' = Sent(inbox, ids, m)
    BY <1>4, <1>5, <2>1, <2>2, <2>4 DEF JoinAnnounced
  <2>7. m \in MailTo(inbox', me)
    BY <2>6, MailSent DEF TypeInv, MailTypes
  <2> QED BY <2>5, <2>7 DEF WillMeet
<1>6. CASE j = Job("joined", me) /\ id \in room
  <2>1. j.kind = "joined" /\ j.id = me
    BY <1>1, <1>6
  <2>2. PICK n : n = Snapshot(me, TRUE)
    OBVIOUS
  <2>3. n.kind = "snapshot" /\ n.id = me /\ n.ack /\ n.rest = {x \in room : link[x] \in {"up", "lost"}}
    BY <2>2 DEF Snapshot
  <2>4. n \in jobs'
    BY <1>4, <2>1, <2>2 DEF JoinAnnounced, Continues
  <2>5. Lists(n, me, id)
    BY <1>6, <2>3 DEF Lists, Online
  <2> QED BY <2>4, <2>5 DEF WillMeet
<1> QED
  BY <1>2, <1>3, <1>5, <1>6

LEMMA HandlerMeets ==
  ASSUME TypeInv, PresenceInv, NEW j \in jobs, HandlerStep(j), NEW me \in Sockets, NEW id \in Sockets,
         Online(me), Online(id), me # id, WillMeet(inbox, jobs, me, id)
  PROVE  WillMeet(inbox', jobs', me, id)
<1>1. CASE j \in {Job("join", id), Job("joined", id), Job("join", me), Job("joined", me)} \/ Lists(j, me, id)
  BY <1>1, ArrivalGoesOn, ListGoesOn
<1>2. CASE j \notin {Job("join", id), Job("joined", id), Job("join", me), Job("joined", me)} /\ ~Lists(j, me, id)
  <2>1. \A k \in jobs : k # j => k \in jobs'
    BY HandlerGoesOn
  <2>2. Arriving(jobs, id) \/ Arriving(jobs, me) => WillMeet(inbox', jobs', me, id)
    BY <1>2, <2>1 DEF Arriving, WillMeet
  <2>3. ASSUME NEW k \in jobs, Lists(k, me, id) PROVE WillMeet(inbox', jobs', me, id)
    <3>1. k \in jobs'
      BY <1>2, <2>1, <2>3
    <3> QED BY <2>3, <3>1 DEF WillMeet
  <2>4. ASSUME NEW m \in MailTo(inbox, me), Introduces(m, id) PROVE WillMeet(inbox', jobs', me, id)
    <3>1. m \in MailTo(inbox', me)
      BY HandlerKeeps
    <3> QED BY <2>4, <3>1 DEF WillMeet
  <2> QED BY <2>2, <2>3, <2>4 DEF WillMeet
<1> QED
  BY <1>1, <1>2

\* What tells of somebody stays until it is handled, and then there is a connection.
LEMMA SteadyMeets ==
  ASSUME TypeInv, PictureInv, NEW a \in Pages, Steady(a), NEW me \in Sockets, NEW id \in Sockets,
         WillMeet(inbox, jobs, me, id)
  PROVE  \/ WillMeet(inbox', jobs', me, id)
         \/ /\ Deliver(a) /\ me = Mine(a) /\ inbox[me] # <<>>
            /\ Introduces(Head(inbox[me]), id)
<1>1. jobs \subseteq jobs'
  BY SteadyLinks
<1>2. Arriving(jobs, id) \/ Arriving(jobs, me) => WillMeet(inbox', jobs', me, id)
  BY <1>1 DEF Arriving, WillMeet
<1>3. (\E j \in jobs : Lists(j, me, id)) => WillMeet(inbox', jobs', me, id)
  BY <1>1 DEF WillMeet
<1>4. ASSUME NEW m \in MailTo(inbox, me), Introduces(m, id)
      PROVE  WillMeet(inbox', jobs', me, id) \/ (Deliver(a) /\ me = Mine(a) /\ m = Head(inbox[Mine(a)]))
  <2>1. m \in MailTo(inbox', me) \/ (Deliver(a) /\ me = Mine(a) /\ m = Head(inbox[Mine(a)]))
    BY <1>4, SteadyKeeps
  <2> QED BY <1>4, <2>1 DEF WillMeet
<1> QED
  BY <1>2, <1>3, <1>4 DEF WillMeet, Deliver

LEMMA IntroducedMeets ==
  ASSUME TypeInv, PictureInv, NEW a \in Pages, Deliver(a), NEW id \in Sockets, id # Mine(a),
         Introduces(Head(inbox[Mine(a)]), id)
  PROVE  peers'[a][id].sig # "none"
<1>1. PICK m : m = Head(inbox[Mine(a)])
  OBVIOUS
<1>2. m.kind \in {"ack", "state", "joined"} /\ \E x \in Told(m) : x.id = id
  BY <1>1 DEF Introduces
<1>3. Connected(a)
  BY DEF Deliver
<1>4. CASE m.kind \in {"ack", "state"}
  <2>1. Rostered(a, IdsOf(m.participants))
    BY <1>1, <1>4 DEF Deliver, OnState, Rostered
  <2>2. id \in IdsOf(m.participants)
    BY <1>2, <1>4 DEF Told, IdsOf
  <2>3. Carries(page[a], peers[a][id], peers'[a][id])
    BY <1>3, <2>1, <2>2, RosterCarries DEF PictureInv
  <2> QED BY <2>3 DEF Carries
<1>5. CASE m.kind = "joined"
  <2>1. Rostered(a, {m.about.id})
    BY <1>1, <1>5 DEF Deliver, OnJoined, Rostered
  <2>2. id \in {m.about.id}
    BY <1>2, <1>5 DEF Told
  <2>3. Carries(page[a], peers[a][id], peers'[a][id])
    BY <1>3, <2>1, <2>2, RosterCarries DEF PictureInv
  <2> QED BY <2>3 DEF Carries
<1> QED
  BY <1>2, <1>4, <1>5

\* A page changes its own connections.
LEMMA OthersPeers ==
  ASSUME TypeInv, NEW a \in Pages, PageStep(a), NEW q \in Pages, q # a
  PROVE  peers'[q] = peers[q]
<1>1. peers \in [Pages -> [Sockets -> Peer]]
  BY DEF TypeInv, PageTypes
<1>2. ASSUME NEW row, peers' = [peers EXCEPT ![a] = row] PROVE peers'[q] = peers[q]
  BY <1>1, <1>2
<1>3. ASSUME NEW id, NEW next, peers' = [peers EXCEPT ![a][id] = next] PROVE peers'[q] = peers[q]
  BY <1>1, <1>3
<1>4. CASE UNCHANGED peers
  BY <1>4
<1>5. CASE Deliver(a)
  <2>1. PICK m : m = Head(inbox[Mine(a)])
    OBVIOUS
  <2>2. ASSUME OnOffer(a, m.from, m.sdp) PROVE peers'[q] = peers[q]
    <3>1. UNCHANGED peers \/ \E next : peers' = [peers EXCEPT ![a][m.from] = next]
      <4>1. PICK c : c = Ensured(peers[a][m.from], Mine(a))
        OBVIOUS
      <4>2. ASSUME peers' = [peers EXCEPT ![a][m.from].ignored = (c.sig = "answered")]
            PROVE  \E next : peers' = [peers EXCEPT ![a][m.from] = next]
        <5>1. peers' = [peers EXCEPT ![a][m.from] = [peers[a][m.from] EXCEPT !.ignored = (c.sig = "answered")]]
          BY <1>1, <4>2
        <5> QED BY <5>1
      <4>3. \/ UNCHANGED peers
            \/ peers' = [peers EXCEPT ![a][m.from].ignored = (c.sig = "answered")]
            \/ \E next : peers' = [peers EXCEPT ![a][m.from] = next]
        BY <2>2, <4>1 DEF OnOffer
      <4> QED BY <4>2, <4>3
    <3> QED BY <1>3, <3>1
  <2>3. ASSUME OnState(a, m) \/ OnJoined(a, m.about) PROVE peers'[q] = peers[q]
    BY <1>2, <2>3 DEF OnState, OnJoined
  <2>4. ASSUME OnLeft(a, m.from) PROVE peers'[q] = peers[q]
    BY <1>3, <2>4 DEF OnLeft, PeerClosed
  <2>5. ASSUME OnAnswer(a, m.from, m.sdp) PROVE peers'[q] = peers[q]
    <3>1. UNCHANGED peers \/ \E next : peers' = [peers EXCEPT ![a][m.from] = next]
      BY <2>5 DEF OnAnswer
    <3> QED BY <1>3, <3>1
  <2>6. OnAccepted(a, m.from) \/ OnGone(a, m.from, m.stream) => UNCHANGED peers
    BY DEF OnAccepted, OnGone
  <2> QED BY <1>5, <2>1, <2>2, <2>3, <2>4, <2>5, <2>6 DEF Deliver
<1>6. ASSUME NEW id, Negotiate(a, id) PROVE peers'[q] = peers[q]
  <2>1. \E next : peers' = [peers EXCEPT ![a][id] = next]
    BY <1>6 DEF Negotiate
  <2> QED BY <1>3, <2>1
<1>7. ASSUME NEW id, ConnectionFails(a, id) \/ AnswerSet(a, id) PROVE peers'[q] = peers[q]
  <2>1. \E next : peers' = [peers EXCEPT ![a][id] = next]
    BY <1>7 DEF ConnectionFails, PeerClosed, AnswerSet
  <2> QED BY <1>3, <2>1
<1>8. CASE Close(a)
  BY <1>2, <1>8 DEF Close
<1>9. CASE Granted(a) \/ GoLive(a)
  BY <1>2, <1>9 DEF Granted, GoLive, OnStage
<1>10. CASE LeaveStage(a) \/ StopLive(a) \/ OpenWebcam(a) \/ CloseWebcam(a)
  BY <1>2, <1>10 DEF LeaveStage, StopLive, OpenWebcam, CloseWebcam
<1> QED
  BY <1>4, <1>5, <1>6, <1>7, <1>8, <1>9, <1>10
     DEF PageStep, Button, Signals, Visit, Reconnect, Connects, Drop, Denied, RaiseHand, ToggleMic, AnswerHand

-----------------------------------------------------------------------------
(* The talk goes on.                                                        *)

Meets(p, q) == peers[p][Mine(q)].sig # "none" \/ WillMeet(inbox, jobs, Mine(p), Mine(q))

\* As long as no connection was lost.
TalkInv ==
  faults = 0 => \A p, q \in Pages : Together(p, q) => Talk(p, q) /\ Meets(p, q)

LEMMA HandlerTalks ==
  ASSUME TypeInv, PresenceInv, TalkInv, NEW j \in jobs, HandlerStep(j), UNCHANGED pageVars
  PROVE  TalkInv'
<1>1. UNCHANGED <<page, peers, faults>> /\ inbox \in [Sockets -> Seq(Message)]
  BY DEF pageVars, TypeInv, MailTypes
<1> SUFFICES ASSUME faults = 0, NEW p \in Pages, NEW q \in Pages, Together(p, q)'
             PROVE  Talk(p, q)' /\ Meets(p, q)'
  BY <1>1 DEF TalkInv
<1>2. Together(p, q)
  BY <1>1 DEF Together, Connected
<1>3. PICK a, b \in Sockets : a = Mine(p) /\ b = Mine(q) /\ a # b /\ Online(a) /\ Online(b)
  BY <1>2, TogetherFacts
<1>4. Mine(p)' = a /\ Mine(q)' = b
  BY <1>1, <1>3 DEF Mine
<1>5. Sound(peers[p][b], peers[q][a], inbox[b], inbox[a], a, b)
  BY <1>2, <1>3 DEF TalkInv, Talk
<1>6. SameTalk(inbox[b], inbox'[b], a) /\ SameTalk(inbox[a], inbox'[a], b)
  BY HandlerTalk
<1>7. Aside(peers[p][b], peers[p][b])
  BY DEF Aside
<1>8. Sound(peers[p][b], peers[q][a], inbox'[b], inbox'[a], a, b)
  BY <1>5, <1>6, <1>7, SoundAside
<1>9. peers[p][b].sig # "none" \/ WillMeet(inbox', jobs', a, b)
  BY <1>2, <1>3, HandlerMeets DEF TalkInv, Meets
<1> QED
  BY <1>1, <1>4, <1>8, <1>9 DEF Talk, Meets

LEMMA NoticedTalks ==
  ASSUME TypeInv, TalkInv, NEW gone \in Sockets, Noticed(gone)
  PROVE  TalkInv'
<1>1. UNCHANGED <<page, peers, faults, inbox>> /\ jobs \subseteq jobs'
  BY DEF Noticed, Disconnect, pageVars
<1>2. ASSUME NEW p, NEW q, Meets(p, q) PROVE Meets(p, q)'
  <2>1. PICK a, b : a = Mine(p) /\ b = Mine(q)
    OBVIOUS
  <2>2. Mine(p)' = a /\ Mine(q)' = b
    BY <1>1, <2>1 DEF Mine
  <2>3. peers[p][b].sig # "none" \/ WillMeet(inbox, jobs, a, b)
    BY <1>2, <2>1 DEF Meets
  <2>4. peers[p][b].sig # "none" \/ WillMeet(inbox', jobs', a, b)
    BY <1>1, <2>3 DEF WillMeet, Arriving
  <2> QED BY <1>1, <2>2, <2>4 DEF Meets
<1>3. \A p, q : (Together(p, q)' => Together(p, q)) /\ (Talk(p, q) => Talk(p, q)')
  BY <1>1 DEF Together, Connected, Talk, Mine
<1> QED
  BY <1>1, <1>2, <1>3 DEF TalkInv

LEMMA SteadyTalks ==
  ASSUME TypeInv, PresenceInv, PictureInv, StageInv, LeftInv, GlareInv, TalkInv, NEW a \in Pages, Steady(a)
  PROVE  TalkInv'
<1>1. UNCHANGED faults
  BY DEF Steady, PageStep, Button, Signals, Granted, Denied, RaiseHand, LeaveStage, ToggleMic, GoLive,
         StopLive, OpenWebcam, CloseWebcam, AnswerHand, Deliver, Negotiate, AnswerSet, ConnectionFails
<1> SUFFICES ASSUME faults = 0, NEW p \in Pages, NEW q \in Pages, Together(p, q)'
             PROVE  Talk(p, q)' /\ Meets(p, q)'
  BY <1>1 DEF TalkInv
<1>2. Together(p, q) /\ Mine(p)' = Mine(p) /\ Mine(q)' = Mine(q)
  BY SteadyPages DEF Together, Mine
<1>3. PICK x, y \in Sockets :
           x = Mine(p) /\ y = Mine(q) /\ x # y /\ Online(x) /\ Online(y) /\ owner[x] = p /\ owner[y] = q
  BY <1>2, TogetherFacts
<1>4. Talk(p, q) /\ Meets(p, q) /\ Belongs(a) /\ p # q
  BY <1>2 DEF TalkInv, GlareInv, Together
<1>5. PageStep(a)
  BY DEF Steady
<1>6. CASE p = a
  <2>1. TalkStep(a, q)
    BY <1>2, <1>4, <1>6, SteadyTalk
  <2>2. Sound(peers'[p][y], peers'[q][x], inbox'[y], inbox'[x], x, y)
    BY <1>3, <1>6, <2>1 DEF TalkStep
  <2>3. peers[p][y].sig # "none" => peers'[p][y].sig # "none"
    BY <1>3, <1>6, <2>1 DEF TalkStep
  <2>4. ASSUME WillMeet(inbox, jobs, x, y) PROVE peers'[p][y].sig # "none" \/ WillMeet(inbox', jobs', x, y)
    <3>1. \/ WillMeet(inbox', jobs', x, y)
          \/ Deliver(a) /\ Introduces(Head(inbox[Mine(a)]), y)
      BY <1>3, <1>6, <2>4, SteadyMeets
    <3> QED BY <1>3, <1>6, <3>1, IntroducedMeets
  <2>5. peers'[p][y].sig # "none" \/ WillMeet(inbox', jobs', x, y)
    BY <1>3, <1>4, <2>3, <2>4 DEF Meets
  <2> QED BY <1>2, <1>3, <2>2, <2>5 DEF Talk, Meets
<1>7. ASSUME p # a PROVE Meets(p, q)'
  <2>1. peers'[p] = peers[p]
    BY <1>5, <1>7, OthersPeers
  <2>2. x # Mine(a) \/ ~Connected(a)
    BY <1>3, <1>7 DEF PresenceInv
  <2>3. Deliver(a) => Connected(a)
    BY DEF Deliver
  <2>4. WillMeet(inbox, jobs, x, y) => WillMeet(inbox', jobs', x, y)
    BY <2>2, <2>3, SteadyMeets
  <2> QED BY <1>2, <1>3, <1>4, <2>1, <2>4 DEF Meets
<1>8. CASE q = a
  <2>1. Together(q, p) /\ Talk(q, p)
    BY <1>2, <1>4, SoundTurned DEF Together, Talk
  <2>2. TalkStep(a, p)
    BY <1>4, <1>8, <2>1, SteadyTalk
  <2>3. Sound(peers'[q][x], peers'[p][y], inbox'[x], inbox'[y], y, x)
    BY <1>3, <1>8, <2>2 DEF TalkStep
  <2>4. Sound(peers'[p][y], peers'[q][x], inbox'[y], inbox'[x], x, y)
    BY <2>3, SoundTurned
  <2>5. Talk(p, q)'
    BY <1>2, <1>3, <2>4 DEF Talk
  <2> QED BY <1>4, <1>7, <1>8, <2>5
<1>9. CASE p # a /\ q # a
  <2>1. peers'[p] = peers[p] /\ peers'[q] = peers[q]
    BY <1>5, <1>9, OthersPeers
  <2>2. SameTalk(inbox[x], inbox'[x], y) /\ SameTalk(inbox[y], inbox'[y], x)
    <3>1. CASE Connected(a)
      <4>1. x # Mine(a) /\ y # Mine(a)
        BY <1>3, <1>9, <3>1 DEF PresenceInv
      <4> QED BY <4>1, OthersTalk
    <3>2. CASE ~Connected(a)
      <4>1. UNCHANGED inbox
        BY <3>2 DEF Steady, PageStep, Button, Signals, Granted, Denied, RaiseHand, LeaveStage, ToggleMic, GoLive,
                    StopLive, OpenWebcam, CloseWebcam, AnswerHand, Deliver, Negotiate, AnswerSet, ConnectionFails, serverVars,
                    InClass, Connected
      <4> QED BY <4>1, SameTalkSame
    <3> QED BY <3>1, <3>2
  <2>3. Sound(peers[p][y], peers[q][x], inbox[y], inbox[x], x, y)
    BY <1>3, <1>4 DEF Talk
  <2>4. Aside(peers[p][y], peers[p][y])
    BY DEF Aside
  <2>5. Sound(peers[p][y], peers[q][x], inbox'[y], inbox'[x], x, y)
    BY <2>2, <2>3, <2>4, SoundAside
  <2>6. Talk(p, q)'
    BY <1>2, <1>3, <2>1, <2>5 DEF Talk
  <2> QED BY <1>7, <1>9, <2>6
<1> QED
  BY <1>6, <1>8, <1>9

\* Of those that stay nobody notices yet.
LEMMA CloseTalks ==
  ASSUME TypeInv, PresenceInv, TalkInv, NEW a \in Pages, Close(a)
  PROVE  TalkInv'
<1>1. /\ UNCHANGED faults /\ jobs \subseteq jobs' /\ Connected(a)
      /\ inbox \in [Sockets -> Seq(Message)]
  BY DEF Close, Connected, TypeInv, MailTypes
<1>2. \A r \in Pages : (r # a => page'[r] = page[r] /\ peers'[r] = peers[r]) /\ page'[a].at = "closed"
  BY DEF Close, TypeInv, PageTypes, Page
<1> SUFFICES ASSUME faults = 0, NEW p \in Pages, NEW q \in Pages, Together(p, q)'
             PROVE  Talk(p, q)' /\ Meets(p, q)'
  BY <1>1 DEF TalkInv
<1>3. p # a /\ q # a
  BY <1>2 DEF Together, Connected
<1>4. Together(p, q) /\ Mine(p)' = Mine(p) /\ Mine(q)' = Mine(q)
  BY <1>2, <1>3 DEF Together, Connected, Mine
<1>5. PICK x, y \in Sockets : x = Mine(p) /\ y = Mine(q) /\ owner[x] = p /\ owner[y] = q
  BY <1>4, TogetherFacts
<1>6. x # Mine(a) /\ y # Mine(a)
  BY <1>1, <1>3, <1>5 DEF PresenceInv
<1>7. PICK left, box : left = LeftMessage(Mine(a)) /\ box = Sent(inbox, room, left)
  OBVIOUS
<1>8. inbox' = [box EXCEPT ![Mine(a)] = <<>>] /\ DOMAIN box = Sockets
  BY <1>7 DEF Close, Sent
<1>9. inbox'[x] = box[x] /\ inbox'[y] = box[y]
  BY <1>6, <1>8
<1>10. \A z : Beside(left, z)
  BY <1>7 DEF Beside, Tells, LeftMessage
<1>11. SameTalk(inbox[x], inbox'[x], y) /\ SameTalk(inbox[y], inbox'[y], x)
  BY <1>1, <1>7, <1>9, <1>10, SentTalk
<1>12. Talk(p, q) /\ Meets(p, q)
  BY <1>4 DEF TalkInv
<1>13. Sound(peers[p][y], peers[q][x], inbox[y], inbox[x], x, y) /\ Aside(peers[p][y], peers[p][y])
  BY <1>5, <1>12 DEF Talk, Aside
<1>14. Sound(peers[p][y], peers[q][x], inbox'[y], inbox'[x], x, y)
  BY <1>11, <1>13, SoundAside
<1>15. \A m \in MailTo(inbox, x) : m \in MailTo(inbox', x)
  <2>1. \A m \in MailTo(inbox, x) : m \in MailTo(box, x)
    BY <1>1, <1>7, SentKeeps
  <2> QED BY <1>9, <2>1 DEF MailTo
<1>16. WillMeet(inbox, jobs, x, y) => WillMeet(inbox', jobs', x, y)
  BY <1>1, <1>15 DEF WillMeet, Arriving
<1>17. peers'[p] = peers[p] /\ peers'[q] = peers[q]
  BY <1>2, <1>3
<1> QED
  BY <1>4, <1>5, <1>12, <1>14, <1>16, <1>17 DEF Talk, Meets

LEMMA StrangersSound ==
  ASSUME NEW s, NEW t, NEW a, NEW b, ~Speaks(s, a), ~Speaks(t, b)
  PROVE  Sound(NoPeer, NoPeer, s, t, a, b)
<1>1. Offers(s, a) = {} /\ Answers(s, a) = {} /\ Offers(t, b) = {} /\ Answers(t, b) = {}
  BY DEF Speaks, Offers, Answers, Tells
<1>2. \A S : ~OfferIn(s, a, S) /\ ~AnswerIn(s, a, S) /\ ~OfferIn(t, b, S) /\ ~AnswerIn(t, b, S)
  BY <1>1 DEF OfferIn, AnswerIn, InForce
<1>3. OneEach(s, a) /\ OneEach(t, b) /\ AllInForce(s, a) /\ AllInForce(t, b)
  BY <1>1 DEF OneEach, AllInForce, InForce
<1>4. NoPeer.agreed = {} /\ NoPeer.heard = {} /\ NoPeer.sig = "none"
  BY DEF NoPeer
<1> QED
  BY <1>2, <1>3, <1>4 DEF Sound, Half

LEMMA NobodySpeaks ==
  ASSUME NEW k \in Sockets, NEW id, \A m \in MailTo(inbox, k) : m.kind \in {"offer", "answer"} => m.from # id
  PROVE  ~Speaks(inbox[k], id)
BY DEF Speaks, MailTo, MailOf

\* A page that comes is known to nobody, and everybody will be told of it.
LEMMA VisitTalks ==
  ASSUME TypeInv, PresenceInv, PictureInv, GlareInv, TalkInv, NEW a \in Pages, NEW new \in Sockets, Visit(a, new)
  PROVE  TalkInv'
<1>1. /\ UNCHANGED <<inbox, peers, faults>> /\ link[new] = "free" /\ page[a].at = "away"
      /\ jobs' = jobs \cup {Job("join", new)}
  BY DEF Visit, Connects
<1>2. (\A r \in Pages : r # a => page'[r] = page[r]) /\ page'[a].socket = new
  <2>1. page \in [Pages -> Page] /\ page[a] \in Page
    BY DEF TypeInv, PageTypes
  <2>2. PICK next : next = [page[a] EXCEPT !.at = "connecting", !.socket = new]
    OBVIOUS
  <2>3. next.socket = new
    BY <2>1, <2>2 DEF Page
  <2>4. page' = [page EXCEPT ![a] = next]
    BY <2>1, <2>2 DEF Visit, Connects
  <2> QED BY <2>1, <2>3, <2>4
<1> SUFFICES ASSUME faults = 0, NEW p \in Pages, NEW q \in Pages, Together(p, q)'
             PROVE  Talk(p, q)' /\ Meets(p, q)'
  BY <1>1 DEF TalkInv
<1>3. p # q
  BY DEF Together
<1>4. \A id \in Sockets : peers[a][id] = NoPeer
  BY <1>1 DEF GlareInv, Belongs, PictureInv, Blank
<1>5. \A r \in Pages : peers[r][new] = NoPeer
  BY <1>1 DEF PictureInv, Blank
<1>6. MailTo(inbox, new) = {}
  BY <1>1 DEF PresenceInv
<1>7. \A k \in Sockets : ~Speaks(inbox[k], new)
  BY <1>1, NobodySpeaks DEF PictureInv, Foreign
<1>8. \A id : ~Speaks(inbox[new], id)
  BY <1>6, NobodySpeaks
<1>9. ASSUME NEW r \in Pages, r # a, Connected(r)' PROVE Mine(r)' \in Sockets /\ Mine(r)' = Mine(r)
  BY <1>2, <1>9 DEF Connected, Mine, TypeInv, PageTypes
<1>10. CASE p = a
  <2>1. PICK y \in Sockets : y = Mine(q)'
    BY <1>3, <1>9, <1>10 DEF Together
  <2>2. Sound(NoPeer, NoPeer, inbox[y], inbox[new], new, y)
    BY <1>7, <1>8, StrangersSound
  <2>3. Mine(p)' = new /\ peers[p][y] = NoPeer /\ peers[q][new] = NoPeer
    BY <1>2, <1>4, <1>5, <1>10 DEF Mine
  <2>4. WillMeet(inbox', jobs', new, y)
    BY <1>1 DEF WillMeet, Arriving
  <2> QED BY <1>1, <2>1, <2>2, <2>3, <2>4 DEF Talk, Meets
<1>11. CASE q = a
  <2>1. PICK x \in Sockets : x = Mine(p)'
    BY <1>3, <1>9, <1>11 DEF Together
  <2>2. Sound(NoPeer, NoPeer, inbox[new], inbox[x], x, new)
    BY <1>7, <1>8, StrangersSound
  <2>3. Mine(q)' = new /\ peers[q][x] = NoPeer /\ peers[p][new] = NoPeer
    BY <1>2, <1>4, <1>5, <1>11 DEF Mine
  <2>4. WillMeet(inbox', jobs', x, new)
    BY <1>1 DEF WillMeet, Arriving
  <2> QED BY <1>1, <2>1, <2>2, <2>3, <2>4 DEF Talk, Meets
<1>12. CASE p # a /\ q # a
  <2>1. Together(p, q) /\ Mine(p)' = Mine(p) /\ Mine(q)' = Mine(q)
    BY <1>2, <1>12 DEF Together, Connected, Mine
  <2>2. Talk(p, q) /\ Meets(p, q)
    BY <2>1 DEF TalkInv
  <2>3. WillMeet(inbox, jobs, Mine(p), Mine(q)) => WillMeet(inbox', jobs', Mine(p), Mine(q))
    BY <1>1 DEF WillMeet, Arriving
  <2> QED BY <1>1, <2>1, <2>2, <2>3 DEF Talk, Meets
<1> QED
  BY <1>10, <1>11, <1>12

LEMMA PageStepTalks ==
  ASSUME TypeInv, PresenceInv, PictureInv, StageInv, LeftInv, GlareInv, TalkInv, NEW a \in Pages, PageStep(a)
  PROVE  TalkInv'
<1>1. CASE Drop(a)
  <2>1. faults' = faults + 1 /\ faults \in Nat
    BY <1>1, MeshAssumption DEF Drop, TypeInv, Bounds
  <2> QED BY <2>1 DEF TalkInv
<1>2. ASSUME NEW id \in Sockets, Reconnect(a, id) PROVE TalkInv'
  <2>1. page[a].at = "dropped" /\ UNCHANGED faults
    BY <1>2 DEF Reconnect, Connects
  <2> QED BY <2>1 DEF GlareInv, Belongs, TalkInv
<1> QED
  BY <1>1, <1>2, SteadyTalks, VisitTalks, CloseTalks DEF Steady

LEMMA InitTalks == Init => TalkInv
<1> SUFFICES ASSUME Init PROVE TalkInv
  OBVIOUS
<1>1. \A p \in Pages : page[p].at = "away"
  BY DEF Init, NewPage
<1> QED
  BY <1>1 DEF TalkInv, Together, Connected

LEMMA NextTalks ==
  TypeInv /\ PresenceInv /\ PictureInv /\ StageInv /\ LeftInv /\ GlareInv /\ TalkInv /\ [Next]_vars => TalkInv'
<1> SUFFICES ASSUME TypeInv, PresenceInv, PictureInv, StageInv, LeftInv, GlareInv, TalkInv, [Next]_vars
             PROVE  TalkInv'
  OBVIOUS
<1>1. CASE UNCHANGED vars
  <2>1. UNCHANGED <<page, peers, inbox, jobs, faults>>
    BY <1>1 DEF vars, serverVars, pageVars
  <2>2. \A p, q : /\ Together(p, q)' => Together(p, q)
                  /\ Talk(p, q) => Talk(p, q)'
                  /\ Meets(p, q) => Meets(p, q)'
    BY <2>1 DEF Together, Connected, Talk, Meets, Mine, WillMeet, Arriving, MailTo
  <2> QED BY <2>1, <2>2 DEF TalkInv
<1> QED
  BY <1>1, HandlerTalks, NoticedTalks, PageStepTalks DEF Next

LEMMA TalksAlways ==
  Spec => [](/\ TypeInv /\ AdmissionInv /\ MicsInv /\ PresenceInv /\ PictureInv /\ GlareInv
             /\ StageInv /\ HeardInv /\ LeftInv /\ TalkInv)
<1>1. Init => StageInv /\ HeardInv /\ LeftInv /\ TalkInv
  BY InitStreams, InitLeft, InitTalks
<1>2. TypeInv /\ PresenceInv /\ PictureInv /\ GlareInv /\ StageInv /\ HeardInv /\ LeftInv /\ TalkInv /\ [Next]_vars =>
        StageInv' /\ HeardInv' /\ LeftInv' /\ TalkInv'
  BY NextStreams, NextTalks
<1> QED
  BY <1>1, <1>2, GlareAlways, PTL DEF Spec

\* Once everything has arrived, and no connection was lost, whatever a page
\* publishes is shown on every other page of the class, and the stage stream
\* has its picture and sound: whoever came first, whoever published first and
\* whatever snapshots said in between; but on a page that ignored the offer of
\* it because it was setting an answer (connectTo, setLocalStream,
\* onnegotiationneeded and the offer and answer handlers of rtc.ts).
THEOREM MediaArrives == Spec => []MediaReaches
<1>1. TypeInv /\ AdmissionInv /\ PresenceInv /\ PictureInv /\ GlareInv /\ StageInv /\ HeardInv /\ TalkInv =>
        MediaReaches
  <2> SUFFICES ASSUME TypeInv, AdmissionInv, PresenceInv, PictureInv, GlareInv, StageInv, HeardInv, TalkInv,
                      Settled, faults = 0, NEW p \in Class, NEW q \in Class, p # q, NEW m \in Published(page[p])
               PROVE  /\ m.kind = "main" => m \notin peers[p][Mine(q)].mute
                      /\ m \in streams[q][Mine(p)] \/ peers[q][Mine(p)].ignored
    BY DEF MediaReaches
  <2>1. p \in Pages /\ q \in Pages /\ page[p].at = "on" /\ page[q].at = "on" /\ Together(p, q)
    BY DEF Class, Together, Connected
  <2>2. PICK x, y \in Sockets : x = Mine(p) /\ y = Mine(q) /\ link[y] = "up" /\ owner[x] = p /\ owner[y] = q
    BY <2>1, InTheRoom
  <2>3. jobs = {} /\ inbox[x] = <<>> /\ inbox[y] = <<>> /\ ~Needy(peers[p][y])
    BY <2>1, <2>2 DEF Settled, Quiet
  <2>4. MailTo(inbox, x) = {} /\ MailTo(inbox, y) = {}
    BY <2>3 DEF MailTo, MailOf
  <2>5. PICK c \in Peer : c = peers[p][y]
    BY <2>1, <2>2 DEF TypeInv, PageTypes
  <2>6. PICK d \in Peer : d = peers[q][x]
    BY <2>1, <2>2 DEF TypeInv, PageTypes
  <2>7. c.sig \in {"stable", "offering"} /\ d.sig # "answered"
    <3>1. Meets(p, q)
      BY <2>1 DEF TalkInv
    <3>2. ~WillMeet(inbox, jobs, x, y)
      BY <2>3, <2>4 DEF WillMeet, Arriving
    <3>3. c.sig # "none"
      BY <2>2, <2>5, <3>1, <3>2 DEF Meets
    <3>4. c.sig # "answered" /\ d.sig # "answered"
      BY <2>1, <2>2, <2>5, <2>6 DEF Settled, Quiet
    <3> QED BY <2>5, <3>3, <3>4 DEF Peer
  <2>8. Tracked(page[p], c)
    BY <2>1, <2>2, <2>5 DEF StageInv
  <2>9. m.kind = "main" => m \notin c.mute
    <3>1. m.kind = "main" => m = page[p].main /\ m # NoStream
      BY <2>1 DEF StageInv, KindsInv, Published
    <3> QED BY <2>7, <2>8, <3>1 DEF Tracked
  <2>10. CASE c.sig = "offering"
    <3>1. AnswerComes(p, y) \/ Missed(p, y)
      BY <2>1, <2>2, <2>5, <2>10 DEF GlareInv, Waits, Connected
    <3>2. peers[q][x].ignored
      BY <2>2, <2>4, <3>1 DEF AnswerComes, Missed, Says
    <3> QED BY <2>2, <2>5, <2>9, <3>2
  <2>11. CASE c.sig = "stable"
    <3>1. m \in c.agreed
      BY <2>3, <2>5, <2>8, <2>11 DEF Tracked, Needy
    <3>2. Half(c, d, inbox[y], inbox[x], x, y)
      BY <2>1, <2>2, <2>5, <2>6 DEF TalkInv, Talk, Sound
    <3>3. \A S : ~AnswerIn(inbox[y], x, S)
      BY <2>3 DEF AnswerIn, Answers
    <3>4. m \in d.heard
      BY <2>7, <3>1, <3>2, <3>3 DEF Half
    <3>5. m \in streams[q][x]
      BY <2>1, <2>2, <2>6, <3>4 DEF HeardInv
    <3> QED BY <2>2, <2>5, <2>9, <3>5
  <2> QED BY <2>7, <2>10, <2>11
<1> QED
  BY <1>1, TalksAlways, PTL

=============================================================================
