------------------------- MODULE MqttFramingProofs -------------------------
(***************************************************************************)
(* Proofs about the MQTT transport's two byte streams, for any number of   *)
(* writing threads, any messages, topic and base.                          *)
(***************************************************************************)
EXTENDS MqttFraming, MqttCodecProofs

-----------------------------------------------------------------------------
(* Packets at the head of a stream.                                        *)

\* Two rows of digits that end at their last one and begin the same stream
\* are the same.
SameStream(d, s, e, t) == d \o s = e \o t
LEMMA SameDigits ==
  ASSUME NEW d \in Seq(Nat), NEW e \in Seq(Nat), NEW s \in Seq(Nat), NEW t \in Seq(Nat),
         EndsAtLast(d), EndsAtLast(e), SameStream(d, s, e, t)
  PROVE  d = e /\ s = t
<1>1. /\ Len(d) \in Nat /\ Len(e) \in Nat /\ Len(d) > 0 /\ Len(e) > 0
      /\ Len(s) \in Nat /\ Len(t) \in Nat
  BY LenProperties DEF EndsAtLast
<1>2. /\ \A i \in 1..(Len(d) + Len(s)) : (d \o s)[i] = IF i <= Len(d) THEN d[i] ELSE s[i - Len(d)]
      /\ \A i \in 1..(Len(e) + Len(t)) : (e \o t)[i] = IF i <= Len(e) THEN e[i] ELSE t[i - Len(e)]
      /\ Len(d \o s) = Len(d) + Len(s) /\ Len(e \o t) = Len(e) + Len(t)
  BY ConcatProperties
<1>3. \A i \in 1..(Len(d) + Len(s)) : i <= Len(d) /\ i <= Len(e) => d[i] = e[i]
  BY <1>1, <1>2 DEF SameStream
<1>4. ~(Len(d) < Len(e))
  <2>1. SUFFICES ASSUME Len(d) < Len(e) PROVE FALSE
    OBVIOUS
  <2>2. Len(d) \in 1..(Len(e) - 1) /\ Len(d) \in 1..(Len(d) + Len(s)) /\ Len(d) <= Len(e)
    BY <1>1, <2>1
  <2>3. d[Len(d)] = e[Len(d)]
    BY <1>1, <1>3, <2>2
  <2>4. QED
    BY <2>2, <2>3 DEF EndsAtLast
<1>5. ~(Len(e) < Len(d))
  <2>1. SUFFICES ASSUME Len(e) < Len(d) PROVE FALSE
    OBVIOUS
  <2>2. Len(e) \in 1..(Len(d) - 1) /\ Len(e) \in 1..(Len(d) + Len(s)) /\ Len(e) <= Len(d)
    BY <1>1, <2>1
  <2>3. d[Len(e)] = e[Len(e)]
    BY <1>1, <1>3, <2>2
  <2>4. QED
    BY <2>2, <2>3 DEF EndsAtLast
<1>6. Len(d) = Len(e)
  BY <1>1, <1>4, <1>5
<1>7. QED
  BY <1>6, SameParts DEF SameStream

\* What the receiver has read when it has read a packet: its first byte, its
\* digits, and as many bytes as they say.
Reads(h, d, p, tc, first, body, rest) ==
  ((<<h>> \o d) \o p) \o tc = Framed(first, body) \o rest
Whole(d, p) == EndsAtLast(d) /\ Len(d) <= MaxDigits /\ Len(p) = DecodeLength(d)
\* A receiver that has read a whole packet has read the one that was sent.
LEMMA ReadsPacket ==
  ASSUME NEW first \in Nat, NEW body \in Seq(Nat), NEW rest \in Seq(Nat),
         NEW h \in Nat, NEW d \in Seq(Nat), NEW p \in Seq(Nat), NEW tc \in Seq(Nat),
         Whole(d, p), Reads(h, d, p, tc, first, body, rest)
  PROVE  h = first /\ p = body /\ tc = rest
<1>1. Len(body) \in Nat
  BY LenProperties
<1>2. PICK e \in Seq(Nat) : e = RemainingLength[Len(body)] /\ EndsAtLast(e)
  BY <1>1, RemainingLengthUnfolds, EncodedEndsAtLast
<1>3. PICK hh \in Seq(Nat), ff \in Seq(Nat) :
        hh = <<h>> /\ ff = <<first>> /\ Len(hh) = 1 /\ Len(ff) = 1 /\ hh[1] = h /\ ff[1] = first
  <2>1. <<h>> \in Seq(Nat) /\ Len(<<h>>) = 1 /\ <<h>>[1] = h
    BY OneElement
  <2>2. <<first>> \in Seq(Nat) /\ Len(<<first>>) = 1 /\ <<first>>[1] = first
    BY OneElement
  <2>3. QED
    BY <2>1, <2>2
<1>4. PICK x \in Seq(Nat), y \in Seq(Nat) : x = p \o tc /\ y = body \o rest
  BY ConcatProperties
<1>5. PICK u \in Seq(Nat), v \in Seq(Nat) : u = d \o x /\ v = e \o y
  BY ConcatProperties
<1>6. ((hh \o d) \o p) \o tc = hh \o u
  <2>1. hh \o d \in Seq(Nat)
    BY ConcatProperties
  <2>2. Associative(hh \o d, p, tc) /\ Associative(hh, d, x)
    BY <2>1, ConcatIsAssociative
  <2>3. QED
    BY <1>4, <1>5, <2>2, Zenon DEF Associative
<1>7. ((ff \o e) \o body) \o rest = ff \o v
  <2>1. ff \o e \in Seq(Nat)
    BY ConcatProperties
  <2>2. Associative(ff \o e, body, rest) /\ Associative(ff, e, y)
    BY <2>1, ConcatIsAssociative
  <2>3. QED
    BY <1>4, <1>5, <2>2, Zenon DEF Associative
<1>8. Framed(first, body) = (ff \o e) \o body
  BY <1>2, <1>3 DEF Framed
<1>9. hh \o u = ff \o v
  BY <1>3, <1>6, <1>7, <1>8, Zenon DEF Reads
<1>10. hh = ff /\ u = v
  BY <1>3, <1>9, SameParts
<1>11. d = e /\ x = y
  <2>1. SameStream(d, x, e, y)
    BY <1>5, <1>10 DEF SameStream
  <2>2. QED
    BY <1>2, <2>1, SameDigits DEF Whole
<1>12. Len(p) = Len(body)
  <2>1. Len(RemainingLength[Len(body)]) <= MaxDigits
    BY <1>2, <1>11 DEF Whole
  <2>2. DecodeLength(RemainingLength[Len(body)]) = Len(body)
    BY <1>1, <2>1, LengthsRoundTrip, Zenon
  <2>3. QED
    BY <1>2, <1>11, <2>2 DEF Whole
<1>13. p = body /\ tc = rest
  BY <1>4, <1>11, <1>12, SameParts
<1>14. QED
  BY <1>3, <1>10, <1>13

\* A length without an end is never read to its end.
LEMMA EndlessHasNoEnd ==
  ASSUME NEW rest \in Seq(Nat),
         NEW h \in Nat, NEW d \in Seq(Nat), NEW p \in Seq(Nat), NEW tc \in Seq(Nat),
         EndsAtLast(d), Len(d) <= MaxDigits,
         ((<<h>> \o d) \o p) \o tc = Endless \o rest
  PROVE  FALSE
<1>1. Base \in Nat
  BY CodecAssumption DEF CodecAssumption
<1>2. PICK hd \in Seq(Nat) : hd = <<h>> \o d /\ Len(hd) = Len(d) + 1 /\ \A i \in 1..Len(d) : hd[i + 1] = d[i]
  <2>1. PICK t \in Seq(Nat) : t = <<h>> \o d
    BY ConsProperties
  <2>2. Len(t) = Len(d) + 1 /\ \A i \in 1..Len(d) : t[i + 1] = d[i]
    BY <2>1, ConsProperties
  <2>3. QED
    BY <2>1, <2>2
<1>3. PICK b \in Seq(Nat) : b = [i \in 1..4 |-> Base] /\ Len(b) = 4
  <2>1. [i \in 1..4 |-> Base] \in Seq(Nat) /\ Len([i \in 1..4 |-> Base]) = 4
    BY <1>1
  <2>2. QED
    BY <2>1
<1>4. PICK en \in Seq(Nat) : en = <<48>> \o b /\ Len(en) = Len(b) + 1 /\ \A i \in 1..Len(b) : en[i + 1] = b[i]
  <2>1. PICK first \in Nat : first = 48
    OBVIOUS
  <2>2. PICK t \in Seq(Nat) : t = <<first>> \o b
    BY ConsProperties
  <2>3. Len(t) = Len(b) + 1 /\ \A i \in 1..Len(b) : t[i + 1] = b[i]
    BY <2>2, ConsProperties
  <2>4. QED
    BY <2>1, <2>2, <2>3
<1>5. Endless = en
  BY <1>3, <1>4 DEF Endless
<1>6. PICK x \in Seq(Nat) : x = p \o tc
  BY ConcatProperties
<1>7. (hd \o p) \o tc = hd \o x
  <2>1. Associative(hd, p, tc)
    BY ConcatIsAssociative
  <2>2. QED
    BY <1>6, <2>1, Zenon DEF Associative
<1>8. hd \o x = en \o rest
  BY <1>2, <1>5, <1>7, Zenon
<1>9. /\ Len(d) \in Nat /\ Len(d) > 0 /\ Len(d) <= 4 /\ Len(x) \in Nat /\ Len(rest) \in Nat
      /\ IsLastDigit(d[Len(d)])
  BY LenProperties DEF EndsAtLast, MaxDigits
<1>10. (hd \o x)[Len(d) + 1] = d[Len(d)]
  <2>1. \A i \in 1..(Len(hd) + Len(x)) : (hd \o x)[i] = IF i <= Len(hd) THEN hd[i] ELSE x[i - Len(hd)]
    BY ConcatProperties
  <2>2. Len(d) + 1 \in 1..(Len(hd) + Len(x)) /\ Len(d) + 1 <= Len(hd) /\ Len(d) \in 1..Len(d)
    BY <1>2, <1>9
  <2>3. QED
    BY <1>2, <2>1, <2>2
<1>11. (en \o rest)[Len(d) + 1] = Base
  <2>1. \A i \in 1..(Len(en) + Len(rest)) : (en \o rest)[i] = IF i <= Len(en) THEN en[i] ELSE rest[i - Len(en)]
    BY ConcatProperties
  <2>2. Len(d) + 1 \in 1..(Len(en) + Len(rest)) /\ Len(d) + 1 <= Len(en) /\ Len(d) \in 1..Len(b)
    <3>1. PICK l \in Nat, r \in Nat : l = Len(d) /\ r = Len(rest)
      BY <1>9
    <3>2. Len(en) = 5 /\ Len(b) = 4 /\ l > 0 /\ l <= 4
      BY <1>3, <1>4, <1>9, <3>1
    <3>3. l + 1 \in 1..(5 + r) /\ l + 1 <= 5 /\ l \in 1..4
      BY <3>2
    <3>4. QED
      BY <3>1, <3>2, <3>3
  <2>3. b[Len(d)] = Base
    BY <1>3, <2>2
  <2>4. QED
    BY <1>4, <2>1, <2>2, <2>3
<1>12. d[Len(d)] = Base
  BY <1>8, <1>10, <1>11
<1>13. QED
  BY <1>1, <1>9, <1>12 DEF IsLastDigit

\* One sequence goes on as another does, as far as both go.
Agree(s, t) == \A i \in 1..Len(s) : i <= Len(t) => s[i] = t[i]

\* Where the broker sees a packet end is where it ends.
LEMMA EndIsFound ==
  ASSUME NEW first \in Nat, NEW body \in Seq(Nat), NEW s \in Seq(Nat),
         Agree(s, Framed(first, body)),
         NEW end \in PacketEnds(s)
  PROVE  end = Len(Framed(first, body)) /\ end <= Len(s)
<1>1. Len(body) \in Nat /\ Len(s) \in Nat
  BY LenProperties
<1>2. PICK d \in Seq(Nat) : d = RemainingLength[Len(body)] /\ EndsAtLast(d)
  BY <1>1, RemainingLengthUnfolds, EncodedEndsAtLast
<1>3. PICK f \in Seq(Nat) : f = <<first>> \o d /\ Len(f) = Len(d) + 1 /\ \A i \in 1..Len(d) : f[i + 1] = d[i]
  <2>1. PICK t \in Seq(Nat) : t = <<first>> \o d
    BY ConsProperties
  <2>2. Len(t) = Len(d) + 1 /\ \A i \in 1..Len(d) : t[i + 1] = d[i]
    BY <2>1, ConsProperties
  <2>3. QED
    BY <2>1, <2>2
<1>4. PICK q \in Seq(Nat) : /\ q = f \o body /\ Len(q) = Len(f) + Len(body)
                           /\ \A i \in 1..(Len(f) + Len(body)) :
                                q[i] = IF i <= Len(f) THEN f[i] ELSE body[i - Len(f)]
  <2>1. PICK t \in Seq(Nat) : t = f \o body
    BY ConcatProperties
  <2>2. /\ Len(t) = Len(f) + Len(body)
        /\ \A i \in 1..(Len(f) + Len(body)) :
             t[i] = IF i <= Len(f) THEN f[i] ELSE body[i - Len(f)]
    BY <2>1, ConcatProperties
  <2>3. QED
    BY <2>1, <2>2
<1>5. Framed(first, body) = q
  BY <1>2, <1>3, <1>4 DEF Framed
<1>6. Len(d) \in Nat /\ Len(d) > 0 /\ IsLastDigit(d[Len(d)])
      /\ \A i \in 1..(Len(d) - 1) : ~IsLastDigit(d[i])
  BY <1>2, LenProperties DEF EndsAtLast
<1>7. \A i \in 1..Len(d) : q[i + 1] = d[i] /\ (i + 1 <= Len(s) => s[i + 1] = d[i])
  <2>1. ASSUME NEW i \in 1..Len(d) PROVE q[i + 1] = d[i] /\ (i + 1 <= Len(s) => s[i + 1] = d[i])
    <3>1. i + 1 \in 1..(Len(f) + Len(body)) /\ i + 1 <= Len(f) /\ i + 1 <= Len(q)
      BY <1>1, <1>3, <1>4, <1>6
    <3>2. q[i + 1] = d[i]
      BY <1>3, <1>4, <3>1
    <3>3. i + 1 <= Len(s) => s[i + 1] = q[i + 1]
      BY <1>1, <1>5, <3>1 DEF Agree
    <3>4. QED
      BY <3>2, <3>3
  <2>2. QED
    BY <2>1
<1> DEFINE E == {i \in 2..5 : i <= Len(s) /\ IsLastDigit(s[i])}
<1>8. PICK m \in {DigitsEnd(s)} \ {0} : end = m + DecodeLength(SubSeq(s, 2, m)) /\ end <= Len(s)
  BY DEF PacketEnds
<1>9. E # {} /\ m = Min(E)
  BY <1>8 DEF DigitsEnd
<1>10. m \in E /\ \A i \in E : m <= i
  <2>1. E \subseteq Nat
    OBVIOUS
  <2>2. \E l \in E : \A i \in E : l <= i
    BY <1>9, <2>1, LeastNumber
  <2> HIDE DEF E
  <2>3. QED
    BY <1>9, <2>2 DEF Min
<1>11. PICK k \in 2..5 : k = m /\ k <= Len(s) /\ IsLastDigit(s[k])
  BY <1>10
<1> HIDE DEF E
<1>12. Len(d) \in Nat /\ Len(d) > 0 /\ k \in 2..5 /\ k <= Len(s)
  BY <1>6, <1>11
<1>13. k = Len(d) + 1
  <2>1. CASE k < Len(d) + 1
    <3>1. k - 1 \in 1..(Len(d) - 1) /\ k - 1 \in 1..Len(d) /\ (k - 1) + 1 = k /\ k <= Len(s)
      BY <1>12, <2>1
    <3>2. s[k] = d[k - 1]
      BY <1>7, <3>1
    <3>3. QED
      BY <1>6, <1>11, <3>1, <3>2
  <2>2. CASE k > Len(d) + 1
    <3>1. Len(d) \in 1..Len(d) /\ Len(d) + 1 \in 2..5 /\ Len(d) + 1 <= Len(s)
      <4>1. PICK l \in Nat : l = Len(d)
        BY <1>12
      <4>2. l > 0 /\ l < k - 1
        BY <1>12, <2>2, <4>1
      <4>3. l \in 1..l /\ l + 1 \in 2..5
        BY <1>12, <4>2
      <4>4. l + 1 <= Len(s)
        BY <1>1, <1>12, <4>2
      <4>5. QED
        BY <4>1, <4>3, <4>4
    <3>2. IsLastDigit(s[Len(d) + 1])
      BY <1>6, <1>7, <3>1
    <3>3. Len(d) + 1 \in E
      BY <3>1, <3>2 DEF E
    <3>4. k <= Len(d) + 1
      BY <1>10, <1>11, <3>3
    <3>5. QED
      BY <1>12, <2>2, <3>4
  <2>3. QED
    BY <1>12, <2>1, <2>2
<1>14. SubSeq(s, 2, k) = d
  <2>1. k \in 2..5 /\ k <= Len(s)
    BY <1>11
  <2>2. \A i \in 2..k : s[i] \in Nat
    BY <1>1, <2>1, ElementOfSeq
  <2>3. /\ SubSeq(s, 2, k) \in Seq(Nat)
        /\ Len(SubSeq(s, 2, k)) = k - 1
        /\ \A i \in 1..(k - 1) : SubSeq(s, 2, k)[i] = s[i + 1]
    <3>1. 2 \in Int /\ k \in Int
      BY <2>1
    <3>2. QED
      BY <2>1, <2>2, <3>1, SubSeqProperties
  <2>4. \A i \in 1..Len(d) : SubSeq(s, 2, k)[i] = d[i]
    BY <1>1, <1>6, <1>7, <1>13, <2>1, <2>3
  <2>5. QED
    BY <1>6, <1>13, <2>3, <2>4, SeqEqual
<1>15. DecodeLength(d) = Len(body)
  <2>1. Len(RemainingLength[Len(body)]) <= MaxDigits
    <3>1. PICK l \in Nat : l = Len(d)
      BY <1>12
    <3>2. k = l + 1
      BY <1>13, <3>1
    <3>3. l <= 4
      BY <1>12, <3>2
    <3>4. QED
      BY <1>2, <3>1, <3>3 DEF MaxDigits
  <2>2. DecodeLength(RemainingLength[Len(body)]) = Len(body)
    BY <1>1, <2>1, LengthsRoundTrip, Zenon
  <2>3. QED
    BY <1>2, <2>2
<1>16. Len(q) = end
  <2>1. end = k + Len(body)
    BY <1>8, <1>11, <1>14, <1>15
  <2>2. Len(q) = (Len(d) + 1) + Len(body)
    BY <1>3, <1>4
  <2>3. QED
    BY <1>13, <2>1, <2>2
<1>17. QED
  BY <1>5, <1>8, <1>16
-----------------------------------------------------------------------------
(* What is written and what is sent.                                       *)

\* The topic fits in a string.
LEMMA TopicFits ==
  /\ Topic \in Seq(Nat) /\ Len(Topic) = TopicLength
  /\ Len(Topic) <= U16 - 1
  /\ TopicLength \in Nat /\ U16 \in Nat
<1>1. PICK top \in Nat : top = U16
  BY CodecAssumption DEF U16, CodecAssumption
<1>2. TopicLength \in Nat /\ TopicLength <= top - 1
  BY <1>1, FramingAssumption DEF FramingAssumption
<1>3. Topic \in Seq(Nat) /\ Len(Topic) = TopicLength
  BY <1>2 DEF Topic
<1>4. QED
  BY <1>1, <1>2, <1>3

\* A message is a number and a length.
LEMMA MessageParts ==
  ASSUME NEW m \in Messages
  PROVE  m \in Nat \X Sizes /\ m[1] \in Nat /\ m[2] \in Nat /\ m[2] > 0
<1>1. MaxWrites \in Nat /\ Sizes \subseteq Nat \ {0}
  BY FramingAssumption DEF FramingAssumption
<1>2. PICK a \in 1..MaxWrites, b \in Sizes : m = <<a, b>>
  BY DEF Messages
<1>3. a \in Nat /\ b \in Nat /\ b > 0
  BY <1>1
<1>4. QED
  BY <1>2, <1>3

\* A payload is a sequence of bytes of the size its message has.
LEMMA PayloadType ==
  ASSUME NEW m \in Messages
  PROVE  Payload(m) \in Seq(Nat) /\ Len(Payload(m)) = m[2]
<1>1. PICK a \in Nat, b \in Nat : a = m[1] /\ b = m[2]
  BY MessageParts
<1>2. [i \in 1..b |-> a] \in Seq(Nat) /\ Len([i \in 1..b |-> a]) = b
  OBVIOUS
<1>3. QED
  BY <1>1, <1>2 DEF Payload

\* Behind its topic a payload is found where receiver_loop() looks for it.
LEMMA PayloadIsFound ==
  ASSUME NEW bytes \in Seq(Nat)
  PROVE  /\ AppendString(Topic) \o bytes \in Seq(Nat)
         /\ Len(AppendString(Topic) \o bytes) = 2 + TopicLength + Len(bytes)
         /\ Message(AppendString(Topic) \o bytes) = bytes
<1>1. PICK h \in Seq(Nat) : /\ h = AppendString(Topic) /\ Len(h) = 2 + TopicLength
                            /\ DecodeU16(h \o bytes) = TopicLength
  BY TopicFits, StringIsMeasured
<1>2. PICK b \in Seq(Nat) : b = h \o bytes /\ Len(b) = Len(h) + Len(bytes)
  BY ConcatProperties
<1>3. PICK n \in Nat : n = TopicLength /\ Len(h) = 2 + n
  BY <1>1, TopicFits
<1>4. Len(bytes) \in Nat /\ Len(b) \in Nat /\ Len(b) = 2 + n + Len(bytes)
  BY <1>2, <1>3, LenProperties
<1>5. DecodeU16(b) = n
  BY <1>1, <1>2, <1>3
<1>6. ~(Len(b) < 2 \/ Len(b) < 2 + n)
  BY <1>3, <1>4
<1>7. Message(b) = SubSeq(b, 3 + n, Len(b))
  BY <1>5, <1>6 DEF Message
<1>8. SubSeq(b, 3 + n, Len(b)) = bytes
  <2>1. PICK k \in Nat : k = 2 + n /\ k <= Len(b) /\ Len(h) = k /\ k + 1 = 3 + n
    BY <1>3, <1>4
  <2>2. k \in 0..Len(b)
    BY <1>4, <2>1
  <2>3. PICK u \in Seq(Nat), v \in Seq(Nat) :
          /\ u = SubSeq(b, 1, k) /\ v = SubSeq(b, k + 1, Len(b))
          /\ Len(u) = k /\ u \o v = b
    <3>1. /\ SubSeq(b, 1, k) \in Seq(Nat) /\ SubSeq(b, k + 1, Len(b)) \in Seq(Nat)
          /\ Len(SubSeq(b, 1, k)) = k /\ SubSeq(b, 1, k) \o SubSeq(b, k + 1, Len(b)) = b
      BY <2>2, SplitSeq
    <3>2. QED
      BY <3>1
  <2>4. v = bytes
    BY <1>2, <2>1, <2>3, SameParts
  <2>5. QED
    BY <2>1, <2>3, <2>4
<1>9. QED
  BY <1>1, <1>2, <1>3, <1>4, <1>7, <1>8

\* What receiver_loop() queues of a packet, and the packets of which it
\* queues some data.
Queued(first, body) == IF PacketType(first) = 3 THEN Message(body) ELSE <<>>
Carries(packet, data) ==
  \E first \in Nat, body \in Seq(Nat) : packet = Framed(first, body) /\ Queued(first, body) = data

\* What write() sends carries the message.
LEMMA PacketCarries ==
  ASSUME NEW m \in Messages
  PROVE  Packet[m] \in Seq(Nat) /\ Len(Packet[m]) > 0 /\ Carries(Packet[m], Payload(m))
<1>1. PICK bytes \in Seq(Nat) : bytes = Payload(m)
  BY PayloadType
<1>2. PICK body \in Seq(Nat) : /\ body = AppendString(Topic) \o bytes
                               /\ Message(body) = bytes
                               /\ PublishPacket(Topic, bytes) = Framed(48, body)
  BY TopicFits, PublishIsFramed, PayloadIsFound
<1>3. PICK first \in Nat : first = 48
  OBVIOUS
<1>4. PacketType(first) = 3
  BY <1>3 DEF PacketType
<1>5. PICK p \in Seq(Nat) : p = Framed(first, body) /\ Len(p) > 0
  <2>1. /\ Framed(first, body) \in Seq(Nat) /\ RemainingLength[Len(body)] \in Seq(Nat)
        /\ Len(Framed(first, body)) = 1 + Len(RemainingLength[Len(body)]) + Len(body)
    BY FramedType
  <2>2. Len(RemainingLength[Len(body)]) \in Nat /\ Len(body) \in Nat
    BY <2>1, LenProperties
  <2>3. QED
    BY <2>1, <2>2
<1>6. Packet[m] = p
  BY <1>1, <1>2, <1>3, <1>5 DEF Packet
<1>7. Queued(first, body) = bytes
  BY <1>2, <1>4 DEF Queued
<1>8. Carries(p, bytes)
  BY <1>5, <1>7 DEF Carries
<1>9. QED
  BY <1>1, <1>5, <1>6, <1>8

\* The broker's own packets carry nothing, but for the one that has no end.
LEMMA OtherCarriesNothing ==
  ASSUME NEW p \in OtherPackets
  PROVE  p \in Seq(Nat) /\ (p = Endless \/ Carries(p, <<>>))
<1>1. CASE p = Endless
  <2>1. Base \in Nat
    BY CodecAssumption DEF CodecAssumption
  <2>2. PICK first \in Nat : first = 48
    OBVIOUS
  <2>3. PICK b \in Seq(Nat) : b = [i \in 1..4 |-> Base]
    <3>1. [i \in 1..4 |-> Base] \in Seq(Nat)
      BY <2>1
    <3>2. QED
      BY <3>1
  <2>4. <<first>> \o b \in Seq(Nat)
    BY ConsProperties
  <2>5. QED
    BY <1>1, <2>2, <2>3, <2>4 DEF Endless
<1>2. CASE p = <<144>> \o RemainingLength[3] \o <<0, 1, 0>>
  <2>1. PICK first \in Nat : first = 144
    OBVIOUS
  <2>2. PICK body \in Seq(Nat) : body = <<0, 1, 0>> /\ Len(body) = 3
    <3>1. <<0, 1, 0>> \in Seq(Nat) /\ Len(<<0, 1, 0>>) = 3
      OBVIOUS
    <3>2. QED
      BY <3>1
  <2>3. p = Framed(first, body)
    BY <1>2, <2>1, <2>2 DEF Framed
  <2>4. ~(PacketType(first) = 3)
    BY <2>1 DEF PacketType
  <2>5. Queued(first, body) = <<>>
    BY <2>4 DEF Queued
  <2>6. QED
    BY <2>3, <2>5, FramedType DEF Carries
<1>3. CASE p = <<208, 0>>
  <2>1. PICK first \in Nat : first = 208
    OBVIOUS
  <2>2. PICK body \in Seq(Nat) : body = <<>> /\ Len(body) = 0
    BY EmptySeq
  <2>3. p = Framed(first, body)
    <3>1. RemainingLength[0] = <<0>>
      <4>1. Encodes(RemainingLength, 0) /\ 0 < Base
        BY RemainingLengthUnfolds, CodecAssumption DEF CodecAssumption
      <4>2. QED
        BY <4>1 DEF Encodes
    <3>2. PICK zero \in Seq(Nat) : zero = <<0>>
      BY OneElement
    <3>3. PICK s \in Seq(Nat) : s = <<first>> \o zero
      BY ConsProperties
    <3>4. s \o <<>> = s
      BY ConcatEmptySeq
    <3>5. p = s
      BY <1>3, <2>1, <3>2, <3>3
    <3>6. QED
      BY <2>2, <3>1, <3>2, <3>3, <3>4, <3>5 DEF Framed
  <2>4. ~(PacketType(first) = 3)
    BY <2>1 DEF PacketType
  <2>5. Queued(first, body) = <<>>
    BY <2>4 DEF Queued
  <2>6. QED
    BY <2>3, <2>5, FramedType DEF Carries
<1>4. CASE p = <<49>> \o RemainingLength[2 + TopicLength] \o AppendString(Topic)
  <2>1. PICK first \in Nat : first = 49
    OBVIOUS
  <2>2. PICK none \in Seq(Nat) : none = <<>> /\ Len(none) = 0
    BY EmptySeq
  <2>3. PICK h \in Seq(Nat) : h = AppendString(Topic) /\ Len(h) = 2 + TopicLength
    BY TopicFits, StringIsMeasured
  <2>4. h \o none = h
    BY <2>2, ConcatEmptySeq
  <2>5. Message(h) = none
    BY <2>3, <2>4, PayloadIsFound
  <2>6. p = Framed(first, h)
    BY <1>4, <2>1, <2>3 DEF Framed
  <2>7. Queued(first, h) = <<>>
    BY <2>2, <2>5 DEF Queued
  <2>8. QED
    BY <2>6, <2>7, FramedType DEF Carries
<1>5. QED
  BY <1>1, <1>2, <1>3, <1>4 DEF OtherPackets

-----------------------------------------------------------------------------
(* What is on the wire: messages passed on, and packets of the broker's own *)

\* An item of the stream to the client: the messages it carries (one, or none)
\* and its bytes.
Items == {<<<<m>>, Packet[m]>> : m \in Messages} \cup {<<<<>>, p>> : p \in OtherPackets}
Told == [item \in Items |-> item[1]]
Wire == [item \in Items |-> item[2]]
Body == [m \in Messages |-> Payload(m)]

\* Payloads, packets and what a client makes of them are all sequences.
LEMMA WireFunctions ==
  /\ YieldsSeqs(Body, Messages, Nat) /\ YieldsSeqs(Packet, Messages, Nat)
  /\ YieldsSeqs(Wire, Items, Nat) /\ YieldsSeqs(Told, Items, Messages)
<1>1. \A m \in Messages : Payload(m) \in Seq(Nat) /\ Packet[m] \in Seq(Nat)
  BY PayloadType, PacketCarries
<1>2. Body \in [Messages -> Seq(Nat)]
  BY <1>1 DEF Body
<1>3. Packet \in [Messages -> Seq(Nat)]
  <2>1. Packet = [m \in Messages |-> Packet[m]]
    BY DEF Packet
  <2>2. QED
    BY <1>1, <2>1
<1>4. \A item \in Items : item[1] \in Seq(Messages) /\ item[2] \in Seq(Nat)
  <2>1. ASSUME NEW m \in Messages, NEW item, item = <<<<m>>, Packet[m]>>
        PROVE  item[1] \in Seq(Messages) /\ item[2] \in Seq(Nat)
    <3>1. <<m>> \in Seq(Messages)
      BY OneElement
    <3>2. QED
      BY <1>1, <2>1, <3>1
  <2>2. ASSUME NEW p \in OtherPackets, NEW item, item = <<<<>>, p>>
        PROVE  item[1] \in Seq(Messages) /\ item[2] \in Seq(Nat)
    <3>1. <<>> \in Seq(Messages)
      BY EmptySeq
    <3>2. p \in Seq(Nat)
      BY OtherCarriesNothing
    <3>3. QED
      BY <2>2, <3>1, <3>2
  <2>3. QED
    BY <2>1, <2>2 DEF Items
<1>5. Told \in [Items -> Seq(Messages)] /\ Wire \in [Items -> Seq(Nat)]
  BY <1>4 DEF Told, Wire
<1>6. QED
  BY <1>2, <1>3, <1>5 DEF YieldsSeqs

\* What an item is to the receiver.
LEMMA ItemCarries ==
  ASSUME NEW item \in Items
  PROVE  Wire[item] = Endless \/ Carries(Wire[item], Flat(Body, Told[item]))
<1>1. ASSUME NEW m \in Messages, item = <<<<m>>, Packet[m]>>
      PROVE  Carries(Wire[item], Flat(Body, Told[item]))
  <2>1. Wire[item] = Packet[m] /\ Told[item] = <<m>>
    BY <1>1 DEF Wire, Told
  <2>2. Flat(Body, <<m>>) = Body[m]
    BY WireFunctions, FlatOne
  <2>3. Body[m] = Payload(m)
    BY DEF Body
  <2>4. QED
    BY <2>1, <2>2, <2>3, PacketCarries
<1>2. ASSUME NEW p \in OtherPackets, item = <<<<>>, p>>
      PROVE  Wire[item] = Endless \/ Carries(Wire[item], Flat(Body, Told[item]))
  <2>1. Wire[item] = p /\ Told[item] = <<>>
    BY <1>2 DEF Wire, Told
  <2>2. Flat(Body, <<>>) = <<>>
    BY FlatEmpty
  <2>3. QED
    BY <2>1, <2>2, OtherCarriesNothing
<1>3. QED
  BY <1>1, <1>2 DEF Items

-----------------------------------------------------------------------------
(* The receiver's place in the stream.                                     *)

\* Digits that have not ended yet.
NoEnd(d) == \A i \in 1..Len(d) : ~IsLastDigit(d[i])
Ended(d) == d # <<>> /\ IsLastDigit(Last(d))

\* Reading one more digit either ends a length or leaves it without an end.
LEMMA DigitRead ==
  ASSUME NEW d \in Seq(Nat), NEW x \in Nat, NoEnd(d)
  PROVE  /\ Append(d, x) \in Seq(Nat) /\ Len(Append(d, x)) = Len(d) + 1
         /\ IsLastDigit(x) => EndsAtLast(Append(d, x))
         /\ ~IsLastDigit(x) => ~Ended(Append(d, x)) /\ NoEnd(Append(d, x))
<1>1. PICK e \in Seq(Nat) : e = Append(d, x)
  BY AppendProperties
<1>2. /\ Len(d) \in Nat /\ Len(e) = Len(d) + 1 /\ e[Len(d) + 1] = x
      /\ \A i \in 1..Len(d) : e[i] = d[i]
  BY <1>1, AppendProperties, LenProperties
<1>3. \A i \in 1..Len(d) : ~IsLastDigit(e[i])
  BY <1>2 DEF NoEnd
<1>4. IsLastDigit(x) => EndsAtLast(e)
  BY <1>2, <1>3 DEF EndsAtLast
<1>5. ASSUME ~IsLastDigit(x) PROVE ~Ended(e) /\ NoEnd(e)
  <2>1. ~IsLastDigit(Last(e))
    BY <1>2, <1>5 DEF Last
  <2>2. ASSUME NEW i \in 1..Len(e) PROVE ~IsLastDigit(e[i])
    <3>1. i = Len(d) + 1 \/ i \in 1..Len(d)
      BY <1>2
    <3>2. QED
      BY <1>2, <1>3, <1>5, <3>1
  <2>3. QED
    BY <2>1, <2>2 DEF Ended, NoEnd
<1>6. QED
  BY <1>1, <1>2, <1>4, <1>5

\* The smaller of two numbers is one of them and not above either.
LEMMA LeastOfTwo ==
  ASSUME NEW a \in Nat, NEW b \in Nat
  PROVE  Min({a, b}) \in {a, b} /\ Min({a, b}) <= a /\ Min({a, b}) <= b
<1>1. {a, b} \subseteq Nat /\ {a, b} # {}
  OBVIOUS
<1>2. \E m \in {a, b} : \A n \in {a, b} : m <= n
  BY <1>1, LeastNumber
<1>3. Min({a, b}) \in {a, b} /\ \A n \in {a, b} : Min({a, b}) <= n
  BY <1>2 DEF Min
<1>4. QED
  BY <1>3

\* Reading takes bytes from the front of what is to come and puts them behind
\* what has been read.
LEMMA HeaderRead ==
  ASSUME NEW s \in Seq(Nat), s # <<>>
  PROVE  /\ SubSeq(s, 1, 1) \in Seq(Nat) /\ Len(SubSeq(s, 1, 1)) = 1
         /\ Tail(s) \in Seq(Nat)
         /\ ((SubSeq(s, 1, 1) \o <<>>) \o <<>>) \o Tail(s) = s
<1>1. Len(s) \in Nat /\ Len(s) > 0
  BY EmptySeq, LenProperties
<1>2. /\ SubSeq(s, 1, 1) \in Seq(Nat) /\ SubSeq(s, 2, Len(s)) \in Seq(Nat)
      /\ Len(SubSeq(s, 1, 1)) = 1
      /\ SubSeq(s, 1, 1) \o SubSeq(s, 2, Len(s)) = s
  <2>1. PICK n \in 0..Len(s) : n = 1 /\ n + 1 = 2
    BY <1>1
  <2>2. /\ SubSeq(s, 1, n) \in Seq(Nat) /\ SubSeq(s, n + 1, Len(s)) \in Seq(Nat)
        /\ Len(SubSeq(s, 1, n)) = n
        /\ SubSeq(s, 1, n) \o SubSeq(s, n + 1, Len(s)) = s
    BY SplitSeq
  <2>3. QED
    BY <2>1, <2>2
<1>3. Tail(s) = SubSeq(s, 2, Len(s))
  BY <1>1
<1>4. PICK u \in Seq(Nat), v \in Seq(Nat) :
        u = SubSeq(s, 1, 1) /\ v = Tail(s) /\ Len(u) = 1 /\ u \o v = s
  BY <1>2, <1>3
<1>5. (u \o <<>>) \o <<>> = u
  BY ConcatEmptySeq
<1>6. QED
  BY <1>4, <1>5

DigitMoves(h, d, s) ==
  ((h \o Append(d, Head(s))) \o <<>>) \o Tail(s) = ((h \o d) \o <<>>) \o s
\* recv_packet() moves a digit from the socket into its locals: the stream is the same.
LEMMA DigitIsMoved ==
  ASSUME NEW h \in Seq(Nat), NEW d \in Seq(Nat), NEW s \in Seq(Nat), s # <<>>
  PROVE  Head(s) \in Nat /\ Tail(s) \in Seq(Nat) /\ DigitMoves(h, d, s)
<1>1. PICK x \in Nat, t \in Seq(Nat), one \in Seq(Nat) :
        x = Head(s) /\ t = Tail(s) /\ one = <<x>> /\ one \o t = s
  <2>1. /\ <<Head(s)>> \in Seq(Nat) /\ Tail(s) \in Seq(Nat) /\ Head(s) \in Nat
        /\ <<Head(s)>> \o Tail(s) = s
    BY HeadSplits
  <2>2. QED
    BY <2>1
<1>2. PICK e \in Seq(Nat) : e = Append(d, x) /\ e = d \o one
  <2>1. Append(d, x) \in Seq(Nat)
    BY AppendProperties
  <2>2. Append(d, x) = d \o <<x>>
    BY AppendIsConcat
  <2>3. QED
    BY <1>1, <2>1, <2>2
<1>3. PICK hd \in Seq(Nat), he \in Seq(Nat) : hd = h \o d /\ he = h \o e
  BY ConcatProperties
<1>4. he = hd \o one
  <2>1. Associative(h, d, one)
    BY ConcatIsAssociative
  <2>2. QED
    BY <1>2, <1>3, <2>1, Zenon DEF Associative
<1>5. he \o t = hd \o s
  <2>1. Associative(hd, one, t)
    BY ConcatIsAssociative
  <2>2. QED
    BY <1>1, <1>4, <2>1, Zenon DEF Associative
<1>6. he \o <<>> = he /\ hd \o <<>> = hd
  BY ConcatEmptySeq
<1>7. (he \o <<>>) \o t = (hd \o <<>>) \o s
  BY <1>5, <1>6
<1>8. QED
  BY <1>1, <1>2, <1>3, <1>7 DEF DigitMoves

PieceMoves(r, p, s, n) ==
  /\ p \o SubSeq(s, 1, n) \in Seq(Nat)
  /\ Len(p \o SubSeq(s, 1, n)) = Len(p) + n
  /\ SubSeq(s, n + 1, Len(s)) \in Seq(Nat)
  /\ (r \o (p \o SubSeq(s, 1, n))) \o SubSeq(s, n + 1, Len(s)) = (r \o p) \o s
\* recv_exact() moves a piece of any size into its buffer: the stream is the same.
LEMMA PieceIsMoved ==
  ASSUME NEW r \in Seq(Nat), NEW p \in Seq(Nat), NEW s \in Seq(Nat), NEW n \in 1..Len(s)
  PROVE  PieceMoves(r, p, s, n)
<1>1. n \in 0..Len(s)
  BY LenProperties
<1>2. PICK u \in Seq(Nat), v \in Seq(Nat) :
        /\ u = SubSeq(s, 1, n) /\ v = SubSeq(s, n + 1, Len(s))
        /\ Len(u) = n /\ u \o v = s
  <2>1. /\ SubSeq(s, 1, n) \in Seq(Nat) /\ SubSeq(s, n + 1, Len(s)) \in Seq(Nat)
        /\ Len(SubSeq(s, 1, n)) = n
        /\ SubSeq(s, 1, n) \o SubSeq(s, n + 1, Len(s)) = s
    BY <1>1, SplitSeq
  <2>2. QED
    BY <2>1
<1>3. PICK pu \in Seq(Nat), rp \in Seq(Nat) : pu = p \o u /\ rp = r \o p /\ Len(pu) = Len(p) + Len(u)
  <2>1. /\ p \o u \in Seq(Nat) /\ r \o p \in Seq(Nat) /\ Len(p \o u) = Len(p) + Len(u)
    BY ConcatProperties
  <2>2. QED
    BY <2>1
<1>4. r \o pu = rp \o u
  <2>1. Associative(r, p, u)
    BY ConcatIsAssociative
  <2>2. QED
    BY <1>3, <2>1, Zenon DEF Associative
<1>5. (r \o pu) \o v = rp \o s
  <2>1. Associative(rp, u, v)
    BY ConcatIsAssociative
  <2>2. QED
    BY <1>2, <1>4, <2>1, Zenon DEF Associative
<1>6. QED
  BY <1>2, <1>3, <1>5 DEF PieceMoves

-----------------------------------------------------------------------------
(* Parts of a packet, and moving what has been read or passed on.          *)

\* The first bytes of a sequence.
LEMMA FrontOfSeq ==
  ASSUME NEW p \in Seq(Nat), NEW n \in 0..Len(p)
  PROVE  /\ SubSeq(p, 1, n) \in Seq(Nat) /\ Len(SubSeq(p, 1, n)) = n
         /\ \A i \in 1..n : SubSeq(p, 1, n)[i] = p[i]
<1>1. Len(p) \in Nat /\ 1 \in Int /\ n \in Int /\ n \in Nat
  BY LenProperties
<1>2. \A i \in 1..n : p[i] \in Nat
  BY <1>1, ElementOfSeq
<1>3. /\ SubSeq(p, 1, n) \in Seq(Nat)
      /\ Len(SubSeq(p, 1, n)) = IF 1 <= n THEN n - 1 + 1 ELSE 0
      /\ \A i \in 1..(n - 1 + 1) : SubSeq(p, 1, n)[i] = p[1 + i - 1]
  BY <1>1, <1>2, SubSeqProperties
<1>4. /\ n - 1 + 1 = n /\ (1 <= n \/ n = 0)
      /\ \A i \in 1..n : 1 + i - 1 = i
  BY <1>1
<1>5. QED
  BY <1>3, <1>4

\* A send goes on where the last one ended.
LEMMA PieceIsSent ==
  ASSUME NEW p \in Seq(Nat), NEW from \in 0..(Len(p) - 1), NEW to \in (from + 1)..Len(p)
  PROVE  /\ SubSeq(p, from + 1, to) \in Seq(Nat)
         /\ SubSeq(p, 1, from) \o SubSeq(p, from + 1, to) = SubSeq(p, 1, to)
<1>1. PICK n \in Nat, k \in Int : n = Len(p) /\ k = from + 1
  <2>1. Len(p) \in Nat /\ from + 1 \in Int
    BY LenProperties
  <2>2. QED
    BY <2>1
<1>2. 1 \in 1..(Len(p) + 1) /\ from \in (1 - 1)..Len(p) /\ to \in from..Len(p) /\ to \in Int
  BY <1>1
<1>3. SubSeq(p, 1, from) \o SubSeq(p, from + 1, to) = SubSeq(p, 1, to)
  BY <1>2, ConcatAdjacentSubSeq
<1>4. \A i \in k..to : p[i] \in Nat
  <2>1. \A i \in k..to : i \in 1..Len(p)
    BY <1>1, <1>2
  <2>2. QED
    BY <2>1, ElementOfSeq
<1>5. SubSeq(p, k, to) \in Seq(Nat)
  BY <1>2, <1>4, SubSeqProperties
<1>6. QED
  BY <1>1, <1>3, <1>5

\* What is passed on moves from those that have been sent to those on their way.
MovesOn(a, t, x, c) == (a \o t) \o (x \o c) = (a \o (t \o x)) \o c
\* A message passed on by the broker keeps its place among all messages.
LEMMA PassedOn ==
  ASSUME NEW S, NEW a \in Seq(S), NEW t \in Seq(S), NEW x \in Seq(S), NEW c \in Seq(S)
  PROVE  MovesOn(a, t, x, c)
<1>1. PICK at \in Seq(S), tx \in Seq(S) : at = a \o t /\ tx = t \o x
  BY ConcatProperties
<1>2. Associative(at, x, c) /\ Associative(a, t, x)
  BY ConcatIsAssociative
<1>3. QED
  BY <1>1, <1>2, Zenon DEF Associative, MovesOn

\* What is taken moves from those on their way to those received.
MovesOver(a, x, t, c) == (a \o (x \o t)) \o c = ((a \o x) \o t) \o c
\* A message taken over by the client keeps its place among all messages.
LEMMA TakenOver ==
  ASSUME NEW S, NEW a \in Seq(S), NEW x \in Seq(S), NEW t \in Seq(S), NEW c \in Seq(S)
  PROVE  MovesOver(a, x, t, c)
<1>1. Associative(a, x, t)
  BY ConcatIsAssociative
<1>2. QED
  BY <1>1, Zenon DEF Associative, MovesOver

\* What has been read at least one digit of is not the end of the stream.
LEMMA SomethingIsRead ==
  ASSUME NEW h \in Seq(Nat), NEW d \in Seq(Nat), NEW p \in Seq(Nat), NEW s \in Seq(Nat),
         d # <<>>
  PROVE  ((h \o d) \o p) \o s # <<>>
<1>1. Len(h) \in Nat /\ Len(d) \in Nat /\ Len(d) > 0 /\ Len(p) \in Nat /\ Len(s) \in Nat
  BY EmptySeq, LenProperties
<1>2. PICK x \in Seq(Nat) : x = h \o d /\ Len(x) = Len(h) + Len(d)
  BY ConcatProperties
<1>3. PICK y \in Seq(Nat) : y = x \o p /\ Len(y) = Len(x) + Len(p)
  BY ConcatProperties
<1>4. y \o s \in Seq(Nat) /\ Len(y \o s) = Len(y) + Len(s)
  BY ConcatProperties
<1>5. Len(y \o s) > 0
  BY <1>1, <1>2, <1>3, <1>4
<1>6. QED
  BY <1>2, <1>3, <1>4, <1>5, EmptySeq

\* A header is one byte.
LEMMA OneByte ==
  ASSUME NEW s \in Seq(Nat), Len(s) <= 1, s # <<>>
  PROVE  \E x \in Nat : s = <<x>> /\ s[1] = x
<1>1. Len(s) = 1 /\ s[1] \in Nat
  <2>1. PICK n \in Nat : n = Len(s) /\ n # 0 /\ n <= 1
    BY EmptySeq, LenProperties
  <2>2. n = 1
    BY <2>1
  <2>3. 1 \in 1..Len(s)
    BY <2>1, <2>2
  <2>4. s[1] \in Nat
    BY <2>3, ElementOfSeq
  <2>5. QED
    BY <2>1, <2>2, <2>4
<1>2. PICK x \in Nat : x = s[1]
  BY <1>1
<1>3. PICK one \in Seq(Nat) : one = <<x>> /\ Len(one) = 1 /\ one[1] = x
  BY OneElement
<1>4. \A i \in 1..Len(s) : s[i] = one[i]
  BY <1>1, <1>2, <1>3
<1>5. s = one
  BY <1>1, <1>3, <1>4, SeqEqual
<1>6. QED
  BY <1>2, <1>3, <1>5

-----------------------------------------------------------------------------
(* The inductive invariant.                                                *)

\* The type invariant, but for what Sending and Parsing say.
Types ==
  /\ connected \in BOOLEAN
  /\ writing \in [Writers -> Messages \cup {NoMessage}]
  /\ offset \in [Writers -> Int]
  /\ toBroker \in Seq(Nat) /\ toClient \in Seq(Nat)
  /\ link \in {"up", "down"}
  /\ header \in Seq(Nat) /\ digits \in Seq(Nat) /\ payload \in Seq(Nat)
  /\ receiver \in {"loop", "done"}
  /\ queue \in Seq(Nat)
  /\ writes \in 0..MaxWrites
  /\ others \in 0..MaxOthers
  /\ sent \in Seq(Messages)
  /\ torn \in BOOLEAN /\ spoiled \in BOOLEAN /\ fault \in BOOLEAN

\* A thread that has the lock is inside the packet of its message, and at most
\* one has it.
Inside(w) ==
  /\ offset[w] \in Nat /\ writing[w] \in Messages
  /\ offset[w] < Len(Packet[writing[w]])
Sending ==
  /\ \A w \in Writers : offset[w] # -1 => Inside(w)
  /\ \A v, w \in Writers : offset[v] # -1 /\ offset[w] # -1 => v = w

\* The receiver is in its header, in its digits, or in its payload.
Parsed(h, d, p) ==
  /\ Len(h) <= 1
  /\ h = <<>> => d = <<>>
  /\ Len(d) <= MaxDigits
  /\ Ended(d) => EndsAtLast(d) /\ Len(p) <= DecodeLength(d)
  /\ ~Ended(d) => NoEnd(d) /\ p = <<>>
Parsing == Parsed(header, digits, payload)

\* The stream of which the receiver holds the first bytes.
Stream == ((header \o digits) \o payload) \o toClient

\* Part of a packet: of the one that is being sent, or of one whose send has
\* failed, of which the rest will never come.
Behind(part) ==
  part = <<>> \/ \E m \in Messages : Agree(part, Packet[m]) /\ Len(part) < Len(Packet[m])
SentPart(part) ==
  /\ (\A w \in Writers : offset[w] = -1) => part = <<>>
  /\ \A w \in Writers : offset[w] # -1 => part = SubSeq(Packet[writing[w]], 1, offset[w])

\* What has been sent is what is queued, what is on its way to the receiver,
\* and what is on its way to the broker, with what has been sent of the next.
SentIs(a, its, c) == sent = (a \o Flat(Told, its)) \o c
QueueIs(a) == queue = Flat(Body, a)
StreamIs(its) == Stream = Flat(Wire, its)
BrokerHas(c, part) == link = "up" => toBroker = Flat(Packet, c) \o part
HalfIs(part) == Behind(part) /\ (~torn => SentPart(part))
Accounted(a, its, c, part) ==
  SentIs(a, its, c) /\ QueueIs(a) /\ StreamIs(its) /\ BrokerHas(c, part) /\ HalfIs(part)
Faithful ==
  spoiled \/ \E a \in Seq(Messages), its \in Seq(Items), c \in Seq(Messages), part \in Seq(Nat) :
               Accounted(a, its, c, part)

Inv == Types /\ Sending /\ Parsing /\ Faithful

\* The constructor's state satisfies the invariant.
LEMMA Start == Init => Inv
<1> SUFFICES ASSUME Init PROVE Inv
  OBVIOUS
<1>1. Types
  <2>1. <<>> \in Seq(Nat) /\ <<>> \in Seq(Messages)
    BY EmptySeq
  <2>2. 0 \in 0..MaxWrites /\ 0 \in 0..MaxOthers
    BY FramingAssumption DEF FramingAssumption
  <2>3. toBroker \in Seq(Nat) /\ toClient \in Seq(Nat) /\ queue \in Seq(Nat) /\ sent \in Seq(Messages)
    BY <2>1 DEF Init
  <2>4. header \in Seq(Nat) /\ digits \in Seq(Nat) /\ payload \in Seq(Nat)
    BY <2>1 DEF Init
  <2>5. /\ writing \in [Writers -> Messages \cup {NoMessage}] /\ offset \in [Writers -> Int]
        /\ link \in {"up", "down"} /\ receiver \in {"loop", "done"}
    BY DEF Init
  <2>6. connected \in BOOLEAN /\ torn \in BOOLEAN /\ spoiled \in BOOLEAN /\ fault \in BOOLEAN
    BY DEF Init
  <2>7. writes \in 0..MaxWrites /\ others \in 0..MaxOthers
    BY <2>2 DEF Init
  <2>8. QED
    BY <2>3, <2>4, <2>5, <2>6, <2>7 DEF Types
<1>2. Sending
  BY DEF Sending, Init
<1>3. Parsing
  <2>1. Len(<<>>) = 0 /\ NoEnd(<<>>) /\ ~Ended(<<>>)
    BY EmptySeq DEF NoEnd, Ended
  <2>2. QED
    BY <2>1 DEF Parsing, Parsed, Init, MaxDigits
<1>4. Faithful
  <2>1. PICK a \in Seq(Messages), its \in Seq(Items), part \in Seq(Nat) :
          a = <<>> /\ its = <<>> /\ part = <<>>
    BY EmptySeq
  <2>2. Flat(Told, its) = <<>> /\ Flat(Body, a) = <<>> /\ Flat(Wire, its) = <<>> /\ Flat(Packet, a) = <<>>
    BY <2>1, FlatEmpty
  <2>3. a \o a = a /\ part \o part = part
    BY <2>1, ConcatEmptySeq
  <2>4. SentIs(a, its, a) /\ QueueIs(a)
    BY <2>1, <2>2, <2>3 DEF SentIs, QueueIs, Init
  <2>5. StreamIs(its) /\ BrokerHas(a, part)
    BY <2>1, <2>2, <2>3 DEF StreamIs, Stream, BrokerHas, Init
  <2>6. HalfIs(part)
    BY <2>1 DEF HalfIs, Behind, SentPart, Init
  <2>7. QED
    BY <2>4, <2>5, <2>6 DEF Faithful, Accounted
<1>5. QED
  BY <1>1, <1>2, <1>3, <1>4 DEF Inv

-----------------------------------------------------------------------------
(* write() and send_packet().                                              *)

\* The receiver's side is not touched.
LEMMA ReceiverKept ==
  ASSUME Inv, UNCHANGED <<toClient, receiverVars>>
  PROVE  /\ Parsing' /\ Stream' = Stream
         /\ \A a, its : (QueueIs(a) => QueueIs(a)') /\ (StreamIs(its) => StreamIs(its)')
<1>1. UNCHANGED <<toClient, header, digits, payload, queue>>
  BY DEF receiverVars
<1>2. Parsing' /\ Stream' = Stream
  BY <1>1 DEF Inv, Parsing, Stream
<1>3. QED
  BY <1>1, <1>2 DEF QueueIs, StreamIs

\* write() builds its packet and touches no stream.
LEMMA WriteKeeps ==
  ASSUME NEW w \in Writers, Inv, Write(w)
  PROVE  Inv'
<1>1. /\ UNCHANGED <<connected, offset, toBroker, sent, torn, spoiled, fault, link, others>>
      /\ UNCHANGED <<toClient, receiverVars>>
      /\ UNCHANGED <<header, digits, payload, receiver, queue>>
  BY DEF Write, brokerVars, receiverVars
<1>2. PICK n \in Sizes : writing' = [writing EXCEPT ![w] = <<writes + 1, n>>]
  BY DEF Write
<1>3. writes' \in 0..MaxWrites /\ <<writes + 1, n>> \in Messages
  BY FramingAssumption DEF Write, Inv, Types, FramingAssumption, Messages
<1>4. offset[w] = -1
  <2>1. writing[w] \notin Messages
    BY MessageParts, FramingAssumption DEF Write, FramingAssumption
  <2>2. QED
    BY <2>1 DEF Inv, Sending, Inside
<1>5. \A v \in Writers : offset[v] # -1 => offset'[v] = offset[v] /\ writing'[v] = writing[v]
  BY <1>1, <1>2, <1>4 DEF Inv, Types
<1>6. Types'
  BY <1>1, <1>2, <1>3 DEF Inv, Types
<1>7. Sending'
  BY <1>1, <1>5 DEF Inv, Sending, Inside
<1>8. Parsing'
  BY <1>1, ReceiverKept
<1>9. Faithful'
  <2>1. SUFFICES ASSUME ~spoiled PROVE Faithful'
    BY <1>1 DEF Faithful
  <2>2. PICK a \in Seq(Messages), its \in Seq(Items), c \in Seq(Messages), part \in Seq(Nat) :
          Accounted(a, its, c, part)
    BY <2>1 DEF Inv, Faithful
  <2>3. SentIs(a, its, c)' /\ BrokerHas(c, part)'
    BY <1>1, <2>2 DEF Accounted, SentIs, BrokerHas
  <2>4. QueueIs(a)' /\ StreamIs(its)'
    BY <1>1, <2>2, ReceiverKept DEF Accounted
  <2>5. HalfIs(part)'
    BY <1>1, <1>5, <2>2 DEF Accounted, HalfIs, SentPart
  <2>6. QED
    BY <2>3, <2>4, <2>5 DEF Faithful, Accounted
<1>10. QED
  BY <1>6, <1>7, <1>8, <1>9 DEF Inv

\* Taking send_mutex_ puts one whole packet behind all others that are on their way.
LEMMA AcquireKeeps ==
  ASSUME NEW w \in Writers, Inv, Acquire(w)
  PROVE  Inv'
<1>1. /\ UNCHANGED <<connected, writing, toBroker, writes, sent, torn, spoiled, fault, link, others>>
      /\ UNCHANGED <<toClient, receiverVars>>
      /\ UNCHANGED <<header, digits, payload, receiver, queue>>
  BY DEF Acquire, StartSending, brokerVars, receiverVars
<1>2. /\ offset' = [offset EXCEPT ![w] = 0]
      /\ \A v \in Writers : offset[v] = -1
      /\ writing[w] # NoMessage
  BY DEF Acquire, StartSending
<1>3. writing[w] \in Messages
  BY <1>2 DEF Inv, Types
<1>4. offset'[w] = 0 /\ \A v \in Writers : v # w => offset'[v] = -1
  BY <1>2 DEF Inv, Types
<1>5. Types'
  <2>1. offset' \in [Writers -> Int]
    BY <1>2 DEF Inv, Types
  <2>2. QED
    BY <1>1, <2>1 DEF Inv, Types
<1>6. PICK p \in Seq(Nat) : p = Packet[writing[w]] /\ Len(p) > 0
  BY <1>3, PacketCarries
<1>7. Sending'
  <2>1. Inside(w)'
    BY <1>1, <1>3, <1>4, <1>6 DEF Inside
  <2>2. \A v \in Writers : offset'[v] # -1 => v = w
    BY <1>4
  <2>3. QED
    BY <2>1, <2>2 DEF Sending
<1>8. Parsing'
  BY <1>1, ReceiverKept
<1>9. Faithful'
  <2>1. SUFFICES ASSUME ~spoiled PROVE Faithful'
    BY <1>1 DEF Faithful
  <2>2. PICK a \in Seq(Messages), its \in Seq(Items), c \in Seq(Messages), part \in Seq(Nat) :
          Accounted(a, its, c, part)
    BY <2>1 DEF Inv, Faithful
  <2>3. SentIs(a, its, c)' /\ BrokerHas(c, part)'
    BY <1>1, <2>2 DEF Accounted, SentIs, BrokerHas
  <2>4. QueueIs(a)' /\ StreamIs(its)'
    BY <1>1, <2>2, ReceiverKept DEF Accounted
  <2>5. HalfIs(part)'
    <3>1. ~torn => part = SubSeq(p, 1, 0)
      <4>1. SubSeq(p, 1, 0) = <<>>
        BY SubSeqEmpty
      <4>2. QED
        BY <1>2, <2>2, <4>1 DEF Accounted, HalfIs, SentPart
    <3>2. ~torn => SentPart(part)'
      BY <1>1, <1>4, <1>6, <3>1 DEF SentPart
    <3>3. Behind(part)
      BY <2>2 DEF Accounted, HalfIs
    <3>4. QED
      BY <1>1, <3>2, <3>3 DEF HalfIs
  <2>6. QED
    BY <2>3, <2>4, <2>5 DEF Faithful, Accounted
<1>10. QED
  BY <1>5, <1>7, <1>8, <1>9 DEF Inv

\* A thread that has the lock, its packet, and how much of it has been sent.
LEMMA HasTheLock ==
  ASSUME NEW w \in Writers, Inv, offset[w] >= 0
  PROVE  /\ writing[w] \in Messages /\ Packet[writing[w]] \in Seq(Nat)
         /\ offset[w] \in Nat /\ offset[w] < Len(Packet[writing[w]])
         /\ \A v \in Writers : v # w => offset[v] = -1
<1>1. offset[w] # -1
  BY DEF Inv, Types
<1>2. Inside(w) /\ \A v \in Writers : offset[v] # -1 => v = w
  BY <1>1 DEF Inv, Sending
<1>3. QED
  BY <1>2, PacketCarries DEF Inside

\* The part that has been sent is its packet's.
LEMMA OwnPart ==
  ASSUME NEW w \in Writers, offset[w] \in Nat, NEW part, SentPart(part)
  PROVE  part = SubSeq(Packet[writing[w]], 1, offset[w])
<1>1. offset[w] # -1
  OBVIOUS
<1>2. QED
  BY <1>1 DEF SentPart

\* When write() returns nobody has the lock.
LEMMA Returned ==
  ASSUME NEW w \in Writers, Inv, offset[w] >= 0, Returns(w)
  PROVE  /\ writing' \in [Writers -> Messages \cup {NoMessage}]
         /\ offset' \in [Writers -> Int]
         /\ \A v \in Writers : offset'[v] = -1
         /\ Sending'
<1>1. /\ writing' = [writing EXCEPT ![w] = NoMessage]
      /\ offset' = [offset EXCEPT ![w] = -1]
  BY DEF Returns
<1>2. \A v \in Writers : offset'[v] = -1
  BY <1>1, HasTheLock DEF Inv, Types
<1>3. Sending'
  BY <1>2 DEF Sending
<1>4. QED
  BY <1>1, <1>2, <1>3 DEF Inv, Types

\* A failing send() leaves a half packet only where `spoiled` says so.
LEMMA SendFailsKeeps ==
  ASSUME NEW w \in Writers, Inv, SendFails(w)
  PROVE  Inv'
<1>1. /\ UNCHANGED <<toBroker, writes, sent, spoiled, link, others>>
      /\ UNCHANGED <<toClient, receiverVars>>
      /\ UNCHANGED <<header, digits, payload, receiver, queue>>
  BY DEF SendFails, brokerVars, receiverVars
<1>2. /\ offset[w] >= 0 /\ Returns(w)
      /\ connected' = FALSE /\ fault' = TRUE /\ torn' = (torn \/ offset[w] > 0)
  BY DEF SendFails
<1>3. /\ writing' \in [Writers -> Messages \cup {NoMessage}]
      /\ offset' \in [Writers -> Int]
      /\ \A v \in Writers : offset'[v] = -1
      /\ Sending'
  BY <1>2, Returned
<1>4. Types'
  <2>1. connected' \in BOOLEAN /\ fault' \in BOOLEAN /\ torn' \in BOOLEAN
    BY <1>2 DEF Inv, Types
  <2>2. QED
    BY <1>1, <1>3, <2>1 DEF Inv, Types
<1>5. Parsing'
  BY <1>1, ReceiverKept
<1>6. Faithful'
  <2>1. SUFFICES ASSUME ~spoiled PROVE Faithful'
    BY <1>1 DEF Faithful
  <2>2. PICK a \in Seq(Messages), its \in Seq(Items), c \in Seq(Messages), part \in Seq(Nat) :
          Accounted(a, its, c, part)
    BY <2>1 DEF Inv, Faithful
  <2>3. SentIs(a, its, c)' /\ BrokerHas(c, part)'
    BY <1>1, <2>2 DEF Accounted, SentIs, BrokerHas
  <2>4. QueueIs(a)' /\ StreamIs(its)'
    BY <1>1, <2>2, ReceiverKept DEF Accounted
  <2>5. HalfIs(part)'
    <3>1. Behind(part) /\ (~torn => SentPart(part))
      BY <2>2 DEF Accounted, HalfIs
    <3>2. ASSUME ~torn' PROVE part = <<>>
      <4>1. ~torn /\ offset[w] = 0
        <5>1. ~torn /\ ~(offset[w] > 0)
          BY <1>2, <3>2, Zenon
        <5>2. offset[w] \in Nat
          BY <1>2, HasTheLock
        <5>3. QED
          BY <5>1, <5>2
      <4>2. part = SubSeq(Packet[writing[w]], 1, 0)
        BY <3>1, <4>1 DEF SentPart
      <4>3. QED
        BY <4>2, SubSeqEmpty
    <3>3. ~torn' => SentPart(part)'
      BY <1>3, <3>2 DEF SentPart
    <3>4. QED
      BY <3>1, <3>3 DEF HalfIs
  <2>6. QED
    BY <2>3, <2>4, <2>5 DEF Faithful, Accounted
<1>7. QED
  BY <1>3, <1>4, <1>5, <1>6 DEF Inv

\* A partial send() moves a piece of the packet to the broker, and with the last piece the lock is free.
LEMMA SendSomeKeeps ==
  ASSUME NEW w \in Writers, Inv, SendSome(w)
  PROVE  Inv'
<1>1. /\ UNCHANGED <<connected, writes, torn, fault, link, others>>
      /\ UNCHANGED <<toClient, receiverVars>>
      /\ UNCHANGED <<header, digits, payload, receiver, queue>>
      /\ offset[w] >= 0 /\ spoiled' = (spoiled \/ torn)
  BY DEF SendSome, brokerVars, receiverVars
<1>2. PICK m \in Messages, p \in Seq(Nat), o \in Nat :
        /\ m = writing[w] /\ p = Packet[m] /\ o = offset[w] /\ o < Len(p)
        /\ \A v \in Writers : v # w => offset[v] = -1
  BY <1>1, HasTheLock
<1>3. PICK to \in {o + 1, Len(p)} :
        /\ toBroker' = IF link = "up" THEN toBroker \o SubSeq(p, o + 1, to) ELSE toBroker
        /\ IF to = Len(p)
           THEN Returns(w) /\ sent' = Append(sent, m)
           ELSE offset' = [offset EXCEPT ![w] = to] /\ UNCHANGED <<writing, sent>>
  BY <1>2 DEF SendSome
<1>4. /\ o \in 0..(Len(p) - 1) /\ to \in (o + 1)..Len(p) /\ to \in Nat /\ Len(p) \in Nat
  BY <1>2, <1>3, LenProperties
<1>5. PICK piece \in Seq(Nat) :
        piece = SubSeq(p, o + 1, to) /\ SubSeq(p, 1, o) \o piece = SubSeq(p, 1, to)
  <2>1. /\ SubSeq(p, o + 1, to) \in Seq(Nat)
        /\ SubSeq(p, 1, o) \o SubSeq(p, o + 1, to) = SubSeq(p, 1, to)
    BY <1>4, PieceIsSent
  <2>2. QED
    BY <2>1
<1>6. toBroker' \in Seq(Nat)
  <2>1. toBroker \in Seq(Nat)
    BY DEF Inv, Types
  <2>2. toBroker \o piece \in Seq(Nat)
    BY <2>1, ConcatProperties
  <2>3. QED
    BY <1>3, <1>5, <2>1, <2>2
<1>7. spoiled' \in BOOLEAN
  BY <1>1 DEF Inv, Types
<1>8. Parsing'
  BY <1>1, ReceiverKept
<1>9. CASE to = Len(p)
  <2>1. Returns(w) /\ sent' = Append(sent, m)
    BY <1>3, <1>9
  <2>2. /\ writing' \in [Writers -> Messages \cup {NoMessage}]
        /\ offset' \in [Writers -> Int]
        /\ \A v \in Writers : offset'[v] = -1
        /\ Sending'
    BY <1>1, <2>1, Returned
  <2>3. sent' \in Seq(Messages)
    BY <2>1, AppendProperties DEF Inv, Types
  <2>4. Types'
    BY <1>1, <1>6, <1>7, <2>2, <2>3 DEF Inv, Types
  <2>5. Faithful'
    <3>1. SUFFICES ASSUME ~spoiled, ~torn PROVE Faithful'
      BY <1>1 DEF Faithful
    <3>2. PICK a \in Seq(Messages), its \in Seq(Items), c \in Seq(Messages), part \in Seq(Nat) :
            Accounted(a, its, c, part)
      BY <3>1 DEF Inv, Faithful
    <3>3. PICK d \in Seq(Messages), none \in Seq(Nat) : d = Append(c, m) /\ none = <<>>
      BY AppendProperties, EmptySeq
    <3>4. SentIs(a, its, d)'
      <4>1. PICK t \in Seq(Messages) : t = Flat(Told, its)
        BY WireFunctions, FlatType
      <4>2. PICK at \in Seq(Messages) : at = a \o t
        BY ConcatProperties
      <4>3. AppendsBehind(at, c, m)
        BY ConcatAppend
      <4>4. at \o d = Append(at \o c, m)
        BY <3>3, <4>3, Zenon DEF AppendsBehind
      <4>5. sent = at \o c
        BY <3>2, <4>1, <4>2 DEF Accounted, SentIs
      <4>6. QED
        BY <2>1, <4>1, <4>2, <4>4, <4>5 DEF SentIs
    <3>5. BrokerHas(d, none)'
      <4>1. SUFFICES ASSUME link = "up" PROVE toBroker' = Flat(Packet, d) \o none
        BY <1>1 DEF BrokerHas
      <4>2. part \o piece = p
        <5>1. part = SubSeq(p, 1, o)
          <6>1. SentPart(part)
            BY <3>1, <3>2 DEF Accounted, HalfIs
          <6>2. part = SubSeq(Packet[writing[w]], 1, offset[w])
            BY <1>2, <6>1, OwnPart
          <6>3. QED
            BY <1>2, <6>2
        <5>2. SubSeq(p, 1, Len(p)) = p
          BY SubSeqFull
        <5>3. QED
          BY <1>5, <1>9, <5>1, <5>2
      <4>3. PICK f \in Seq(Nat) : f = Flat(Packet, c)
        BY WireFunctions, FlatType
      <4>4. toBroker' = (f \o part) \o piece
        BY <1>3, <1>5, <3>2, <4>1, <4>3 DEF Accounted, BrokerHas
      <4>5. toBroker' = f \o p
        <5>1. Associative(f, part, piece)
          BY ConcatIsAssociative
        <5>2. QED
          BY <4>2, <4>4, <5>1, Zenon DEF Associative
      <4>6. Flat(Packet, d) = f \o p
        <5>1. Flat(Packet, Append(c, m)) = Flat(Packet, c) \o Packet[m]
          BY WireFunctions, FlatAppend
        <5>2. QED
          BY <1>2, <3>3, <4>3, <5>1
      <4>7. (f \o p) \o <<>> = f \o p
        <5>1. f \o p \in Seq(Nat)
          BY ConcatProperties
        <5>2. QED
          BY <5>1, ConcatEmptySeq
      <4>8. QED
        BY <3>3, <4>5, <4>6, <4>7
    <3>6. HalfIs(none)'
      BY <2>2, <3>3 DEF HalfIs, Behind, SentPart
    <3>7. QueueIs(a)' /\ StreamIs(its)'
      BY <1>1, <3>2, ReceiverKept DEF Accounted
    <3>8. QED
      BY <3>4, <3>5, <3>6, <3>7 DEF Faithful, Accounted
  <2>6. QED
    BY <1>8, <2>2, <2>4, <2>5 DEF Inv
<1>10. CASE to # Len(p)
  <2>1. offset' = [offset EXCEPT ![w] = to] /\ UNCHANGED <<writing, sent>>
    BY <1>3, <1>10
  <2>2. offset'[w] = to /\ to < Len(p) /\ \A v \in Writers : v # w => offset'[v] = -1
    <3>1. offset \in [Writers -> Int]
      BY DEF Inv, Types
    <3>2. to < Len(p)
      BY <1>4, <1>10
    <3>3. QED
      BY <1>2, <2>1, <3>1, <3>2
  <2>3. Sending'
    <3>1. Inside(w)'
      BY <1>2, <1>4, <2>1, <2>2 DEF Inside
    <3>2. \A v \in Writers : offset'[v] # -1 => v = w
      BY <2>2
    <3>3. QED
      BY <3>1, <3>2 DEF Sending
  <2>4. Types'
    <3>1. offset' \in [Writers -> Int]
      BY <1>4, <2>1 DEF Inv, Types
    <3>2. QED
      BY <1>1, <1>6, <1>7, <2>1, <3>1 DEF Inv, Types
  <2>5. Faithful'
    <3>1. SUFFICES ASSUME ~spoiled, ~torn PROVE Faithful'
      BY <1>1 DEF Faithful
    <3>2. PICK a \in Seq(Messages), its \in Seq(Items), c \in Seq(Messages), part \in Seq(Nat) :
            Accounted(a, its, c, part)
      BY <3>1 DEF Inv, Faithful
    <3>3. part = SubSeq(p, 1, o)
      <4>1. SentPart(part)
        BY <3>1, <3>2 DEF Accounted, HalfIs
      <4>2. part = SubSeq(Packet[writing[w]], 1, offset[w])
        BY <1>2, <4>1, OwnPart
      <4>3. QED
        BY <1>2, <4>2
    <3>4. PICK more \in Seq(Nat) : /\ more = SubSeq(p, 1, to) /\ Len(more) = to
                                   /\ \A i \in 1..to : more[i] = p[i]
      <4>1. to \in 0..Len(p)
        BY <1>4
      <4>2. /\ SubSeq(p, 1, to) \in Seq(Nat) /\ Len(SubSeq(p, 1, to)) = to
            /\ \A i \in 1..to : SubSeq(p, 1, to)[i] = p[i]
        BY <4>1, FrontOfSeq
      <4>3. QED
        BY <4>2
    <3>5. part \o piece = more
      BY <1>5, <3>3, <3>4
    <3>6. SentIs(a, its, c)'
      BY <2>1, <3>2 DEF Accounted, SentIs
    <3>7. BrokerHas(c, more)'
      <4>1. SUFFICES ASSUME link = "up" PROVE toBroker' = Flat(Packet, c) \o more
        BY <1>1 DEF BrokerHas
      <4>2. PICK f \in Seq(Nat) : f = Flat(Packet, c)
        BY WireFunctions, FlatType
      <4>3. toBroker' = (f \o part) \o piece
        BY <1>3, <1>5, <3>2, <4>1, <4>2 DEF Accounted, BrokerHas
      <4>4. Associative(f, part, piece)
        BY ConcatIsAssociative
      <4>5. QED
        BY <3>5, <4>2, <4>3, <4>4, Zenon DEF Associative
    <3>8. HalfIs(more)'
      <4>1. Behind(more)
        BY <1>2, <2>2, <3>4 DEF Behind, Agree
      <4>2. SentPart(more)'
        <5>1. ~(\A v \in Writers : offset'[v] = -1)
          BY <1>4, <2>2
        <5>2. ASSUME NEW v \in Writers, offset'[v] # -1
              PROVE  more = SubSeq(Packet[writing'[v]], 1, offset'[v])
          <6>1. v = w
            BY <2>2, <5>2
          <6>2. QED
            BY <1>2, <2>1, <2>2, <3>4, <6>1
        <5>3. QED
          BY <5>1, <5>2 DEF SentPart
      <4>3. QED
        BY <4>1, <4>2 DEF HalfIs
    <3>9. QueueIs(a)' /\ StreamIs(its)'
      BY <1>1, <3>2, ReceiverKept DEF Accounted
    <3>10. QED
      BY <3>6, <3>7, <3>8, <3>9 DEF Faithful, Accounted
  <2>6. QED
    BY <1>8, <2>3, <2>4, <2>5 DEF Inv
<1>11. QED
  BY <1>9, <1>10

-----------------------------------------------------------------------------
(* The broker.                                                             *)

\* Where the broker sees a packet end is inside what it has.
LEMMA EndIsInside ==
  ASSUME NEW s \in Seq(Nat), NEW end \in PacketEnds(s)
  PROVE  end \in 0..Len(s)
<1> DEFINE E == {i \in 2..5 : i <= Len(s) /\ IsLastDigit(s[i])}
<1>1. PICK m \in {DigitsEnd(s)} \ {0} : end = m + DecodeLength(SubSeq(s, 2, m)) /\ end <= Len(s)
  BY DEF PacketEnds
<1>2. E # {} /\ m = Min(E)
  BY <1>1 DEF DigitsEnd
<1>3. m \in E
  <2>1. E \subseteq Nat
    OBVIOUS
  <2>2. \E l \in E : \A i \in E : l <= i
    BY <1>2, <2>1, LeastNumber
  <2> HIDE DEF E
  <2>3. QED
    BY <1>2, <2>2 DEF Min
<1>4. PICK k \in 2..5 : k = m /\ k <= Len(s)
  BY <1>3
<1>5. Len(s) \in Nat
  BY LenProperties
<1>6. SubSeq(s, 2, k) \in Seq(Nat)
  <2>1. \A i \in 2..k : s[i] \in Nat
    BY <1>4, <1>5, ElementOfSeq
  <2>2. 2 \in Int /\ k \in Int
    BY <1>4
  <2>3. QED
    BY <2>1, <2>2, SubSeqProperties
<1>7. DecodeLength(SubSeq(s, 2, k)) \in Nat
  BY <1>6, DecodeLengthType
<1>8. PICK n \in Nat : n = DecodeLength(SubSeq(s, 2, k))
  BY <1>7
<1>9. end = k + n
  BY <1>1, <1>4, <1>8
<1>10. QED
  BY <1>1, <1>4, <1>5, <1>9

\* Where a packet is in front, the broker's parser finds its end and no other.
LEMMA EndOfPacket ==
  ASSUME NEW m \in Messages, NEW s \in Seq(Nat), Agree(s, Packet[m]), NEW end \in PacketEnds(s)
  PROVE  end = Len(Packet[m]) /\ end <= Len(s)
<1>1. PICK first \in Nat, body \in Seq(Nat) : Packet[m] = Framed(first, body)
  BY PacketCarries DEF Carries
<1>2. QED
  BY <1>1, EndIsFound

\* In half a packet it sees none.
LEMMA NoEndInPart ==
  ASSUME NEW part \in Seq(Nat), Behind(part)
  PROVE  PacketEnds(part) = {}
<1>1. SUFFICES ASSUME NEW end \in PacketEnds(part) PROVE FALSE
  OBVIOUS
<1>2. CASE part = <<>>
  <2>1. PICK first \in Nat, body \in Seq(Nat) : first = 0 /\ body = <<>>
    BY EmptySeq
  <2>2. Len(part) = 0
    BY <1>2, EmptySeq
  <2>3. Agree(part, Framed(first, body))
    BY <2>2 DEF Agree
  <2>4. end = Len(Framed(first, body)) /\ end <= Len(part)
    BY <2>3, EndIsFound
  <2>5. /\ Len(Framed(first, body)) = 1 + Len(RemainingLength[Len(body)]) + Len(body)
        /\ RemainingLength[Len(body)] \in Seq(Nat)
    BY FramedType
  <2>6. Len(RemainingLength[Len(body)]) \in Nat /\ Len(body) \in Nat
    BY <2>5, LenProperties
  <2>7. QED
    BY <2>2, <2>4, <2>5, <2>6
<1>3. ASSUME NEW m \in Messages, Agree(part, Packet[m]), Len(part) < Len(Packet[m])
      PROVE  FALSE
  <2>1. end = Len(Packet[m]) /\ end <= Len(part)
    BY <1>3, EndOfPacket
  <2>2. Len(part) \in Nat /\ Len(Packet[m]) \in Nat
    BY PacketCarries, LenProperties
  <2>3. QED
    BY <1>3, <2>1, <2>2
<1>4. QED
  BY <1>2, <1>3 DEF Behind

\* A packet and what follows it.
LEMMA FrontAndRest ==
  ASSUME NEW p \in Seq(Nat), NEW r \in Seq(Nat)
  PROVE  /\ Agree(p \o r, p)
         /\ SubSeq(p \o r, 1, Len(p)) = p
         /\ SubSeq(p \o r, Len(p) + 1, Len(p \o r)) = r
<1>1. PICK s \in Seq(Nat) : s = p \o r
  BY ConcatProperties
<1>2. /\ Len(s) = Len(p) + Len(r)
      /\ \A i \in 1..(Len(p) + Len(r)) : s[i] = IF i <= Len(p) THEN p[i] ELSE r[i - Len(p)]
  BY <1>1, ConcatProperties
<1>3. Len(p) \in Nat /\ Len(r) \in Nat
  BY LenProperties
<1>4. Agree(s, p)
  BY <1>2, <1>3 DEF Agree
<1>5. Len(p) \in 0..Len(s)
  BY <1>2, <1>3
<1>6. PICK x \in Seq(Nat), y \in Seq(Nat) :
        /\ x = SubSeq(s, 1, Len(p)) /\ y = SubSeq(s, Len(p) + 1, Len(s))
        /\ Len(x) = Len(p) /\ x \o y = s
  <2>1. /\ SubSeq(s, 1, Len(p)) \in Seq(Nat) /\ SubSeq(s, Len(p) + 1, Len(s)) \in Seq(Nat)
        /\ Len(SubSeq(s, 1, Len(p))) = Len(p)
        /\ SubSeq(s, 1, Len(p)) \o SubSeq(s, Len(p) + 1, Len(s)) = s
    BY <1>5, SplitSeq
  <2>2. QED
    BY <2>1
<1>7. x = p /\ y = r
  BY <1>1, <1>6, SameParts
<1>8. QED
  BY <1>1, <1>4, <1>6, <1>7

\* What the broker sends goes to the end of the stream.
LEMMA StreamGrows ==
  ASSUME Inv, NEW its \in Seq(Items), NEW item \in Items, StreamIs(its),
         toClient' = toClient \o Wire[item], UNCHANGED receiverVars
  PROVE  StreamIs(Append(its, item))'
<1>1. PICK h \in Seq(Nat), d \in Seq(Nat), p \in Seq(Nat), s \in Seq(Nat) :
        h = header /\ d = digits /\ p = payload /\ s = toClient
  BY DEF Inv, Types
<1>2. PICK hd \in Seq(Nat) : hd = h \o d
  BY ConcatProperties
<1>3. PICK r \in Seq(Nat) : r = hd \o p
  BY ConcatProperties
<1>4. PICK x \in Seq(Nat) : x = Wire[item]
  BY WireFunctions DEF YieldsSeqs
<1>5. Associative(r, s, x)
  BY ConcatIsAssociative
<1>6. Stream = r \o s /\ Stream' = r \o (s \o x)
  BY <1>1, <1>2, <1>3, <1>4 DEF Stream, receiverVars
<1>7. Stream' = Stream \o x
  BY <1>5, <1>6, Zenon DEF Associative
<1>8. Flat(Wire, Append(its, item)) = Flat(Wire, its) \o Wire[item]
  BY WireFunctions, FlatAppend
<1>9. QED
  BY <1>4, <1>7, <1>8 DEF StreamIs

\* The writers' side is not touched.
LEMMA WritersKept ==
  ASSUME Inv, UNCHANGED <<writing, offset, sent, torn>>
  PROVE  /\ Sending'
         /\ \A part : HalfIs(part) => HalfIs(part)'
         /\ \A a, its, c : SentIs(a, its, c) => SentIs(a, its, c)'
BY DEF Inv, Sending, Inside, HalfIs, SentPart, SentIs

\* The broker takes one whole packet and passes it on.
LEMMA BrokerForwardsKeeps ==
  ASSUME Inv, BrokerForwards
  PROVE  Inv'
<1>1. /\ UNCHANGED <<connected, writing, offset, writes, sent, torn, spoiled, fault, link, others>>
      /\ UNCHANGED receiverVars
      /\ UNCHANGED <<header, digits, payload, receiver, queue>>
      /\ link = "up"
  BY DEF BrokerForwards, brokerVars, receiverVars
<1>2. PICK end \in PacketEnds(toBroker) :
        /\ toClient' = toClient \o SubSeq(toBroker, 1, end)
        /\ toBroker' = SubSeq(toBroker, end + 1, Len(toBroker))
  BY DEF BrokerForwards
<1>3. toBroker \in Seq(Nat) /\ toClient \in Seq(Nat)
  BY DEF Inv, Types
<1>4. toBroker' \in Seq(Nat) /\ toClient' \in Seq(Nat)
  <2>1. end \in 0..Len(toBroker)
    BY <1>3, EndIsInside
  <2>2. SubSeq(toBroker, 1, end) \in Seq(Nat) /\ SubSeq(toBroker, end + 1, Len(toBroker)) \in Seq(Nat)
    BY <1>3, <2>1, SplitSeq
  <2>3. toClient \o SubSeq(toBroker, 1, end) \in Seq(Nat)
    BY <1>3, <2>2, ConcatProperties
  <2>4. QED
    BY <1>2, <2>2, <2>3
<1>5. Types'
  BY <1>1, <1>4 DEF Inv, Types
<1>6. Sending'
  BY <1>1, WritersKept
<1>7. Parsing'
  BY <1>1 DEF Inv, Parsing
<1>8. Faithful'
  <2>1. SUFFICES ASSUME ~spoiled PROVE Faithful'
    BY <1>1 DEF Faithful
  <2>2. PICK a \in Seq(Messages), its \in Seq(Items), c \in Seq(Messages), part \in Seq(Nat) :
          Accounted(a, its, c, part)
    BY <2>1 DEF Inv, Faithful
  <2>3. toBroker = Flat(Packet, c) \o part /\ Behind(part)
    BY <1>1, <2>2 DEF Accounted, BrokerHas, HalfIs
  <2>4. c # <<>>
    <3>1. SUFFICES ASSUME c = <<>> PROVE FALSE
      OBVIOUS
    <3>2. toBroker = part
      <4>1. Flat(Packet, c) = <<>>
        BY <3>1, FlatEmpty
      <4>2. QED
        BY <2>3, <4>1, ConcatEmptySeq
    <3>3. QED
      BY <1>2, <2>3, <3>2, NoEndInPart
  <2>5. PICK m \in Messages, d \in Seq(Messages), one \in Seq(Messages) :
          one = <<m>> /\ c = one \o d
    <3>1. /\ <<Head(c)>> \in Seq(Messages) /\ Tail(c) \in Seq(Messages) /\ Head(c) \in Messages
          /\ <<Head(c)>> \o Tail(c) = c
      BY <2>4, HeadSplits
    <3>2. QED
      BY <3>1
  <2>6. PICK p \in Seq(Nat), g \in Seq(Nat) : p = Packet[m] /\ g = Flat(Packet, d)
    BY WireFunctions, FlatType, PacketCarries
  <2>7. PICK r \in Seq(Nat) : r = g \o part
    BY ConcatProperties
  <2>8. toBroker = p \o r
    <3>1. Distributes(Packet, one, d)
      BY WireFunctions, FlatConcat
    <3>2. Associative(p, g, part)
      BY ConcatIsAssociative
    <3>3. Flat(Packet, c) = p \o g
      <4>1. Flat(Packet, <<m>>) = Packet[m]
        BY WireFunctions, FlatOne
      <4>2. QED
        BY <2>5, <2>6, <3>1, <4>1, Zenon DEF Distributes
    <3>4. QED
      BY <2>3, <2>7, <3>2, <3>3, Zenon DEF Associative
  <2>9. end = Len(p)
    <3>1. Agree(toBroker, Packet[m])
      BY <2>6, <2>8, FrontAndRest
    <3>2. QED
      BY <1>3, <2>6, <3>1, EndOfPacket
  <2>10. toClient' = toClient \o p /\ toBroker' = r
    <3>1. SubSeq(toBroker, 1, end) = p /\ SubSeq(toBroker, end + 1, Len(toBroker)) = r
      BY <2>8, <2>9, FrontAndRest
    <3>2. QED
      BY <1>2, <3>1
  <2>11. PICK item \in Items : Wire[item] = p /\ Told[item] = one
    <3>1. <<<<m>>, Packet[m]>> \in Items
      BY DEF Items
    <3>2. Wire[<<<<m>>, Packet[m]>>] = Packet[m] /\ Told[<<<<m>>, Packet[m]>>] = <<m>>
      BY <3>1 DEF Wire, Told
    <3>3. QED
      BY <2>5, <2>6, <3>1, <3>2
  <2>12. PICK more \in Seq(Items) : more = Append(its, item)
    BY AppendProperties
  <2>13. StreamIs(more)'
    <3>1. StreamIs(its)
      BY <2>2 DEF Accounted
    <3>2. StreamIs(Append(its, item))'
      BY <1>1, <2>10, <2>11, <3>1, StreamGrows
    <3>3. QED
      BY <2>12, <3>2 DEF StreamIs
  <2>14. SentIs(a, more, d)'
    <3>1. PICK t \in Seq(Messages) : t = Flat(Told, its)
      BY WireFunctions, FlatType
    <3>2. Flat(Told, Append(its, item)) = Flat(Told, its) \o Told[item]
      BY WireFunctions, FlatAppend
    <3>3. MovesOn(a, t, one, d)
      BY PassedOn
    <3>4. sent = (a \o t) \o (one \o d)
      BY <2>2, <2>5, <3>1 DEF Accounted, SentIs
    <3>5. QED
      BY <1>1, <2>11, <2>12, <3>1, <3>2, <3>3, <3>4, Zenon DEF SentIs, MovesOn
  <2>15. BrokerHas(d, part)'
    BY <2>6, <2>7, <2>10 DEF BrokerHas
  <2>16. QueueIs(a)' /\ HalfIs(part)'
    BY <1>1, <2>2, WritersKept DEF Accounted, QueueIs
  <2>17. QED
    BY <2>13, <2>14, <2>15, <2>16 DEF Faithful, Accounted
<1>9. QED
  BY <1>5, <1>6, <1>7, <1>8 DEF Inv

\* A broker that closes changes no stream.
LEMMA BrokerClosesKeeps ==
  ASSUME Inv, BrokerCloses
  PROVE  Inv'
<1>1. /\ UNCHANGED <<connected, writing, offset, writes, sent, torn, spoiled, fault, others>>
      /\ UNCHANGED <<toClient, receiverVars>>
      /\ UNCHANGED <<header, digits, payload, receiver, queue>>
      /\ link' = "down" /\ toBroker' = <<>>
  BY DEF BrokerCloses, receiverVars
<1>2. Types'
  <2>1. toBroker' \in Seq(Nat)
    BY <1>1, EmptySeq
  <2>2. link' \in {"up", "down"}
    BY <1>1
  <2>3. QED
    BY <1>1, <2>1, <2>2 DEF Inv, Types
<1>3. Sending' /\ Parsing'
  BY <1>1, WritersKept, ReceiverKept
<1>4. Faithful'
  <2>1. SUFFICES ASSUME ~spoiled PROVE Faithful'
    BY <1>1 DEF Faithful
  <2>2. PICK a \in Seq(Messages), its \in Seq(Items), c \in Seq(Messages), part \in Seq(Nat) :
          Accounted(a, its, c, part)
    BY <2>1 DEF Inv, Faithful
  <2>3. BrokerHas(c, part)'
    BY <1>1 DEF BrokerHas
  <2>4. SentIs(a, its, c)' /\ HalfIs(part)'
    BY <1>1, <2>2, WritersKept DEF Accounted
  <2>5. QueueIs(a)' /\ StreamIs(its)'
    BY <1>1, <2>2, ReceiverKept DEF Accounted
  <2>6. QED
    BY <2>3, <2>4, <2>5 DEF Faithful, Accounted
<1>5. QED
  BY <1>2, <1>3, <1>4 DEF Inv

\* A packet of the broker's own is one item more on its way to the client.
LEMMA BrokerSendsOtherKeeps ==
  ASSUME Inv, BrokerSendsOther
  PROVE  Inv'
<1>1. /\ UNCHANGED <<connected, writing, offset, toBroker, writes, sent, torn, spoiled, link>>
      /\ UNCHANGED receiverVars
      /\ UNCHANGED <<header, digits, payload, receiver, queue>>
      /\ others < MaxOthers /\ others' = others + 1
  BY DEF BrokerSendsOther, sendVars, receiverVars
<1>2. PICK packet \in OtherPackets :
        toClient' = toClient \o packet /\ fault' = (fault \/ packet = Endless)
  BY DEF BrokerSendsOther
<1>3. Types'
  <2>1. toClient' \in Seq(Nat)
    BY <1>2, OtherCarriesNothing, ConcatProperties DEF Inv, Types
  <2>2. fault' \in BOOLEAN
    BY <1>2 DEF Inv, Types
  <2>3. others' \in 0..MaxOthers
    BY <1>1, FramingAssumption DEF Inv, Types, FramingAssumption
  <2>4. QED
    BY <1>1, <2>1, <2>2, <2>3 DEF Inv, Types
<1>4. Sending'
  BY <1>1, WritersKept
<1>5. Parsing'
  BY <1>1 DEF Inv, Parsing
<1>6. Faithful'
  <2>1. SUFFICES ASSUME ~spoiled PROVE Faithful'
    BY <1>1 DEF Faithful
  <2>2. PICK a \in Seq(Messages), its \in Seq(Items), c \in Seq(Messages), part \in Seq(Nat) :
          Accounted(a, its, c, part)
    BY <2>1 DEF Inv, Faithful
  <2>3. PICK item \in Items : Wire[item] = packet /\ Told[item] = <<>>
    <3>1. <<<<>>, packet>> \in Items
      BY DEF Items
    <3>2. Wire[<<<<>>, packet>>] = packet /\ Told[<<<<>>, packet>>] = <<>>
      BY <3>1 DEF Wire, Told
    <3>3. QED
      BY <3>1, <3>2
  <2>4. PICK more \in Seq(Items) : more = Append(its, item)
    BY AppendProperties
  <2>5. StreamIs(more)'
    <3>1. StreamIs(its)
      BY <2>2 DEF Accounted
    <3>2. StreamIs(Append(its, item))'
      BY <1>1, <1>2, <2>3, <3>1, StreamGrows
    <3>3. QED
      BY <2>4, <3>2 DEF StreamIs
  <2>6. SentIs(a, more, c)'
    <3>1. PICK t \in Seq(Messages) : t = Flat(Told, its)
      BY WireFunctions, FlatType
    <3>2. Flat(Told, Append(its, item)) = Flat(Told, its) \o Told[item]
      BY WireFunctions, FlatAppend
    <3>3. Flat(Told, more) = t
      <4>1. t \o <<>> = t
        BY ConcatEmptySeq
      <4>2. QED
        BY <2>3, <2>4, <3>1, <3>2, <4>1
    <3>4. QED
      BY <1>1, <2>2, <3>1, <3>3 DEF Accounted, SentIs
  <2>7. BrokerHas(c, part)' /\ QueueIs(a)' /\ HalfIs(part)'
    BY <1>1, <2>2, WritersKept DEF Accounted, BrokerHas, QueueIs
  <2>8. QED
    BY <2>5, <2>6, <2>7 DEF Faithful, Accounted
<1>7. QED
  BY <1>3, <1>4, <1>5, <1>6 DEF Inv

\* What is queued of a body is a part of it.
LEMMA MessageType ==
  ASSUME NEW body \in Seq(Nat)
  PROVE  Message(body) \in Seq(Nat)
<1>1. <<>> \in Seq(Nat)
  BY EmptySeq
<1>2. ASSUME ~(Len(body) < 2) PROVE SubSeq(body, 3 + DecodeU16(body), Len(body)) \in Seq(Nat)
  <2>1. PICK n \in Nat : n = Len(body) /\ ~(n < 2)
    BY <1>2, LenProperties
  <2>2. 1 \in 1..Len(body) /\ 2 \in 1..Len(body)
    BY <2>1
  <2>3. body[1] \in Nat /\ body[2] \in Nat
    BY <2>2, ElementOfSeq
  <2>4. PICK k \in Int : k = 3 + DecodeU16(body) /\ k > 0
    <3>1. body[1] * 2 * Base + body[2] \in Nat
      BY <2>3, CodecAssumption DEF CodecAssumption
    <3>2. QED
      BY <3>1 DEF DecodeU16
  <2>5. \A i \in k..n : body[i] \in Nat
    <3>1. \A i \in k..n : i \in 1..Len(body)
      BY <2>1, <2>4
    <3>2. QED
      BY <3>1, ElementOfSeq
  <2>6. SubSeq(body, k, n) \in Seq(Nat)
    BY <2>5, SubSeqProperties
  <2>7. QED
    BY <2>1, <2>4, <2>6
<1>3. QED
  BY <1>1, <1>2 DEF Message

-----------------------------------------------------------------------------
(* receiver_loop(), recv_packet() and recv_exact().                        *)

\* Who does not send, and does not touch what has been sent, leaves the rest
\* to the receiver's own accounts.
LEMMA AccountedStill ==
  ASSUME Inv, UNCHANGED <<writing, offset, sent, torn, spoiled, toBroker, link, queue>>,
         Stream' = Stream
  PROVE  Sending' /\ Faithful'
<1>1. Sending'
  BY WritersKept
<1>2. SUFFICES ASSUME ~spoiled PROVE Faithful'
  BY <1>1 DEF Faithful
<1>3. PICK a \in Seq(Messages), its \in Seq(Items), c \in Seq(Messages), part \in Seq(Nat) :
        Accounted(a, its, c, part)
  BY <1>2 DEF Inv, Faithful
<1>4. SentIs(a, its, c)' /\ HalfIs(part)'
  BY <1>3, WritersKept DEF Accounted
<1>5. QueueIs(a)' /\ StreamIs(its)' /\ BrokerHas(c, part)'
  BY <1>3 DEF Accounted, QueueIs, StreamIs, BrokerHas
<1>6. QED
  BY <1>4, <1>5 DEF Faithful, Accounted

\* What the receiver has read, as values.
LEMMA ReceiverHas ==
  ASSUME Inv
  PROVE  /\ header \in Seq(Nat) /\ digits \in Seq(Nat) /\ payload \in Seq(Nat)
         /\ toClient \in Seq(Nat) /\ Parsed(header, digits, payload)
BY DEF Inv, Types, Parsing

\* recv_packet() advances by a header, a digit or a piece of the payload.
LEMMA RecvKeeps ==
  ASSUME Inv, Recv
  PROVE  Inv'
<1>1. /\ UNCHANGED <<connected, writing, offset, toBroker, writes, sent, torn, spoiled, fault>>
      /\ UNCHANGED <<link, others, receiver, queue>>
      /\ toClient # <<>>
  BY DEF Recv, writerVars, sendVars, brokerVars
<1>2. SUFFICES ASSUME header' \in Seq(Nat), digits' \in Seq(Nat), payload' \in Seq(Nat),
                      toClient' \in Seq(Nat), Parsed(header, digits, payload)', Stream' = Stream
               PROVE  Inv'
  <2>1. SUFFICES /\ header' \in Seq(Nat) /\ digits' \in Seq(Nat) /\ payload' \in Seq(Nat)
                 /\ toClient' \in Seq(Nat) /\ Parsed(header, digits, payload)' /\ Stream' = Stream
    OBVIOUS
  <2>2. PICK h \in Seq(Nat), d \in Seq(Nat), p \in Seq(Nat), s \in Seq(Nat) :
          /\ h = header /\ d = digits /\ p = payload /\ s = toClient
          /\ s # <<>> /\ Parsed(h, d, p)
    BY <1>1, ReceiverHas
  <2>3. Len(d) \in Nat /\ Len(p) \in Nat /\ Len(s) \in Nat
    BY LenProperties
  <2>4. CASE header = <<>> /\ header' = SubSeq(toClient, 1, 1) /\ toClient' = Tail(toClient)
             /\ UNCHANGED <<digits, payload>>
    <3>1. ~Ended(<<>>)
      BY DEF Ended
    <3>2. h = <<>> /\ d = <<>> /\ p = <<>>
      BY <2>2, <2>4, <3>1 DEF Parsed
    <3>3. PICK k \in Seq(Nat), t \in Seq(Nat) :
            /\ k = SubSeq(s, 1, 1) /\ Len(k) = 1 /\ t = Tail(s)
            /\ ((k \o <<>>) \o <<>>) \o t = s
      BY <2>2, HeaderRead
    <3>4. header' = k /\ digits' = <<>> /\ payload' = <<>> /\ toClient' = t
      BY <2>2, <2>4, <3>2, <3>3
    <3>5. Parsed(k, <<>>, <<>>)
      <4>1. Len(<<>>) = 0
        BY EmptySeq
      <4>2. NoEnd(<<>>)
        BY <4>1 DEF NoEnd
      <4>3. QED
        BY <3>1, <3>3, <4>1, <4>2 DEF Parsed, MaxDigits
    <3>6. Stream = s
      <4>1. <<>> \o <<>> = <<>>
        BY EmptySeq, ConcatEmptySeq
      <4>2. <<>> \o s = s
        BY ConcatEmptySeq
      <4>3. QED
        BY <2>2, <3>2, <4>1, <4>2 DEF Stream
    <3>7. Stream' = s
      BY <3>3, <3>4 DEF Stream
    <3>8. <<>> \in Seq(Nat)
      BY EmptySeq
    <3>9. QED
      BY <3>4, <3>5, <3>6, <3>7, <3>8
  <2>5. CASE header # <<>> /\ InLength /\ digits' = Append(digits, Head(toClient))
             /\ toClient' = Tail(toClient) /\ UNCHANGED <<header, payload>>
    <3>1. ~Ended(d) /\ Len(d) < 4
      BY <2>2, <2>5 DEF InLength, Decodes, Ended, MaxDigits
    <3>2. p = <<>> /\ NoEnd(d) /\ Len(h) <= 1 /\ h # <<>>
      BY <2>2, <2>5, <3>1 DEF Parsed
    <3>3. PICK x \in Nat, t \in Seq(Nat) :
            /\ x = Head(s) /\ t = Tail(s)
            /\ ((h \o Append(d, x)) \o <<>>) \o t = ((h \o d) \o <<>>) \o s
      <4>1. Head(s) \in Nat /\ Tail(s) \in Seq(Nat) /\ DigitMoves(h, d, s)
        BY <2>2, DigitIsMoved
      <4>2. QED
        BY <4>1 DEF DigitMoves
    <3>4. PICK e \in Seq(Nat) : /\ e = Append(d, x) /\ Len(e) = Len(d) + 1
                                /\ IsLastDigit(x) => EndsAtLast(e)
                                /\ ~IsLastDigit(x) => ~Ended(e) /\ NoEnd(e)
      BY <3>2, DigitRead
    <3>5. header' = h /\ digits' = e /\ payload' = <<>> /\ toClient' = t
      BY <2>2, <2>5, <3>2, <3>3, <3>4
    <3>6. Parsed(h, e, <<>>)
      <4>1. Len(e) <= MaxDigits
        BY <2>3, <3>1, <3>4 DEF MaxDigits
      <4>2. Ended(e) => EndsAtLast(e)
        BY <3>4
      <4>3. ~Ended(e) => NoEnd(e)
        <5>1. EndsAtLast(e) => Ended(e)
          BY EmptySeq DEF EndsAtLast, Ended, Last
        <5>2. QED
          BY <3>4, <5>1
      <4>4. Len(<<>>) <= DecodeLength(e)
        BY EmptySeq, DecodeLengthType
      <4>5. QED
        BY <3>2, <4>1, <4>2, <4>3, <4>4 DEF Parsed
    <3>7. Stream' = Stream
      BY <2>2, <3>2, <3>3, <3>4, <3>5 DEF Stream
    <3>8. <<>> \in Seq(Nat)
      BY EmptySeq
    <3>9. QED
      BY <3>5, <3>6, <3>7, <3>8
  <2>6. ASSUME Decodes, Missing > 0, NEW n \in {1, Min({Missing, Len(toClient)})},
               payload' = payload \o SubSeq(toClient, 1, n),
               toClient' = SubSeq(toClient, n + 1, Len(toClient)),
               UNCHANGED <<header, digits>>
        PROVE  /\ header' \in Seq(Nat) /\ digits' \in Seq(Nat) /\ payload' \in Seq(Nat)
               /\ toClient' \in Seq(Nat) /\ Parsed(header, digits, payload)' /\ Stream' = Stream
    <3>1. Ended(d)
      BY <2>2, <2>6 DEF Decodes, Ended
    <3>2. PICK l \in Nat : l = DecodeLength(d)
      BY DecodeLengthType
    <3>3. PICK miss \in Nat : miss = Missing /\ miss > 0 /\ miss = l - Len(p)
      BY <2>2, <2>3, <2>6, <3>2 DEF Missing
    <3>4. PICK ls \in Nat : ls = Len(s) /\ ls > 0
      BY <2>2, <2>3, EmptySeq
    <3>5. n \in 1..Len(s) /\ n <= miss
      <4>1. n \in {1, Min({miss, ls})}
        BY <2>2, <2>6, <3>3, <3>4
      <4>2. Min({miss, ls}) \in {miss, ls} /\ Min({miss, ls}) <= miss /\ Min({miss, ls}) <= ls
        BY LeastOfTwo
      <4>3. n \in 1..ls /\ n <= miss
        BY <3>3, <3>4, <4>1, <4>2
      <4>4. QED
        BY <3>4, <4>3
    <3>6. PICK r \in Seq(Nat) : r = h \o d
      BY ConcatProperties
    <3>7. PICK q \in Seq(Nat), t \in Seq(Nat) :
            /\ q = p \o SubSeq(s, 1, n) /\ t = SubSeq(s, n + 1, Len(s))
            /\ Len(q) = Len(p) + n
            /\ (r \o q) \o t = (r \o p) \o s
      <4>1. PieceMoves(r, p, s, n)
        BY <3>5, PieceIsMoved
      <4>2. QED
        BY <4>1 DEF PieceMoves
    <3>8. header' = h /\ digits' = d /\ payload' = q /\ toClient' = t
      BY <2>2, <2>6, <3>7
    <3>9. Parsed(h, d, q)
      <4>1. Len(q) <= DecodeLength(d)
        BY <2>3, <3>2, <3>3, <3>5, <3>7
      <4>2. QED
        BY <2>2, <3>1, <4>1 DEF Parsed
    <3>10. Stream' = Stream
      BY <2>2, <3>6, <3>7, <3>8 DEF Stream
    <3>11. QED
      BY <3>8, <3>9, <3>10
  <2>7. QED
    BY <2>4, <2>5, <2>6 DEF Recv
<1>3. Types'
  BY <1>1, <1>2 DEF Inv, Types
<1>4. Sending' /\ Faithful'
  BY <1>1, <1>2, AccountedStill
<1>5. QED
  BY <1>2, <1>3, <1>4 DEF Inv, Parsing

\* The end of the receive loop leaves what was received as it is.
LEMMA EndsKeeps ==
  ASSUME Inv, Ends
  PROVE  Inv'
<1>1. /\ UNCHANGED <<writing, offset, toBroker, writes, sent, torn, spoiled, fault>>
      /\ UNCHANGED <<link, others, header, digits, payload, toClient, queue>>
      /\ receiver' = "done" /\ connected' = FALSE
  BY DEF Ends, sendVars, brokerVars
<1>2. Types'
  <2>1. receiver' \in {"loop", "done"} /\ connected' \in BOOLEAN
    BY <1>1
  <2>2. QED
    BY <1>1, <2>1 DEF Inv, Types
<1>3. Stream' = Stream /\ Parsing'
  BY <1>1 DEF Stream, Inv, Parsing
<1>4. QED
  BY <1>1, <1>2, <1>3, AccountedStill DEF Inv

\* A whole packet is the first item of the stream, and what is queued of it is
\* what it carries.
LEMMA WholePacket ==
  ASSUME Inv, Decodes, Missing = 0, NEW its \in Seq(Items), StreamIs(its)
  PROVE  \E item \in Items, more \in Seq(Items) :
           /\ its = <<item>> \o more
           /\ Queued(header[1], payload) = Flat(Body, Told[item])
           /\ toClient = Flat(Wire, more)
<1>1. PICK h \in Seq(Nat), d \in Seq(Nat), p \in Seq(Nat), s \in Seq(Nat) :
        /\ h = header /\ d = digits /\ p = payload /\ s = toClient
        /\ Parsed(h, d, p)
  BY ReceiverHas
<1>2. Ended(d) /\ d # <<>> /\ h # <<>> /\ Len(h) <= 1
  BY <1>1 DEF Decodes, Ended, Parsed
<1>3. EndsAtLast(d) /\ Len(d) <= MaxDigits
  BY <1>1, <1>2 DEF Parsed
<1>4. Len(p) = DecodeLength(d)
  <2>1. Len(p) \in Nat /\ DecodeLength(d) \in Nat
    BY LenProperties, DecodeLengthType
  <2>2. DecodeLength(d) - Len(p) = 0
    BY <1>1 DEF Missing
  <2>3. QED
    BY <2>1, <2>2
<1>5. PICK x \in Nat : h = <<x>> /\ h[1] = x
  BY <1>2, OneByte
<1>6. its # <<>>
  <2>1. ((h \o d) \o p) \o s # <<>>
    BY <1>2, SomethingIsRead
  <2>2. its = <<>> => Flat(Wire, its) = <<>>
    BY FlatEmpty
  <2>3. QED
    BY <1>1, <2>1, <2>2 DEF StreamIs, Stream
<1>7. PICK item \in Items, more \in Seq(Items), one \in Seq(Items) :
        one = <<item>> /\ its = one \o more
  <2>1. /\ <<Head(its)>> \in Seq(Items) /\ Tail(its) \in Seq(Items) /\ Head(its) \in Items
        /\ <<Head(its)>> \o Tail(its) = its
    BY <1>6, HeadSplits
  <2>2. QED
    BY <2>1
<1>8. PICK rest \in Seq(Nat) : rest = Flat(Wire, more)
  BY WireFunctions, FlatType
<1>9. ((<<x>> \o d) \o p) \o s = Wire[item] \o rest
  <2>1. Distributes(Wire, one, more)
    BY WireFunctions, FlatConcat
  <2>2. Flat(Wire, <<item>>) = Wire[item]
    BY WireFunctions, FlatOne
  <2>3. Flat(Wire, its) = Wire[item] \o rest
    BY <1>7, <1>8, <2>1, <2>2, Zenon DEF Distributes
  <2>4. QED
    BY <1>1, <1>5, <2>3 DEF StreamIs, Stream
<1>10. Wire[item] # Endless
  BY <1>3, <1>9, EndlessHasNoEnd
<1>11. PICK first \in Nat, body \in Seq(Nat) :
         Wire[item] = Framed(first, body) /\ Queued(first, body) = Flat(Body, Told[item])
  <2>1. Carries(Wire[item], Flat(Body, Told[item]))
    BY <1>10, ItemCarries
  <2>2. QED
    BY <2>1 DEF Carries
<1>12. x = first /\ p = body /\ s = rest
  <2>1. Reads(x, d, p, s, first, body, rest)
    BY <1>9, <1>11 DEF Reads
  <2>2. Whole(d, p)
    BY <1>3, <1>4 DEF Whole
  <2>3. QED
    BY <2>1, <2>2, ReadsPacket
<1>13. QED
  BY <1>1, <1>5, <1>7, <1>8, <1>11, <1>12

\* receiver_loop() queues the payload of a PUBLISH packet and skips all others.
LEMMA HandleKeeps ==
  ASSUME Inv, Handle
  PROVE  Inv'
<1>1. /\ UNCHANGED <<connected, writing, offset, toBroker, writes, sent, torn, spoiled, fault>>
      /\ UNCHANGED <<link, others, toClient>>
      /\ header' = <<>> /\ digits' = <<>> /\ payload' = <<>>
      /\ receiver' \in {"loop", "done"}
      /\ Decodes /\ Missing = 0
  BY DEF Handle, Queues, writerVars, sendVars, brokerVars
<1>2. queue' = IF PacketType(header[1]) = 3 THEN queue \o Message(payload) ELSE queue
  BY DEF Handle, Queues
<1>3. queue \in Seq(Nat) /\ payload \in Seq(Nat) /\ toClient \in Seq(Nat)
  BY DEF Inv, Types
<1>4. Message(payload) \in Seq(Nat)
  BY <1>3, MessageType
<1>5. Types'
  <2>1. queue' \in Seq(Nat)
    <3>1. queue \o Message(payload) \in Seq(Nat)
      BY <1>3, <1>4, ConcatProperties
    <3>2. QED
      BY <1>2, <1>3, <3>1
  <2>2. header' \in Seq(Nat) /\ digits' \in Seq(Nat) /\ payload' \in Seq(Nat)
    BY <1>1, EmptySeq
  <2>3. QED
    BY <1>1, <2>1, <2>2 DEF Inv, Types
<1>6. Sending'
  BY <1>1, WritersKept
<1>7. Parsing'
  <2>1. Len(<<>>) = 0 /\ ~Ended(<<>>)
    BY EmptySeq DEF Ended
  <2>2. NoEnd(<<>>)
    BY <2>1 DEF NoEnd
  <2>3. Parsed(<<>>, <<>>, <<>>)
    BY <2>1, <2>2 DEF Parsed, MaxDigits
  <2>4. QED
    BY <1>1, <2>3 DEF Parsing
<1>8. Faithful'
  <2>1. SUFFICES ASSUME ~spoiled PROVE Faithful'
    BY <1>1 DEF Faithful
  <2>2. PICK a \in Seq(Messages), its \in Seq(Items), c \in Seq(Messages), part \in Seq(Nat) :
          Accounted(a, its, c, part)
    BY <2>1 DEF Inv, Faithful
  <2>3. PICK item \in Items, more \in Seq(Items), one \in Seq(Items) :
          /\ one = <<item>> /\ its = one \o more
          /\ Queued(header[1], payload) = Flat(Body, Told[item])
          /\ toClient = Flat(Wire, more)
    <3>1. PICK item \in Items, more \in Seq(Items) :
            /\ its = <<item>> \o more
            /\ Queued(header[1], payload) = Flat(Body, Told[item])
            /\ toClient = Flat(Wire, more)
      BY <1>1, <2>2, WholePacket DEF Accounted
    <3>2. <<item>> \in Seq(Items)
      BY OneElement
    <3>3. QED
      BY <3>1, <3>2
  <2>4. PICK x \in Seq(Messages) : x = Told[item]
    BY WireFunctions DEF YieldsSeqs
  <2>5. PICK b \in Seq(Messages) : b = a \o x
    BY ConcatProperties
  <2>6. QueueIs(b)'
    <3>1. queue' = queue \o Flat(Body, x)
      <4>1. CASE PacketType(header[1]) = 3
        BY <1>2, <2>3, <2>4, <4>1 DEF Queued
      <4>2. CASE PacketType(header[1]) # 3
        <5>1. Flat(Body, x) = <<>> /\ queue' = queue
          BY <1>2, <2>3, <2>4, <4>2 DEF Queued
        <5>2. queue \o <<>> = queue
          BY <1>3, ConcatEmptySeq
        <5>3. QED
          BY <5>1, <5>2
      <4>3. QED
        BY <4>1, <4>2
    <3>2. Distributes(Body, a, x)
      BY WireFunctions, FlatConcat
    <3>3. queue = Flat(Body, a)
      BY <2>2 DEF Accounted, QueueIs
    <3>4. QED
      BY <2>5, <3>1, <3>2, <3>3, Zenon DEF QueueIs, Distributes
  <2>7. SentIs(b, more, c)'
    <3>1. PICK t \in Seq(Messages) : t = Flat(Told, more)
      BY WireFunctions, FlatType
    <3>2. Flat(Told, its) = x \o t
      <4>1. Distributes(Told, one, more)
        BY WireFunctions, FlatConcat
      <4>2. Flat(Told, <<item>>) = Told[item]
        BY WireFunctions, FlatOne
      <4>3. QED
        BY <2>3, <2>4, <3>1, <4>1, <4>2, Zenon DEF Distributes
    <3>3. MovesOver(a, x, t, c)
      BY TakenOver
    <3>4. sent = (a \o (x \o t)) \o c
      BY <2>2, <3>2 DEF Accounted, SentIs
    <3>5. QED
      BY <1>1, <2>5, <3>1, <3>3, <3>4, Zenon DEF SentIs, MovesOver
  <2>8. StreamIs(more)'
    <3>1. <<>> \o <<>> = <<>>
      BY EmptySeq, ConcatEmptySeq
    <3>2. <<>> \o toClient = toClient
      BY <1>3, ConcatEmptySeq
    <3>3. QED
      BY <1>1, <2>3, <3>1, <3>2 DEF StreamIs, Stream
  <2>9. BrokerHas(c, part)' /\ HalfIs(part)'
    BY <1>1, <2>2, WritersKept DEF Accounted, BrokerHas
  <2>10. QED
    BY <2>6, <2>7, <2>8, <2>9 DEF Faithful, Accounted
<1>9. QED
  BY <1>5, <1>6, <1>7, <1>8 DEF Inv

-----------------------------------------------------------------------------
(* The theorems.                                                           *)

\* A step that changes no variable keeps the invariant.
LEMMA StutterKeeps ==
  ASSUME Inv, UNCHANGED vars
  PROVE  Inv'
<1>1. /\ UNCHANGED <<connected, writing, offset, toBroker, writes, sent, torn, spoiled, fault>>
      /\ UNCHANGED <<link, others, header, digits, payload, toClient, queue, receiver>>
  BY DEF vars, writerVars, sendVars, brokerVars, receiverVars
<1>2. Types'
  BY <1>1 DEF Inv, Types
<1>3. Stream' = Stream /\ Parsing'
  BY <1>1 DEF Stream, Inv, Parsing
<1>4. QED
  BY <1>1, <1>2, <1>3, AccountedStill DEF Inv

\* The invariant is inductive.
THEOREM InvHolds == Spec => []Inv
<1>1. Inv /\ [Next]_vars => Inv'
  <2>1. SUFFICES ASSUME Inv, [Next]_vars PROVE Inv'
    OBVIOUS
  <2>2. ASSUME NEW w \in Writers, Write(w) \/ Acquire(w) \/ SendSome(w) \/ SendFails(w)
        PROVE  Inv'
    BY <2>1, <2>2, WriteKeeps, AcquireKeeps, SendSomeKeeps, SendFailsKeeps
  <2>3. ASSUME Broker PROVE Inv'
    BY <2>1, <2>3, BrokerForwardsKeeps, BrokerClosesKeeps, BrokerSendsOtherKeeps DEF Broker
  <2>4. ASSUME Receiver PROVE Inv'
    BY <2>1, <2>4, RecvKeeps, HandleKeeps, EndsKeeps DEF Receiver
  <2>5. QED
    BY <2>1, <2>2, <2>3, <2>4, StutterKeeps DEF Next
<1>2. QED
  BY <1>1, Start, PTL DEF Spec

\* Each variable keeps its type; in particular no send_packet() is ever past
\* the end of its packet, and recv_packet() never reads more of a payload than
\* its length announces.
THEOREM TypeCorrect == Spec => []TypeOK
<1>1. Inv => TypeOK
  <2>1. SUFFICES ASSUME Inv PROVE TypeOK
    OBVIOUS
  <2>2. ASSUME NEW w \in Writers
        PROVE  offset[w] \in IF writing[w] = NoMessage THEN {-1} ELSE -1..Len(Packet[writing[w]])
    <3>1. CASE offset[w] = -1
      <4>1. ASSUME writing[w] # NoMessage PROVE -1 \in -1..Len(Packet[writing[w]])
        <5>1. writing[w] \in Messages
          BY <2>1, <4>1 DEF Inv, Types
        <5>2. Len(Packet[writing[w]]) \in Nat
          BY <5>1, PacketCarries, LenProperties
        <5>3. QED
          BY <5>2
      <4>2. QED
        BY <3>1, <4>1
    <3>2. CASE offset[w] # -1
      <4>1. Inside(w)
        BY <2>1, <3>2 DEF Inv, Sending
      <4>2. writing[w] # NoMessage
        BY <4>1, MessageParts, FramingAssumption DEF Inside, FramingAssumption
      <4>3. Len(Packet[writing[w]]) \in Nat
        BY <4>1, PacketCarries, LenProperties DEF Inside
      <4>4. QED
        BY <4>1, <4>2, <4>3 DEF Inside
    <3>3. QED
      BY <3>1, <3>2
  <2>3. Decodes => Missing >= 0
    <3>1. SUFFICES ASSUME Decodes PROVE Missing >= 0
      OBVIOUS
    <3>2. /\ digits \in Seq(Nat) /\ payload \in Seq(Nat) /\ Parsed(header, digits, payload)
      BY <2>1, ReceiverHas
    <3>3. Len(payload) <= DecodeLength(digits)
      BY <3>1, <3>2 DEF Decodes, Ended, Parsed
    <3>4. Len(payload) \in Nat /\ DecodeLength(digits) \in Nat
      BY <3>2, LenProperties, DecodeLengthType
    <3>5. QED
      BY <3>3, <3>4 DEF Missing
  <2>4. QED
    BY <2>1, <2>2, <2>3 DEF Inv, Types, TypeOK
<1>2. QED
  BY <1>1, InvHolds, PTL

\* Until a packet is sent behind the half of another, the receiver has queued
\* exactly the first messages that were wholly sent, whole and in order: for
\* any number of threads, topic, message lengths and packets of the broker's
\* own, and however the bytes are cut (MQTT.cpp:164-217, 262-350).
THEOREM QueueIsAsWritten == Spec => []QueuedAsWritten
<1>1. Inv => QueuedAsWritten
  <2>1. SUFFICES ASSUME Inv, ~spoiled PROVE QueuedAsWritten
    BY DEF QueuedAsWritten
  <2>2. PICK a \in Seq(Messages), its \in Seq(Items), c \in Seq(Messages), part \in Seq(Nat) :
          Accounted(a, its, c, part)
    BY <2>1 DEF Inv, Faithful
  <2>3. PICK t \in Seq(Messages) : t = Flat(Told, its)
    BY WireFunctions, FlatType
  <2>4. PICK r \in Seq(Messages) : r = t \o c
    BY ConcatProperties
  <2>5. sent = a \o r
    <3>1. Associative(a, t, c)
      BY ConcatIsAssociative
    <3>2. sent = (a \o t) \o c
      BY <2>2, <2>3 DEF Accounted, SentIs
    <3>3. QED
      BY <2>4, <3>1, <3>2, Zenon DEF Associative
  <2>6. /\ Len(a) \in Nat /\ Len(r) \in Nat /\ Len(sent) = Len(a) + Len(r)
        /\ \A i \in 1..(Len(a) + Len(r)) : sent[i] = IF i <= Len(a) THEN a[i] ELSE r[i - Len(a)]
    BY <2>5, ConcatProperties, LenProperties
  <2>7. Len(a) \in 0..Len(sent)
    BY <2>6
  <2>8. [i \in 1..Len(a) |-> Payload(sent[i])] = Image(Body, a)
    <3>1. ASSUME NEW i \in 1..Len(a) PROVE Payload(sent[i]) = Body[a[i]]
      <4>1. i \in 1..(Len(a) + Len(r)) /\ i <= Len(a)
        BY <2>6
      <4>2. sent[i] = a[i] /\ a[i] \in Messages
        BY <2>6, <4>1, ElementOfSeq
      <4>3. QED
        BY <4>2 DEF Body
    <3>2. QED
      BY <3>1 DEF Image
  <2>9. queue = FlattenSeq([i \in 1..Len(a) |-> Payload(sent[i])])
    BY <2>2, <2>8 DEF Accounted, QueueIs, Flat
  <2>10. QED
    BY <2>7, <2>9 DEF QueuedAsWritten
<1>2. QED
  BY <1>1, InvHolds, PTL
============================================================================
