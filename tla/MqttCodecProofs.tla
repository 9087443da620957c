-------------------------- MODULE MqttCodecProofs --------------------------
(***************************************************************************)
(* Proofs about the encodings of src/src/MQTT.cpp, for every base: a       *)
(* length is decoded as it was encoded, and so is a topic's.  Encoding a   *)
(* length is a recursion on its quotient by Base, so each proof is by      *)
(* strong induction on the length.                                         *)
(***************************************************************************)
EXTENDS MqttCodec, SequenceLemmas

(***************************************************************************)
(* Division.                                                               *)
(***************************************************************************)

\* Quotient and remainder.
LEMMA Division ==
  ASSUME NEW n \in Nat, NEW b \in Nat, b > 0
  PROVE  /\ n \div b \in Nat /\ n % b \in Nat /\ n % b < b
         /\ n = b * (n \div b) + (n % b)
OBVIOUS

\* They are determined.
LEMMA DivisionIsUnique ==
  ASSUME NEW b \in Nat, b > 0, NEW q \in Nat, NEW r \in Nat, r < b,
         NEW n \in Nat, n = b * q + r
  PROVE  n \div b = q /\ n % b = r
<1>1. PICK p \in Nat, s \in Nat : p = n \div b /\ s = n % b /\ s < b /\ n = b * p + s
  BY Division
<1>2. b * q + r = b * p + s
  BY <1>1
<1>3. ASSUME p > q PROVE FALSE
  <2>1. PICK d \in Nat : p = q + 1 + d
    BY <1>3
  <2>2. b * p = b * q + b + b * d /\ b * d >= 0
    BY <2>1
  <2>3. QED
    BY <1>1, <1>2, <2>2
<1>4. ASSUME q > p PROVE FALSE
  <2>1. PICK d \in Nat : q = p + 1 + d
    BY <1>4
  <2>2. b * q = b * p + b + b * d /\ b * d >= 0
    BY <2>1
  <2>3. QED
    BY <1>1, <1>2, <2>2
<1>5. p = q
  BY <1>3, <1>4
<1>6. QED
  BY <1>1, <1>2, <1>5

(***************************************************************************)
(* Encoding a length.                                                      *)
(***************************************************************************)

\* A longer length has a shorter one behind its first digit.
LEMMA Shorter ==
  ASSUME NEW n \in Nat, n >= Base
  PROVE  n \div Base \in Nat /\ n \div Base < n
<1>1. PICK q \in Nat, r \in Nat : q = n \div Base /\ n = Base * q + r /\ r < Base
  BY CodecAssumption, Division DEF CodecAssumption
<1>2. Base * q >= 2 * q
  BY CodecAssumption DEF CodecAssumption
<1>3. q > 0
  BY <1>1, CodecAssumption DEF CodecAssumption
<1>4. PICK p \in Nat : p = Base * q
  BY CodecAssumption DEF CodecAssumption
<1>5. n = p + r /\ p >= 2 * q
  BY <1>1, <1>2, <1>4
<1>6. q < n
  BY <1>3, <1>5
<1>7. QED
  BY <1>1, <1>6

Encodes(f, n) ==
  f[n] = IF n < Base THEN <<n>> ELSE <<(n % Base) + Base>> \o f[n \div Base]
EncodesUpTo(f, k) == f \in [0..k -> Seq(Nat)] /\ \A n \in 0..k : Encodes(f, n)

\* One step of the encoding stays among the sequences of numbers.
LEMMA EncodingStep ==
  ASSUME NEW n \in Nat, NEW t \in Seq(Nat)
  PROVE  /\ <<n>> \in Seq(Nat)
         /\ (n % Base) + Base \in Nat
         /\ <<(n % Base) + Base>> \o t \in Seq(Nat)
<1>1. (n % Base) + Base \in Nat
  BY CodecAssumption DEF CodecAssumption
<1>2. PICK d \in Nat : d = (n % Base) + Base
  BY <1>1
<1>3. <<d>> \in Seq(Nat) /\ <<n>> \in Seq(Nat)
  OBVIOUS
<1>4. <<d>> \o t \in Seq(Nat)
  BY <1>3, ConcatProperties
<1>5. QED
  BY <1>1, <1>2, <1>3, <1>4

\* There are functions that encode all lengths up to a number.
LEMMA EncodersExist ==
  ASSUME NEW k \in Nat
  PROVE  \E f : EncodesUpTo(f, k)
<1> DEFINE T == {j \in Nat : \E f : EncodesUpTo(f, j)}
<1>1. 0 \in T
  <2>1. <<0>> \in Seq(Nat) /\ 0 < Base
    BY CodecAssumption DEF CodecAssumption
  <2>2. EncodesUpTo([n \in 0..0 |-> <<0>>], 0)
    BY <2>1 DEF EncodesUpTo, Encodes
  <2>3. QED
    BY <2>2
<1>2. ASSUME NEW j \in T PROVE j + 1 \in T
  <2>1. PICK f : EncodesUpTo(f, j)
    OBVIOUS
  <2>2. j \in Nat
    OBVIOUS
  <2> DEFINE next == IF j + 1 < Base THEN <<j + 1>>
                     ELSE <<((j + 1) % Base) + Base>> \o f[(j + 1) \div Base]
             g == [n \in 0..(j + 1) |-> IF n = j + 1 THEN next ELSE f[n]]
  <2>3. next \in Seq(Nat)
    <3>1. CASE j + 1 < Base
      BY <2>2, <3>1
    <3>2. CASE ~(j + 1 < Base)
      <4>1. (j + 1) \div Base \in 0..j
        BY <2>2, <3>2, Shorter, CodecAssumption DEF CodecAssumption
      <4>2. f[(j + 1) \div Base] \in Seq(Nat)
        BY <2>1, <4>1 DEF EncodesUpTo
      <4>3. QED
        BY <2>2, <3>2, <4>2, EncodingStep
    <3>3. QED
      BY <3>1, <3>2
  <2>4. g \in [0..(j + 1) -> Seq(Nat)]
    <3> HIDE DEF next
    <3>1. QED
      BY <2>1, <2>2, <2>3 DEF EncodesUpTo
  <2>5. ASSUME NEW n \in 0..(j + 1) PROVE Encodes(g, n)
    <3>1. n \in Nat
      BY <2>2
    <3>2. n >= Base => n \div Base \in 0..j /\ g[n \div Base] = f[n \div Base]
      BY <2>2, <3>1, Shorter
    <3>3. CASE n = j + 1
      <4>1. g[n] = IF n < Base THEN <<n>> ELSE <<(n % Base) + Base>> \o f[n \div Base]
        BY <3>3
      <4>2. QED
        BY <3>1, <3>2, <4>1, CodecAssumption DEF Encodes, CodecAssumption
    <3>4. CASE n # j + 1
      <4>1. n \in 0..j /\ g[n] = f[n]
        BY <2>2, <3>4
      <4>2. f[n] = IF n < Base THEN <<n>> ELSE <<(n % Base) + Base>> \o f[n \div Base]
        BY <2>1, <4>1 DEF EncodesUpTo, Encodes
      <4>3. QED
        BY <3>1, <3>2, <4>1, <4>2, CodecAssumption DEF Encodes, CodecAssumption
    <3>5. QED
      BY <3>3, <3>4
  <2>6. EncodesUpTo(g, j + 1)
    <3> HIDE DEF g
    <3>1. QED
      BY <2>4, <2>5 DEF EncodesUpTo
  <2>7. QED
    BY <2>2, <2>6
<1>3. T = Nat
  <2> HIDE DEF T
  <2>1. T \subseteq Nat
    BY DEF T
  <2>2. QED
    BY <1>1, <1>2, <2>1, SetInduction
<1>4. QED
  BY <1>3

\* They agree where both are defined.
LEMMA EncodersAgree ==
  ASSUME NEW k \in Nat, NEW l \in Nat, NEW f, NEW g,
         EncodesUpTo(f, k), EncodesUpTo(g, l), NEW n \in 0..k, n <= l
  PROVE  f[n] = g[n]
<1> DEFINE T == {j \in Nat : j <= k /\ j <= l => f[j] = g[j]}
<1>1. ASSUME NEW j \in Nat, 0..(j - 1) \subseteq T PROVE j \in T
  <2>1. SUFFICES ASSUME j <= k, j <= l PROVE f[j] = g[j]
    OBVIOUS
  <2>2. Encodes(f, j) /\ Encodes(g, j)
    BY <2>1 DEF EncodesUpTo
  <2>3. j >= Base => f[j \div Base] = g[j \div Base]
    <3>1. SUFFICES ASSUME j >= Base PROVE f[j \div Base] = g[j \div Base]
      OBVIOUS
    <3>2. PICK i \in Nat : i = j \div Base /\ i < j
      BY <3>1, Shorter
    <3>3. i \in T
      BY <1>1, <3>2
    <3>4. QED
      BY <2>1, <3>2, <3>3
  <2>4. QED
    BY <2>2, <2>3, CodecAssumption DEF Encodes, CodecAssumption
<1>2. T = Nat
  <2> HIDE DEF T
  <2>1. T \subseteq Nat
    BY DEF T
  <2>2. QED
    BY <1>1, <2>1, StrongInduction
<1>3. QED
  BY <1>2

\* What the recursive definition says of every length.
LEMMA RemainingLengthUnfolds ==
  /\ RemainingLength \in [Nat -> Seq(Nat)]
  /\ \A n \in Nat : Encodes(RemainingLength, n)
<1> DEFINE Body(f, n) == IF n < Base THEN <<n>>
                         ELSE <<(n % Base) + Base>> \o f[n \div Base]
           Solves(f) == f = [n \in Nat |-> Body(f, n)]
           encoder == [k \in Nat |-> CHOOSE f : EncodesUpTo(f, k)]
           all == [n \in Nat |-> encoder[n][n]]
<1>1. \A k \in Nat : EncodesUpTo(encoder[k], k)
  <2>1. ASSUME NEW k \in Nat PROVE EncodesUpTo(CHOOSE f : EncodesUpTo(f, k), k)
    BY EncodersExist
  <2>2. QED
    BY <2>1
<1>2. all \in [Nat -> Seq(Nat)]
  <2> HIDE DEF encoder
  <2>1. ASSUME NEW n \in Nat PROVE encoder[n][n] \in Seq(Nat)
    BY <1>1 DEF EncodesUpTo
  <2>2. QED
    BY <2>1
<1>3. ASSUME NEW n \in Nat PROVE all[n] = Body(all, n)
  <2> HIDE DEF encoder
  <2>1. EncodesUpTo(encoder[n], n)
    BY <1>1
  <2>2. Encodes(encoder[n], n)
    BY <2>1 DEF EncodesUpTo
  <2>3. n >= Base => encoder[n][n \div Base] = all[n \div Base]
    <3>1. SUFFICES ASSUME n >= Base PROVE encoder[n][n \div Base] = all[n \div Base]
      OBVIOUS
    <3>2. PICK i \in Nat : i = n \div Base /\ i < n
      BY <3>1, Shorter
    <3>3. EncodesUpTo(encoder[i], i)
      BY <1>1
    <3>4. encoder[i][i] = encoder[n][i]
      BY <2>1, <3>2, <3>3, EncodersAgree
    <3>5. QED
      BY <3>2, <3>4
  <2>4. all[n] = encoder[n][n]
    OBVIOUS
  <2> HIDE DEF all
  <2>5. QED
    BY <2>2, <2>3, <2>4, CodecAssumption DEF Encodes, CodecAssumption
<1>4. Solves(all)
  <2> HIDE DEF Body
  <2>1. all = [n \in Nat |-> all[n]]
    OBVIOUS
  <2> HIDE DEF all
  <2>2. QED
    BY <1>3, <2>1
<1>5. RemainingLength = CHOOSE f : Solves(f)
  BY DEF RemainingLength
<1>6. Solves(RemainingLength)
  <2> HIDE DEF Solves, all
  <2>1. QED
    BY <1>4, <1>5
<1>7. \A n \in Nat : Encodes(RemainingLength, n)
  BY <1>6 DEF Encodes
<1>8. ASSUME NEW n \in Nat PROVE RemainingLength[n] \in Seq(Nat)
  <2> DEFINE T == {j \in Nat : RemainingLength[j] \in Seq(Nat)}
  <2>1. ASSUME NEW j \in Nat, 0..(j - 1) \subseteq T PROVE j \in T
    <3>1. Encodes(RemainingLength, j)
      BY <1>7
    <3>2. j >= Base => RemainingLength[j \div Base] \in Seq(Nat)
      BY <2>1, Shorter
    <3>3. CASE j < Base
      BY <3>1, <3>3, EmptySeq, EncodingStep DEF Encodes
    <3>4. CASE ~(j < Base)
      <4>1. RemainingLength[j \div Base] \in Seq(Nat)
        BY <3>2, <3>4, CodecAssumption DEF CodecAssumption
      <4>2. <<(j % Base) + Base>> \o RemainingLength[j \div Base] \in Seq(Nat)
        BY <4>1, EncodingStep
      <4>3. QED
        BY <3>1, <3>4, <4>2 DEF Encodes
    <3>5. QED
      BY <3>3, <3>4
  <2>2. T = Nat
    <3> HIDE DEF T
    <3>1. T \subseteq Nat
      BY DEF T
    <3>2. QED
      BY <2>1, <3>1, StrongInduction
  <2>3. QED
    BY <2>2
<1>9. RemainingLength = [n \in Nat |-> RemainingLength[n]]
  <2>1. Solves(RemainingLength) => RemainingLength = [n \in Nat |-> RemainingLength[n]]
    OBVIOUS
  <2>2. QED
    BY <1>6, <2>1
<1>10. QED
  BY <1>7, <1>8, <1>9

(***************************************************************************)
(* Decoding it.                                                            *)
(***************************************************************************)

\* The last digit ends a length, and only that.
EndsAtLast(digits) ==
  /\ Len(digits) > 0 /\ IsLastDigit(digits[Len(digits)])
  /\ \A i \in 1..(Len(digits) - 1) : ~IsLastDigit(digits[i])

\* An encoded length ends at its last digit and not before.
LEMMA EncodedEndsAtLast ==
  ASSUME NEW n \in Nat
  PROVE  EndsAtLast(RemainingLength[n])
<1> DEFINE T == {j \in Nat : EndsAtLast(RemainingLength[j])}
<1>1. ASSUME NEW j \in Nat, 0..(j - 1) \subseteq T PROVE j \in T
  <2>1. Encodes(RemainingLength, j)
    BY RemainingLengthUnfolds
  <2>2. CASE j < Base
    <3>1. PICK s \in Seq(Nat) : s = <<j>> /\ Len(s) = 1 /\ s[1] = j
      BY OneElement
    <3>2. RemainingLength[j] = s
      BY <2>1, <2>2, <3>1 DEF Encodes
    <3>3. EndsAtLast(s)
      BY <2>2, <3>1 DEF EndsAtLast, IsLastDigit
    <3>4. QED
      BY <3>2, <3>3
  <2>3. CASE ~(j < Base)
    <3>1. PICK i \in Nat : i = j \div Base /\ i < j
      BY <2>3, Shorter, CodecAssumption DEF CodecAssumption
    <3>2. PICK t \in Seq(Nat) : t = RemainingLength[i] /\ EndsAtLast(t)
      <4>1. i \in T
        BY <1>1, <3>1
      <4>2. QED
        BY <4>1, RemainingLengthUnfolds
    <3>3. PICK d \in Nat : d = (j % Base) + Base /\ ~IsLastDigit(d)
      <4>1. j % Base \in Nat
        BY CodecAssumption DEF CodecAssumption
      <4>2. (j % Base) + Base \in Nat /\ ~((j % Base) + Base < Base)
        BY <4>1, CodecAssumption DEF CodecAssumption
      <4>3. QED
        BY <4>2 DEF IsLastDigit
    <3>4. PICK s \in Seq(Nat) : s = <<d>> \o t
      BY ConsProperties
    <3>5. /\ Len(s) = Len(t) + 1 /\ s[1] = d
          /\ \A k \in 1..Len(t) : s[k + 1] = t[k]
      BY <3>4, ConsProperties
    <3>6. RemainingLength[j] = s
      BY <2>1, <2>3, <3>1, <3>2, <3>3, <3>4 DEF Encodes
    <3>7. Len(t) \in Nat
      BY LenProperties
    <3>8. IsLastDigit(s[Len(s)]) /\ Len(s) > 0
      <4>1. Len(t) > 0 /\ IsLastDigit(t[Len(t)])
        BY <3>2 DEF EndsAtLast
      <4>2. Len(t) \in 1..Len(t)
        BY <3>7, <4>1
      <4>3. s[Len(s)] = t[Len(t)]
        BY <3>5, <4>2
      <4>4. QED
        BY <3>5, <3>7, <4>1, <4>3
    <3>9. ASSUME NEW k \in 1..(Len(s) - 1) PROVE ~IsLastDigit(s[k])
      <4>1. CASE k = 1
        BY <3>3, <3>5, <4>1
      <4>2. CASE k # 1
        <5>1. k - 1 \in 1..(Len(t) - 1) /\ s[k] = t[k - 1]
          <6>1. k - 1 \in 1..(Len(t) - 1) /\ k - 1 \in 1..Len(t) /\ (k - 1) + 1 = k
            BY <3>5, <3>7, <4>2
          <6>2. QED
            BY <3>5, <6>1
        <5>2. QED
          BY <3>2, <5>1 DEF EndsAtLast
      <4>3. QED
        BY <4>1, <4>2
    <3>10. EndsAtLast(s)
      BY <3>8, <3>9 DEF EndsAtLast
    <3>11. QED
      BY <3>6, <3>10
  <2>4. QED
    BY <2>2, <2>3
<1>2. T = Nat
  <2> HIDE DEF T
  <2>1. T \subseteq Nat
    BY DEF T
  <2>2. QED
    BY <1>1, <2>1, StrongInduction
<1>3. QED
  BY <1>2

\* What is decoded is a number.
LEMMA DecodeLengthType ==
  ASSUME NEW digits \in Seq(Nat)
  PROVE  DecodeLength(digits) \in Nat
<1>1. \A i \in {1, 2, 3, 4} : Digit(digits, i) \in Nat
  BY LenProperties, ElementOfSeq, CodecAssumption DEF Digit, CodecAssumption
<1>2. PICK a \in Nat, b \in Nat, c \in Nat, d \in Nat :
        /\ a = Digit(digits, 1) /\ b = Digit(digits, 2)
        /\ c = Digit(digits, 3) /\ d = Digit(digits, 4)
  BY <1>1
<1>3. DecodeLength(digits) = a + Base * (b + Base * (c + Base * d))
  BY <1>2 DEF DecodeLength
<1>4. a + Base * (b + Base * (c + Base * d)) \in Nat
  BY CodecAssumption DEF CodecAssumption
<1>5. QED
  BY <1>3, <1>4

\* One more digit in front.
LEMMA DecodeCons ==
  ASSUME NEW e \in Nat, NEW t \in Seq(Nat), Len(t) <= 3
  PROVE  DecodeLength(<<e>> \o t) = (e % Base) + Base * DecodeLength(t)
<1>1. PICK s \in Seq(Nat) : s = <<e>> \o t
  BY ConsProperties
<1>2. /\ Len(s) = Len(t) + 1 /\ s[1] = e
      /\ \A k \in 1..Len(t) : s[k + 1] = t[k]
  BY <1>1, ConsProperties
<1>3. Len(t) \in Nat
  BY LenProperties
<1>4. \A i \in {1, 2, 3} : Digit(t, i) \in Nat /\ Digit(s, i + 1) = Digit(t, i)
  <2>1. ASSUME NEW i \in {1, 2, 3} PROVE Digit(t, i) \in Nat /\ Digit(s, i + 1) = Digit(t, i)
    <3>1. CASE i <= Len(t)
      <4>1. i \in 1..Len(t) /\ t[i] \in Nat
        BY <1>3, <3>1, ElementOfSeq
      <4>2. t[i] % Base \in Nat
        BY <4>1, CodecAssumption DEF CodecAssumption
      <4>3. s[i + 1] = t[i] /\ i + 1 <= Len(s)
        BY <1>2, <1>3, <4>1
      <4>4. QED
        BY <3>1, <4>2, <4>3 DEF Digit
    <3>2. CASE ~(i <= Len(t))
      <4>1. ~(i + 1 <= Len(s))
        BY <1>2, <1>3, <3>2
      <4>2. QED
        BY <3>2, <4>1 DEF Digit
    <3>3. QED
      BY <3>1, <3>2
  <2>2. QED
    BY <2>1
<1>5. Digit(s, 1) = e % Base /\ e % Base \in Nat
  BY <1>2, <1>3, CodecAssumption DEF Digit, CodecAssumption
<1>6. Digit(t, 4) = 0
  BY <1>3 DEF Digit
<1>7. PICK x \in Nat, a \in Nat, b \in Nat, c \in Nat :
        x = e % Base /\ a = Digit(t, 1) /\ b = Digit(t, 2) /\ c = Digit(t, 3)
  BY <1>4, <1>5
<1>8. DecodeLength(s) = x + Base * (a + Base * (b + Base * c))
  <2>1. Digit(s, 2) = a /\ Digit(s, 3) = b /\ Digit(s, 4) = c
    BY <1>4, <1>7
  <2>2. QED
    BY <1>5, <1>7, <2>1 DEF DecodeLength
<1>9. DecodeLength(t) = a + Base * (b + Base * c)
  <2>1. c + Base * 0 = c
    BY CodecAssumption DEF CodecAssumption
  <2>2. QED
    BY <1>6, <1>7, <2>1 DEF DecodeLength
<1>10. QED
  BY <1>1, <1>7, <1>8, <1>9

\* What encode_remaining_length() writes decode_remaining_length() reads, for
\* every length that fits in four digits (MQTT.cpp:30-60).
THEOREM LengthsRoundTrip ==
  \A n \in Nat : Len(RemainingLength[n]) <= MaxDigits => DecodeLength(RemainingLength[n]) = n
<1> DEFINE T == {n \in Nat : Len(RemainingLength[n]) <= MaxDigits
                               => DecodeLength(RemainingLength[n]) = n}
<1>1. ASSUME NEW j \in Nat, 0..(j - 1) \subseteq T PROVE j \in T
  <2>1. Encodes(RemainingLength, j)
    BY RemainingLengthUnfolds
  <2>2. SUFFICES ASSUME Len(RemainingLength[j]) <= 4
                 PROVE  DecodeLength(RemainingLength[j]) = j
    BY DEF MaxDigits
  <2>3. CASE j < Base
    <3>1. PICK none \in Seq(Nat) : none = <<>> /\ Len(none) = 0
      BY EmptySeq
    <3>2. <<j>> \o none = <<j>>
      <4>1. PICK one \in Seq(Nat) : one = <<j>>
        BY OneElement
      <4>2. one \o <<>> = one
        BY ConcatEmptySeq
      <4>3. QED
        BY <3>1, <4>1, <4>2
    <3>3. DecodeLength(<<j>>) = (j % Base) + Base * DecodeLength(none)
      <4>1. Len(none) <= 3
        BY <3>1
      <4>2. DecodeLength(<<j>> \o none) = (j % Base) + Base * DecodeLength(none)
        BY <4>1, DecodeCons, Zenon
      <4>3. QED
        BY <3>2, <4>2
    <3>4. DecodeLength(none) = 0
      <4>1. \A i \in {1, 2, 3, 4} : Digit(none, i) = 0
        BY <3>1 DEF Digit
      <4>2. 0 + Base * (0 + Base * (0 + Base * 0)) = 0
        BY CodecAssumption DEF CodecAssumption
      <4>3. QED
        BY <4>1, <4>2 DEF DecodeLength
    <3>5. j % Base = j
      BY <2>3, CodecAssumption, DivisionIsUnique DEF CodecAssumption
    <3>6. (j % Base) + Base * 0 = j
      BY <3>5, CodecAssumption DEF CodecAssumption
    <3>7. QED
      BY <2>1, <2>3, <3>3, <3>4, <3>6 DEF Encodes
  <2>4. CASE ~(j < Base)
    <3>1. PICK i \in Nat : i = j \div Base /\ i < j
      BY <2>4, Shorter, CodecAssumption DEF CodecAssumption
    <3>2. PICK t \in Seq(Nat) : t = RemainingLength[i]
      BY RemainingLengthUnfolds
    <3>3. PICK r \in Nat : r = j % Base /\ r < Base /\ j = Base * i + r
      <4>1. Base \in Nat /\ Base > 0
        BY CodecAssumption DEF CodecAssumption
      <4>2. j % Base \in Nat /\ j % Base < Base /\ j = Base * (j \div Base) + (j % Base)
        BY <4>1, Division
      <4>3. QED
        BY <3>1, <4>2
    <3>4. PICK d \in Nat : d = r + Base
      BY CodecAssumption DEF CodecAssumption
    <3>5. RemainingLength[j] = <<d>> \o t
      BY <2>1, <2>4, <3>1, <3>2, <3>3, <3>4 DEF Encodes
    <3>6. Len(t) <= 3
      <4>1. Len(<<d>> \o t) = Len(t) + 1 /\ Len(t) \in Nat
        BY ConsProperties, LenProperties
      <4>2. QED
        BY <2>2, <3>5, <4>1
    <3>7. DecodeLength(t) = i
      <4>1. i \in T
        BY <1>1, <3>1
      <4>2. QED
        BY <3>2, <3>6, <4>1, LenProperties DEF MaxDigits
    <3>8. d % Base = r
      <4>1. d = Base * 1 + r
        BY <3>4, CodecAssumption DEF CodecAssumption
      <4>2. Base \in Nat /\ Base > 0 /\ 1 \in Nat /\ r < Base
        BY <3>3, CodecAssumption DEF CodecAssumption
      <4>3. QED
        BY <4>1, <4>2, DivisionIsUnique
    <3>9. DecodeLength(<<d>> \o t) = r + Base * i
      BY <3>6, <3>7, <3>8, DecodeCons
    <3>10. r + Base * i = j
      BY <3>3, CodecAssumption DEF CodecAssumption
    <3>11. QED
      BY <3>5, <3>9, <3>10
  <2>5. QED
    BY <2>3, <2>4
<1>2. T = Nat
  <2> HIDE DEF T
  <2>1. T \subseteq Nat
    BY DEF T
  <2>2. QED
    BY <1>1, <2>1, StrongInduction
<1>3. QED
  BY <1>2

(***************************************************************************)
(* Packets.                                                                *)
(***************************************************************************)

\* A length of 16 bits is read as it was written.
LEMMA U16RoundTrip ==
  ASSUME NEW n \in 0..(U16 - 1)
  PROVE  /\ EncodeU16(n) \in Seq(Nat) /\ Len(EncodeU16(n)) = 2
         /\ EncodeU16(n)[1] * 2 * Base + EncodeU16(n)[2] = n
<1>1. PICK b \in Nat : b = 2 * Base /\ b > 0
  BY CodecAssumption DEF CodecAssumption
<1>2. U16 = b * b /\ U16 \in Nat /\ U16 > 0
  BY <1>1 DEF U16
<1>3. n \in Nat /\ n < U16
  BY <1>2
<1>4. n % U16 = n
  BY <1>2, <1>3
<1>5. PICK q \in Nat, r \in Nat : q = n \div b /\ r = n % b /\ n = b * q + r
  <2>1. n \div b \in Nat /\ n % b \in Nat /\ n = b * (n \div b) + (n % b)
    BY <1>1, <1>3, Division
  <2>2. QED
    BY <2>1
<1>6. EncodeU16(n) = <<q, r>>
  BY <1>1, <1>4, <1>5 DEF EncodeU16
<1>7. <<q, r>> \in Seq(Nat)
  OBVIOUS
<1>8. Len(<<q, r>>) = 2 /\ <<q, r>>[1] = q /\ <<q, r>>[2] = r
  OBVIOUS
<1>9. q * 2 * Base + r = n
  <2>1. q * 2 * Base = q * (2 * Base)
    BY CodecAssumption DEF CodecAssumption
  <2>2. q * b = b * q
    BY <1>1
  <2>3. QED
    BY <1>1, <1>5, <2>1, <2>2
<1>10. QED
  BY <1>6, <1>7, <1>8, <1>9

\* A string behind its length, and what follows it.
LEMMA StringIsMeasured ==
  ASSUME NEW string \in Seq(Nat), Len(string) <= U16 - 1, NEW rest \in Seq(Nat)
  PROVE  /\ AppendString(string) \in Seq(Nat)
         /\ Len(AppendString(string)) = 2 + Len(string)
         /\ DecodeU16(AppendString(string) \o rest) = Len(string)
<1>1. U16 \in Nat /\ Len(string) \in Nat /\ Len(string) \in 0..(U16 - 1)
  BY LenProperties, CodecAssumption DEF U16, CodecAssumption
<1>2. PICK e \in Seq(Nat) : /\ e = EncodeU16(Len(string)) /\ Len(e) = 2
                            /\ e[1] * 2 * Base + e[2] = Len(string)
  BY <1>1, U16RoundTrip
<1>3. PICK s \in Seq(Nat) : s = e \o string /\ Len(s) = 2 + Len(string)
                            /\ s[1] = e[1] /\ s[2] = e[2]
  <2>1. /\ e \o string \in Seq(Nat) /\ Len(e \o string) = Len(e) + Len(string)
        /\ \A i \in 1..(Len(e) + Len(string)) :
             (e \o string)[i] = IF i <= Len(e) THEN e[i] ELSE string[i - Len(e)]
    BY ConcatProperties
  <2>2. (e \o string)[1] = e[1] /\ (e \o string)[2] = e[2]
    BY <1>1, <1>2, <2>1
  <2>3. QED
    BY <1>2, <2>1, <2>2
<1>4. AppendString(string) = s
  BY <1>2, <1>3 DEF AppendString
<1>5. (s \o rest)[1] = e[1] /\ (s \o rest)[2] = e[2]
  <2>1. \A i \in 1..(Len(s) + Len(rest)) : (s \o rest)[i] = IF i <= Len(s) THEN s[i] ELSE rest[i - Len(s)]
    BY ConcatProperties
  <2>2. Len(rest) \in Nat
    BY LenProperties
  <2>3. QED
    BY <1>1, <1>3, <2>1, <2>2
<1>6. DecodeU16(s \o rest) = Len(string)
  BY <1>2, <1>5 DEF DecodeU16
<1>7. QED
  BY <1>3, <1>4, <1>6

\* A packet: its first byte, the length of its body, and that.
Framed(first, body) == (<<first>> \o RemainingLength[Len(body)]) \o body

\* A packet is a sequence of bytes, and how long it is.
LEMMA FramedType ==
  ASSUME NEW first \in Nat, NEW body \in Seq(Nat)
  PROVE  /\ RemainingLength[Len(body)] \in Seq(Nat)
         /\ Framed(first, body) \in Seq(Nat)
         /\ Len(Framed(first, body)) = 1 + Len(RemainingLength[Len(body)]) + Len(body)
<1>1. Len(body) \in Nat
  BY LenProperties
<1>2. PICK d \in Seq(Nat) : d = RemainingLength[Len(body)]
  BY <1>1, RemainingLengthUnfolds
<1>3. PICK f \in Seq(Nat) : f = <<first>> \o d /\ Len(f) = Len(d) + 1
  BY ConsProperties
<1>4. f \o body \in Seq(Nat) /\ Len(f \o body) = Len(f) + Len(body)
  BY ConcatProperties
<1>5. Framed(first, body) = f \o body
  BY <1>2, <1>3 DEF Framed
<1>6. Len(d) \in Nat
  BY LenProperties
<1>7. QED
  BY <1>1, <1>2, <1>3, <1>4, <1>5, <1>6

\* write()'s packet is one.
LEMMA PublishIsFramed ==
  ASSUME NEW topic \in Seq(Nat), Len(topic) <= U16 - 1, NEW payload \in Seq(Nat)
  PROVE  /\ AppendString(topic) \o payload \in Seq(Nat)
         /\ PublishPacket(topic, payload) = Framed(48, AppendString(topic) \o payload)
<1>1. PICK h \in Seq(Nat) : h = AppendString(topic)
  BY StringIsMeasured
<1>2. PICK b \in Seq(Nat) : b = h \o payload /\ Len(b) = Len(h) + Len(payload)
  BY ConcatProperties
<1>3. Len(b) \in Nat
  BY LenProperties
<1>4. PICK d \in Seq(Nat) : d = RemainingLength[Len(b)]
  BY <1>3, RemainingLengthUnfolds
<1>5. PICK f \in Seq(Nat) : f = <<48>> \o d
  BY ConsProperties
<1>6. PublishPacket(topic, payload) = (f \o h) \o payload
  BY <1>1, <1>2, <1>4, <1>5 DEF PublishPacket
<1>7. Framed(48, b) = f \o b
  BY <1>4, <1>5 DEF Framed
<1>8. Associative(f, h, payload)
  BY ConcatIsAssociative
<1>9. (f \o h) \o payload = f \o b
  BY <1>2, <1>8, Zenon DEF Associative
<1>10. QED
  BY <1>1, <1>2, <1>6, <1>7, <1>9
============================================================================
