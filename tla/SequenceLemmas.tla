-------------------------- MODULE SequenceLemmas --------------------------
(***************************************************************************)
(* What the proofs of the other modules need to know of sequences: what    *)
(* they hold, how they are split by a read and put together by a write,    *)
(* and when their elements increase.                                       *)
(***************************************************************************)
EXTENDS Integers, SequencesExt, SequenceTheorems, FiniteSetTheorems, TLAPS

(***************************************************************************)
(* The elements of a sequence.                                             *)
(***************************************************************************)

\* What a sequence of bytes holds is a set of bytes.
LEMMA ToSetType ==
  ASSUME NEW S, NEW s \in Seq(S)
  PROVE  ToSet(s) \subseteq S
BY DEF ToSet

\* The elements of a sequence, by index.
LEMMA ToSetIndex ==
  ASSUME NEW S, NEW s \in Seq(S), NEW x
  PROVE  x \in ToSet(s) <=> \E i \in 1..Len(s) : x = s[i]
BY LenProperties DEF ToSet

\* The empty sequence holds nothing, and nothing else does.
LEMMA ToSetEmpty ==
  ASSUME NEW S, NEW s \in Seq(S)
  PROVE  ToSet(s) = {} <=> s = <<>>
<1>1. Len(s) \in Nat /\ DOMAIN s = 1..Len(s)
  BY LenProperties
<1>2. s # <<>> => 1 \in DOMAIN s
  BY <1>1, EmptySeq
<1>3. s = <<>> => DOMAIN s = {}
  BY <1>1, EmptySeq
<1>4. ToSet(s) = {} <=> DOMAIN s = {}
  BY DEF ToSet
<1>5. QED
  BY <1>2, <1>3, <1>4

\* Two sequences put together hold what either of them holds.
LEMMA ToSetConcat ==
  ASSUME NEW S, NEW s \in Seq(S), NEW t \in Seq(S)
  PROVE  ToSet(s \o t) = ToSet(s) \cup ToSet(t)
<1>1. /\ s \o t \in Seq(S) /\ Len(s \o t) = Len(s) + Len(t)
      /\ Len(s) \in Nat /\ Len(t) \in Nat
      /\ \A i \in 1..(Len(s) + Len(t)) :
           (s \o t)[i] = IF i <= Len(s) THEN s[i] ELSE t[i - Len(s)]
  BY ConcatProperties, LenProperties
<1>2. ASSUME NEW x \in ToSet(s \o t) PROVE x \in ToSet(s) \cup ToSet(t)
  <2>1. PICK i \in 1..(Len(s) + Len(t)) : x = (s \o t)[i]
    <3>1. DOMAIN (s \o t) = 1..(Len(s) + Len(t))
      BY <1>1, LenProperties
    <3>2. QED
      BY <1>2, <3>1 DEF ToSet
  <2>2. CASE i <= Len(s)
    <3>1. i \in 1..Len(s) /\ x = s[i]
      BY <1>1, <2>1, <2>2
    <3>2. QED
      BY <3>1, ToSetIndex
  <2>3. CASE ~(i <= Len(s))
    <3>1. i - Len(s) \in 1..Len(t) /\ x = t[i - Len(s)]
      BY <1>1, <2>1, <2>3
    <3>2. QED
      BY <3>1, ToSetIndex
  <2>4. QED
    BY <2>2, <2>3
<1>3. ASSUME NEW x \in ToSet(s) PROVE x \in ToSet(s \o t)
  <2>1. PICK i \in 1..Len(s) : x = s[i]
    BY <1>3, ToSetIndex
  <2>2. i \in 1..Len(s \o t) /\ x = (s \o t)[i]
    BY <1>1, <2>1
  <2>3. QED
    BY <1>1, <2>2, ToSetIndex
<1>4. ASSUME NEW x \in ToSet(t) PROVE x \in ToSet(s \o t)
  <2>1. PICK i \in 1..Len(t) : x = t[i]
    BY <1>4, ToSetIndex
  <2>2. Len(s) + i \in 1..Len(s \o t) /\ x = (s \o t)[Len(s) + i]
    BY <1>1, <2>1
  <2>3. QED
    BY <1>1, <2>2, ToSetIndex
<1>5. QED
  BY <1>2, <1>3, <1>4

(***************************************************************************)
(* Reads and writes.                                                       *)
(***************************************************************************)

\* A read splits the buffer into what it returns and what is left.
LEMMA SplitSeq ==
  ASSUME NEW S, NEW s \in Seq(S), NEW n \in 0..Len(s)
  PROVE  /\ SubSeq(s, 1, n) \in Seq(S)
         /\ SubSeq(s, n + 1, Len(s)) \in Seq(S)
         /\ Len(SubSeq(s, 1, n)) = n
         /\ SubSeq(s, 1, n) \o SubSeq(s, n + 1, Len(s)) = s
<1>1. Len(s) \in Nat /\ \A i \in 1..Len(s) : s[i] \in S
  OBVIOUS
<1>2. SubSeq(s, 1, n) \in Seq(S) /\ Len(SubSeq(s, 1, n)) = n
  BY <1>1, SubSeqProperties, SMT
<1>3. SubSeq(s, n + 1, Len(s)) \in Seq(S)
  BY <1>1, SubSeqProperties, SMT
<1>4. SubSeq(s, 1, n) \o SubSeq(s, n + 1, Len(s)) = SubSeq(s, 1, Len(s))
  <2>1. 1 \in 1..(Len(s) + 1) /\ n \in (1 - 1)..Len(s) /\ Len(s) \in n..Len(s)
    BY <1>1
  <2>2. QED
    BY <2>1, ConcatAdjacentSubSeq, Zenon
<1>5. QED
  BY <1>2, <1>3, <1>4, SubSeqFull

\* Taking the first element of a sequence is a read of one.
LEMMA HeadSplits ==
  ASSUME NEW S, NEW s \in Seq(S), s # <<>>
  PROVE  /\ <<Head(s)>> \in Seq(S) /\ Tail(s) \in Seq(S) /\ Head(s) \in S
         /\ <<Head(s)>> \o Tail(s) = s
<1>1. /\ Head(s) \in S /\ Tail(s) \in Seq(S) /\ Head(s) = s[1]
      /\ Len(s) \in Nat /\ Len(s) > 0 /\ Len(Tail(s)) = Len(s) - 1
      /\ \A i \in 1..Len(Tail(s)) : Tail(s)[i] = s[i + 1]
  BY HeadTailProperties, EmptySeq, LenProperties
<1>2. PICK h \in Seq(S) : h = <<Head(s)>> /\ Len(h) = 1 /\ h[1] = s[1]
  <2>1. <<Head(s)>> \in Seq(S) /\ Len(<<Head(s)>>) = 1 /\ <<Head(s)>>[1] = Head(s)
    BY <1>1
  <2>2. QED
    BY <1>1, <2>1, Zenon
<1>3. PICK t \in Seq(S) : t = Tail(s)
  BY <1>1
<1>4. /\ h \o t \in Seq(S) /\ Len(h \o t) = Len(h) + Len(t)
      /\ \A i \in 1..(Len(h) + Len(t)) :
           (h \o t)[i] = IF i <= Len(h) THEN h[i] ELSE t[i - Len(h)]
  BY ConcatProperties
<1>5. Len(h \o t) = Len(s) /\ \A i \in 1..Len(s) : (h \o t)[i] = s[i]
  BY <1>1, <1>2, <1>3, <1>4
<1>6. h \o t = s
  BY <1>4, <1>5, SeqEqual
<1>7. QED
  BY <1>1, <1>2, <1>3, <1>6

\* A sequence and what is put behind it.
LEMMA PrefixOfConcat ==
  ASSUME NEW S, NEW s \in Seq(S), NEW t \in Seq(S)
  PROVE  SubSeq(s \o t, 1, Len(s)) = s
<1>1. CASE Len(s) = 0
  BY <1>1, EmptySeq, SubSeqEmpty
<1>2. CASE Len(s) # 0
  BY <1>2, SubSeqOfConcat1, SubSeqFull, LenProperties
<1>3. QED
  BY <1>1, <1>2

\* Where the parentheses are does not matter.
Associative(s, t, u) == (s \o t) \o u = s \o (t \o u)

LEMMA ConcatIsAssociative ==
  ASSUME NEW S, NEW s \in Seq(S), NEW t \in Seq(S), NEW u \in Seq(S)
  PROVE  Associative(s, t, u)
BY ConcatAssociative DEF Associative

\* Associativity, in the form in which a read uses it.
LEMMA ConcatParts ==
  ASSUME NEW S, NEW s \in Seq(S), NEW u \in Seq(S), NEW v \in Seq(S),
         NEW w, w = u \o v
  PROVE  s \o w = (s \o u) \o v
<1>1. Associative(s, u, v)
  BY ConcatIsAssociative
<1>2. QED
  BY <1>1, Zenon DEF Associative

\* What is moved from the front of what follows k to the end of k stays in place.
StaysInPlace(k, y, p, d, p2, d2) ==
  p \o d = y \o (p2 \o d2) => (k \o p) \o d = ((k \o y) \o p2) \o d2

LEMMA MovedPart ==
  ASSUME NEW S, NEW k \in Seq(S), NEW y \in Seq(S), NEW p \in Seq(S), NEW d \in Seq(S),
         NEW p2 \in Seq(S), NEW d2 \in Seq(S)
  PROVE  StaysInPlace(k, y, p, d, p2, d2)
<1>1. p2 \o d2 \in Seq(S) /\ k \o y \in Seq(S)
  BY ConcatProperties, Zenon
<1>2. Associative(k, p, d) /\ Associative(k, y, p2 \o d2) /\ Associative(k \o y, p2, d2)
  BY <1>1, ConcatIsAssociative
<1>3. QED
  BY <1>2, Zenon DEF Associative, StaysInPlace

\* What is left behind the first n elements keeps its order.
LEMMA SubSeqRest ==
  ASSUME NEW S, NEW s \in Seq(S), NEW n \in Nat, n < Len(s),
         NEW i \in DOMAIN SubSeq(s, n + 1, Len(s))
  PROVE  i + n \in DOMAIN s /\ SubSeq(s, n + 1, Len(s))[i] = s[i + n]
<1>1. Len(s) \in Nat /\ \A j \in 1..Len(s) : s[j] \in S
  BY LenProperties, ElementOfSeq
<1>2. PICK m \in Int : m = n + 1
  OBVIOUS
<1>3. PICK l \in Int : l = Len(s)
  BY <1>1
<1>4. \A j \in m..l : s[j] \in S
  BY <1>1, <1>2, <1>3
<1>5. /\ SubSeq(s, m, l) \in Seq(S)
      /\ Len(SubSeq(s, m, l)) = IF m <= l THEN l - m + 1 ELSE 0
      /\ \A k \in 1..(l - m + 1) : SubSeq(s, m, l)[k] = s[m + k - 1]
  BY <1>4, SubSeqProperties
<1>6. PICK u \in Seq(S) : u = SubSeq(s, m, l)
  BY <1>5
<1>7. Len(u) = l - n /\ DOMAIN u = 1..Len(u) /\ \A k \in 1..(l - n) : u[k] = s[m + k - 1]
  BY <1>1, <1>2, <1>3, <1>5, <1>6, LenProperties
<1>8. i \in DOMAIN u
  BY <1>2, <1>3, <1>6
<1>9. i \in 1..(l - n) /\ m + i - 1 = i + n /\ i + n \in 1..l
  BY <1>2, <1>3, <1>7, <1>8
<1>10. u[i] = s[i + n] /\ i + n \in DOMAIN s
  BY <1>1, <1>3, <1>7, <1>9, LenProperties
<1>11. QED
  BY <1>2, <1>3, <1>6, <1>10

\* A read of n bytes moves them from what waits to what has been read.
LEMMA ReadSplits ==
  ASSUME NEW S, NEW got \in Seq(S), NEW waiting \in Seq(S),
         NEW n \in 1..Len(waiting)
  PROVE  \E front \in Seq(S), rest \in Seq(S) :
           /\ front = got \o SubSeq(waiting, 1, n)
           /\ rest = SubSeq(waiting, n + 1, Len(waiting))
           /\ got \o waiting = front \o rest
           /\ front = SubSeq(got \o waiting, 1, Len(got) + n)
           /\ Len(got) + n \in (Len(got) + 1)..Len(got \o waiting)
<1>1. n \in 0..Len(waiting)
  OBVIOUS
<1>2. /\ SubSeq(waiting, 1, n) \in Seq(S)
      /\ SubSeq(waiting, n + 1, Len(waiting)) \in Seq(S)
      /\ Len(SubSeq(waiting, 1, n)) = n
      /\ waiting = SubSeq(waiting, 1, n) \o SubSeq(waiting, n + 1, Len(waiting))
  BY <1>1, SplitSeq
<1>3. PICK u \in Seq(S), v \in Seq(S) :
        /\ u = SubSeq(waiting, 1, n)
        /\ v = SubSeq(waiting, n + 1, Len(waiting))
        /\ Len(u) = n
        /\ waiting = u \o v
  BY <1>2
<1>4. got \o u \in Seq(S) /\ Len(got \o u) = Len(got) + n
  BY <1>3, ConcatProperties
<1>5. got \o waiting = (got \o u) \o v
  <2>1. waiting = u \o v
    BY <1>3
  <2>2. QED
    BY ONLY <2>1, got \in Seq(S), u \in Seq(S), v \in Seq(S), ConcatParts, SMTT(30)
<1>6. SubSeq((got \o u) \o v, 1, Len(got \o u)) = got \o u
  BY <1>4, PrefixOfConcat
<1>7. Len((got \o u) \o v) = Len(got \o u) + Len(v)
  BY <1>4, ConcatProperties
<1>8. Len(got) + n \in (Len(got) + 1)..Len(got \o waiting)
  BY <1>4, <1>5, <1>7
<1>9. QED
  BY <1>3, <1>4, <1>5, <1>6, <1>8

\* An element behind two sequences is an element behind the second.
AppendsBehind(s, t, e) == s \o Append(t, e) = Append(s \o t, e)

LEMMA ConcatAppend ==
  ASSUME NEW S, NEW s \in Seq(S), NEW t \in Seq(S), NEW e \in S
  PROVE  AppendsBehind(s, t, e)
<1>1. PICK one \in Seq(S), st \in Seq(S) : one = <<e>> /\ st = s \o t
  <2>1. <<e>> \in Seq(S) /\ s \o t \in Seq(S)
    BY ConcatProperties
  <2>2. QED
    BY <2>1
<1>2. Append(t, e) = t \o <<e>> /\ Append(st, e) = st \o <<e>>
  BY AppendIsConcat
<1>3. s \o (t \o one) = (s \o t) \o one
  <2>1. Associative(s, t, one)
    BY ConcatIsAssociative
  <2>2. QED
    BY <2>1, Zenon DEF Associative
<1>4. QED
  BY <1>1, <1>2, <1>3, Zenon DEF AppendsBehind

(***************************************************************************)
(* Order.                                                                  *)
(***************************************************************************)

\* The elements of s increase.
Increasing(s) == \A i, j \in DOMAIN s : i < j => s[i] < s[j]

\* Every element of A is below every element of B.
Before(A, B) == \A a \in A, b \in B : a < b

\* A sequence increases if its two parts do and the first is below the second.
LEMMA IncreasingConcat ==
  ASSUME NEW s \in Seq(Int), NEW t \in Seq(Int)
  PROVE  Increasing(s \o t) <=>
           Increasing(s) /\ Increasing(t) /\ Before(ToSet(s), ToSet(t))
<1>1. /\ s \o t \in Seq(Int) /\ Len(s \o t) = Len(s) + Len(t)
      /\ Len(s) \in Nat /\ Len(t) \in Nat
      /\ DOMAIN s = 1..Len(s) /\ DOMAIN t = 1..Len(t)
      /\ DOMAIN (s \o t) = 1..(Len(s) + Len(t))
  BY ConcatProperties, LenProperties
<1>2. \A i \in 1..Len(s) : (s \o t)[i] = s[i]
  BY <1>1, ConcatProperties
<1>3. \A i \in 1..Len(t) : (s \o t)[Len(s) + i] = t[i]
  BY <1>1, ConcatProperties
<1>4. ASSUME Increasing(s \o t)
      PROVE  Increasing(s) /\ Increasing(t) /\ Before(ToSet(s), ToSet(t))
  <2>1. ASSUME NEW i \in 1..Len(s), NEW j \in 1..Len(s), i < j PROVE s[i] < s[j]
    <3>1. i \in DOMAIN (s \o t) /\ j \in DOMAIN (s \o t)
      BY <1>1
    <3>2. (s \o t)[i] < (s \o t)[j]
      BY <1>4, <2>1, <3>1, Zenon DEF Increasing
    <3>3. QED
      BY <1>2, <3>2
  <2>2. ASSUME NEW i \in 1..Len(t), NEW j \in 1..Len(t), i < j PROVE t[i] < t[j]
    <3>1. /\ Len(s) + i \in DOMAIN (s \o t) /\ Len(s) + j \in DOMAIN (s \o t)
          /\ Len(s) + i < Len(s) + j
      BY <1>1, <2>2
    <3>2. QED
      BY <1>3, <1>4, <3>1 DEF Increasing
  <2>3. ASSUME NEW a \in ToSet(s), NEW b \in ToSet(t) PROVE a < b
    <3>1. PICK i \in 1..Len(s) : a = s[i]
      BY ToSetIndex
    <3>2. PICK j \in 1..Len(t) : b = t[j]
      BY ToSetIndex
    <3>3. /\ i \in DOMAIN (s \o t) /\ Len(s) + j \in DOMAIN (s \o t)
          /\ i < Len(s) + j
      BY <1>1
    <3>4. QED
      BY <1>2, <1>3, <1>4, <3>1, <3>2, <3>3 DEF Increasing
  <2>4. QED
    BY <1>1, <2>1, <2>2, <2>3 DEF Increasing, Before
<1>5. ASSUME Increasing(s), Increasing(t), Before(ToSet(s), ToSet(t)),
             NEW i \in 1..(Len(s) + Len(t)), NEW j \in 1..(Len(s) + Len(t)), i < j
      PROVE  (s \o t)[i] < (s \o t)[j]
  <2>1. CASE j <= Len(s)
    <3>1. i \in 1..Len(s) /\ j \in 1..Len(s)
      BY <1>1, <1>5, <2>1
    <3>2. s[i] < s[j]
      BY <1>1, <1>5, <3>1, Zenon DEF Increasing
    <3>3. QED
      BY <1>2, <3>1, <3>2
  <2>2. CASE i <= Len(s) /\ ~(j <= Len(s))
    <3>1. i \in 1..Len(s) /\ j - Len(s) \in 1..Len(t) /\ j = Len(s) + (j - Len(s))
      BY <1>1, <2>2
    <3>2. (s \o t)[i] = s[i] /\ (s \o t)[j] = t[j - Len(s)]
      BY <1>2, <1>3, <3>1
    <3>3. s[i] \in ToSet(s) /\ t[j - Len(s)] \in ToSet(t)
      BY <1>1, <3>1 DEF ToSet
    <3>4. QED
      BY <1>5, <3>2, <3>3 DEF Before
  <2>3. CASE ~(i <= Len(s))
    <3>1. /\ i - Len(s) \in 1..Len(t) /\ j - Len(s) \in 1..Len(t)
          /\ i = Len(s) + (i - Len(s)) /\ j = Len(s) + (j - Len(s))
          /\ i - Len(s) < j - Len(s)
      BY <1>1, <1>5, <2>3
    <3>2. QED
      BY <1>1, <1>3, <1>5, <3>1 DEF Increasing
  <2>4. QED
    BY <1>1, <1>5, <2>1, <2>2, <2>3
<1>6. QED
  BY <1>1, <1>4, <1>5 DEF Increasing

\* The numbers behind a, in order: what one write or one segment brings.
LEMMA Numbers ==
  ASSUME NEW a \in Nat, NEW n \in Nat
  PROVE  /\ [i \in 1..n |-> a + i] \in Seq(Nat)
         /\ [i \in 1..n |-> a + i] \in Seq((a + 1)..(a + n))
         /\ Len([i \in 1..n |-> a + i]) = n
         /\ Increasing([i \in 1..n |-> a + i])
         /\ ToSet([i \in 1..n |-> a + i]) = (a + 1)..(a + n)
<1> DEFINE s == [i \in 1..n |-> a + i]
<1>1. s \in Seq(Nat) /\ s \in Seq((a + 1)..(a + n)) /\ Len(s) = n /\ DOMAIN s = 1..n
  OBVIOUS
<1>2. Increasing(s)
  BY DEF Increasing
<1>3. ToSet(s) \subseteq (a + 1)..(a + n)
  BY DEF ToSet
<1>4. ASSUME NEW x \in (a + 1)..(a + n) PROVE x \in ToSet(s)
  <2>1. x - a \in 1..n /\ s[x - a] = x
    OBVIOUS
  <2>2. QED
    BY <2>1 DEF ToSet
<1>5. QED
  BY <1>1, <1>2, <1>3, <1>4

\* What is left of increasing elements when some are taken out of the middle
\* still increases, and no longer has what was taken.
LEMMA RemovePart ==
  ASSUME NEW d \in Seq(Int), NEW a \in Seq(Int), NEW b \in Seq(Int),
         Increasing(d \o (a \o b))
  PROVE  /\ Increasing(d \o b)
         /\ ToSet(d \o (a \o b)) = ToSet(d \o b) \cup ToSet(a)
         /\ ToSet(a) \cap ToSet(d \o b) = {}
<1>1. PICK ab \in Seq(Int) : ab = a \o b
  BY ConcatProperties
<1>2. Increasing(d) /\ Increasing(ab) /\ Before(ToSet(d), ToSet(ab))
  BY <1>1, IncreasingConcat
<1>3. Increasing(a) /\ Increasing(b) /\ Before(ToSet(a), ToSet(b))
  BY <1>1, <1>2, IncreasingConcat
<1>4. ToSet(ab) = ToSet(a) \cup ToSet(b)
  BY <1>1, ToSetConcat
<1>5. ToSet(d \o ab) = ToSet(d) \cup ToSet(ab) /\ ToSet(d \o b) = ToSet(d) \cup ToSet(b)
  BY ToSetConcat
<1>6. Increasing(d \o b)
  BY <1>2, <1>3, <1>4, IncreasingConcat DEF Before
<1>7. ToSet(a) \subseteq Int /\ ToSet(b) \subseteq Int /\ ToSet(d) \subseteq Int
  BY ToSetType
<1>8. ToSet(a) \cap ToSet(d \o b) = {}
  BY <1>2, <1>3, <1>4, <1>5, <1>7 DEF Before
<1>9. QED
  BY <1>1, <1>4, <1>5, <1>6, <1>8

\* Two sequences put together repeat nothing if neither does and they share
\* nothing.
LEMMA InjectiveConcat ==
  ASSUME NEW S, NEW s \in Seq(S), NEW t \in Seq(S)
  PROVE  IsInjective(s \o t) <=>
           IsInjective(s) /\ IsInjective(t) /\ ToSet(s) \cap ToSet(t) = {}
<1>1. /\ s \o t \in Seq(S) /\ Len(s \o t) = Len(s) + Len(t)
      /\ Len(s) \in Nat /\ Len(t) \in Nat
      /\ DOMAIN s = 1..Len(s) /\ DOMAIN t = 1..Len(t)
      /\ DOMAIN (s \o t) = 1..(Len(s) + Len(t))
  BY ConcatProperties, LenProperties
<1>2. \A i \in 1..Len(s) : (s \o t)[i] = s[i]
  BY <1>1, ConcatProperties
<1>3. \A i \in 1..Len(t) : (s \o t)[Len(s) + i] = t[i]
  BY <1>1, ConcatProperties
<1>4. ASSUME IsInjective(s \o t)
      PROVE  IsInjective(s) /\ IsInjective(t) /\ ToSet(s) \cap ToSet(t) = {}
  <2>1. IsInjective(s)
    BY <1>1, <1>2, <1>4 DEF IsInjective
  <2>2. ASSUME NEW i \in 1..Len(t), NEW j \in 1..Len(t), t[i] = t[j] PROVE i = j
    <3>1. Len(s) + i \in DOMAIN (s \o t) /\ Len(s) + j \in DOMAIN (s \o t)
      BY <1>1
    <3>2. Len(s) + i = Len(s) + j
      BY <1>3, <1>4, <2>2, <3>1 DEF IsInjective
    <3>3. QED
      BY <1>1, <3>2
  <2>3. ASSUME NEW x \in ToSet(s) \cap ToSet(t) PROVE FALSE
    <3>1. PICK i \in 1..Len(s) : x = s[i]
      BY ToSetIndex
    <3>2. PICK j \in 1..Len(t) : x = t[j]
      BY ToSetIndex
    <3>3. i \in DOMAIN (s \o t) /\ Len(s) + j \in DOMAIN (s \o t) /\ i # Len(s) + j
      BY <1>1
    <3>4. QED
      BY <1>2, <1>3, <1>4, <3>1, <3>2, <3>3 DEF IsInjective
  <2>4. QED
    BY <1>1, <2>1, <2>2, <2>3 DEF IsInjective
<1>5. ASSUME IsInjective(s), IsInjective(t), ToSet(s) \cap ToSet(t) = {},
             NEW i \in 1..(Len(s) + Len(t)), NEW j \in 1..(Len(s) + Len(t)),
             (s \o t)[i] = (s \o t)[j]
      PROVE  i = j
  <2>1. \A k \in 1..(Len(s) + Len(t)) :
          \/ k \in 1..Len(s) /\ (s \o t)[k] = s[k] /\ s[k] \in ToSet(s)
          \/ k - Len(s) \in 1..Len(t) /\ (s \o t)[k] = t[k - Len(s)] /\ t[k - Len(s)] \in ToSet(t)
    <3>1. SUFFICES ASSUME NEW k \in 1..(Len(s) + Len(t))
                   PROVE  \/ k \in 1..Len(s) /\ (s \o t)[k] = s[k] /\ s[k] \in ToSet(s)
                          \/ /\ k - Len(s) \in 1..Len(t) /\ (s \o t)[k] = t[k - Len(s)]
                             /\ t[k - Len(s)] \in ToSet(t)
      OBVIOUS
    <3>2. CASE k <= Len(s)
      <4>1. k \in 1..Len(s)
        BY <1>1, <3>2
      <4>2. QED
        BY <1>1, <1>2, <4>1 DEF ToSet
    <3>3. CASE ~(k <= Len(s))
      <4>1. k - Len(s) \in 1..Len(t) /\ k = Len(s) + (k - Len(s))
        BY <1>1, <3>3
      <4>2. (s \o t)[k] = t[k - Len(s)]
        BY <1>3, <4>1
      <4>3. QED
        BY <1>1, <4>1, <4>2 DEF ToSet
    <3>4. QED
      BY <3>2, <3>3
  <2>2. CASE i \in 1..Len(s) /\ j \in 1..Len(s)
    BY <1>1, <1>2, <1>5, <2>2 DEF IsInjective
  <2>3. CASE i - Len(s) \in 1..Len(t) /\ j - Len(s) \in 1..Len(t)
    <3>1. t[i - Len(s)] = t[j - Len(s)]
      <4>1. i = Len(s) + (i - Len(s)) /\ j = Len(s) + (j - Len(s))
        BY <1>1
      <4>2. QED
        BY <1>3, <1>5, <2>3, <4>1
    <3>2. i - Len(s) = j - Len(s)
      BY <1>1, <1>5, <2>3, <3>1 DEF IsInjective
    <3>3. QED
      BY <1>1, <3>2
  <2>4. QED
    BY <1>5, <2>1, <2>2, <2>3
<1>6. QED
  BY <1>1, <1>4, <1>5 DEF IsInjective

\* One element more, that is not there yet.
LEMMA InjectiveAppend ==
  ASSUME NEW S, NEW s \in Seq(S), NEW e \in S
  PROVE  /\ ToSet(Append(s, e)) = ToSet(s) \cup {e}
         /\ IsInjective(s) /\ e \notin ToSet(s) => IsInjective(Append(s, e))
<1>1. <<e>> \in Seq(S) /\ IsInjective(<<e>>) /\ ToSet(<<e>>) = {e}
  BY DEF IsInjective, ToSet
<1>2. PICK one \in Seq(S) : one = <<e>>
  BY <1>1
<1>3. IsInjective(one) /\ ToSet(one) = {e}
  BY <1>1, <1>2
<1>4. Append(s, e) = s \o one
  BY <1>2, AppendIsConcat
<1>5. ToSet(s \o one) = ToSet(s) \cup ToSet(one)
  BY ToSetConcat
<1>6. ASSUME IsInjective(s), e \notin ToSet(s) PROVE IsInjective(s \o one)
  BY <1>3, <1>6, InjectiveConcat
<1>7. QED
  BY <1>3, <1>4, <1>5, <1>6

(***************************************************************************)
(* Induction, as facts about sets: a set of numbers that holds 0 and every *)
(* successor of its members holds them all; and what follows from it.      *)
(***************************************************************************)

LEMMA SetInduction ==
  ASSUME NEW T, T \subseteq Nat, 0 \in T, \A n \in T : n + 1 \in T
  PROVE  T = Nat
<1> DEFINE Less == StrictSubsetOrdering(Nat)
           Below(n) == 0..(n - 1)
           Bad == Nat \ T
           Initial == {Below(n) : n \in Bad}
<1>1. SUFFICES ASSUME Bad # {} PROVE FALSE
  OBVIOUS
<1>2. \A n \in Nat : Below(n) \subseteq Nat /\ IsFiniteSet(Below(n))
  BY FS_Interval
<1>3. Initial \subseteq FiniteSubsetsOf(Nat) /\ Initial # {}
  BY <1>1, <1>2 DEF FiniteSubsetsOf
<1>4. IsWellFoundedOn(Less, FiniteSubsetsOf(Nat))
  BY FS_StrictSubsetOrderingWellFounded
<1>5. PICK B \in Initial : \A C \in Initial : ~(<<C, B>> \in Less)
  <2> HIDE DEF Initial, Less
  <2>1. QED
    BY <1>3, <1>4, WFMin
<1>6. PICK n \in Bad : B = Below(n)
  OBVIOUS
<1>7. n \in Nat /\ n # 0
  BY <1>6
<1>8. n - 1 \in Nat /\ n - 1 \notin T
  <2>1. n - 1 \in Nat
    BY <1>7
  <2>2. n - 1 \in T => (n - 1) + 1 \in T
    OBVIOUS
  <2>3. (n - 1) + 1 = n
    BY <1>7
  <2>4. QED
    BY <2>1, <2>2, <2>3
<1>9. Below(n - 1) \in Initial
  BY <1>8
<1>10. Below(n - 1) \subseteq Below(n) /\ Below(n - 1) # Below(n)
  <2>1. n - 1 \in Below(n) /\ ~(n - 1 \in Below(n - 1))
    BY <1>7
  <2>2. QED
    BY <1>7, <2>1
<1>11. <<Below(n - 1), Below(n)>> \in Less
  <2>1. Below(n - 1) \in SUBSET Nat /\ Below(n) \in SUBSET Nat
    BY <1>2, <1>7, <1>8
  <2> HIDE DEF Below
  <2>2. QED
    BY <1>10, <2>1 DEF StrictSubsetOrdering
<1>12. QED
  BY <1>5, <1>6, <1>9, <1>11

\* A set of sequences that holds the empty one and, with each, every sequence
\* that is longer by one element holds them all.
LEMMA SequenceInduction ==
  ASSUME NEW S, NEW P, P \subseteq Seq(S), <<>> \in P,
         \A s \in P, e \in S : Append(s, e) \in P
  PROVE  P = Seq(S)
<1> DEFINE T == {n \in Nat : \A s \in Seq(S) : Len(s) = n => s \in P}
<1>1. 0 \in T
  BY EmptySeq
<1>2. ASSUME NEW n \in T PROVE n + 1 \in T
  <2>1. n \in Nat /\ \A s \in Seq(S) : Len(s) = n => s \in P
    OBVIOUS
  <2>2. ASSUME NEW s \in Seq(S), Len(s) = n + 1 PROVE s \in P
    <3>1. s # <<>>
      BY <2>1, <2>2, EmptySeq
    <3>2. PICK t \in Seq(S), e \in S : s = Append(t, e) /\ Len(t) = Len(s) - 1
      <4>1. PICK t \in Seq(S), e \in S : s = Append(t, e)
        BY <3>1, SequenceEmptyOrAppend
      <4>2. Len(t) = Len(s) - 1
        BY <4>1, AppendProperties, LenProperties
      <4>3. QED
        BY <4>1, <4>2
    <3>3. Len(t) = n
      BY <2>1, <2>2, <3>2
    <3>4. t \in P
      BY <2>1, <3>3
    <3>5. QED
      BY <3>2, <3>4
  <2>3. QED
    BY <2>1, <2>2
<1>3. T = Nat
  <2> HIDE DEF T
  <2>1. T \subseteq Nat
    BY DEF T
  <2>2. QED
    BY <1>1, <1>2, <2>1, SetInduction
<1>4. QED
  BY <1>3, LenProperties

\* Each step of G takes an element of V to another.
StepsWithin(G, V) == \A n \in Nat, x \in V : G[n][x] \in V

\* f takes the steps of G, beginning at v.
IsRecursion(f, v, G, N) == f[0] = v /\ \A n \in 1..N : f[n] = G[n][f[n - 1]]

\* A definition by recursion over 0..N has a solution.
LEMMA Recursion ==
  ASSUME NEW V, NEW v \in V, NEW G, StepsWithin(G, V), NEW N \in Nat
  PROVE  \E f \in [0..N -> V] : IsRecursion(f, v, G, N)
<1> USE DEF StepsWithin, IsRecursion
<1> DEFINE T == {k \in Nat : \E f \in [0..k -> V] : IsRecursion(f, v, G, k)}
<1>1. 0 \in T
  <2>1. [n \in 0..0 |-> v] \in [0..0 -> V]
    OBVIOUS
  <2>2. [n \in 0..0 |-> v][0] = v /\ 1..0 = {}
    OBVIOUS
  <2>3. QED
    BY <2>1, <2>2
<1>2. ASSUME NEW k \in T PROVE k + 1 \in T
  <2>1. k \in Nat
    OBVIOUS
  <2>2. PICK f \in [0..k -> V] : IsRecursion(f, v, G, k)
    OBVIOUS
  <2> DEFINE g == [n \in 0..(k + 1) |-> IF n = k + 1 THEN G[k + 1][f[k]] ELSE f[n]]
  <2>3. f[k] \in V /\ G[k + 1][f[k]] \in V
    BY <2>1
  <2>4. g \in [0..(k + 1) -> V] /\ g[0] = v
    BY <2>1, <2>2, <2>3
  <2>5. ASSUME NEW n \in 1..(k + 1) PROVE g[n] = G[n][g[n - 1]]
    BY <2>1, <2>2
  <2>6. QED
    <3>1. IsRecursion(g, v, G, k + 1)
      BY <2>4, <2>5
    <3> HIDE DEF g, IsRecursion
    <3>2. QED
      BY <2>1, <2>4, <3>1
<1>3. T = Nat
  <2> HIDE DEF T
  <2>1. T \subseteq Nat
    BY DEF T
  <2>2. QED
    BY <1>1, <1>2, <2>1, SetInduction
<1>4. QED
  BY <1>3

\* A set of numbers that is not empty has a least element.
LEMMA LeastNumber ==
  ASSUME NEW S, S \subseteq Nat, S # {}
  PROVE  \E m \in S : \A n \in S : m <= n
<1> DEFINE T == {k \in Nat : \A n \in S : k <= n}
<1>1. PICK s \in S : TRUE
  OBVIOUS
<1>2. s + 1 \in Nat /\ s + 1 \notin T
  BY <1>1
<1>3. 0 \in T
  OBVIOUS
<1>4. PICK k \in T : k + 1 \notin T
  <2> HIDE DEF T
  <2>1. T \subseteq Nat
    BY DEF T
  <2>2. QED
    BY <1>2, <1>3, <2>1, SetInduction
<1>5. k \in S
  <2>1. k \in Nat /\ \A n \in S : k <= n
    OBVIOUS
  <2>2. PICK n \in S : ~(k + 1 <= n)
    BY <1>4, <2>1
  <2>3. n = k
    BY <2>1, <2>2
  <2>4. QED
    BY <2>3
<1>6. QED
  BY <1>5

(***************************************************************************)
(* Sequences of sequences.                                                 *)
(***************************************************************************)

\* f[n] is what the first n of the sequences ss are, one behind the other.
IsFlat(f, S, ss) ==
  /\ f \in [0..Len(ss) -> Seq(S)] /\ f[0] = <<>>
  /\ \A n \in 1..Len(ss) : f[n] = f[n - 1] \o ss[n]

\* The recursion of FlattenSeq has a solution, and FlattenSeq is its last value.
LEMMA FlattenSolves ==
  ASSUME NEW S, NEW ss \in Seq(Seq(S))
  PROVE  \E f : IsFlat(f, S, ss) /\ FlattenSeq(ss) = f[Len(ss)]
<1> DEFINE Body(f, n) == IF n = 1 THEN ss[n] ELSE f[n - 1] \o ss[n]
           Solves(f) == f = [n \in 1..Len(ss) |-> Body(f, n)]
           flatten == CHOOSE f : Solves(f)
           G == [n \in Nat |-> [v \in Seq(S) |->
                  IF n \in 1..Len(ss) THEN v \o ss[n] ELSE v]]
<1>1. Len(ss) \in Nat /\ <<>> \in Seq(S) /\ \A n \in 1..Len(ss) : ss[n] \in Seq(S)
  BY LenProperties, EmptySeq, ElementOfSeq
<1>2. StepsWithin(G, Seq(S))
  <2>1. ASSUME NEW n \in Nat, NEW v \in Seq(S)
        PROVE  (IF n \in 1..Len(ss) THEN v \o ss[n] ELSE v) \in Seq(S)
    BY <1>1, ConcatProperties
  <2>2. QED
    BY <2>1 DEF StepsWithin
<1>3. PICK f \in [0..Len(ss) -> Seq(S)] :
        f[0] = <<>> /\ \A n \in 1..Len(ss) : f[n] = G[n][f[n - 1]]
  <2> HIDE DEF G
  <2>1. PICK f \in [0..Len(ss) -> Seq(S)] : IsRecursion(f, <<>>, G, Len(ss))
    BY <1>1, <1>2, Recursion
  <2>2. QED
    BY <2>1 DEF IsRecursion
<1>4. ASSUME NEW n \in 1..Len(ss)
      PROVE  f[n] = f[n - 1] \o ss[n]
  <2>1. n \in Nat /\ n - 1 \in 0..Len(ss)
    BY <1>1
  <2>2. f[n - 1] \in Seq(S) /\ f[n] = G[n][f[n - 1]]
    BY <1>3, <2>1
  <2>3. QED
    BY <2>1, <2>2
<1>5. IsFlat(f, S, ss)
  BY <1>3, <1>4 DEF IsFlat
<1>6. CASE Len(ss) = 0
  <2>1. ss = <<>> /\ FlattenSeq(ss) = ss
    BY <1>6, EmptySeq DEF FlattenSeq
  <2>2. QED
    BY <1>3, <1>5, <1>6, <2>1
<1>7. CASE Len(ss) # 0
  <2>1. FlattenSeq(ss) = flatten[Len(ss)]
    BY <1>7 DEF FlattenSeq
  <2>2. f[1] = ss[1]
    <3>1. 1 \in 1..Len(ss) /\ 1 - 1 = 0
      BY <1>1, <1>7
    <3>2. f[1] = f[0] \o ss[1] /\ ss[1] \in Seq(S)
      BY <1>1, <1>4, <3>1
    <3>3. QED
      BY <1>3, <3>2, ConcatEmptySeq
  <2> DEFINE g == [n \in 1..Len(ss) |-> f[n]]
  <2>3. Solves(g)
    <3>1. ASSUME NEW n \in 1..Len(ss) PROVE g[n] = Body(g, n)
      <4>1. CASE n = 1
        BY <2>2, <4>1
      <4>2. CASE n # 1
        <5>1. n - 1 \in 1..Len(ss)
          BY <1>1, <4>2
        <5>2. g[n] = f[n] /\ g[n - 1] = f[n - 1]
          BY <5>1
        <5>3. QED
          BY <1>4, <4>2, <5>2
      <4>3. QED
        BY <4>1, <4>2
    <3>2. \A n \in 1..Len(ss) : f[n] = Body(g, n)
      <4> HIDE DEF Body
      <4>1. QED
        BY <3>1
    <3> HIDE DEF Body
    <3>3. QED
      BY <3>2
  <2>4. PICK k : Solves(k) /\ FlattenSeq(ss) = k[Len(ss)]
    <3> HIDE DEF Solves
    <3>1. Solves(flatten)
      BY <2>3
    <3>2. QED
      BY <2>1, <3>1
  <2>5. DOMAIN k = 1..Len(ss) /\ \A n \in 1..Len(ss) : k[n] = Body(k, n)
    BY <2>4
  <2> DEFINE T == {n \in Nat : n + 1 <= Len(ss) => k[n + 1] = f[n + 1]}
  <2>6. 0 \in T
    <3>1. 1 \in 1..Len(ss)
      BY <1>1, <1>7
    <3>2. k[1] = ss[1]
      BY <2>5, <3>1
    <3>3. QED
      BY <2>2, <3>2
  <2>7. ASSUME NEW n \in T PROVE n + 1 \in T
    <3>1. SUFFICES ASSUME (n + 1) + 1 <= Len(ss) PROVE k[(n + 1) + 1] = f[(n + 1) + 1]
      OBVIOUS
    <3>2. n \in Nat /\ k[n + 1] = f[n + 1]
      BY <1>1, <3>1
    <3>3. PICK m : m = (n + 1) + 1 /\ m \in 1..Len(ss) /\ m - 1 = n + 1 /\ m # 1
      BY <1>1, <3>1, <3>2
    <3>4. k[m] = k[m - 1] \o ss[m]
      BY <2>5, <3>3
    <3>5. f[m] = f[m - 1] \o ss[m]
      BY <1>4, <3>3
    <3>6. QED
      BY <3>2, <3>3, <3>4, <3>5
  <2>8. T = Nat
    <3> HIDE DEF T
    <3>1. T \subseteq Nat
      BY DEF T
    <3>2. QED
      BY <2>6, <2>7, <3>1, SetInduction
  <2>9. k[Len(ss)] = f[Len(ss)]
    <3>1. Len(ss) - 1 \in Nat /\ (Len(ss) - 1) + 1 = Len(ss)
      BY <1>1, <1>7
    <3>2. Len(ss) - 1 \in T
      BY <2>8, <3>1
    <3>3. QED
      BY <1>1, <3>1, <3>2
  <2>10. QED
    BY <1>5, <2>4, <2>9
<1>8. QED
  BY <1>6, <1>7

\* FlattenSeq yields a sequence.
LEMMA FlattenType ==
  ASSUME NEW S, NEW ss \in Seq(Seq(S))
  PROVE  FlattenSeq(ss) \in Seq(S)
<1>1. PICK f : IsFlat(f, S, ss) /\ FlattenSeq(ss) = f[Len(ss)]
  BY FlattenSolves
<1>2. Len(ss) \in 0..Len(ss)
  BY LenProperties
<1>3. QED
  BY <1>1, <1>2 DEF IsFlat

\* Of no sequences it is empty.
LEMMA FlattenEmpty == FlattenSeq(<<>>) = <<>>
BY EmptySeq DEF FlattenSeq

\* One sequence more.
LEMMA FlattenAppend ==
  ASSUME NEW S, NEW ss \in Seq(Seq(S)), NEW e \in Seq(S)
  PROVE  FlattenSeq(Append(ss, e)) = FlattenSeq(ss) \o e
<1>1. PICK t \in Seq(Seq(S)) : t = Append(ss, e)
  BY AppendProperties
<1>2. /\ Len(ss) \in Nat /\ Len(t) = Len(ss) + 1 /\ t[Len(ss) + 1] = e
      /\ \A n \in 1..Len(ss) : t[n] = ss[n]
  BY <1>1, AppendProperties, LenProperties
<1>3. PICK f : IsFlat(f, S, ss) /\ FlattenSeq(ss) = f[Len(ss)]
  BY FlattenSolves
<1>4. PICK g : IsFlat(g, S, t) /\ FlattenSeq(t) = g[Len(t)]
  BY FlattenSolves
<1> DEFINE T == {n \in Nat : n <= Len(ss) => f[n] = g[n]}
<1>5. 0 \in T
  BY <1>3, <1>4 DEF IsFlat
<1>6. ASSUME NEW n \in T PROVE n + 1 \in T
  <2>1. SUFFICES ASSUME n + 1 <= Len(ss) PROVE f[n + 1] = g[n + 1]
    OBVIOUS
  <2>2. n \in Nat /\ f[n] = g[n]
    BY <1>2, <2>1
  <2>3. n + 1 \in 1..Len(ss) /\ n + 1 \in 1..Len(t) /\ (n + 1) - 1 = n
    BY <1>2, <2>1, <2>2
  <2>4. f[n + 1] = f[n] \o ss[n + 1]
    BY <1>3, <2>3 DEF IsFlat
  <2>5. g[n + 1] = g[n] \o ss[n + 1]
    <3>1. t[n + 1] = ss[n + 1]
      BY <1>2, <2>3
    <3>2. QED
      BY <1>4, <2>3, <3>1 DEF IsFlat
  <2>6. QED
    BY <2>2, <2>4, <2>5
<1>7. T = Nat
  <2> HIDE DEF T
  <2>1. T \subseteq Nat
    BY DEF T
  <2>2. QED
    BY <1>5, <1>6, <2>1, SetInduction
<1>8. f[Len(ss)] = g[Len(ss)]
  BY <1>2, <1>7
<1>9. Len(t) \in 1..Len(t) /\ Len(t) - 1 = Len(ss) /\ t[Len(t)] = e
  BY <1>2
<1>10. g[Len(t)] = g[Len(ss)] \o e
  BY <1>4, <1>9 DEF IsFlat
<1>11. QED
  BY <1>1, <1>3, <1>4, <1>8, <1>10

\* A set of numbers that holds each number whose predecessors it holds.
LEMMA StrongInduction ==
  ASSUME NEW T, T \subseteq Nat, \A n \in Nat : 0..(n - 1) \subseteq T => n \in T
  PROVE  T = Nat
<1>1. SUFFICES ASSUME Nat \ T # {} PROVE FALSE
  OBVIOUS
<1>2. PICK m \in Nat \ T : \A n \in Nat \ T : m <= n
  BY <1>1, LeastNumber
<1>3. 0..(m - 1) \subseteq T
  BY <1>2
<1>4. QED
  BY <1>2, <1>3

\* A sequence of one element.
LEMMA OneElement ==
  ASSUME NEW S, NEW d \in S
  PROVE  <<d>> \in Seq(S) /\ Len(<<d>>) = 1 /\ <<d>>[1] = d
<1>1. <<d>> \in Seq(S)
  OBVIOUS
<1>2. Len(<<d>>) = 1 /\ <<d>>[1] = d
  OBVIOUS
<1>3. QED
  BY <1>1, <1>2

\* A sequence behind one more element.
LEMMA ConsProperties ==
  ASSUME NEW S, NEW d \in S, NEW t \in Seq(S)
  PROVE  /\ <<d>> \o t \in Seq(S) /\ Len(<<d>> \o t) = Len(t) + 1
         /\ (<<d>> \o t)[1] = d
         /\ \A i \in 1..Len(t) : (<<d>> \o t)[i + 1] = t[i]
<1>1. PICK one \in Seq(S) : one = <<d>> /\ Len(one) = 1 /\ one[1] = d
  BY OneElement
<1>2. /\ one \o t \in Seq(S) /\ Len(one \o t) = 1 + Len(t)
      /\ \A i \in 1..(1 + Len(t)) : (one \o t)[i] = IF i <= 1 THEN one[i] ELSE t[i - 1]
  BY <1>1, ConcatProperties
<1>3. Len(t) \in Nat
  BY LenProperties
<1>4. QED
  BY <1>1, <1>2, <1>3

(***************************************************************************)
(* Putting together what a function makes of each element.                 *)
(***************************************************************************)

\* Each element replaced, and the sequences that are then there joined.
Image(F, s) == [i \in 1..Len(s) |-> F[s[i]]]
Flat(F, s) == FlattenSeq(Image(F, s))
YieldsSeqs(F, S, T) == F \in [S -> Seq(T)]

\* What they are sequences of.
LEMMA ImageType ==
  ASSUME NEW S, NEW T, NEW F \in [S -> T], NEW s \in Seq(S)
  PROVE  Image(F, s) \in Seq(T)
<1>1. Len(s) \in Nat /\ \A i \in 1..Len(s) : s[i] \in S
  BY LenProperties, ElementOfSeq
<1>2. \A i \in 1..Len(s) : F[s[i]] \in T
  BY <1>1
<1>3. QED
  BY <1>1, <1>2 DEF Image

\* They are as many.
LEMMA ImageLength ==
  ASSUME NEW S, NEW F, NEW s \in Seq(S)
  PROVE  Len(Image(F, s)) = Len(s)
BY LenProperties DEF Image

\* Joined they are a sequence.
LEMMA FlatType ==
  ASSUME NEW S, NEW T, NEW F, YieldsSeqs(F, S, T), NEW s \in Seq(S)
  PROVE  Flat(F, s) \in Seq(T)
<1>1. Image(F, s) \in Seq(Seq(T))
  BY ImageType DEF YieldsSeqs
<1>2. QED
  BY <1>1, FlattenType DEF Flat

\* Nothing is made of nothing.
LEMMA FlatEmpty ==
  ASSUME NEW F
  PROVE  Flat(F, <<>>) = <<>>
<1>1. Len(<<>>) = 0
  BY EmptySeq
<1>2. Image(F, <<>>) \in Seq({}) /\ Len(Image(F, <<>>)) = 0
  BY <1>1 DEF Image
<1>3. Image(F, <<>>) = <<>>
  BY <1>2, EmptySeq
<1>4. QED
  BY <1>3, FlattenEmpty DEF Flat

\* One element more.
LEMMA FlatAppend ==
  ASSUME NEW S, NEW T, NEW F, YieldsSeqs(F, S, T), NEW s \in Seq(S), NEW e \in S
  PROVE  Flat(F, Append(s, e)) = Flat(F, s) \o F[e]
<1>1. PICK t \in Seq(S) : t = Append(s, e)
  BY AppendProperties
<1>2. /\ Len(s) \in Nat /\ Len(t) = Len(s) + 1 /\ t[Len(s) + 1] = e
      /\ \A n \in 1..Len(s) : t[n] = s[n]
  BY <1>1, AppendProperties, LenProperties
<1>3. F[e] \in Seq(T)
  BY DEF YieldsSeqs
<1>4. PICK is \in Seq(Seq(T)), it \in Seq(Seq(T)) :
        is = Image(F, s) /\ it = Image(F, t) /\ Len(is) = Len(s) /\ Len(it) = Len(t)
  <2>1. Image(F, s) \in Seq(Seq(T)) /\ Len(Image(F, s)) = Len(s)
    BY ImageType, ImageLength DEF YieldsSeqs
  <2>2. Image(F, t) \in Seq(Seq(T)) /\ Len(Image(F, t)) = Len(t)
    BY ImageType, ImageLength DEF YieldsSeqs
  <2>3. QED
    BY <2>1, <2>2
<1>5. PICK ia \in Seq(Seq(T)) : ia = Append(is, F[e])
  BY <1>3, AppendProperties
<1>6. /\ Len(ia) = Len(is) + 1 /\ ia[Len(is) + 1] = F[e]
      /\ \A n \in 1..Len(is) : ia[n] = is[n]
  BY <1>3, <1>5, AppendProperties
<1>7. it = ia
  <2>1. ASSUME NEW n \in 1..Len(it) PROVE it[n] = ia[n]
    <3>1. it[n] = F[t[n]]
      BY <1>2, <1>4 DEF Image
    <3>2. CASE n = Len(s) + 1
      BY <1>2, <1>4, <1>6, <3>1, <3>2
    <3>3. CASE n # Len(s) + 1
      <4>1. n \in 1..Len(s)
        BY <1>2, <1>4, <3>3
      <4>2. is[n] = F[s[n]]
        BY <1>2, <1>4, <4>1 DEF Image
      <4>3. QED
        BY <1>2, <1>4, <1>6, <3>1, <4>1, <4>2
    <3>4. QED
      BY <3>2, <3>3
  <2>2. Len(it) = Len(ia)
    BY <1>2, <1>4, <1>6
  <2>3. QED
    BY <2>1, <2>2, SeqEqual
<1>8. FlattenSeq(ia) = FlattenSeq(is) \o F[e]
  BY <1>3, <1>5, FlattenAppend
<1>9. QED
  BY <1>1, <1>4, <1>7, <1>8 DEF Flat

\* Of one element it is what F makes of it.
LEMMA FlatOne ==
  ASSUME NEW S, NEW T, NEW F, YieldsSeqs(F, S, T), NEW e \in S
  PROVE  Flat(F, <<e>>) = F[e]
<1>1. PICK none \in Seq(S) : none = <<>>
  BY EmptySeq
<1>2. Append(none, e) = <<e>>
  BY <1>1
<1>3. Flat(F, Append(none, e)) = Flat(F, none) \o F[e]
  BY FlatAppend
<1>4. Flat(F, none) = <<>> /\ F[e] \in Seq(T)
  BY <1>1, FlatEmpty DEF YieldsSeqs
<1>5. <<>> \o F[e] = F[e]
  BY <1>4, ConcatEmptySeq
<1>6. QED
  BY <1>2, <1>3, <1>4, <1>5

\* Two sequences, one behind the other.
Distributes(F, s, t) == Flat(F, s \o t) = Flat(F, s) \o Flat(F, t)
LEMMA FlatConcat ==
  ASSUME NEW S, NEW T, NEW F, YieldsSeqs(F, S, T), NEW s \in Seq(S), NEW t \in Seq(S)
  PROVE  Distributes(F, s, t)
<1> DEFINE P == {u \in Seq(S) : Flat(F, s \o u) = Flat(F, s) \o Flat(F, u)}
<1>1. <<>> \in P
  <2>1. s \o <<>> = s /\ Flat(F, s) \o <<>> = Flat(F, s) /\ <<>> \in Seq(S)
    BY FlatType, ConcatEmptySeq, EmptySeq
  <2>2. QED
    BY <2>1, FlatEmpty
<1>2. ASSUME NEW u \in P, NEW e \in S PROVE Append(u, e) \in P
  <2>1. PICK v \in Seq(S), f \in Seq(T), g \in Seq(T) :
          v = u /\ f = Flat(F, s) /\ g = Flat(F, v) /\ Flat(F, s \o v) = f \o g
    <3>1. PICK v \in Seq(S) : v = u /\ Flat(F, s \o v) = Flat(F, s) \o Flat(F, v)
      BY <1>2
    <3>2. Flat(F, s) \in Seq(T) /\ Flat(F, v) \in Seq(T)
      BY FlatType
    <3>3. QED
      BY <3>1, <3>2
  <2>2. PICK w \in Seq(S) : w = s \o v
    BY ConcatProperties
  <2>3. s \o Append(v, e) = Append(w, e)
    <3>1. AppendsBehind(s, v, e)
      BY <1>2, ConcatAppend
    <3>2. QED
      BY <2>2, <3>1, Zenon DEF AppendsBehind
  <2>4. Flat(F, Append(w, e)) = Flat(F, w) \o F[e]
    BY <1>2, FlatAppend
  <2>5. PICK h \in Seq(T), k \in Seq(T) : h = F[e] /\ k = Flat(F, Append(v, e))
    <3>1. F[e] \in Seq(T)
      BY <1>2 DEF YieldsSeqs
    <3>2. Flat(F, Append(v, e)) \in Seq(T)
      BY <1>2, FlatType, AppendProperties
    <3>3. QED
      BY <3>1, <3>2
  <2>6. k = g \o h
    <3>1. Flat(F, Append(v, e)) = Flat(F, v) \o F[e]
      BY <1>2, FlatAppend
    <3>2. QED
      BY <2>1, <2>5, <3>1
  <2>7. f \o k = (f \o g) \o h
    <3>1. Associative(f, g, h)
      BY ConcatIsAssociative
    <3>2. QED
      BY <2>6, <3>1, Zenon DEF Associative
  <2>8. Flat(F, s \o Append(v, e)) = f \o k
    BY <2>1, <2>2, <2>3, <2>4, <2>5, <2>7
  <2>9. Append(v, e) \in Seq(S)
    BY <1>2, AppendProperties
  <2>10. QED
    BY <2>1, <2>5, <2>8, <2>9
<1>3. P = Seq(S)
  <2> HIDE DEF P
  <2>1. P \subseteq Seq(S)
    BY DEF P
  <2>2. QED
    BY <1>1, <1>2, <2>1, SequenceInduction
<1>4. QED
  BY <1>3 DEF Distributes

\* Two sequences put together are equal when the parts are, at equal lengths.
LEMMA SameParts ==
  ASSUME NEW S, NEW s \in Seq(S), NEW t \in Seq(S), NEW u \in Seq(S), NEW v \in Seq(S),
         s \o t = u \o v, Len(s) = Len(u)
  PROVE  s = u /\ t = v
<1>1. /\ Len(s) \in Nat /\ Len(t) \in Nat /\ Len(v) \in Nat
      /\ Len(s \o t) = Len(s) + Len(t) /\ Len(u \o v) = Len(u) + Len(v)
  BY ConcatProperties, LenProperties
<1>2. \A i \in 1..(Len(s) + Len(t)) : (s \o t)[i] = IF i <= Len(s) THEN s[i] ELSE t[i - Len(s)]
  BY ConcatProperties
<1>3. \A i \in 1..(Len(u) + Len(v)) : (u \o v)[i] = IF i <= Len(u) THEN u[i] ELSE v[i - Len(u)]
  BY ConcatProperties
<1>4. Len(t) = Len(v)
  BY <1>1
<1>5. ASSUME NEW i \in 1..Len(s) PROVE s[i] = u[i]
  <2>1. i \in 1..(Len(s) + Len(t)) /\ i <= Len(s)
    BY <1>1
  <2>2. (s \o t)[i] = s[i] /\ (u \o v)[i] = u[i]
    BY <1>2, <1>3, <1>4, <2>1
  <2>3. QED
    BY <2>2
<1>6. ASSUME NEW i \in 1..Len(t) PROVE t[i] = v[i]
  <2>1. /\ i + Len(s) \in 1..(Len(s) + Len(t)) /\ ~(i + Len(s) <= Len(s))
        /\ (i + Len(s)) - Len(s) = i
    BY <1>1
  <2>2. (s \o t)[i + Len(s)] = t[i] /\ (u \o v)[i + Len(s)] = v[i]
    BY <1>2, <1>3, <1>4, <2>1
  <2>3. QED
    BY <2>2
<1>7. s = u
  BY <1>5, SeqEqual
<1>8. QED
  BY <1>4, <1>6, <1>7, SeqEqual
=============================================================================
