----------------------------- MODULE LinkProofs -----------------------------
(***************************************************************************)
(* Proofs about the transports that have neither a thread nor a lock, for  *)
(* any number of peers, bytes and datagrams, and any options.              *)
(***************************************************************************)
EXTENDS Link, SequenceLemmas

-----------------------------------------------------------------------------
(* The bytes of packets.                                                   *)

\* Any packet the descriptor may hold.
Pkts == (Peers \cup {NoPeer}) \X Seq(Bytes)

Contents(packets) == [i \in DOMAIN packets |-> packets[i][2]]

\* The contents of packets are sequences of bytes, one for each packet.
LEMMA ContentsType ==
  ASSUME NEW s \in Seq(Pkts)
  PROVE  Contents(s) \in Seq(Seq(Bytes)) /\ Len(Contents(s)) = Len(s)
<1>1. Len(s) \in Nat /\ DOMAIN s = 1..Len(s)
  BY LenProperties
<1>2. \A i \in 1..Len(s) : s[i] \in Pkts
  BY <1>1, ElementOfSeq
<1>3. \A i \in 1..Len(s) : s[i][2] \in Seq(Bytes)
  BY <1>2 DEF Pkts
<1>4. QED
  BY <1>1, <1>3 DEF Contents

\* What packets hold together is a sequence of bytes.
LEMMA DataType ==
  ASSUME NEW s \in Seq(Pkts)
  PROVE  Data(s) \in Seq(Bytes)
BY ContentsType, FlattenType DEF Data, Contents

\* No packets hold no bytes.
LEMMA DataEmpty == Data(<<>>) = <<>>
<1>1. PICK none \in Seq(Pkts) : none = <<>>
  BY EmptySeq
<1>2. Contents(none) = none
  <2>1. Len(Contents(none)) = 0 /\ Contents(none) \in Seq(Seq(Bytes))
    BY <1>1, ContentsType, EmptySeq
  <2>2. QED
    BY <1>1, <2>1, EmptySeq
<1>3. QED
  BY <1>1, <1>2, FlattenEmpty DEF Data, Contents

\* One packet more.
LEMMA DataAppend ==
  ASSUME NEW s \in Seq(Pkts), NEW p \in Pkts
  PROVE  Data(Append(s, p)) = Data(s) \o p[2]
<1>1. PICK t \in Seq(Pkts) : t = Append(s, p)
  BY AppendProperties
<1>2. /\ Len(s) \in Nat /\ Len(t) = Len(s) + 1 /\ t[Len(s) + 1] = p
      /\ \A n \in 1..Len(s) : t[n] = s[n]
      /\ DOMAIN s = 1..Len(s) /\ DOMAIN t = 1..Len(t)
  BY <1>1, AppendProperties, LenProperties
<1>3. PICK cs \in Seq(Seq(Bytes)), ct \in Seq(Seq(Bytes)) :
        cs = Contents(s) /\ ct = Contents(t) /\ Len(cs) = Len(s) /\ Len(ct) = Len(t)
  BY ContentsType
<1>4. p[2] \in Seq(Bytes)
  BY DEF Pkts
<1>5. PICK ca \in Seq(Seq(Bytes)) : ca = Append(cs, p[2])
  BY <1>4, AppendProperties
<1>6. /\ Len(ca) = Len(cs) + 1 /\ ca[Len(cs) + 1] = p[2]
      /\ \A n \in 1..Len(cs) : ca[n] = cs[n]
  BY <1>4, <1>5, AppendProperties
<1>7. ct = ca
  <2>1. ASSUME NEW n \in 1..Len(ct) PROVE ct[n] = ca[n]
    <3>1. ct[n] = t[n][2]
      BY <1>2, <1>3 DEF Contents
    <3>2. CASE n = Len(s) + 1
      BY <1>2, <1>3, <1>6, <3>1, <3>2
    <3>3. CASE n # Len(s) + 1
      <4>1. n \in 1..Len(s)
        BY <1>2, <1>3, <3>3
      <4>2. cs[n] = s[n][2]
        BY <1>2, <1>3, <4>1 DEF Contents
      <4>3. QED
        BY <1>2, <1>3, <1>6, <3>1, <4>1, <4>2
    <3>4. QED
      BY <3>2, <3>3
  <2>2. Len(ct) = Len(ca)
    BY <1>2, <1>3, <1>6
  <2>3. QED
    BY <2>1, <2>2, SeqEqual
<1>8. FlattenSeq(ca) = FlattenSeq(cs) \o p[2]
  BY <1>4, <1>5, FlattenAppend
<1>9. QED
  BY <1>1, <1>3, <1>7, <1>8 DEF Data, Contents

\* One packet holds its own bytes.
LEMMA DataOne ==
  ASSUME NEW p \in Pkts
  PROVE  Data(<<p>>) = p[2]
<1>1. PICK none \in Seq(Pkts) : none = <<>>
  BY EmptySeq
<1>2. Append(none, p) = <<p>>
  BY <1>1
<1>3. Data(Append(none, p)) = Data(none) \o p[2]
  BY DataAppend
<1>4. Data(none) = <<>> /\ p[2] \in Seq(Bytes)
  BY <1>1, DataEmpty DEF Pkts
<1>5. <<>> \o p[2] = p[2]
  BY <1>4, ConcatEmptySeq
<1>6. QED
  BY <1>2, <1>3, <1>4, <1>5

\* The bytes of two rows of packets are those of one, then those of the other.
LEMMA DataConcat ==
  ASSUME NEW s \in Seq(Pkts), NEW t \in Seq(Pkts)
  PROVE  Data(s \o t) = Data(s) \o Data(t)
<1> DEFINE P == {u \in Seq(Pkts) : Data(s \o u) = Data(s) \o Data(u)}
<1>1. <<>> \in P
  <2>1. s \o <<>> = s /\ Data(s) \o <<>> = Data(s) /\ <<>> \in Seq(Pkts)
    BY DataType, ConcatEmptySeq, EmptySeq
  <2>2. QED
    BY <2>1, DataEmpty
<1>2. ASSUME NEW u \in P, NEW e \in Pkts PROVE Append(u, e) \in P
  <2>1. PICK v \in Seq(Pkts), f \in Seq(Bytes), g \in Seq(Bytes) :
          v = u /\ f = Data(s) /\ g = Data(v) /\ Data(s \o v) = f \o g
    BY DataType
  <2>2. PICK w \in Seq(Pkts) : w = s \o v
    BY ConcatProperties
  <2>3. s \o Append(v, e) = Append(w, e)
    BY <1>2, <2>2, ConcatAppend DEF AppendsBehind
  <2>4. Data(Append(w, e)) = Data(w) \o e[2]
    BY <1>2, DataAppend
  <2>5. PICK h \in Seq(Bytes), k \in Seq(Bytes) : h = e[2] /\ k = Data(Append(v, e))
    <3>1. e[2] \in Seq(Bytes) /\ Append(v, e) \in Seq(Pkts)
      BY <1>2, AppendProperties DEF Pkts
    <3>2. QED
      BY <3>1, DataType
  <2>6. k = g \o h
    BY <1>2, <2>1, <2>5, DataAppend
  <2>7. f \o k = (f \o g) \o h
    <3>1. Associative(f, g, h)
      BY ConcatIsAssociative
    <3>2. QED
      BY <2>6, <3>1, Zenon DEF Associative
  <2>8. Data(s \o Append(v, e)) = f \o k
    BY <2>1, <2>2, <2>3, <2>4, <2>5, <2>7
  <2>9. Append(v, e) \in Seq(Pkts)
    BY <1>2, AppendProperties
  <2>10. QED
    BY <2>1, <2>5, <2>8, <2>9
<1>3. P = Seq(Pkts)
  <2> HIDE DEF P
  <2>1. P \subseteq Seq(Pkts)
    BY DEF P
  <2>2. QED
    BY <1>1, <1>2, <2>1, SequenceInduction
<1>4. QED
  BY <1>3

\* A byte is among those of the packets if it is in one of them.
LEMMA DataSet ==
  ASSUME NEW s \in Seq(Pkts), NEW b
  PROVE  b \in ToSet(Data(s)) <=> \E i \in DOMAIN s : b \in ToSet(s[i][2])
<1> DEFINE Among(u) == \E i \in DOMAIN u : b \in ToSet(u[i][2])
           P == {u \in Seq(Pkts) : b \in ToSet(Data(u)) <=> Among(u)}
<1>1. <<>> \in P
  <2>1. DOMAIN <<>> = {} /\ <<>> \in Seq(Pkts) /\ ToSet(<<>>) = {}
    BY EmptySeq, LenProperties DEF ToSet
  <2>2. QED
    BY <2>1, DataEmpty
<1>2. ASSUME NEW u \in P, NEW e \in Pkts PROVE Append(u, e) \in P
  <2>1. u \in Seq(Pkts) /\ (b \in ToSet(Data(u)) <=> Among(u))
    OBVIOUS
  <2>2. PICK t \in Seq(Pkts) : t = Append(u, e)
    BY <2>1, AppendProperties
  <2>3. /\ Len(u) \in Nat /\ Len(t) = Len(u) + 1 /\ t[Len(u) + 1] = e
        /\ \A n \in 1..Len(u) : t[n] = u[n]
        /\ DOMAIN u = 1..Len(u) /\ DOMAIN t = 1..Len(t)
    BY <2>1, <2>2, AppendProperties, LenProperties
  <2>4. b \in ToSet(Data(t)) <=> b \in ToSet(Data(u)) \/ b \in ToSet(e[2])
    <3>1. PICK d \in Seq(Bytes), k \in Seq(Bytes) : d = Data(u) /\ k = e[2]
      BY <1>2, <2>1, DataType DEF Pkts
    <3>2. Data(t) = d \o k
      BY <1>2, <2>1, <2>2, <3>1, DataAppend
    <3>3. ToSet(d \o k) = ToSet(d) \cup ToSet(k)
      BY ToSetConcat
    <3>4. QED
      BY <3>1, <3>2, <3>3
  <2>5. Among(t) <=> Among(u) \/ b \in ToSet(e[2])
    <3>1. ASSUME NEW i \in DOMAIN t, b \in ToSet(t[i][2])
          PROVE  Among(u) \/ b \in ToSet(e[2])
      <4>1. CASE i = Len(u) + 1
        BY <2>3, <3>1, <4>1
      <4>2. CASE i # Len(u) + 1
        <5>1. i \in DOMAIN u /\ t[i] = u[i]
          BY <2>3, <4>2
        <5>2. QED
          BY <3>1, <5>1
      <4>3. QED
        BY <4>1, <4>2
    <3>2. ASSUME NEW i \in DOMAIN u, b \in ToSet(u[i][2]) PROVE Among(t)
      <4>1. i \in DOMAIN t /\ t[i] = u[i]
        BY <2>3
      <4>2. QED
        BY <3>2, <4>1
    <3>3. ASSUME b \in ToSet(e[2]) PROVE Among(t)
      <4>1. Len(u) + 1 \in DOMAIN t
        BY <2>3
      <4>2. QED
        BY <2>3, <3>3, <4>1
    <3>4. QED
      BY <3>1, <3>2, <3>3
  <2>6. QED
    <3> HIDE DEF Among
    <3>1. QED
      BY <2>1, <2>2, <2>4, <2>5
<1>3. P = Seq(Pkts)
  <2> HIDE DEF P
  <2>1. P \subseteq Seq(Pkts)
    BY DEF P
  <2>2. QED
    BY <1>1, <1>2, <2>1, SequenceInduction
<1>4. QED
  BY <1>3

\* A stream's bytes, a packet each.
Singles(s) == [i \in 1..Len(s) |-> <<NoPeer, <<s[i]>>>>]

\* Bytes sent one by one are the same bytes.
LEMMA DataSingles ==
  ASSUME NEW s \in Seq(Bytes)
  PROVE  Singles(s) \in Seq(Pkts) /\ Data(Singles(s)) = s
<1> DEFINE P == {u \in Seq(Bytes) : Singles(u) \in Seq(Pkts) /\ Data(Singles(u)) = u}
<1>1. <<>> \in P
  <2>1. <<>> \in Seq(Bytes) /\ Len(<<>>) = 0
    BY EmptySeq
  <2>2. Singles(<<>>) \in Seq(Pkts) /\ Len(Singles(<<>>)) = 0
    BY <2>1 DEF Singles
  <2>3. Singles(<<>>) = <<>>
    BY <2>2, EmptySeq
  <2>4. QED
    BY <2>1, <2>2, <2>3, DataEmpty
<1>2. ASSUME NEW u \in P, NEW e \in Bytes PROVE Append(u, e) \in P
  <2>1. PICK v \in Seq(Bytes), ps \in Seq(Pkts) :
          v = u /\ ps = Singles(v) /\ Data(ps) = v
    OBVIOUS
  <2>2. Len(ps) = Len(v)
    BY <2>1, LenProperties DEF Singles
  <2>3. PICK t \in Seq(Bytes) : t = Append(v, e)
    BY <1>2, AppendProperties
  <2>4. /\ Len(v) \in Nat /\ Len(t) = Len(v) + 1 /\ t[Len(v) + 1] = e
        /\ \A n \in 1..Len(v) : t[n] = v[n]
    BY <1>2, <2>3, AppendProperties, LenProperties
  <2>5. PICK p \in Pkts : p = <<NoPeer, <<e>>>>
    <3>1. <<e>> \in Seq(Bytes)
      BY <1>2
    <3>2. <<NoPeer, <<e>>>> \in Pkts
      BY <3>1 DEF Pkts
    <3>3. QED
      BY <3>2
  <2>6. p[2] = <<e>>
    BY <2>5
  <2>7. Singles(t) = Append(ps, p)
    <3>1. PICK q \in Seq(Pkts) : q = Append(ps, p)
      BY AppendProperties
    <3>2. /\ Len(q) = Len(ps) + 1 /\ q[Len(ps) + 1] = p
          /\ \A n \in 1..Len(ps) : q[n] = ps[n]
      BY <3>1, AppendProperties
    <3>3. q = [i \in 1..(Len(v) + 1) |-> q[i]]
      <4>1. DOMAIN q = 1..(Len(v) + 1)
        BY <2>2, <2>4, <3>2, LenProperties
      <4>2. QED
        BY <4>1
    <3>4. \A i \in 1..(Len(v) + 1) : q[i] = <<NoPeer, <<t[i]>>>>
      <4>1. ASSUME NEW i \in 1..(Len(v) + 1), i # Len(v) + 1
            PROVE  q[i] = <<NoPeer, <<t[i]>>>>
        <5>1. i \in 1..Len(v)
          BY <2>4, <4>1
        <5>2. q[i] = <<NoPeer, <<v[i]>>>> /\ t[i] = v[i]
          BY <2>1, <2>2, <2>4, <3>2, <5>1 DEF Singles
        <5>3. QED
          BY <5>2
      <4>2. q[Len(v) + 1] = <<NoPeer, <<t[Len(v) + 1]>>>>
        BY <2>1, <2>2, <2>4, <2>5, <3>2
      <4>3. QED
        BY <4>1, <4>2
    <3>5. QED
      BY <2>4, <3>1, <3>3, <3>4 DEF Singles
  <2>8. Append(ps, p) \in Seq(Pkts) /\ Data(Append(ps, p)) = v \o <<e>>
    BY <2>1, <2>6, AppendProperties, DataAppend
  <2>9. v \o <<e>> = Append(v, e)
    BY <1>2, AppendIsConcat
  <2>10. QED
    BY <2>1, <2>3, <2>7, <2>8, <2>9
<1>3. P = Seq(Bytes)
  <2> HIDE DEF P
  <2>1. P \subseteq Seq(Bytes)
    BY DEF P
  <2>2. QED
    BY <1>1, <1>2, <2>1, SequenceInduction
<1>4. QED
  BY <1>3

\* Taken and Rest are a sequence's two parts.
LEMMA TakenRest ==
  ASSUME NEW S, NEW s \in Seq(S), NEW n \in Nat
  PROVE  /\ Taken(s, n) \in Seq(S) /\ Rest(s, n) \in Seq(S)
         /\ s = Taken(s, n) \o Rest(s, n)
         /\ n > 0 /\ s # <<>> => Taken(s, n) # <<>>
         /\ n >= Len(s) => Rest(s, n) = <<>>
         /\ \A i \in DOMAIN Rest(s, n) : i + n \in DOMAIN s /\ Rest(s, n)[i] = s[i + n]
<1>1. Len(s) \in Nat /\ DOMAIN s = 1..Len(s) /\ <<>> \in Seq(S) /\ DOMAIN <<>> = {}
  BY LenProperties, EmptySeq
<1>2. CASE n < Len(s)
  <2>1. Taken(s, n) = SubSeq(s, 1, n) /\ Rest(s, n) = SubSeq(s, n + 1, Len(s))
    BY <1>2 DEF Taken, Rest
  <2>2. n \in 0..Len(s)
    BY <1>1, <1>2
  <2>3. /\ SubSeq(s, 1, n) \in Seq(S) /\ SubSeq(s, n + 1, Len(s)) \in Seq(S)
        /\ Len(SubSeq(s, 1, n)) = n
        /\ SubSeq(s, 1, n) \o SubSeq(s, n + 1, Len(s)) = s
    BY <2>2, SplitSeq
  <2>4. ASSUME n > 0 PROVE SubSeq(s, 1, n) # <<>>
    <3>1. PICK u \in Seq(S) : u = SubSeq(s, 1, n)
      BY <2>3
    <3>2. Len(u) > 0
      BY <2>3, <2>4, <3>1
    <3>3. u # <<>>
      BY <3>2, EmptySeq
    <3>4. QED
      BY <3>1, <3>3
  <2>5. ASSUME NEW i \in DOMAIN SubSeq(s, n + 1, Len(s))
        PROVE  i + n \in DOMAIN s /\ SubSeq(s, n + 1, Len(s))[i] = s[i + n]
    BY <1>2, SubSeqRest
  <2>6. n >= Len(s) => Rest(s, n) = <<>>
    BY <1>1, <1>2
  <2>7. Taken(s, n) \o Rest(s, n) = s /\ Taken(s, n) \in Seq(S) /\ Rest(s, n) \in Seq(S)
    BY <2>1, <2>3
  <2>8. QED
    BY <2>1, <2>4, <2>5, <2>6, <2>7
<1>3. CASE ~(n < Len(s))
  <2>1. Taken(s, n) = s /\ Rest(s, n) = <<>>
    BY <1>3 DEF Taken, Rest
  <2>2. s \o <<>> = s
    BY ConcatEmptySeq
  <2>3. QED
    BY <1>1, <2>1, <2>2
<1>4. QED
  BY <1>2, <1>3

-----------------------------------------------------------------------------
(* The invariant.                                                          *)

\* Where a read can be, by kind of transport; only read_all() collects, and a
\* read under way began when there was no rest of a datagram.
CallShape ==
  /\ call \in {"idle", "gone"} => ~all
  /\ call \in {"select", "count"} => all
  /\ ~all => out = <<>>
  /\ call \notin {"idle", "gone"} => kind # "loop" /\ pending = <<>>
  /\ call = "select" => Stream /\ out = <<>>
  /\ call \in {"wait", "recv"} => want > 0
  /\ kind # "udp" => pending = <<>>
  /\ kind = "serial" => out = <<>> /\ call # "count"

\* A descriptor that is not open holds nothing; a datagram has a sender, a
\* stream has no boundaries.
Descriptor ==
  /\ ~valid => rx = <<>> /\ ~ended
  /\ call = "gone" => rx = <<>>
  /\ \A i \in DOMAIN rx : IF kind = "udp" THEN rx[i][1] \in Peers ELSE Len(rx[i][2]) = 1
  /\ Arrived <= MaxBytes
  /\ stolen \subseteq 1..Arrived

Took == returned \o out

\* What was taken last, and the rest of a datagram, came from last_peer_, which
\* the table knows.
Senders ==
  kind = "udp" =>
    /\ \A i \in DOMAIN rx : \A b \in ToSet(rx[i][2]) : sender[b] = rx[i][1]
    /\ \A b \in ToSet(pending) : sender[b] = lastPeer
    /\ Took # <<>> => sender[Last(Took)] = lastPeer
    /\ opts.limit # 1 /\ lastPeer # NoPeer => lastPeer \in ToSet(peers)

\* read_all() asks for the whole datagram, or for all that was due.
Asked ==
  /\ due <= Arrived
  /\ all /\ kind = "udp" /\ call \in {"wait", "recv"} => InWaiting = want
  /\ all /\ kind = "serial" /\ call \in {"wait", "recv"} =>
       \A i \in DOMAIN rx : i > want => \A b \in ToSet(rx[i][2]) : b > due

\* The table of peers holds no address twice and no more than add_peer() keeps.
TableWithinLimit == IsInjective(peers) /\ Len(peers) <= opts.limit

\* The limit the ifname asked for is the one add_peer() keeps.
LimitAsAsked == opts.asked > 0 => opts.limit = opts.asked

Typed == TypeOK /\ CallShape /\ Descriptor

Inv ==
  /\ Typed /\ EachByteOnceInOrder /\ Asked /\ ReadAllTakesAll
  /\ Senders /\ TableWithinLimit

-----------------------------------------------------------------------------
(* What a read takes and returns.                                          *)

TookTypes == out' \in Seq(Bytes) /\ returned' \in Seq(Bytes)

\* x is taken from the rest of a datagram or from the descriptor, and returned
\* or collected, behind what was taken before.
Hands(x) ==
  /\ x \in Seq(Bytes) /\ TookTypes
  /\ Took' = Took \o x
  /\ pending \o Data(rx) = x \o (pending' \o Data(rx'))

\* The parts of what was taken are sequences of bytes.
LEMMA TookType ==
  ASSUME TypeOK
  PROVE  /\ returned \in Seq(Bytes) /\ out \in Seq(Bytes) /\ pending \in Seq(Bytes)
         /\ Took \in Seq(Bytes) /\ rx \in Seq(Pkts) /\ Data(rx) \in Seq(Bytes)
         /\ Took \o <<>> = Took
<1>1. returned \in Seq(Bytes) /\ out \in Seq(Bytes) /\ pending \in Seq(Bytes)
      /\ rx \in Seq(Pkts)
  BY DEF TypeOK, Pkts
<1>2. Took \in Seq(Bytes)
  BY <1>1, ConcatProperties DEF Took
<1>3. QED
  BY <1>1, <1>2, DataType, ConcatEmptySeq

\* A call returns what has been collected and x behind it.
LEMMA ReturnTakes ==
  ASSUME TypeOK, NEW x \in Seq(Bytes), NEW bytes, bytes = out \o x, Return(bytes)
  PROVE  TookTypes /\ Took' = Took \o x
<1>1. returned \in Seq(Bytes) /\ out \in Seq(Bytes)
  BY TookType
<1>2. PICK b \in Seq(Bytes) : b = out \o x
  BY <1>1, ConcatProperties
<1>3. PICK r \in Seq(Bytes), o \in Seq(Bytes), y \in Seq(Bytes) :
        r = returned /\ o = out /\ y = x
  BY <1>1
<1>4. b = o \o y
  BY <1>2, <1>3
<1>5. r \o b = (r \o o) \o y
  <2>1. Associative(r, o, y)
    BY ConcatIsAssociative
  <2>2. QED
    BY <1>4, <2>1, Zenon DEF Associative
<1>6. returned' = r \o b /\ out' = <<>>
  BY <1>2, <1>3 DEF Return
<1>7. r \o b \in Seq(Bytes) /\ <<>> \in Seq(Bytes)
  BY ConcatProperties, EmptySeq
<1>8. returned' \o out' = r \o b
  BY <1>6, <1>7, ConcatEmptySeq
<1>9. QED
  BY <1>3, <1>5, <1>6, <1>7, <1>8, Zenon DEF Took, TookTypes

\* A call goes on with what has been collected and x behind it.
LEMMA CollectTakes ==
  ASSUME TypeOK, NEW x \in Seq(Bytes), out' = out \o x, returned' = returned
  PROVE  TookTypes /\ Took' = Took \o x
<1>1. returned \in Seq(Bytes) /\ out \in Seq(Bytes)
  BY TookType
<1>2. PICK r \in Seq(Bytes), o \in Seq(Bytes), y \in Seq(Bytes) :
        r = returned /\ o = out /\ y = x
  BY <1>1
<1>3. PICK b \in Seq(Bytes) : b = o \o y
  BY ConcatProperties
<1>4. r \o b = (r \o o) \o y
  <2>1. Associative(r, o, y)
    BY ConcatIsAssociative
  <2>2. QED
    BY <1>3, <2>1, Zenon DEF Associative
<1>5. returned' = r /\ out' = b
  BY <1>2, <1>3
<1>6. QED
  BY <1>2, <1>4, <1>5, Zenon DEF Took, TookTypes

\* A step that reads nothing takes nothing.
LEMMA NothingTaken ==
  ASSUME TypeOK, UNCHANGED <<out, returned>>
  PROVE  TookTypes /\ Took' = Took \o <<>>
BY TookType, Zenon DEF Took, TookTypes

\* GoOn with what was collected and x.
LEMMA GoOnTakes ==
  ASSUME TypeOK, NEW x \in Seq(Bytes), NEW bytes, bytes = out \o x, GoOn(bytes)
  PROVE  TookTypes /\ Took' = Took \o x
<1>1. CASE InWaiting = 0
  <2>1. Return(bytes)
    BY <1>1 DEF GoOn, ReadAllReturns
  <2>2. QED
    BY <2>1, ReturnTakes
<1>2. CASE InWaiting # 0
  BY <1>2, CollectTakes DEF GoOn
<1>3. QED
  BY <1>1, <1>2

\* read() returns a chunk to the program or to read_all().
LEMMA ReadReturnsTakes ==
  ASSUME TypeOK, CallShape, NEW chunk \in Seq(Bytes), ReadReturns(chunk)
  PROVE  TookTypes /\ Took' = Took \o chunk
<1>1. CASE ~all \/ kind = "serial"
  <2>1. out = <<>> /\ Return(chunk)
    BY <1>1 DEF CallShape, ReadReturns, ReadAllReturns
  <2>2. chunk = out \o chunk
    BY <2>1, ConcatEmptySeq
  <2>3. QED
    BY <2>1, <2>2, ReturnTakes
<1>2. CASE all /\ kind # "serial" /\ chunk = <<>>
  <2>1. Return(out)
    BY <1>2 DEF ReadReturns, ReadAllReturns
  <2>2. out = out \o chunk
    BY <1>2, TookType, ConcatEmptySeq
  <2>3. QED
    BY <2>1, <2>2, ReturnTakes
<1>3. CASE all /\ kind # "serial" /\ chunk # <<>>
  <2>1. out' = out \o chunk /\ returned' = returned
    BY <1>3 DEF ReadReturns
  <2>2. QED
    BY <2>1, CollectTakes
<1>4. QED
  BY <1>1, <1>2, <1>3

\* What a step hands out leaves the bytes as they were.
LEMMA HandsKeeps ==
  ASSUME TypeOK, NEW x, Hands(x), pending' \in Seq(Bytes), rx' \in Seq(Pkts)
  PROVE  Unread' = Unread
<1>1. PICK k \in Seq(Bytes), p \in Seq(Bytes), d \in Seq(Bytes) :
        k = Took /\ p = pending /\ d = Data(rx)
  BY TookType
<1>2. Data(rx') \in Seq(Bytes)
  BY DataType
<1>3. PICK p2 \in Seq(Bytes), d2 \in Seq(Bytes), y \in Seq(Bytes) :
        p2 = pending' /\ d2 = Data(rx') /\ y = x
  BY <1>2 DEF Hands
<1>4. p \o d = y \o (p2 \o d2) /\ Took' = k \o y
  BY <1>1, <1>3 DEF Hands
<1>5. (k \o p) \o d = ((k \o y) \o p2) \o d2
  <2>1. StaysInPlace(k, y, p, d, p2, d2)
    BY MovedPart
  <2>2. QED
    BY <1>4, <2>1, Zenon DEF StaysInPlace
<1>6. Unread = (k \o p) \o d
  BY <1>1 DEF Unread, Took
<1>7. Unread' = ((k \o y) \o p2) \o d2
  BY <1>3, <1>4, Zenon DEF Unread, Took
<1>8. QED
  BY <1>5, <1>6, <1>7

-----------------------------------------------------------------------------
(* The steps of the reader.                                                *)

\* What the descriptor holds after a step is the end of what it held.
Behind(r) == \E n \in Nat : \A i \in DOMAIN r : i + n \in DOMAIN rx /\ r[i] = rx[i + n]

\* A step of the reader: x has been handed out.
Moves(x) ==
  /\ Hands(x)
  /\ pending' \in Seq(Bytes) /\ rx' \in Seq(Pkts)
  /\ Behind(rx')

\* What the kernel holds is behind itself,
LEMMA BehindSame == TypeOK => Behind(rx)
<1> SUFFICES ASSUME TypeOK PROVE Behind(rx)
  OBVIOUS
<1>1. \A i \in DOMAIN rx : i + 0 \in DOMAIN rx /\ rx[i] = rx[i + 0]
  <2>1. DOMAIN rx \subseteq Nat
    BY TookType, LenProperties
  <2>2. QED
    BY <2>1
<1>2. QED
  BY <1>1 DEF Behind

\* nothing is behind anything,
LEMMA BehindEmpty == Behind(<<>>)
<1>1. DOMAIN <<>> = {}
  BY EmptySeq, LenProperties
<1>2. QED
  BY <1>1 DEF Behind

\* what is left after some bytes is behind them,
LEMMA BehindRest ==
  ASSUME TypeOK, NEW n \in Nat
  PROVE  Behind(Rest(rx, n))
BY TookType, TakenRest DEF Behind

\* and so is what is left after a datagram.
LEMMA BehindTail ==
  ASSUME TypeOK, rx # <<>>
  PROVE  Behind(Tail(rx))
<1>1. rx \in Seq(Pkts) /\ Len(rx) \in Nat /\ DOMAIN rx = 1..Len(rx)
  BY TookType, LenProperties
<1>2. PICK t \in Seq(Pkts) : t = Tail(rx)
  BY <1>1, HeadTailProperties
<1>3. Len(t) = Len(rx) - 1 /\ \A i \in 1..Len(t) : t[i] = rx[i + 1]
  BY <1>1, <1>2, HeadTailProperties
<1>4. DOMAIN t = 1..(Len(rx) - 1)
  BY <1>3, LenProperties
<1>5. \A i \in DOMAIN t : i + 1 \in DOMAIN rx /\ t[i] = rx[i + 1]
  BY <1>1, <1>3, <1>4
<1>6. QED
  BY <1>2, <1>5 DEF Behind

\* A step that takes nothing from the descriptor nor from the rest of a datagram.
LEMMA MovesNothing ==
  ASSUME TypeOK, TookTypes, Took' = Took \o <<>>, UNCHANGED <<rx, pending>>
  PROVE  Moves(<<>>)
<1>1. PICK d \in Seq(Bytes) : d = pending \o Data(rx)
  BY TookType, ConcatProperties
<1>2. <<>> \o d = d /\ <<>> \in Seq(Bytes)
  BY ConcatEmptySeq, EmptySeq
<1>3. pending \o Data(rx) = <<>> \o (pending' \o Data(rx'))
  BY <1>1, <1>2
<1>4. pending' \in Seq(Bytes) /\ rx' \in Seq(Pkts)
  BY TookType
<1>5. Behind(rx')
  BY BehindSame
<1>6. QED
  BY <1>2, <1>3, <1>4, <1>5 DEF Moves, Hands

\* A step that takes the front of what the descriptor holds, when there is no
\* rest of a datagram; y stays behind as such a rest.
LEMMA MovesFromDescriptor ==
  ASSUME TypeOK, TookTypes, pending = <<>>, NEW x \in Seq(Bytes), NEW y \in Seq(Bytes),
         Took' = Took \o x, pending' = y, rx' \in Seq(Pkts), Behind(rx'),
         Data(rx) = (x \o y) \o Data(rx')
  PROVE  Moves(x)
<1>1. PICK d \in Seq(Bytes), e \in Seq(Bytes) : d = Data(rx) /\ e = Data(rx')
  BY TookType, DataType
<1>2. <<>> \o d = d
  BY ConcatEmptySeq
<1>3. Associative(x, y, e)
  BY ConcatIsAssociative
<1>4. pending \o Data(rx) = x \o (pending' \o Data(rx'))
  BY <1>1, <1>2, <1>3, Zenon DEF Associative
<1>5. QED
  BY <1>4 DEF Moves, Hands

\* What is handed out and what stays behind of a datagram came from the peer
\* that is remembered, which the table knows.
Speaks(x) ==
  kind = "udp" =>
    /\ \A b \in ToSet(x) \cup ToSet(pending') : sender[b] = lastPeer'
    /\ x = <<>> => lastPeer' = lastPeer
    /\ opts.limit # 1 /\ lastPeer' # NoPeer => lastPeer' \in ToSet(peers')

\* read_all() goes on, or leaves nothing that was due in the descriptor.
Completes ==
  \/ lacking' = lacking /\ (Wedged => Wedged')
  \/ /\ out' = <<>> /\ pending' = <<>>
     /\ lacking' = (1..due') \ (ToSet(returned') \cup stolen)
     /\ Wedged' \/ \A b \in ToSet(Data(rx')) : b > due'

Steps(x) ==
  /\ Moves(x) /\ Speaks(x) /\ Completes
  /\ ReaderFrame
  /\ call # "gone" /\ call' # "gone"
  /\ due' \in 0..MaxBytes /\ due' <= Arrived

\* What is unread keeps its order, so every byte stays where it was.
LEMMA StepKeepsOrder ==
  ASSUME TypeOK, EachByteOnceInOrder, NEW x, Steps(x)
  PROVE  EachByteOnceInOrder'
<1>1. Unread' = Unread
  BY HandsKeeps DEF Steps, Moves
<1>2. UNCHANGED <<sender, stolen>> /\ call # "gone"
  BY DEF Steps, ReaderFrame
<1>3. (\A i, j \in DOMAIN Unread : i < j => Unread[i] < Unread[j])
      /\ ToSet(Unread) = (1..Arrived) \ stolen
  BY <1>2, Zenon DEF EachByteOnceInOrder
<1>4. (\A i, j \in DOMAIN Unread' : i < j => Unread'[i] < Unread'[j])
      /\ ToSet(Unread') = (1..Arrived') \ stolen'
  BY <1>1, <1>2, <1>3, Zenon DEF Arrived
<1>5. QED
  BY <1>4, Zenon DEF EachByteOnceInOrder

\* The elements of what is unread, by place.
LEMMA UnreadSet ==
  ASSUME NEW r \in Seq(Bytes), NEW o \in Seq(Bytes), NEW p \in Seq(Bytes), NEW d \in Seq(Bytes)
  PROVE  ToSet(r \o o \o p \o d) = ToSet(r) \cup ToSet(o) \cup ToSet(p) \cup ToSet(d)
<1>1. PICK ro \in Seq(Bytes) : ro = r \o o
  BY ConcatProperties
<1>2. PICK rop \in Seq(Bytes) : rop = ro \o p
  BY ConcatProperties
<1>3. ToSet(ro \o p) = ToSet(ro) \cup ToSet(p) /\ ToSet(rop \o d) = ToSet(rop) \cup ToSet(d)
  BY ToSetConcat
<1>4. ToSet(r \o o) = ToSet(r) \cup ToSet(o)
  BY ToSetConcat
<1>5. QED
  BY <1>1, <1>2, <1>3, <1>4, Zenon

\* A read_all() that returns has taken all that was due.
LEMMA StepTakesAll ==
  ASSUME TypeOK, EachByteOnceInOrder, ReadAllTakesAll, NEW x, Steps(x)
  PROVE  ReadAllTakesAll'
<1>1. CASE lacking' = lacking /\ (Wedged => Wedged')
  BY <1>1 DEF ReadAllTakesAll, Steps
<1>2. CASE /\ out' = <<>> /\ pending' = <<>>
           /\ lacking' = (1..due') \ (ToSet(returned') \cup stolen)
           /\ Wedged' \/ \A b \in ToSet(Data(rx')) : b > due'
  <2>1. PICK r \in Seq(Bytes), d \in Seq(Bytes), e \in Seq(Bytes) :
          r = returned' /\ d = Data(rx') /\ e = <<>>
    <3>1. returned' \in Seq(Bytes) /\ Data(rx') \in Seq(Bytes)
      BY DataType DEF Steps, Moves, Hands, TookTypes
    <3>2. QED
      BY <3>1, EmptySeq
  <2>2. ToSet(e) = {}
    BY <2>1, ToSetEmpty
  <2>3. Unread' = r \o e \o e \o d
    BY <1>2, <2>1, Zenon DEF Unread
  <2>4. ToSet(Unread') = ToSet(r) \cup ToSet(d)
    BY <2>2, <2>3, UnreadSet
  <2>5. ToSet(Unread') = (1..Arrived') \ stolen'
    BY StepKeepsOrder DEF EachByteOnceInOrder, Steps
  <2>6. Arrived' = Arrived /\ stolen' = stolen /\ due' <= Arrived /\ due' \in Nat
    BY DEF Steps, ReaderFrame, Arrived
  <2>7. Arrived \in Nat
    BY LenProperties DEF Arrived, TypeOK
  <2>8. CASE \A b \in ToSet(d) : b > due'
    <3>1. \A b \in 1..due' : b \in ToSet(r) \cup stolen
      BY <2>4, <2>5, <2>6, <2>7, <2>8
    <3>2. lacking' = {}
      BY <1>2, <2>1, <3>1
    <3>3. QED
      BY <3>2 DEF ReadAllTakesAll
  <2>9. CASE Wedged'
    BY <2>9, Zenon DEF ReadAllTakesAll
  <2>10. QED
    BY <1>2, <2>1, <2>8, <2>9
<1>3. QED
  BY <1>1, <1>2 DEF Steps, Completes

\* Who spoke last, and who sent what waits.
LEMMA StepKeepsSenders ==
  ASSUME TypeOK, Senders, NEW x, Steps(x)
  PROVE  Senders'
<1> SUFFICES ASSUME kind = "udp"
             PROVE  /\ \A i \in DOMAIN rx' : \A b \in ToSet(rx'[i][2]) : sender[b] = rx'[i][1]
                    /\ \A b \in ToSet(pending') : sender[b] = lastPeer'
                    /\ Took' # <<>> => sender[Last(Took')] = lastPeer'
                    /\ opts.limit # 1 /\ lastPeer' # NoPeer => lastPeer' \in ToSet(peers')
  BY DEF Senders, Steps, ReaderFrame
<1>1. ASSUME NEW i \in DOMAIN rx', NEW b \in ToSet(rx'[i][2])
      PROVE  sender[b] = rx'[i][1]
  <2>1. PICK n \in Nat : i + n \in DOMAIN rx /\ rx'[i] = rx[i + n]
    BY DEF Steps, Moves, Behind
  <2>2. QED
    BY <2>1, <1>1 DEF Senders
<1>2. \A b \in ToSet(x) \cup ToSet(pending') : sender[b] = lastPeer'
  BY DEF Steps, Speaks
<1>3. opts.limit # 1 /\ lastPeer' # NoPeer => lastPeer' \in ToSet(peers')
  BY Zenon DEF Steps, Speaks
<1>4. ASSUME Took' # <<>> PROVE sender[Last(Took')] = lastPeer'
  <2>1. PICK k \in Seq(Bytes), y \in Seq(Bytes) : k = Took /\ y = x
    BY TookType DEF Steps, Moves, Hands
  <2>2. Took' = k \o y
    BY <2>1 DEF Steps, Moves, Hands
  <2>3. CASE y = <<>>
    <3>1. Took' = Took
      BY <2>1, <2>2, <2>3, ConcatEmptySeq
    <3>2. lastPeer' = lastPeer
      BY <2>1, <2>3 DEF Steps, Speaks
    <3>3. QED
      BY <1>4, <3>1, <3>2, Zenon DEF Senders
  <2>4. CASE y # <<>>
    <3>1. PICK t \in Seq(Bytes) : t = k \o y
      BY ConcatProperties
    <3>2. /\ Len(t) = Len(k) + Len(y) /\ Len(k) \in Nat /\ Len(y) \in Nat \ {0}
          /\ \A i \in 1..(Len(k) + Len(y)) : t[i] = IF i <= Len(k) THEN k[i] ELSE y[i - Len(k)]
      BY <2>4, <3>1, ConcatProperties, LenProperties, EmptySeq
    <3>3. t[Len(t)] = y[Len(y)]
      BY <3>2
    <3>4. y[Len(y)] \in ToSet(y)
      BY <3>2, ToSetIndex
    <3>5. Last(Took') \in ToSet(x)
      BY <2>1, <2>2, <3>1, <3>3, <3>4 DEF Last
    <3>6. QED
      BY <1>2, <3>5
  <2>5. QED
    BY <2>3, <2>4
<1>5. QED
  BY <1>1, <1>2, <1>3, <1>4

\* A reader's step keeps what is known of the descriptor and of what it holds.
LEMMA StepKeepsDescriptor ==
  ASSUME Typed, NEW x, Steps(x)
  PROVE  Descriptor'
<1>1. UNCHANGED <<kind, valid, ended, sender, stolen>> /\ rx' \in Seq(Pkts)
  BY DEF Steps, ReaderFrame, Moves
<1>2. PICK n \in Nat : \A i \in DOMAIN rx' : i + n \in DOMAIN rx /\ rx'[i] = rx[i + n]
  BY DEF Steps, Moves, Behind
<1>3. ASSUME ~valid PROVE rx' = <<>>
  <2>1. DOMAIN rx = {}
    BY <1>3, EmptySeq, LenProperties DEF Typed, Descriptor
  <2>2. DOMAIN rx' = {}
    BY <1>2, <2>1
  <2>3. Len(rx') = 0
    BY <1>1, <2>2, LenProperties
  <2>4. QED
    BY <1>1, <2>3, EmptySeq
<1>4. \A i \in DOMAIN rx' :
        IF kind' = "udp" THEN rx'[i][1] \in Peers ELSE Len(rx'[i][2]) = 1
  BY <1>1, <1>2 DEF Typed, Descriptor
<1>5. ~valid' => rx' = <<>> /\ ~ended'
  BY <1>1, <1>3, Zenon DEF Typed, Descriptor
<1>6. Arrived' <= MaxBytes /\ stolen' \subseteq 1..Arrived'
  BY <1>1 DEF Typed, Descriptor, Arrived
<1>7. call' # "gone"
  BY DEF Steps
<1>8. QED
  BY <1>4, <1>5, <1>6, <1>7, Zenon DEF Descriptor

\* Where the reader is after a step.
Reads ==
  /\ CallShape' /\ Asked'
  /\ call' \in {"idle", "select", "wait", "recv", "count"}
  /\ all' \in BOOLEAN
  /\ want' \in Nat

\* in_waiting() is a number.
LEMMA InWaitingType == TypeOK => InWaiting \in Nat
<1> SUFFICES ASSUME TypeOK PROVE InWaiting \in Nat
  OBVIOUS
<1>1. rx \in Seq(Pkts) /\ Len(rx) \in Nat
  BY TookType, LenProperties
<1>2. CASE rx = <<>>
  BY <1>2 DEF InWaiting
<1>3. CASE rx # <<>>
  <2>1. Len(rx) > 0
    BY <1>1, <1>3, EmptySeq
  <2>2. rx[1] \in Pkts
    BY <1>1, <2>1, ElementOfSeq
  <2>3. Len(rx[1][2]) \in Nat
    BY <2>2, LenProperties DEF Pkts
  <2>4. QED
    BY <1>1, <2>3 DEF InWaiting
<1>4. QED
  BY <1>2, <1>3

\* Nothing that could be received waits: the descriptor is empty or wedged.
LEMMA NothingWaits ==
  ASSUME TypeOK, InWaiting = 0
  PROVE  rx = <<>> \/ Wedged
<1>1. rx \in Seq(Pkts)
  BY TookType
<1>2. ASSUME rx # <<>> PROVE Wedged
  <2>1. Len(rx) \in Nat \ {0}
    BY <1>1, <1>2, EmptySeq
  <2>2. rx[1] \in Pkts
    BY <1>1, <2>1, ElementOfSeq
  <2>3. kind = "udp" /\ Len(rx[1][2]) = 0
    BY <1>2, <2>1 DEF InWaiting
  <2>4. rx[1][2] = <<>>
    BY <2>2, <2>3, EmptySeq DEF Pkts
  <2>5. QED
    BY <1>2, <2>3, <2>4 DEF Wedged
<1>3. QED
  BY <1>2

\* A read_all() that finds nothing to receive, and returns.
LEMMA EmptyCompletes ==
  ASSUME TypeOK, NEW c, ReadAllReturns(c), rx = <<>> \/ Wedged,
         pending' = <<>>, UNCHANGED <<rx, kind>>
  PROVE  Completes
<1>1. out' = <<>> /\ lacking' = (1..due') \ (ToSet(returned') \cup stolen)
  BY DEF ReadAllReturns, Return
<1>2. CASE rx = <<>>
  <2>1. ToSet(Data(rx')) = {}
    <3>1. Data(rx') = <<>>
      BY <1>2, DataEmpty
    <3>2. <<>> \in Seq(Bytes)
      BY EmptySeq
    <3>3. QED
      BY <3>1, <3>2, ToSetEmpty
  <2>2. QED
    BY <1>1, <2>1 DEF Completes
<1>3. CASE Wedged
  <2>1. Wedged'
    BY <1>3 DEF Wedged
  <2>2. QED
    BY <1>1, <2>1, Zenon DEF Completes
<1>4. QED
  BY <1>2, <1>3

\* A step that takes nothing leaves read_all() what it owes.
LEMMA SameCompletes ==
  ASSUME UNCHANGED <<rx, kind, lacking>>
  PROVE  Completes
<1>1. Wedged => Wedged'
  BY DEF Wedged
<1>2. QED
  BY <1>1, Zenon DEF Completes

\* Going on in read_all() with what was read leaves it what it owes.
LEMMA GoOnCompletes ==
  ASSUME TypeOK, NEW c, GoOn(c), pending' = <<>>, UNCHANGED <<rx, kind>>
  PROVE  Completes
<1>1. CASE InWaiting = 0
  BY <1>1, NothingWaits, EmptyCompletes DEF GoOn
<1>2. CASE InWaiting # 0
  BY <1>2, SameCompletes DEF GoOn
<1>3. QED
  BY <1>1, <1>2

\* What a step takes from the rest of a datagram.
LEMMA SpeaksAsBefore ==
  ASSUME Senders, NEW x, UNCHANGED <<lastPeer, peers>>,
         ToSet(x) \cup ToSet(pending') \subseteq ToSet(pending)
  PROVE  Speaks(x)
<1>1. ASSUME kind = "udp"
      PROVE  /\ \A b \in ToSet(x) \cup ToSet(pending') : sender[b] = lastPeer'
             /\ opts.limit # 1 /\ lastPeer' # NoPeer => lastPeer' \in ToSet(peers')
  BY <1>1 DEF Senders
<1>2. QED
  BY <1>1, Zenon DEF Speaks

\* A return is a place the reading thread may be in,
LEMMA ReturnReads ==
  ASSUME NEW c, Return(c), kind' # "udp" => pending' = <<>>, due' <= Arrived'
  PROVE  Reads
<1>1. call' = "idle" /\ all' = FALSE /\ want' = 0 /\ out' = <<>>
  BY DEF Return
<1>2. CallShape'
  BY <1>1 DEF CallShape
<1>3. Asked'
  BY <1>1 DEF Asked
<1>4. QED
  BY <1>1, <1>2, <1>3 DEF Reads

\* so is the next round of read_all(),
LEMMA GoOnReads ==
  ASSUME TypeOK, NEW c, GoOn(c), kind \notin {"loop"}, kind = "serial" => c = <<>>,
         pending' = <<>>, UNCHANGED <<rx, kind, opts>>, due' <= Arrived'
  PROVE  Reads
<1>1. CASE InWaiting = 0
  BY <1>1, ReturnReads DEF GoOn, ReadAllReturns
<1>2. CASE InWaiting # 0
  <2>1. call' \in {"wait", "recv"} /\ want' = InWaiting /\ all' = TRUE /\ out' = c
    BY <1>2 DEF GoOn, StartRead
  <2>2. want' \in Nat /\ want' > 0
    BY <1>2, <2>1, InWaitingType
  <2>3. CallShape'
    BY <2>1, <2>2 DEF CallShape
  <2>4. InWaiting' = want'
    BY <2>1 DEF InWaiting
  <2>5. ASSUME kind = "serial", NEW i \in DOMAIN rx', i > want' PROVE FALSE
    <3>1. InWaiting = Len(rx)
      BY <1>2, <2>5 DEF InWaiting
    <3>2. DOMAIN rx = 1..Len(rx) /\ Len(rx) \in Nat
      BY TookType, LenProperties
    <3>3. QED
      BY <2>1, <2>5, <3>1, <3>2
  <2>6. Asked'
    BY <2>4, <2>5 DEF Asked
  <2>7. QED
    BY <2>1, <2>2, <2>3, <2>6 DEF Reads
<1>3. QED
  BY <1>1, <1>2

\* and so is the end of a read(), inside read_all() or not.
LEMMA ReadReturnsReads ==
  ASSUME TypeOK, CallShape, NEW c, ReadReturns(c), call \in {"wait", "recv"},
         UNCHANGED kind, kind # "udp" \/ all => pending' = <<>>, due' <= Arrived'
  PROVE  Reads
<1>1. CASE ~all \/ kind = "serial" \/ c = <<>>
  <2>1. \E d : Return(d)
    BY <1>1 DEF ReadReturns, ReadAllReturns
  <2>2. QED
    BY <2>1, ReturnReads
<1>2. CASE all /\ kind # "serial" /\ c # <<>>
  <2>1. call' = "count" /\ all' = all /\ want' = want
    BY <1>2 DEF ReadReturns
  <2>2. CallShape'
    BY <1>2, <2>1 DEF CallShape
  <2>3. Asked'
    BY <2>1 DEF Asked
  <2>4. QED
    BY <2>1, <2>2, <2>3 DEF Reads, TypeOK
<1>3. QED
  BY <1>1, <1>2

\* add_peer() keeps the table within the limit and the new peer in it.
LEMMA AddPeerKeeps ==
  ASSUME TypeOK, TableWithinLimit, NEW p \in Peers
  PROVE  /\ AddPeer(p) \in Seq(Peers) /\ IsInjective(AddPeer(p))
         /\ Len(AddPeer(p)) <= opts.limit
         /\ p \in ToSet(AddPeer(p))
<1>1. /\ peers \in Seq(Peers) /\ Len(peers) \in Nat /\ IsInjective(peers)
      /\ Len(peers) <= opts.limit /\ opts.limit \in Nat \ {0}
  BY LenProperties DEF TypeOK, TableWithinLimit
<1>2. CASE p \in ToSet(peers)
  BY <1>1, <1>2 DEF AddPeer
<1>3. CASE p \notin ToSet(peers) /\ Len(peers) < opts.limit
  <2>1. AddPeer(p) = Append(peers, p)
    BY <1>3 DEF AddPeer
  <2>2. Append(peers, p) \in Seq(Peers) /\ Len(Append(peers, p)) = Len(peers) + 1
    BY <1>1, AppendProperties
  <2>3. ToSet(Append(peers, p)) = ToSet(peers) \cup {p} /\ IsInjective(Append(peers, p))
    BY <1>1, <1>3, InjectiveAppend
  <2>4. QED
    BY <1>1, <1>3, <2>1, <2>2, <2>3
<1>4. CASE p \notin ToSet(peers) /\ ~(Len(peers) < opts.limit)
  <2>1. peers # <<>>
    BY <1>1, <1>4, EmptySeq
  <2>2. PICK h \in Seq(Peers), t \in Seq(Peers) :
          h = <<Head(peers)>> /\ t = Tail(peers) /\ h \o t = peers
    BY <1>1, <2>1, HeadSplits
  <2>3. Len(t) = Len(peers) - 1
    BY <1>1, <2>1, <2>2, HeadTailProperties
  <2>4. IsInjective(h \o t)
    BY <1>1, <2>2
  <2>5. IsInjective(t) /\ ToSet(h \o t) = ToSet(h) \cup ToSet(t)
    BY <2>4, InjectiveConcat, ToSetConcat
  <2>6. p \notin ToSet(t)
    BY <1>4, <2>2, <2>5
  <2>7. AddPeer(p) = Append(t, p)
    BY <1>4, <2>2 DEF AddPeer
  <2>8. Append(t, p) \in Seq(Peers) /\ Len(Append(t, p)) = Len(t) + 1
    BY AppendProperties
  <2>9. ToSet(Append(t, p)) = ToSet(t) \cup {p} /\ IsInjective(Append(t, p))
    BY <2>5, <2>6, InjectiveAppend
  <2>10. QED
    BY <1>1, <2>3, <2>7, <2>8, <2>9
<1>5. QED
  BY <1>2, <1>3, <1>4

\* What a read takes from the front of a stream or of the loopback's vector.
LEMMA FrontMoves ==
  ASSUME TypeOK, NEW n \in Nat, pending = <<>>, pending' = <<>>, rx' = Rest(rx, n),
         TookTypes, Took' = Took \o Data(Taken(rx, n))
  PROVE  Moves(Data(Taken(rx, n)))
<1>1. rx \in Seq(Pkts) /\ <<>> \in Seq(Bytes)
  BY TookType, EmptySeq
<1>2. /\ Taken(rx, n) \in Seq(Pkts) /\ Rest(rx, n) \in Seq(Pkts)
      /\ rx = Taken(rx, n) \o Rest(rx, n)
  BY <1>1, TakenRest
<1>3. PICK t \in Seq(Pkts), r \in Seq(Pkts) : t = Taken(rx, n) /\ r = Rest(rx, n)
  BY <1>2
<1>4. Data(t) \in Seq(Bytes) /\ Data(t \o r) = Data(t) \o Data(r)
  BY DataType, DataConcat
<1>5. Data(t) \o <<>> = Data(t)
  BY <1>4, ConcatEmptySeq
<1>6. Data(rx) = (Data(t) \o <<>>) \o Data(rx')
  BY <1>2, <1>3, <1>4, <1>5, Zenon
<1>7. Behind(rx')
  BY BehindRest
<1>8. QED
  BY <1>1, <1>3, <1>4, <1>6, <1>7, MovesFromDescriptor

\* What a read takes from the rest of a datagram.
LEMMA RestMoves ==
  ASSUME TypeOK, NEW x \in Seq(Bytes), NEW y \in Seq(Bytes), pending = x \o y,
         pending' = y, rx' = rx, TookTypes, Took' = Took \o x
  PROVE  Moves(x) /\ ToSet(x) \cup ToSet(pending') \subseteq ToSet(pending)
<1>1. PICK d \in Seq(Bytes) : d = Data(rx)
  BY TookType
<1>2. Associative(x, y, d)
  BY ConcatIsAssociative
<1>3. pending \o Data(rx) = x \o (pending' \o Data(rx'))
  BY <1>1, <1>2, Zenon DEF Associative
<1>4. rx' \in Seq(Pkts) /\ Behind(rx')
  BY BehindSame, TookType
<1>5. ToSet(x \o y) = ToSet(x) \cup ToSet(y)
  BY ToSetConcat
<1>6. QED
  BY <1>3, <1>4, <1>5 DEF Moves, Hands

\* A stream that holds anything has a byte to take.
LEMMA ChunkOfStream ==
  ASSUME Typed, kind # "udp", rx # <<>>, NEW n \in Nat, n > 0
  PROVE  Data(Taken(rx, n)) # <<>>
<1>1. rx \in Seq(Pkts)
  BY TookType DEF Typed
<1>2. PICK t \in Seq(Pkts), r \in Seq(Pkts) :
        t = Taken(rx, n) /\ r = Rest(rx, n) /\ rx = t \o r /\ t # <<>>
  BY <1>1, TakenRest
<1>3. Len(t) \in Nat \ {0} /\ Len(r) \in Nat
  BY <1>2, EmptySeq, LenProperties
<1>4. 1 \in DOMAIN rx /\ rx[1] = t[1] /\ 1 \in DOMAIN t
  <2>1. /\ Len(t \o r) = Len(t) + Len(r)
        /\ \A i \in 1..(Len(t) + Len(r)) : (t \o r)[i] = IF i <= Len(t) THEN t[i] ELSE r[i - Len(t)]
    BY ConcatProperties
  <2>2. (t \o r)[1] = t[1]
    BY <1>3, <2>1
  <2>3. 1 \in 1..Len(t) /\ 1 \in 1..Len(t \o r)
    BY <1>3, <2>1
  <2>4. DOMAIN t = 1..Len(t) /\ DOMAIN rx = 1..Len(rx)
    BY <1>1, LenProperties
  <2>5. QED
    BY <1>2, <2>2, <2>3, <2>4
<1>5. PICK c \in Seq(Bytes) : c = t[1][2]
  <2>1. t[1] \in Pkts
    BY <1>3, ElementOfSeq
  <2>2. QED
    BY <2>1 DEF Pkts
<1>6. Len(c) = 1
  BY <1>4, <1>5 DEF Typed, Descriptor
<1>7. c[1] \in ToSet(c)
  BY <1>6, ToSetIndex
<1>8. c[1] \in ToSet(Data(t))
  BY <1>4, <1>5, <1>7, DataSet
<1>9. Data(t) # <<>>
  <2>1. Data(t) \in Seq(Bytes)
    BY DataType
  <2>2. QED
    BY <1>8, <2>1, ToSetEmpty
<1>10. QED
  BY <1>2, <1>9

\* A step of the reader keeps the table of peers.
Moved ==
  /\ \E x : Steps(x)
  /\ Reads
  /\ lastPeer' \in Peers \cup {NoPeer}
  /\ peers' \in Seq(Peers) /\ IsInjective(peers') /\ Len(peers') <= opts.limit

\* What has to be shown of a reader's step for it to keep the invariant.
LEMMA MovedWith ==
  ASSUME TypeOK, TableWithinLimit, NEW x, Moves(x), Speaks(x), Completes, ReaderFrame,
         call # "gone", Reads, due' \in 0..MaxBytes, due' <= Arrived,
         UNCHANGED <<lastPeer, peers>>
  PROVE  Moved
<1>1. Steps(x)
  BY DEF Steps, Reads
<1>2. peers' \in Seq(Peers) /\ lastPeer' \in Peers \cup {NoPeer}
  BY DEF TypeOK
<1>3. IsInjective(peers') /\ Len(peers') <= opts.limit
  BY DEF TableWithinLimit
<1>4. QED
  BY <1>1, <1>2, <1>3 DEF Moved

\* A step that takes nothing.
LEMMA MovedWithout ==
  ASSUME Typed, Senders, TableWithinLimit, TookTypes, Took' = Took \o <<>>,
         UNCHANGED <<rx, pending, lastPeer, peers>>, Completes, ReaderFrame,
         call # "gone", Reads, due' \in 0..MaxBytes, due' <= Arrived
  PROVE  Moved
<1>1. Moves(<<>>)
  BY MovesNothing DEF Typed
<1>2. ToSet(<<>>) = {}
  BY EmptySeq, ToSetEmpty
<1>3. Speaks(<<>>)
  BY <1>2, SpeaksAsBefore
<1>4. QED
  BY <1>1, <1>3, MovedWith DEF Typed

\* What has arrived is bounded, and so is what read_all() owes.
LEMMA Bounds ==
  ASSUME TypeOK, Descriptor
  PROVE  Arrived \in 0..MaxBytes /\ (Asked => due \in 0..MaxBytes /\ due <= Arrived)
<1>1. Arrived \in Nat
  BY LenProperties DEF Arrived, TypeOK
<1>2. QED
  BY <1>1 DEF TypeOK, Descriptor, Asked

\* read() up to its wait.
LEMMA ReadMoves ==
  ASSUME Inv, NEW n \in 0..MaxRead, Read(n)
  PROVE  Moved
<1> USE DEF Inv, Typed
<1>1. /\ call = "idle" /\ ~all /\ out = <<>> /\ n \in Nat
      /\ UNCHANGED <<lastPeer, peers, due, lacking>> /\ ReaderFrame
  BY DEF Read, CallShape
<1>2. due' \in 0..MaxBytes /\ due' <= Arrived /\ due' <= Arrived'
  BY <1>1, Bounds DEF ReaderFrame, Arrived
<1>3. UNCHANGED <<kind, opts>>
  BY <1>1 DEF ReaderFrame
<1>4. ASSUME NEW x \in Seq(Bytes) PROVE x = out \o x
  BY <1>1, ConcatEmptySeq
<1>5. CASE Return(<<>>) /\ UNCHANGED <<rx, pending>>
  <2>1. <<>> \in Seq(Bytes)
    BY EmptySeq
  <2>2. TookTypes /\ Took' = Took \o <<>>
    BY <1>4, <1>5, <2>1, ReturnTakes
  <2>3. Completes
    BY <1>1, <1>3, <1>5, SameCompletes
  <2>4. Reads
    BY <1>2, <1>3, <1>5, ReturnReads DEF CallShape
  <2>5. QED
    BY <1>1, <1>2, <1>5, <2>2, <2>3, <2>4, MovedWithout
<1>6. CASE /\ kind = "loop" /\ n > 0 /\ Return(Data(Taken(rx, n)))
           /\ rx' = Rest(rx, n) /\ UNCHANGED pending
  <2>1. PICK x \in Seq(Bytes) : x = Data(Taken(rx, n))
    BY <1>1, TookType, TakenRest, DataType
  <2>2. TookTypes /\ Took' = Took \o x
    BY <1>4, <1>6, <2>1, ReturnTakes
  <2>3. pending = <<>> /\ pending' = <<>>
    BY <1>6 DEF CallShape
  <2>4. Moves(x)
    BY <1>1, <1>6, <2>1, <2>2, <2>3, FrontMoves
  <2>5. Speaks(x)
    BY <1>6 DEF Speaks
  <2>6. Completes
    BY <1>1, <1>6 DEF Completes, Wedged
  <2>7. Reads
    BY <1>2, <1>3, <1>6, <2>3, ReturnReads
  <2>8. QED
    BY <1>1, <1>2, <2>4, <2>5, <2>6, <2>7, MovedWith
<1>7. CASE /\ pending # <<>> /\ n > 0 /\ Return(Taken(pending, n))
           /\ pending' = Rest(pending, n) /\ UNCHANGED rx
  <2>1. /\ Taken(pending, n) \in Seq(Bytes) /\ Rest(pending, n) \in Seq(Bytes)
        /\ pending = Taken(pending, n) \o Rest(pending, n)
    BY <1>1, TookType, TakenRest
  <2>2. PICK x \in Seq(Bytes), y \in Seq(Bytes) : x = Taken(pending, n) /\ y = Rest(pending, n)
    BY <2>1
  <2>3. TookTypes /\ Took' = Took \o x
    BY <1>4, <1>7, <2>2, ReturnTakes
  <2>4. Moves(x) /\ ToSet(x) \cup ToSet(pending') \subseteq ToSet(pending)
    BY <1>7, <2>1, <2>2, <2>3, RestMoves
  <2>5. Speaks(x)
    BY <1>1, <2>4, SpeaksAsBefore
  <2>6. Completes
    BY <1>1, <1>3, <1>7, SameCompletes
  <2>7. Reads
    BY <1>2, <1>3, <1>7, ReturnReads DEF CallShape
  <2>8. QED
    BY <1>1, <1>2, <2>4, <2>5, <2>6, <2>7, MovedWith
<1>8. CASE /\ valid /\ n > 0 /\ kind # "loop" /\ pending = <<>> /\ StartRead(n)
           /\ UNCHANGED <<rx, pending, all, out, returned>>
  <2>1. TookTypes /\ Took' = Took \o <<>>
    BY <1>8, NothingTaken
  <2>2. Completes
    BY <1>1, <1>3, <1>8, SameCompletes
  <2>3. call' \in {"wait", "recv"} /\ want' = n /\ all' = FALSE /\ out' = <<>>
    BY <1>1, <1>8 DEF StartRead
  <2>4. CallShape'
    BY <1>3, <1>8, <2>3 DEF CallShape
  <2>5. Asked'
    BY <1>2, <2>3 DEF Asked
  <2>6. Reads
    BY <1>1, <2>3, <2>4, <2>5 DEF Reads
  <2>7. QED
    BY <1>1, <1>2, <1>8, <2>1, <2>2, <2>6, MovedWithout
<1>9. QED
  BY <1>5, <1>6, <1>7, <1>8 DEF Read

\* read_all() up to its wait.
LEMMA ReadAllMoves ==
  ASSUME Inv, ReadAll
  PROVE  Moved
<1> USE DEF Inv, Typed
<1>1. /\ call = "idle" /\ ~all /\ out = <<>> /\ due' = Arrived
      /\ UNCHANGED <<lastPeer, peers>> /\ ReaderFrame
  BY DEF ReadAll, CallShape
<1>2. due' \in 0..MaxBytes /\ due' <= Arrived /\ due' <= Arrived'
  <2>1. Arrived' = Arrived
    BY <1>1 DEF ReaderFrame, Arrived
  <2>2. QED
    BY <1>1, <2>1, Bounds
<1>3. UNCHANGED <<kind, opts>>
  BY <1>1 DEF ReaderFrame
<1>4. <<>> \in Seq(Bytes) /\ <<>> = out \o <<>>
  BY <1>1, EmptySeq, ConcatEmptySeq
<1>5. CASE UdpReadAll
  <2>1. kind = "udp" /\ GoOn(pending) /\ pending' = <<>> /\ rx' = rx
    BY <1>5 DEF UdpReadAll
  <2>2. PICK x \in Seq(Bytes) : x = pending
    BY TookType
  <2>3. x = out \o x /\ x = x \o <<>>
    BY <1>1, ConcatEmptySeq
  <2>4. TookTypes /\ Took' = Took \o x
    BY <2>1, <2>2, <2>3, GoOnTakes
  <2>5. Moves(x) /\ ToSet(x) \cup ToSet(pending') \subseteq ToSet(pending)
    BY <1>4, <2>1, <2>2, <2>3, <2>4, RestMoves
  <2>6. Speaks(x)
    BY <1>1, <2>5, SpeaksAsBefore
  <2>7. Completes
    BY <1>3, <2>1, GoOnCompletes
  <2>8. Reads
    BY <1>2, <1>3, <2>1, GoOnReads
  <2>9. QED
    BY <1>1, <1>2, <2>5, <2>6, <2>7, <2>8, MovedWith
<1>6. CASE StreamReadAll
  <2>1. Stream /\ UNCHANGED <<rx, pending>> /\ pending = <<>>
    BY <1>6 DEF StreamReadAll, Stream, CallShape
  <2>2. CASE GoOn(<<>>)
    <3>1. TookTypes /\ Took' = Took \o <<>>
      BY <1>4, <2>2, GoOnTakes
    <3>2. Completes
      BY <1>3, <2>1, <2>2, GoOnCompletes
    <3>3. Reads
      BY <1>2, <1>3, <2>1, <2>2, GoOnReads DEF Stream
    <3>4. QED
      BY <1>1, <1>2, <2>1, <3>1, <3>2, <3>3, MovedWithout
  <2>3. CASE /\ call' = "select" /\ all' = TRUE
             /\ UNCHANGED <<want, out, returned, lacking>>
    <3>1. TookTypes /\ Took' = Took \o <<>>
      BY <2>3, NothingTaken
    <3>2. Completes
      BY <1>3, <2>1, <2>3, SameCompletes
    <3>3. CallShape'
      BY <1>1, <1>3, <2>1, <2>3 DEF CallShape, Stream
    <3>4. Asked'
      BY <1>2, <2>3 DEF Asked
    <3>5. Reads
      BY <2>3, <3>3, <3>4 DEF Reads, TypeOK
    <3>6. QED
      BY <1>1, <1>2, <2>1, <3>1, <3>2, <3>5, MovedWithout
  <2>4. QED
    BY <1>6, <2>2, <2>3 DEF StreamReadAll
<1>7. CASE LoopReadAll
  <2>1. /\ kind = "loop" /\ ReadAllReturns(Data(rx)) /\ rx' = <<>> /\ UNCHANGED pending
        /\ pending = <<>>
    BY <1>7 DEF LoopReadAll, CallShape
  <2>2. PICK x \in Seq(Bytes) : x = Data(rx)
    BY TookType
  <2>3. x = out \o x /\ x = x \o <<>>
    BY <1>1, ConcatEmptySeq
  <2>4. TookTypes /\ Took' = Took \o x
    BY <2>1, <2>2, <2>3, ReturnTakes DEF ReadAllReturns
  <2>5. rx' \in Seq(Pkts) /\ Behind(rx') /\ Data(rx') = <<>>
    BY <2>1, EmptySeq, BehindEmpty, DataEmpty
  <2>6. Data(rx) = (x \o <<>>) \o Data(rx')
    BY <2>2, <2>3, <2>5
  <2>7. Moves(x)
    BY <1>4, <2>1, <2>4, <2>5, <2>6, MovesFromDescriptor
  <2>8. Speaks(x)
    BY <2>1 DEF Speaks
  <2>9. Completes
    <3>1. ToSet(Data(rx')) = {}
      BY <1>4, <2>5, ToSetEmpty
    <3>2. QED
      BY <2>1, <3>1 DEF Completes, ReadAllReturns, Return
  <2>10. Reads
    BY <1>2, <2>1, ReturnReads DEF ReadAllReturns
  <2>11. QED
    BY <1>1, <1>2, <2>7, <2>8, <2>9, <2>10, MovedWith
<1>8. QED
  BY <1>5, <1>6, <1>7 DEF ReadAll

\* A descriptor that does not wake a reader holds nothing.
LEMMA NotWoken ==
  ASSUME Descriptor, TimedOut
  PROVE  rx = <<>>
BY DEF Descriptor, TimedOut, Woken, Readable

\* The end of read_all()'s wait.
LEMMA SelectMoves ==
  ASSUME Inv, SelectReturns
  PROVE  Moved
<1> USE DEF Inv, Typed
<1>1. /\ call = "select" /\ all /\ out = <<>> /\ pending = <<>> /\ Stream
      /\ UNCHANGED <<rx, pending, lastPeer, peers, due>> /\ ReaderFrame
  BY DEF SelectReturns, CallShape, udpVars
<1>2. UNCHANGED <<kind, opts>>
  BY <1>1 DEF ReaderFrame
<1>3. due' \in 0..MaxBytes /\ due' <= Arrived /\ due' <= Arrived'
  BY <1>1, Bounds DEF ReaderFrame, Arrived
<1>4. <<>> \in Seq(Bytes) /\ <<>> = out \o <<>>
  BY <1>1, EmptySeq, ConcatEmptySeq
<1>5. CASE GoOn(<<>>)
  <2>1. TookTypes /\ Took' = Took \o <<>>
    BY <1>4, <1>5, GoOnTakes
  <2>2. Completes
    BY <1>1, <1>2, <1>5, GoOnCompletes
  <2>3. Reads
    BY <1>1, <1>2, <1>3, <1>5, GoOnReads DEF Stream
  <2>4. QED
    BY <1>1, <1>3, <2>1, <2>2, <2>3, MovedWithout
<1>6. CASE TimedOut /\ ReadAllReturns(<<>>)
  <2>1. TookTypes /\ Took' = Took \o <<>>
    BY <1>4, <1>6, ReturnTakes DEF ReadAllReturns
  <2>2. Completes
    BY <1>1, <1>2, <1>6, NotWoken, EmptyCompletes
  <2>3. Reads
    BY <1>1, <1>3, <1>6, ReturnReads DEF ReadAllReturns
  <2>4. QED
    BY <1>1, <1>3, <2>1, <2>2, <2>3, MovedWithout
<1>7. QED
  BY <1>5, <1>6 DEF SelectReturns

\* The end of read()'s wait.
LEMMA WaitMoves ==
  ASSUME Inv, WaitReturns
  PROVE  Moved
<1> USE DEF Inv, Typed
<1>1. /\ call = "wait" /\ pending = <<>> /\ want > 0 /\ kind # "loop"
      /\ UNCHANGED <<rx, pending, lastPeer, peers, due>> /\ ReaderFrame
  BY DEF WaitReturns, CallShape, udpVars
<1>2. UNCHANGED <<kind, opts>>
  BY <1>1 DEF ReaderFrame
<1>3. due' \in 0..MaxBytes /\ due' <= Arrived /\ due' <= Arrived'
  BY <1>1, Bounds DEF ReaderFrame, Arrived
<1>4. <<>> \in Seq(Bytes)
  BY EmptySeq
<1>5. CASE call' = "recv" /\ UNCHANGED <<all, want, out, returned, lacking>>
  <2>1. TookTypes /\ Took' = Took \o <<>>
    BY <1>5, NothingTaken
  <2>2. Completes
    BY <1>1, <1>2, <1>5, SameCompletes
  <2>3. CallShape'
    BY <1>1, <1>2, <1>5 DEF CallShape
  <2>4. InWaiting' = InWaiting
    BY <1>1, <1>2 DEF InWaiting
  <2>5. Asked'
    BY <1>1, <1>2, <1>3, <1>5, <2>4 DEF Asked
  <2>6. Reads
    BY <1>5, <2>3, <2>5 DEF Reads, TypeOK
  <2>7. QED
    BY <1>1, <1>3, <2>1, <2>2, <2>6, MovedWithout
<1>6. CASE TimedOut /\ ReadReturns(<<>>)
  <2>1. TookTypes /\ Took' = Took \o <<>>
    BY <1>4, <1>6, ReadReturnsTakes
  <2>2. Completes
    <3>1. CASE all
      <4>1. \E c : ReadAllReturns(c)
        BY <1>6, <3>1 DEF ReadReturns
      <4>2. QED
        BY <1>1, <1>2, <1>6, <4>1, NotWoken, EmptyCompletes
    <3>2. CASE ~all
      BY <1>1, <1>2, <1>6, <3>2, SameCompletes DEF ReadReturns
    <3>3. QED
      BY <3>1, <3>2
  <2>3. Reads
    BY <1>1, <1>2, <1>3, <1>6, ReadReturnsReads
  <2>4. QED
    BY <1>1, <1>3, <2>1, <2>2, <2>3, MovedWithout
<1>7. QED
  BY <1>5, <1>6 DEF WaitReturns

\* Between two rounds of read_all().
LEMMA CountMoves ==
  ASSUME Inv, Count
  PROVE  Moved
<1> USE DEF Inv, Typed
<1>1. /\ call = "count" /\ all /\ pending = <<>> /\ kind # "loop" /\ kind # "serial"
      /\ UNCHANGED <<rx, pending, lastPeer, peers, due>> /\ ReaderFrame /\ GoOn(out)
  BY DEF Count, CallShape, udpVars
<1>2. UNCHANGED <<kind, opts>>
  BY <1>1 DEF ReaderFrame
<1>3. due' \in 0..MaxBytes /\ due' <= Arrived /\ due' <= Arrived'
  BY <1>1, Bounds DEF ReaderFrame, Arrived
<1>4. <<>> \in Seq(Bytes) /\ out = out \o <<>>
  BY TookType, EmptySeq, ConcatEmptySeq
<1>5. TookTypes /\ Took' = Took \o <<>>
  BY <1>1, <1>4, GoOnTakes
<1>6. Completes
  BY <1>1, <1>2, GoOnCompletes
<1>7. Reads
  BY <1>1, <1>2, <1>3, GoOnReads
<1>8. QED
  BY <1>1, <1>3, <1>5, <1>6, <1>7, MovedWithout

\* recvfrom(): a datagram, of which the rest is kept.
LEMMA UdpRecvMoves ==
  ASSUME Inv, call = "recv", UdpRecv, ReaderFrame, UNCHANGED due
  PROVE  Moved
<1> USE DEF Inv, Typed
<1>1. /\ kind = "udp" /\ pending = <<>> /\ want > 0 /\ want \in Nat
  BY DEF UdpRecv, CallShape, TypeOK
<1>2. UNCHANGED <<kind, opts>>
  BY DEF ReaderFrame
<1>3. due' \in 0..MaxBytes /\ due' <= Arrived /\ due' <= Arrived'
  BY Bounds DEF ReaderFrame, Arrived
<1>4. CASE InWaiting = 0
  <2>1. ReadReturns(<<>>) /\ UNCHANGED <<rx, pending, lastPeer, peers>>
    BY <1>4 DEF UdpRecv, udpVars
  <2>2. TookTypes /\ Took' = Took \o <<>>
    BY <2>1, EmptySeq, ReadReturnsTakes
  <2>3. Completes
    <3>1. CASE all
      <4>1. \E c : ReadAllReturns(c)
        BY <2>1, <3>1 DEF ReadReturns
      <4>2. QED
        BY <1>1, <1>2, <1>4, <2>1, <4>1, NothingWaits, EmptyCompletes
    <3>2. CASE ~all
      BY <1>2, <2>1, <3>2, SameCompletes DEF ReadReturns
    <3>3. QED
      BY <3>1, <3>2
  <2>4. Reads
    BY <1>1, <1>2, <1>3, <2>1, ReadReturnsReads
  <2>5. QED
    BY <1>3, <2>1, <2>2, <2>3, <2>4, MovedWithout
<1>5. CASE InWaiting # 0
  <2>1. rx # <<>> /\ rx \in Seq(Pkts) /\ Len(rx) \in Nat \ {0} /\ DOMAIN rx = 1..Len(rx)
    BY <1>5, TookType, EmptySeq, LenProperties DEF InWaiting
  <2>2. PICK p \in Pkts : p = rx[1]
    BY <2>1, ElementOfSeq
  <2>3. PICK data \in Seq(Bytes) : data = p[2]
    BY DEF Pkts
  <2>4. p[1] \in Peers
    BY <1>1, <2>1, <2>2 DEF Descriptor
  <2>5. Len(data) # 0 /\ InWaiting = Len(data)
    BY <1>1, <1>5, <2>1, <2>2, <2>3 DEF InWaiting
  <2>6. data # <<>>
    BY <2>5, EmptySeq
  <2>7. /\ rx' = Tail(rx) /\ lastPeer' = p[1] /\ pending' = Rest(data, want)
        /\ peers' = IF opts.limit # 1 THEN AddPeer(p[1]) ELSE peers
        /\ ReadReturns(Taken(data, want))
    BY <1>5, <2>2, <2>3 DEF UdpRecv
  <2>8. /\ Taken(data, want) \in Seq(Bytes) /\ Rest(data, want) \in Seq(Bytes)
        /\ data = Taken(data, want) \o Rest(data, want)
        /\ Taken(data, want) # <<>>
        /\ want >= Len(data) => Rest(data, want) = <<>>
    BY <1>1, <2>6, TakenRest
  <2>9. PICK x \in Seq(Bytes), y \in Seq(Bytes) : x = Taken(data, want) /\ y = Rest(data, want)
    BY <2>8
  <2>10. TookTypes /\ Took' = Took \o x
    BY <2>7, <2>9, ReadReturnsTakes
  <2>11. Moves(x)
    <3>1. PICK h \in Seq(Pkts), t \in Seq(Pkts) : h = <<p>> /\ t = Tail(rx)
      <4>1. Head(rx) = p
        BY <2>1, <2>2, HeadTailProperties
      <4>2. <<Head(rx)>> \in Seq(Pkts) /\ Tail(rx) \in Seq(Pkts)
        BY <2>1, HeadSplits
      <4>3. QED
        BY <4>1, <4>2
    <3>2. Head(rx) = p
      BY <2>1, <2>2, HeadTailProperties
    <3>3. h \o t = rx
      BY <2>1, <3>1, <3>2, HeadSplits
    <3>4. Data(h \o t) = Data(h) \o Data(t) /\ Data(h) = data
      BY <2>3, <3>1, DataConcat, DataOne
    <3>5. Data(rx) = (x \o y) \o Data(rx')
      BY <2>7, <2>8, <2>9, <3>1, <3>3, <3>4, Zenon
    <3>6. rx' \in Seq(Pkts) /\ Behind(rx')
      BY <2>1, <2>7, <3>1, BehindTail
    <3>7. QED
      BY <1>1, <2>7, <2>9, <2>10, <3>5, <3>6, MovesFromDescriptor
  <2>12. /\ opts.limit # 1 => peers' = AddPeer(p[1])
         /\ opts.limit = 1 => peers' = peers
    BY <2>7
  <2>13. /\ peers' \in Seq(Peers) /\ IsInjective(peers') /\ Len(peers') <= opts.limit
         /\ opts.limit # 1 => p[1] \in ToSet(peers')
    <3>1. CASE opts.limit # 1
      BY <2>4, <2>12, <3>1, AddPeerKeeps
    <3>2. CASE opts.limit = 1
      BY <2>12, <3>2 DEF TableWithinLimit, TypeOK
    <3>3. QED
      BY <3>1, <3>2
  <2>14. Speaks(x)
    <3>1. ToSet(x \o y) = ToSet(x) \cup ToSet(y)
      BY ToSetConcat
    <3>2. \A b \in ToSet(data) : sender[b] = p[1]
      <4>1. 1 \in DOMAIN rx
        BY <2>1
      <4>2. QED
        BY <1>1, <2>2, <2>3, <4>1 DEF Senders
    <3>3. \A b \in ToSet(x) \cup ToSet(pending') : sender[b] = lastPeer'
      BY <2>7, <2>8, <2>9, <3>1, <3>2
    <3>4. x # <<>> /\ lastPeer' = p[1]
      BY <2>7, <2>8, <2>9
    <3>5. QED
      BY <2>13, <3>3, <3>4, Zenon DEF Speaks
  <2>15. Completes
    <3>1. lacking' = lacking
      BY <1>1, <2>7, <2>8 DEF ReadReturns
    <3>2. ~Wedged
      BY <2>2, <2>3, <2>6 DEF Wedged
    <3>3. QED
      BY <3>1, <3>2, Zenon DEF Completes
  <2>16. Reads
    <3>1. all => want = Len(data)
      BY <1>1, <2>5 DEF Asked
    <3>2. all => pending' = <<>>
      BY <2>5, <2>7, <2>8, <3>1
    <3>3. QED
      BY <1>1, <1>2, <1>3, <2>7, <3>2, ReadReturnsReads
  <2>17. Steps(x)
    BY <1>3, <2>11, <2>14, <2>15, <2>16 DEF Steps, Reads
  <2>18. QED
    BY <2>4, <2>7, <2>13, <2>16, <2>17 DEF Moved
<1>6. QED
  BY <1>4, <1>5

\* recv() and the serial port's read(): bytes from the front.
LEMMA StreamRecvMoves ==
  ASSUME Inv, call = "recv", StreamRecv, ReaderFrame, UNCHANGED due
  PROVE  Moved
<1> USE DEF Inv, Typed
<1>1. /\ kind \in {"tcp", "serial"} /\ pending = <<>> /\ want > 0 /\ want \in Nat
      /\ rx' = Rest(rx, want) /\ ReadReturns(Data(Taken(rx, want)))
      /\ UNCHANGED <<pending, lastPeer, peers>>
  BY DEF StreamRecv, Stream, CallShape, TypeOK, udpVars
<1>2. UNCHANGED <<kind, opts, stolen>>
  BY DEF ReaderFrame
<1>3. due' \in 0..MaxBytes /\ due' <= Arrived /\ due' <= Arrived'
  BY Bounds DEF ReaderFrame, Arrived
<1>4. PICK x \in Seq(Bytes) : x = Data(Taken(rx, want))
  BY <1>1, TookType, TakenRest, DataType
<1>5. TookTypes /\ Took' = Took \o x
  BY <1>1, <1>4, ReadReturnsTakes
<1>6. Moves(x)
  BY <1>1, <1>4, <1>5, FrontMoves
<1>7. Speaks(x)
  BY <1>1 DEF Speaks
<1>8. Completes
  <2>1. CASE ~all \/ (kind # "serial" /\ x # <<>>)
    <3>1. lacking' = lacking
      BY <1>1, <1>4, <2>1 DEF ReadReturns
    <3>2. QED
      BY <1>1, <3>1 DEF Completes, Wedged
  <2>2. CASE all /\ (kind = "serial" \/ x = <<>>)
    <3>1. \E c : ReadAllReturns(c)
      BY <1>1, <1>4, <2>2 DEF ReadReturns
    <3>2. /\ out' = <<>> /\ pending' = <<>>
          /\ lacking' = (1..due') \ (ToSet(returned') \cup stolen)
      BY <1>1, <3>1 DEF ReadAllReturns, Return
    <3>3. ASSUME NEW b \in ToSet(Data(rx')) PROVE b > due'
      <4>1. rx' \in Seq(Pkts) /\ rx \in Seq(Pkts)
        BY <1>1, TookType, TakenRest
      <4>2. PICK i \in DOMAIN rx' : b \in ToSet(rx'[i][2])
        BY <3>3, <4>1, DataSet
      <4>3. i \in Nat /\ i > 0
        BY <4>1, LenProperties
      <4>4. i + want \in DOMAIN rx /\ rx'[i] = rx[i + want]
        BY <1>1, <4>1, TakenRest
      <4>5. kind = "serial"
        <5>1. rx # <<>>
          <6>1. DOMAIN <<>> = {}
            BY EmptySeq, LenProperties
          <6>2. QED
            BY <4>4, <6>1
        <5>2. x # <<>>
          BY <1>1, <1>4, <5>1, ChunkOfStream
        <5>3. QED
          BY <2>2, <5>2
      <4>6. \A j \in DOMAIN rx : j > want => \A c \in ToSet(rx[j][2]) : c > due
        BY <2>2, <4>5 DEF Asked
      <4>7. i + want > want
        BY <1>1, <4>3
      <4>8. QED
        BY <4>2, <4>4, <4>6, <4>7
    <3>4. QED
      BY <3>2, <3>3, Zenon DEF Completes
  <2>3. QED
    BY <2>1, <2>2
<1>9. Reads
  BY <1>1, <1>2, <1>3, ReadReturnsReads
<1>10. QED
  BY <1>1, <1>3, <1>6, <1>7, <1>8, <1>9, MovedWith

-----------------------------------------------------------------------------
(* The steps of the other end, of another thread and of the destructor.    *)

\* One element is all there is in a sequence of one.
LEMMA ToSetOne ==
  ASSUME NEW c, NEW b \in ToSet(<<c>>)
  PROVE  b = c
<1>1. <<c>> \in Seq({c})
  OBVIOUS
<1>2. QED
  BY <1>1, ToSetType

\* n bytes arrive behind those that have arrived.
Arrives(n) == [i \in 1..n |-> Arrived + i]

\* Arriving bytes carry the next numbers.
LEMMA ArrivesType ==
  ASSUME Typed, NEW n \in 0..(MaxBytes - Arrived)
  PROVE  /\ Arrives(n) \in Seq(Bytes) /\ Increasing(Arrives(n))
         /\ ToSet(Arrives(n)) = (Arrived + 1)..(Arrived + n)
         /\ Len(Arrives(n)) = n /\ n \in Nat /\ Arrived \in Nat
<1>1. Arrived \in Nat /\ n \in Nat
  BY LinkAssumption, Bounds DEF Typed, LinkAssumption
<1>2. /\ Arrives(n) \in Seq((Arrived + 1)..(Arrived + n)) /\ Increasing(Arrives(n))
      /\ ToSet(Arrives(n)) = (Arrived + 1)..(Arrived + n) /\ Len(Arrives(n)) = n
  BY <1>1, Numbers DEF Arrives
<1>3. \A i \in 1..n : Arrived + i \in Bytes
  BY <1>1, LinkAssumption DEF Bytes, LinkAssumption
<1>4. Arrives(n) \in Seq(Bytes)
  BY <1>1, <1>3 DEF Arrives
<1>5. QED
  BY <1>1, <1>2, <1>4

\* The senders of those that had arrived remain.
LEMMA SenderGrows ==
  ASSUME TypeOK, NEW n \in Nat, NEW p \in Peers \cup {NoPeer},
         sender' = sender \o [i \in 1..n |-> p]
  PROVE  /\ sender' \in Seq(Peers \cup {NoPeer}) /\ Arrived' = Arrived + n
         /\ \A b \in 1..Arrived : sender'[b] = sender[b]
         /\ \A b \in (Arrived + 1)..(Arrived + n) : sender'[b] = p
<1>1. PICK s \in Seq(Peers \cup {NoPeer}), t \in Seq(Peers \cup {NoPeer}) :
        s = sender /\ t = [i \in 1..n |-> p]
  <2>1. sender \in Seq(Peers \cup {NoPeer})
    BY DEF TypeOK
  <2>2. [i \in 1..n |-> p] \in Seq(Peers \cup {NoPeer})
    OBVIOUS
  <2>3. QED
    BY <2>1, <2>2
<1>2. Len(s) \in Nat /\ Len(t) = n /\ \A i \in 1..n : t[i] = p
  BY <1>1, LenProperties
<1>3. PICK u \in Seq(Peers \cup {NoPeer}) : u = s \o t
  BY ConcatProperties
<1>4. /\ Len(u) = Len(s) + Len(t)
      /\ \A i \in 1..(Len(s) + Len(t)) : u[i] = IF i <= Len(s) THEN s[i] ELSE t[i - Len(s)]
  BY <1>3, ConcatProperties
<1>5. sender' = u
  BY <1>1, <1>3
<1>6. \A b \in 1..Len(s) : u[b] = s[b]
  BY <1>2, <1>4
<1>7. \A b \in (Len(s) + 1)..(Len(s) + n) : u[b] = p
  BY <1>2, <1>4
<1>8. QED
  BY <1>1, <1>2, <1>4, <1>5, <1>6, <1>7 DEF Arrived

\* Bytes are numbers.
LEMMA BytesAreNumbers ==
  ASSUME NEW s \in Seq(Bytes)
  PROVE  s \in Seq(Int)
<1>1. Len(s) \in Nat /\ s = [i \in 1..Len(s) |-> s[i]]
  BY LenProperties
<1>2. \A i \in 1..Len(s) : s[i] \in Int
  <2>1. \A i \in 1..Len(s) : s[i] \in Bytes
    BY ElementOfSeq
  <2>2. QED
    BY <2>1 DEF Bytes
<1>3. [i \in 1..Len(s) |-> s[i]] \in Seq(Int)
  BY <1>1, <1>2
<1>4. QED
  BY <1>1, <1>3

\* What arrives is the last of what is unread.
LEMMA ArrivalKeepsOrder ==
  ASSUME Typed, EachByteOnceInOrder, NEW n \in 0..(MaxBytes - Arrived),
         rx' \in Seq(Pkts), Data(rx') = Data(rx) \o Arrives(n), Arrived' = Arrived + n,
         UNCHANGED <<call, returned, out, pending, stolen>>
  PROVE  EachByteOnceInOrder'
<1> SUFFICES ASSUME call # "gone"
             PROVE  Increasing(Unread') /\ ToSet(Unread') = (1..Arrived') \ stolen'
  BY DEF EachByteOnceInOrder, Increasing
<1>1. /\ Arrives(n) \in Seq(Bytes) /\ Increasing(Arrives(n)) /\ Arrived \in Nat /\ n \in Nat
      /\ ToSet(Arrives(n)) = (Arrived + 1)..(Arrived + n)
  BY ArrivesType
<1>2. PICK a \in Seq(Bytes) : a = Arrives(n)
  BY <1>1
<1>3. PICK d \in Seq(Bytes) : d = Data(rx)
  BY TookType DEF Typed
<1>4. PICK k \in Seq(Bytes) : k = Took \o pending
  <2>1. Took \in Seq(Bytes) /\ pending \in Seq(Bytes)
    BY TookType DEF Typed
  <2>2. QED
    BY <2>1, ConcatProperties
<1>5. PICK u \in Seq(Bytes) : u = k \o d
  BY ConcatProperties
<1>6. Unread = u
  BY <1>3, <1>4, <1>5 DEF Unread, Took
<1>7. Unread' = u \o a
  <2>1. Unread' = k \o (d \o a)
    BY <1>2, <1>3, <1>4, Zenon DEF Unread, Took
  <2>2. Associative(k, d, a)
    BY ConcatIsAssociative
  <2>3. QED
    BY <1>5, <2>1, <2>2, Zenon DEF Associative
<1>8. Increasing(u) /\ ToSet(u) = (1..Arrived) \ stolen
  BY <1>6 DEF EachByteOnceInOrder, Increasing
<1>9. u \in Seq(Int) /\ a \in Seq(Int)
  BY BytesAreNumbers
<1>10. Before(ToSet(u), ToSet(a))
  BY <1>1, <1>2, <1>8 DEF Before
<1>11. Increasing(u \o a)
  BY <1>1, <1>2, <1>8, <1>9, <1>10, IncreasingConcat
<1>12. ToSet(u \o a) = ToSet(u) \cup ToSet(a)
  BY ToSetConcat
<1>13. stolen' = stolen /\ stolen \subseteq 1..Arrived
  BY DEF Typed, Descriptor
<1>14. ToSet(u \o a) = (1..Arrived') \ stolen'
  BY <1>1, <1>2, <1>8, <1>12, <1>13
<1>15. QED
  BY <1>7, <1>11, <1>14

\* The bytes that wait have arrived, so that their senders are known.
LEMMA KnownBytes ==
  ASSUME Typed, EachByteOnceInOrder, call # "gone"
  PROVE  /\ \A b \in ToSet(pending) : b \in 1..Arrived
         /\ \A b \in ToSet(Data(rx)) : b \in 1..Arrived
         /\ Took # <<>> => Last(Took) \in 1..Arrived
<1>1. PICK r \in Seq(Bytes), o \in Seq(Bytes), p \in Seq(Bytes), d \in Seq(Bytes) :
        r = returned /\ o = out /\ p = pending /\ d = Data(rx)
  BY TookType DEF Typed
<1>2. ToSet(r \o o \o p \o d) = ToSet(r) \cup ToSet(o) \cup ToSet(p) \cup ToSet(d)
  BY UnreadSet
<1>3. ToSet(Unread) \subseteq 1..Arrived
  BY DEF EachByteOnceInOrder
<1>4. ToSet(r) \cup ToSet(o) \cup ToSet(p) \cup ToSet(d) \subseteq 1..Arrived
  BY <1>1, <1>2, <1>3, Zenon DEF Unread
<1>5. ASSUME Took # <<>> PROVE Last(Took) \in 1..Arrived
  <2>1. PICK k \in Seq(Bytes) : k = Took
    BY TookType DEF Typed
  <2>2. Len(k) \in Nat \ {0}
    BY <1>5, <2>1, EmptySeq
  <2>3. k[Len(k)] \in ToSet(k)
    BY <2>2, ToSetIndex
  <2>4. ToSet(k) = ToSet(r) \cup ToSet(o)
    BY <1>1, <2>1, ToSetConcat DEF Took
  <2>5. QED
    BY <1>4, <2>1, <2>3, <2>4 DEF Last
<1>6. QED
  BY <1>1, <1>4, <1>5

\* The packets that wait keep their places before one that arrives.
LEMMA AppendKeepsPlaces ==
  ASSUME NEW S, NEW s \in Seq(S), NEW e \in S, NEW t, t = Append(s, e)
  PROVE  /\ t \in Seq(S) /\ Len(t) = Len(s) + 1 /\ Len(s) \in Nat
         /\ DOMAIN s = 1..Len(s) /\ DOMAIN t = 1..(Len(s) + 1)
         /\ \A i \in DOMAIN s : t[i] = s[i]
         /\ t[Len(s) + 1] = e
         /\ s # <<>> => t # <<>> /\ t[1] = s[1]
<1>1. t \in Seq(S)
  BY AppendProperties
<1>2. /\ Len(t) = Len(s) + 1 /\ t[Len(s) + 1] = e
      /\ \A i \in 1..Len(s) : t[i] = s[i]
  BY AppendProperties
<1>3. Len(s) \in Nat /\ DOMAIN s = 1..Len(s) /\ DOMAIN t = 1..Len(t)
  BY <1>1, LenProperties
<1>4. s # <<>> => 1 \in 1..Len(s)
  BY <1>3, EmptySeq
<1>5. t # <<>>
  BY <1>1, <1>2, <1>3, EmptySeq
<1>6. QED
  BY <1>1, <1>2, <1>3, <1>4, <1>5

\* The other end changes the descriptor only.
LEMMA OutsideType ==
  ASSUME TypeOK, rx' \in Seq(Pkts), sender' \in Seq(Peers \cup {NoPeer}),
         stolen' \in SUBSET Bytes, ended' \in BOOLEAN,
         UNCHANGED <<kind, opts, valid, pending, lastPeer, peers, call, all, want, out,
                     terminated, returned, due, lacking>>
  PROVE  TypeOK'
BY DEF TypeOK, Pkts

\* A datagram arrives.
LEMMA DatagramStep ==
  ASSUME Inv, call # "gone", DatagramArrives
  PROVE  Inv'
<1> USE DEF Inv, Typed
<1>1. PICK p \in Peers, n \in 0..(MaxBytes - Arrived) :
        /\ rx' = Append(rx, <<p, Arrives(n)>>)
        /\ sender' = sender \o [i \in 1..n |-> p]
  BY DEF DatagramArrives, Arrives
<1>2. /\ kind = "udp" /\ valid
      /\ UNCHANGED <<kind, opts, valid, ended, pending, lastPeer, peers, call, all, want, out,
                     terminated, returned, stolen, due, lacking>>
  BY DEF DatagramArrives, OutsideFrame, udpVars, callVars
<1>3. /\ Arrives(n) \in Seq(Bytes) /\ n \in Nat /\ Arrived \in Nat
      /\ ToSet(Arrives(n)) = (Arrived + 1)..(Arrived + n)
  BY ArrivesType
<1>4. PICK q \in Pkts : q = <<p, Arrives(n)>>
  BY <1>3 DEF Pkts
<1>5. q[1] = p /\ q[2] = Arrives(n)
  BY <1>4
<1>6. rx \in Seq(Pkts) /\ rx' = Append(rx, q)
  BY <1>1, <1>4, TookType
<1>7. /\ rx' \in Seq(Pkts) /\ Len(rx) \in Nat
      /\ DOMAIN rx = 1..Len(rx) /\ DOMAIN rx' = 1..(Len(rx) + 1)
      /\ \A i \in DOMAIN rx : rx'[i] = rx[i]
      /\ rx'[Len(rx) + 1] = q
      /\ rx # <<>> => rx' # <<>> /\ rx'[1] = rx[1]
  BY <1>6, AppendKeepsPlaces
<1>8. /\ sender' \in Seq(Peers \cup {NoPeer}) /\ Arrived' = Arrived + n
      /\ \A b \in 1..Arrived : sender'[b] = sender[b]
      /\ \A b \in (Arrived + 1)..(Arrived + n) : sender'[b] = p
  BY <1>1, <1>3, SenderGrows
<1>9. ASSUME NEW i \in DOMAIN rx' PROVE i \in DOMAIN rx \/ i = Len(rx) + 1
  BY <1>7, <1>9
<1>10. TypeOK'
  <2>1. stolen' \in SUBSET Bytes /\ ended' \in BOOLEAN
    BY <1>2 DEF TypeOK
  <2>2. QED
    BY <1>2, <1>7, <1>8, <2>1, OutsideType
<1>11. CallShape'
  BY <1>2 DEF CallShape, Stream
<1>12. Descriptor'
  <2>1. \A i \in DOMAIN rx' : rx'[i][1] \in Peers
    BY <1>2, <1>5, <1>7, <1>9 DEF Descriptor
  <2>2. Arrived' <= MaxBytes
    BY <1>3, <1>8, LinkAssumption DEF LinkAssumption
  <2>3. stolen' \subseteq 1..Arrived'
    BY <1>2, <1>3, <1>8 DEF Descriptor
  <2>4. QED
    BY <1>2, <2>1, <2>2, <2>3 DEF Descriptor
<1>13. EachByteOnceInOrder'
  <2>1. Data(rx') = Data(rx) \o Arrives(n)
    BY <1>5, <1>6, DataAppend
  <2>2. QED
    BY <1>2, <1>7, <1>8, <2>1, ArrivalKeepsOrder
<1>14. Asked'
  <2>1. due' <= Arrived'
    BY <1>2, <1>3, <1>8 DEF Asked, TypeOK
  <2>2. ASSUME all, call \in {"wait", "recv"} PROVE InWaiting' = want'
    <3>1. InWaiting = want /\ want > 0
      BY <1>2, <2>2 DEF Asked, CallShape
    <3>2. rx # <<>>
      BY <3>1 DEF InWaiting
    <3>3. InWaiting' = InWaiting
      BY <1>2, <1>7, <3>2 DEF InWaiting
    <3>4. QED
      BY <1>2, <3>1, <3>3
  <2>3. QED
    BY <1>2, <2>1, <2>2 DEF Asked
<1>15. ReadAllTakesAll'
  <2>1. Wedged => Wedged'
    BY <1>2, <1>7 DEF Wedged
  <2>2. QED
    BY <1>2, <2>1, Zenon DEF ReadAllTakesAll
<1>16. Senders'
  <2>1. ASSUME NEW i \in DOMAIN rx', NEW b \in ToSet(rx'[i][2])
        PROVE  sender'[b] = rx'[i][1]
    <3>1. CASE i \in DOMAIN rx
      <4>1. b \in ToSet(rx[i][2]) /\ rx'[i] = rx[i]
        BY <1>7, <2>1, <3>1
      <4>2. b \in 1..Arrived
        BY <1>6, <3>1, <4>1, DataSet, KnownBytes
      <4>3. QED
        BY <1>2, <1>8, <3>1, <4>1, <4>2 DEF Senders
    <3>2. CASE i = Len(rx) + 1
      BY <1>3, <1>5, <1>7, <1>8, <2>1, <3>2
    <3>3. QED
      BY <1>9, <3>1, <3>2
  <2>2. \A b \in ToSet(pending') : sender'[b] = lastPeer'
    BY <1>2, <1>8, KnownBytes DEF Senders
  <2>3. Took' # <<>> => sender'[Last(Took')] = lastPeer'
    <3>1. Took' = Took
      BY <1>2 DEF Took
    <3>2. QED
      BY <1>2, <1>8, <3>1, KnownBytes DEF Senders
  <2>4. opts.limit' # 1 /\ lastPeer' # NoPeer => lastPeer' \in ToSet(peers')
    BY <1>2 DEF Senders
  <2>5. QED
    BY <2>1, <2>2, <2>3, <2>4 DEF Senders
<1>17. TableWithinLimit'
  BY <1>2 DEF TableWithinLimit
<1>18. QED
  BY <1>10, <1>11, <1>12, <1>13, <1>14, <1>15, <1>16, <1>17

\* Bytes arrive on a stream.
LEMMA BytesStep ==
  ASSUME Inv, call # "gone", BytesArrive
  PROVE  Inv'
<1> USE DEF Inv, Typed
<1>1. PICK n \in 1..(MaxBytes - Arrived) :
        /\ rx' = rx \o [i \in 1..n |-> <<NoPeer, <<Arrived + i>>>>]
        /\ sender' = sender \o [i \in 1..n |-> NoPeer]
  BY DEF BytesArrive
<1>2. /\ kind # "udp" /\ valid
      /\ UNCHANGED <<kind, opts, valid, ended, pending, lastPeer, peers, call, all, want, out,
                     terminated, returned, stolen, due, lacking>>
  BY DEF BytesArrive, OutsideFrame, udpVars, callVars
<1>3. n \in 0..(MaxBytes - Arrived)
  OBVIOUS
<1>4. /\ Arrives(n) \in Seq(Bytes) /\ n \in Nat /\ Arrived \in Nat /\ Len(Arrives(n)) = n
      /\ ToSet(Arrives(n)) = (Arrived + 1)..(Arrived + n)
  BY <1>3, ArrivesType
<1>5. PICK a \in Seq(Bytes) : a = Arrives(n)
  BY <1>4
<1>6. PICK q \in Seq(Pkts) : q = Singles(a) /\ Data(q) = a
  BY DataSingles
<1>7. /\ Len(q) = n /\ DOMAIN q = 1..n /\ q = [i \in 1..n |-> q[i]]
      /\ \A i \in 1..n : q[i] = <<NoPeer, <<Arrived + i>>>>
  <2>1. Len(a) = n /\ \A i \in 1..n : a[i] = Arrived + i
    BY <1>4, <1>5 DEF Arrives
  <2>2. q = [i \in 1..n |-> <<NoPeer, <<a[i]>>>>]
    BY <1>6, <2>1 DEF Singles
  <2>3. DOMAIN q = 1..n /\ q = [i \in 1..n |-> q[i]] /\ \A i \in 1..n : q[i] = <<NoPeer, <<a[i]>>>>
    BY <2>2
  <2>4. Len(q) = n
    BY <1>4, <2>3, LenProperties
  <2>5. QED
    BY <2>1, <2>3, <2>4
<1>8. q = [i \in 1..n |-> <<NoPeer, <<Arrived + i>>>>]
  BY <1>7
<1>9. PICK r \in Seq(Pkts) : r = rx
  BY TookType
<1>10. rx' = r \o q
  BY <1>1, <1>8, <1>9
<1>11. /\ rx' \in Seq(Pkts) /\ Len(r) \in Nat /\ DOMAIN r = 1..Len(r)
       /\ DOMAIN rx' = 1..(Len(r) + n)
       /\ \A i \in 1..(Len(r) + n) : rx'[i] = IF i <= Len(r) THEN r[i] ELSE q[i - Len(r)]
  <2>1. PICK s \in Seq(Pkts) : s = r \o q
    BY ConcatProperties
  <2>2. /\ Len(s) = Len(r) + Len(q)
        /\ \A i \in 1..(Len(r) + Len(q)) : s[i] = IF i <= Len(r) THEN r[i] ELSE q[i - Len(r)]
    BY <2>1, ConcatProperties
  <2>3. Len(r) \in Nat /\ DOMAIN r = 1..Len(r) /\ DOMAIN s = 1..Len(s)
    BY LenProperties
  <2>4. QED
    BY <1>7, <1>10, <2>1, <2>2, <2>3
<1>12. ASSUME NEW i \in DOMAIN rx'
       PROVE  \/ i \in DOMAIN rx /\ rx'[i] = rx[i]
              \/ \E b \in (Arrived + 1)..(Arrived + n) : rx'[i] = <<NoPeer, <<b>>>>
  <2>1. CASE i <= Len(r)
    BY <1>9, <1>11, <2>1
  <2>2. CASE ~(i <= Len(r))
    <3>1. i - Len(r) \in 1..n /\ rx'[i] = q[i - Len(r)]
      BY <1>4, <1>11, <2>2
    <3>2. q[i - Len(r)] = <<NoPeer, <<Arrived + (i - Len(r))>>>>
      BY <1>7, <3>1
    <3>3. Arrived + (i - Len(r)) \in (Arrived + 1)..(Arrived + n)
      BY <1>4, <3>1
    <3>4. QED
      BY <3>1, <3>2, <3>3
  <2>3. QED
    BY <2>1, <2>2
<1>13. sender' \in Seq(Peers \cup {NoPeer}) /\ Arrived' = Arrived + n
  BY <1>1, <1>4, SenderGrows
<1>14. TypeOK'
  <2>1. stolen' \in SUBSET Bytes /\ ended' \in BOOLEAN
    BY <1>2 DEF TypeOK
  <2>2. QED
    BY <1>2, <1>11, <1>13, <2>1, OutsideType
<1>15. CallShape'
  BY <1>2 DEF CallShape, Stream
<1>16. Descriptor'
  <2>1. \A i \in DOMAIN rx' : Len(rx'[i][2]) = 1
    <3>1. ASSUME NEW i \in DOMAIN rx' PROVE Len(rx'[i][2]) = 1
      <4>1. CASE i \in DOMAIN rx /\ rx'[i] = rx[i]
        BY <1>2, <4>1 DEF Descriptor
      <4>2. CASE \E b \in (Arrived + 1)..(Arrived + n) : rx'[i] = <<NoPeer, <<b>>>>
        BY <4>2
      <4>3. QED
        BY <1>12, <4>1, <4>2
    <3>2. QED
      BY <3>1
  <2>2. Arrived' <= MaxBytes
    BY <1>4, <1>13, LinkAssumption DEF LinkAssumption
  <2>3. stolen' \subseteq 1..Arrived'
    BY <1>2, <1>4, <1>13 DEF Descriptor
  <2>4. QED
    BY <1>2, <2>1, <2>2, <2>3 DEF Descriptor
<1>17. EachByteOnceInOrder'
  <2>1. Data(r \o q) = Data(r) \o Data(q)
    BY DataConcat
  <2>2. Data(rx') = Data(rx) \o Arrives(n)
    BY <1>5, <1>6, <1>9, <1>10, <2>1
  <2>3. rx' \in Seq(Pkts)
    BY <1>11
  <2>4. UNCHANGED <<call, returned, out, pending, stolen>>
    BY <1>2
  <2>5. Arrived' = Arrived + n
    BY <1>13
  <2>6. QED
    BY <1>3, <2>2, <2>3, <2>4, <2>5, ArrivalKeepsOrder
<1>18. Asked'
  <2>1. due' <= Arrived'
    BY <1>2, <1>4, <1>13 DEF Asked, TypeOK
  <2>2. ASSUME all, kind = "serial", call \in {"wait", "recv"}, NEW i \in DOMAIN rx',
               i > want, NEW b \in ToSet(rx'[i][2])
        PROVE  b > due
    <3>1. CASE i \in DOMAIN rx /\ rx'[i] = rx[i]
      BY <2>2, <3>1 DEF Asked
    <3>2. CASE \E c \in (Arrived + 1)..(Arrived + n) : rx'[i] = <<NoPeer, <<c>>>>
      <4>1. PICK c \in (Arrived + 1)..(Arrived + n) : rx'[i] = <<NoPeer, <<c>>>>
        BY <3>2
      <4>2. b \in ToSet(<<c>>)
        BY <2>2, <4>1
      <4>3. b = c
        BY <4>2, ToSetOne
      <4>4. due <= Arrived /\ due \in Nat
        BY DEF Asked, TypeOK
      <4>5. QED
        BY <1>4, <4>3, <4>4
    <3>3. QED
      BY <1>12, <3>1, <3>2
  <2>3. QED
    BY <1>2, <2>1, <2>2 DEF Asked
<1>19. ReadAllTakesAll'
  BY <1>2 DEF ReadAllTakesAll, Wedged
<1>20. Senders' /\ TableWithinLimit'
  BY <1>2 DEF Senders, TableWithinLimit
<1>21. QED
  BY <1>14, <1>15, <1>16, <1>17, <1>18, <1>19, <1>20

\* The other thread takes bytes.
LEMMA OtherReadsStep ==
  ASSUME Inv, OtherReads
  PROVE  Inv'
<1> USE DEF Inv, Typed
<1>1. PICK n \in 1..Len(rx) :
        /\ rx' = Rest(rx, n)
        /\ stolen' = stolen \cup ToSet(Data(Taken(rx, n)))
  BY DEF OtherReads
<1>2. /\ kind \in {"tcp", "serial"} /\ pending = <<>>
      /\ UNCHANGED <<kind, opts, valid, ended, pending, lastPeer, peers, call, all, want, out,
                     terminated, returned, sender, due, lacking>>
  BY DEF OtherReads, OutsideFrame, udpVars, callVars, Stream, CallShape
<1>3. n \in Nat /\ n > 0 /\ rx \in Seq(Pkts)
  BY TookType, LenProperties
<1>4. call # "gone"
  <2>1. rx # <<>>
    BY <1>3, EmptySeq
  <2>2. QED
    BY <2>1 DEF Descriptor
<1>5. /\ Taken(rx, n) \in Seq(Pkts) /\ Rest(rx, n) \in Seq(Pkts)
      /\ rx = Taken(rx, n) \o Rest(rx, n)
      /\ \A i \in DOMAIN Rest(rx, n) : i + n \in DOMAIN rx /\ Rest(rx, n)[i] = rx[i + n]
  BY <1>3, TakenRest
<1>6. PICK t \in Seq(Pkts), r \in Seq(Pkts) : t = Taken(rx, n) /\ r = Rest(rx, n)
  BY <1>5
<1>7. PICK a \in Seq(Bytes), b \in Seq(Bytes) : a = Data(t) /\ b = Data(r)
  BY DataType
<1>8. Data(rx) = a \o b
  BY <1>5, <1>6, <1>7, DataConcat
<1>9. PICK k \in Seq(Bytes) : k = Took \o pending
  <2>1. Took \in Seq(Bytes) /\ pending \in Seq(Bytes)
    BY TookType
  <2>2. QED
    BY <2>1, ConcatProperties
<1>10. Unread = k \o (a \o b) /\ Unread' = k \o b
  <2>1. Unread = k \o (a \o b)
    BY <1>8, <1>9, Zenon DEF Unread, Took
  <2>2. Unread' = k \o b
    BY <1>1, <1>2, <1>6, <1>7, <1>9, Zenon DEF Unread, Took
  <2>3. QED
    BY <2>1, <2>2
<1>11. stolen' = stolen \cup ToSet(a)
  BY <1>1, <1>6, <1>7
<1>12. Arrived' = Arrived
  BY <1>2 DEF Arrived
<1>13. /\ Increasing(k \o b) /\ ToSet(k \o b) = (1..Arrived) \ stolen'
       /\ ToSet(a) \subseteq 1..Arrived
  <2>1. Increasing(k \o (a \o b)) /\ ToSet(k \o (a \o b)) = (1..Arrived) \ stolen
    BY <1>4, <1>10 DEF EachByteOnceInOrder, Increasing
  <2>2. k \in Seq(Int) /\ a \in Seq(Int) /\ b \in Seq(Int)
    BY BytesAreNumbers
  <2>3. /\ Increasing(k \o b)
        /\ ToSet(k \o (a \o b)) = ToSet(k \o b) \cup ToSet(a)
        /\ ToSet(a) \cap ToSet(k \o b) = {}
    BY <2>1, <2>2, RemovePart
  <2>4. QED
    BY <1>11, <2>1, <2>3
<1>14. EachByteOnceInOrder'
  BY <1>2, <1>10, <1>12, <1>13 DEF EachByteOnceInOrder, Increasing
<1>15. TypeOK'
  <2>1. rx' \in Seq(Pkts)
    BY <1>1, <1>5
  <2>2. stolen' \in SUBSET Bytes
    <3>1. ToSet(a) \subseteq Bytes
      BY ToSetType
    <3>2. QED
      BY <1>11, <3>1 DEF TypeOK
  <2>3. ended' \in BOOLEAN /\ sender' \in Seq(Peers \cup {NoPeer})
    BY <1>2 DEF TypeOK
  <2>4. QED
    BY <1>2, <2>1, <2>2, <2>3, OutsideType
<1>16. CallShape'
  BY <1>2 DEF CallShape, Stream
<1>17. Descriptor'
  <2>1. \A i \in DOMAIN rx' : Len(rx'[i][2]) = 1
    BY <1>1, <1>2, <1>5 DEF Descriptor
  <2>2. Arrived' <= MaxBytes /\ stolen' \subseteq 1..Arrived'
    BY <1>11, <1>12, <1>13 DEF Descriptor
  <2>3. valid
    <3>1. rx # <<>>
      BY <1>3, EmptySeq
    <3>2. QED
      BY <3>1 DEF Descriptor
  <2>4. QED
    BY <1>2, <1>4, <2>1, <2>2, <2>3 DEF Descriptor
<1>18. Asked'
  <2>1. ASSUME all, kind = "serial", call \in {"wait", "recv"}, NEW i \in DOMAIN rx',
               i > want, NEW c \in ToSet(rx'[i][2])
        PROVE  c > due
    <3>1. i + n \in DOMAIN rx /\ rx'[i] = rx[i + n]
      BY <1>1, <1>5
    <3>2. i \in Nat /\ want \in Nat
      <4>1. rx' \in Seq(Pkts)
        BY <1>1, <1>5
      <4>2. DOMAIN rx' = 1..Len(rx') /\ Len(rx') \in Nat
        BY <4>1, LenProperties
      <4>3. i \in 1..Len(rx')
        BY <2>1, <4>2
      <4>4. i \in Nat
        BY <4>2, <4>3
      <4>5. want \in Nat
        BY DEF TypeOK
      <4>6. QED
        BY <4>4, <4>5
    <3>3. i + n > want
      BY <1>3, <2>1, <3>2
    <3>4. QED
      BY <2>1, <3>1, <3>3 DEF Asked
  <2>2. due' <= Arrived'
    BY <1>2, <1>12 DEF Asked
  <2>3. QED
    BY <1>2, <2>1, <2>2 DEF Asked
<1>19. ReadAllTakesAll'
  BY <1>2 DEF ReadAllTakesAll, Wedged
<1>20. Senders' /\ TableWithinLimit'
  BY <1>2 DEF Senders, TableWithinLimit
<1>21. QED
  BY <1>14, <1>15, <1>16, <1>17, <1>18, <1>19, <1>20

\* The other end closes.
LEMMA EndsStep ==
  ASSUME Inv, Ends
  PROVE  Inv'
<1> USE DEF Inv, Typed
<1>1. /\ ended' = TRUE /\ valid
      /\ UNCHANGED <<kind, opts, valid, rx, pending, lastPeer, peers, call, all, want, out,
                     terminated, sender, returned, stolen, due, lacking>>
  BY DEF Ends, OutsideFrame, udpVars, callVars
<1>2. TypeOK'
  BY <1>1 DEF TypeOK
<1>3. CallShape' /\ Descriptor'
  BY <1>1 DEF CallShape, Stream, Descriptor, Arrived
<1>4. EachByteOnceInOrder'
  <2>1. UNCHANGED <<Unread, Arrived>>
    BY <1>1, Zenon DEF Unread, Arrived
  <2>2. QED
    BY <1>1, <2>1 DEF EachByteOnceInOrder
<1>5. Asked' /\ ReadAllTakesAll'
  BY <1>1 DEF Asked, InWaiting, Arrived, ReadAllTakesAll, Wedged
<1>6. Senders'
  <2>1. UNCHANGED Took
    BY <1>1 DEF Took
  <2>2. QED
    BY <1>1, <2>1 DEF Senders
<1>7. TableWithinLimit'
  BY <1>1 DEF TableWithinLimit
<1>8. QED
  BY <1>2, <1>3, <1>4, <1>5, <1>6, <1>7

\* The object is destroyed.
LEMMA DestroyStep ==
  ASSUME Inv, Destroy
  PROVE  Inv'
<1> USE DEF Inv, Typed
<1>1. /\ call = "idle" /\ call' = "gone" /\ rx' = <<>> /\ pending' = <<>>
      /\ UNCHANGED <<kind, opts, valid, ended, lastPeer, peers, all, want, out,
                     terminated, sender, returned, stolen, due, lacking>>
  BY DEF Destroy, ReaderFrame
<1>2. rx' \in Seq(Pkts) /\ pending' \in Seq(Bytes)
  BY <1>1, EmptySeq
<1>3. TypeOK'
  BY <1>1, <1>2 DEF TypeOK, Pkts
<1>4. CallShape'
  BY <1>1 DEF CallShape
<1>5. DOMAIN rx' = {} /\ ToSet(pending') = {}
  <2>1. <<>> \in Seq(Bytes) /\ Len(<<>>) = 0
    BY EmptySeq
  <2>2. DOMAIN <<>> = {}
    BY <2>1, LenProperties
  <2>3. ToSet(<<>>) = {}
    BY <2>1, ToSetEmpty
  <2>4. QED
    BY <1>1, <2>2, <2>3
<1>6. Descriptor'
  BY <1>1, <1>5 DEF Descriptor, Arrived
<1>7. EachByteOnceInOrder' /\ Asked' /\ ReadAllTakesAll'
  BY <1>1 DEF EachByteOnceInOrder, Asked, ReadAllTakesAll, Arrived
<1>8. Senders'
  <2>1. UNCHANGED Took
    BY <1>1 DEF Took
  <2>2. QED
    BY <1>1, <1>5, <2>1 DEF Senders
<1>9. TableWithinLimit'
  BY <1>1 DEF TableWithinLimit
<1>10. QED
  BY <1>3, <1>4, <1>6, <1>7, <1>8, <1>9

\* Steps that end the process or change nothing.
LEMMA StillStep ==
  ASSUME Inv, terminated' \in BOOLEAN,
         UNCHANGED <<kind, opts, valid, rx, ended, pending, lastPeer, peers, call, all, want,
                     out, sender, returned, stolen, due, lacking>>
  PROVE  Inv'
<1> USE DEF Inv, Typed
<1>1. TypeOK'
  BY DEF TypeOK
<1>2. CallShape' /\ Descriptor'
  BY DEF CallShape, Stream, Descriptor, Arrived
<1>3. EachByteOnceInOrder'
  <2>1. UNCHANGED <<Unread, Arrived>>
    BY Zenon DEF Unread, Arrived
  <2>2. QED
    BY <2>1 DEF EachByteOnceInOrder
<1>4. Asked' /\ ReadAllTakesAll'
  BY DEF Asked, InWaiting, Arrived, ReadAllTakesAll, Wedged
<1>5. Senders'
  <2>1. UNCHANGED Took
    BY DEF Took
  <2>2. QED
    BY <2>1 DEF Senders
<1>6. TableWithinLimit'
  BY DEF TableWithinLimit
<1>7. QED
  BY <1>1, <1>2, <1>3, <1>4, <1>5, <1>6

-----------------------------------------------------------------------------
(* The theorems.                                                           *)

\* A reader's step as described keeps the invariant.
LEMMA MovedStep ==
  ASSUME Inv, Moved, UNCHANGED terminated
  PROVE  Inv'
<1> USE DEF Inv, Typed
<1>1. PICK x : Steps(x)
  BY DEF Moved
<1>2. EachByteOnceInOrder' /\ ReadAllTakesAll' /\ Senders' /\ Descriptor'
  BY <1>1, StepKeepsOrder, StepTakesAll, StepKeepsSenders, StepKeepsDescriptor
<1>3. CallShape' /\ Asked'
  BY DEF Moved, Reads
<1>4. UNCHANGED <<kind, opts, valid, ended, sender, stolen>>
  BY <1>1 DEF Steps, ReaderFrame
<1>5. TableWithinLimit'
  BY <1>4 DEF Moved, TableWithinLimit
<1>6. lacking' \in SUBSET Bytes
  <2>1. CASE lacking' = lacking
    BY <2>1 DEF TypeOK
  <2>2. CASE lacking' = (1..due') \ (ToSet(returned') \cup stolen)
    <3>1. due' \in 0..MaxBytes
      BY <1>1 DEF Steps
    <3>2. QED
      BY <2>2, <3>1, LinkAssumption DEF Bytes, LinkAssumption
  <2>3. QED
    BY <1>1, <2>1, <2>2 DEF Steps, Completes
<1>7. /\ rx' \in Seq((Peers \cup {NoPeer}) \X Seq(Bytes)) /\ pending' \in Seq(Bytes)
      /\ out' \in Seq(Bytes) /\ returned' \in Seq(Bytes) /\ due' \in 0..MaxBytes
  BY <1>1 DEF Steps, Moves, Hands, TookTypes, Pkts
<1>8. /\ call' \in {"idle", "select", "wait", "recv", "count", "gone"} /\ want' \in Nat
      /\ lastPeer' \in Peers \cup {NoPeer} /\ peers' \in Seq(Peers)
  BY DEF Moved, Reads
<1>9. all' \in BOOLEAN
  BY DEF Moved, Reads
<1>10. TypeOK'
  BY <1>4, <1>6, <1>7, <1>8, <1>9 DEF TypeOK
<1>11. QED
  BY <1>2, <1>3, <1>5, <1>10

\* The inductive invariant holds.
THEOREM InvHolds == Spec => []Inv
<1>1. Init => Inv
  <2> SUFFICES ASSUME Init PROVE Inv
    OBVIOUS
  <2>1. PICK s \in Setups : kind = MakeTransport(s.scheme) /\ opts = ParseOptions(s)
    BY DEF Init
  <2>2. s \in AllSetups
    BY LinkAssumption DEF LinkAssumption
  <2>3. opts \in [blocking : BOOLEAN, timed : BOOLEAN, limit : Nat \ {0}, asked : Int,
                   remote : Peers \cup {NoPeer}, broadcast : Nat]
    <3>1. /\ s.port \in Nat /\ s.timeout_ms \in Int /\ s.max_connect \in Int
      BY <2>2, Zenon DEF AllSetups
    <3>2. (IF s.max_connect > 0 THEN s.max_connect ELSE 1) \in Nat \ {0}
      BY <3>1
    <3>3. ParseEndpoint(s.remote) \in Peers \cup {NoPeer}
      BY Zenon DEF ParseEndpoint
    <3>4. /\ (s.blocking \notin {"0", "false"}) \in BOOLEAN
          /\ (s.timeout_ms >= 0) \in BOOLEAN
      BY <3>1
    <3>5. (IF s.broadcast \in {"1", "true"} THEN s.port ELSE 0) \in Nat
      BY <3>1
    <3>6. QED
      BY <2>1, <3>1, <3>2, <3>3, <3>4, <3>5, Zenon DEF ParseOptions
  <2>4. kind \in {"loop", "udp", "tcp", "serial"} /\ valid \in BOOLEAN
    BY DEF Init, LoopOpens, UdpOpens, ClientConnects, SerialOpens
  <2>5. /\ rx = <<>> /\ ended = FALSE /\ pending = <<>> /\ lastPeer = NoPeer /\ peers = <<>>
        /\ call = "idle" /\ all = FALSE /\ want = 0 /\ out = <<>> /\ terminated = FALSE
        /\ sender = <<>> /\ returned = <<>> /\ stolen = {} /\ due = 0 /\ lacking = {}
    BY DEF Init
  <2>6. \A S : <<>> \in Seq(S)
    BY EmptySeq
  <2>7. Len(<<>>) = 0 /\ DOMAIN <<>> = {}
    BY EmptySeq, LenProperties
  <2>8. MaxBytes \in Nat
    BY LinkAssumption DEF LinkAssumption
  <2>9. TypeOK
    <3>1. /\ rx \in Seq((Peers \cup {NoPeer}) \X Seq(Bytes)) /\ pending \in Seq(Bytes)
          /\ peers \in Seq(Peers) /\ out \in Seq(Bytes) /\ returned \in Seq(Bytes)
          /\ sender \in Seq(Peers \cup {NoPeer})
      BY <2>5, <2>6, Zenon
    <3>2. ended \in BOOLEAN /\ all \in BOOLEAN /\ terminated \in BOOLEAN
      BY <2>5, Zenon
    <3>3. lastPeer \in Peers \cup {NoPeer} /\ want \in Nat /\ due \in 0..MaxBytes
      BY <2>5, <2>8
    <3>4. call \in {"idle", "select", "wait", "recv", "count", "gone"}
      BY <2>5, Zenon
    <3>5. stolen \in SUBSET Bytes /\ lacking \in SUBSET Bytes
      BY <2>5, Zenon
    <3>6. QED
      BY <2>3, <2>4, <3>1, <3>2, <3>3, <3>4, <3>5, Zenon DEF TypeOK
  <2>10. CallShape
    BY <2>5 DEF CallShape
  <2>11. Arrived = 0
    BY <2>5, <2>7 DEF Arrived
  <2>12. Descriptor
    BY <2>5, <2>7, <2>8, <2>11 DEF Descriptor
  <2>13. ToSet(<<>>) = {}
    BY <2>6, ToSetEmpty
  <2>14. <<>> \o <<>> = <<>>
    BY <2>6, ConcatEmptySeq
  <2>15. Unread = <<>>
    BY <2>5, <2>14, DataEmpty DEF Unread
  <2>16. EachByteOnceInOrder
    BY <2>5, <2>7, <2>11, <2>13, <2>15 DEF EachByteOnceInOrder
  <2>17. Asked /\ ReadAllTakesAll
    BY <2>5, <2>11 DEF Asked, ReadAllTakesAll
  <2>18. Took = <<>>
    BY <2>5, <2>14 DEF Took
  <2>19. Senders
    BY <2>5, <2>7, <2>13, <2>18 DEF Senders
  <2>20. TableWithinLimit
    BY <2>3, <2>5, <2>7 DEF TableWithinLimit, IsInjective
  <2>21. QED
    BY <2>9, <2>10, <2>12, <2>16, <2>17, <2>19, <2>20 DEF Inv, Typed
<1>2. Inv /\ [Next]_vars => Inv'
  <2> SUFFICES ASSUME Inv, [Next]_vars PROVE Inv'
    OBVIOUS
  <2>1. CASE DatagramArrives
    BY <2>1, DatagramStep DEF DatagramArrives
  <2>2. CASE BytesArrive
    BY <2>2, BytesStep DEF BytesArrive
  <2>3. CASE Ends
    BY <2>3, EndsStep
  <2>4. CASE OtherReads
    BY <2>4, OtherReadsStep
  <2>5. CASE ReadAll
    BY <2>5, ReadAllMoves, MovedStep DEF ReadAll
  <2>6. CASE Destroy
    BY <2>6, DestroyStep
  <2>7. CASE \E n \in 0..MaxRead : Read(n)
    <3>1. PICK n \in 0..MaxRead : Read(n)
      BY <2>7
    <3>2. UNCHANGED terminated
      BY <3>1 DEF Read
    <3>3. QED
      BY <3>1, <3>2, ReadMoves, MovedStep
  <2>8. CASE SelectReturns
    BY <2>8, SelectMoves, MovedStep DEF SelectReturns
  <2>9. CASE WaitReturns
    BY <2>9, WaitMoves, MovedStep DEF WaitReturns
  <2>10. CASE Recv
    <3>1. Moved
      BY <2>10, UdpRecvMoves, StreamRecvMoves DEF Recv
    <3>2. QED
      BY <2>10, <3>1, MovedStep DEF Recv
  <2>11. CASE Count
    BY <2>11, CountMoves, MovedStep DEF Count
  <2>12. CASE SelectAborts
    BY <2>12, StillStep DEF SelectAborts, ReaderFrame, udpVars, callVars
  <2>13. CASE UNCHANGED vars
    <3>1. terminated' \in BOOLEAN
      BY <2>13 DEF vars, Inv, Typed, TypeOK
    <3>2. QED
      BY <2>13, <3>1, StillStep DEF vars, udpVars, callVars
  <2>14. QED
    BY <2>1, <2>2, <2>3, <2>4, <2>5, <2>6, <2>7, <2>8, <2>9, <2>10, <2>11, <2>12, <2>13
       DEF Next, Outside, Begins, Continues
<1>3. QED
  BY <1>1, <1>2, PTL DEF Spec

\* Each variable holds what the code can put there (UDP.h, TCP.h, Serial.h).
THEOREM TypeCorrect == Spec => []TypeOK
BY InvHolds, PTL DEF Inv, Typed

\* read() and read_all() hand out each byte once and in order, whatever is
\* split, collected or read by another thread (UDP.cpp, TCP.cpp, Serial.cpp).
THEOREM BytesAreHandedOutOnce == Spec => []EachByteOnceInOrder
BY InvHolds, PTL DEF Inv

\* read_all() takes every byte that was due, unless an empty datagram is in the
\* way (UDP.cpp, read_all(); doc/usage.md).
THEOREM ReadAllIsComplete == Spec => []ReadAllTakesAll
BY InvHolds, PTL DEF Inv

\* An answer reaches whoever sent what was read last, but for a configured
\* remote or broadcast port (UDP.cpp, write() and the constructor).
THEOREM RepliesReachSpeakers == Spec => []ReplyReachesSpeaker
<1>1. Inv => ReplyReachesSpeaker
  <2> SUFFICES ASSUME Inv, kind = "udp", Speaker # NoPeer, opts.remote = NoPeer,
                      opts.broadcast = 0 \/ opts.broadcast = PortOf[Speaker]
               PROVE  Speaker \in Recipients
    BY DEF ReplyReachesSpeaker
  <2>1. Took # <<>> /\ Speaker = sender[Last(Took)]
    BY DEF Speaker, Took
  <2>2. Speaker = lastPeer
    BY <2>1 DEF Inv, Senders
  <2>3. lastPeer \in Peers
    BY <2>2 DEF Inv, Typed, TypeOK
  <2>4. CASE opts.broadcast = 0
    <3>1. opts.limit # 1 => lastPeer \in ToSet(peers)
      BY <2>2 DEF Inv, Senders
    <3>2. QED
      BY <2>2, <2>3, <2>4, <3>1 DEF Recipients
  <2>5. CASE opts.broadcast # 0 /\ opts.broadcast = PortOf[Speaker]
    BY <2>2, <2>3, <2>5 DEF Recipients
  <2>6. QED
    BY <2>4, <2>5
<1>2. QED
  BY <1>1, InvHolds, PTL

\* No step changes the options.
LEMMA OptionsStay ==
  ASSUME Next
  PROVE  opts' = opts
<1>1. CASE Outside
  BY <1>1 DEF Outside, DatagramArrives, BytesArrive, Ends, OtherReads, OutsideFrame
<1>2. CASE Begins
  BY <1>2 DEF Begins, ReadAll, Destroy, Read, ReaderFrame
<1>3. CASE Continues
  BY <1>3 DEF Continues, SelectReturns, WaitReturns, Recv, Count, ReaderFrame
<1>4. CASE SelectAborts
  BY <1>4 DEF SelectAborts, ReaderFrame
<1>5. QED
  BY <1>1, <1>2, <1>3, <1>4 DEF Next

\* The table of peers holds no address twice and, where the ifname sets a
\* limit, no more addresses than that (Protocol.cpp, parse_options(); UDP.cpp,
\* add_peer()).
THEOREM PeersAreLimited == Spec => []PeersWithinLimit
<1>1. Init => LimitAsAsked
  BY DEF Init, ParseOptions, LimitAsAsked
<1>2. LimitAsAsked /\ [Next]_vars => LimitAsAsked'
  BY OptionsStay DEF LimitAsAsked, vars
<1>3. Inv /\ LimitAsAsked => PeersWithinLimit
  BY DEF Inv, TableWithinLimit, LimitAsAsked, PeersWithinLimit
<1>4. QED
  BY <1>1, <1>2, <1>3, InvHolds, PTL DEF Spec
=============================================================================
