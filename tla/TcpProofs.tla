----------------------------- MODULE TcpProofs -----------------------------
(***************************************************************************)
(* Proofs about the TCP server, for any number of clients, bytes, writes,  *)
(* and any options.                                                        *)
(***************************************************************************)
EXTENDS Tcp, SequenceLemmas

-----------------------------------------------------------------------------
(* The bytes of one client among those of several.  From is defined by     *)
(* recursion over the length of its argument; what it does with two        *)
(* sequences put together follows by induction.                            *)

\* f[n] is what of the first n bytes of s is from c.
IsKept(f, S, c, s) ==
  /\ f \in [0..Len(s) -> Seq(S)] /\ f[0] = <<>>
  /\ \A n \in 1..Len(s) :
       f[n] = IF s[n][1] = c THEN Append(f[n - 1], s[n]) ELSE f[n - 1]

\* The recursion of From has a solution, and From is its last value.
LEMMA FromSolves ==
  ASSUME NEW S, NEW c, NEW s \in Seq(S)
  PROVE  \E f : IsKept(f, S, c, s) /\ From(c, s) = f[Len(s)]
<1> DEFINE Body(f, n) == IF n = 0 THEN <<>>
                         ELSE IF s[n][1] = c THEN Append(f[n - 1], s[n]) ELSE f[n - 1]
           Solves(f) == f = [n \in 0..Len(s) |-> Body(f, n)]
           kept == CHOOSE f : Solves(f)
           G == [n \in Nat |-> [v \in Seq(S) |->
                  IF n \in 1..Len(s) /\ s[n][1] = c THEN Append(v, s[n]) ELSE v]]
<1>1. From(c, s) = kept[Len(s)]
  BY DEF From
<1>2. Len(s) \in Nat /\ <<>> \in Seq(S)
  BY LenProperties, EmptySeq
<1>3. StepsWithin(G, Seq(S))
  <2>1. ASSUME NEW n \in Nat, NEW v \in Seq(S)
        PROVE  (IF n \in 1..Len(s) /\ s[n][1] = c THEN Append(v, s[n]) ELSE v) \in Seq(S)
    BY ElementOfSeq, AppendProperties
  <2>2. QED
    BY <2>1 DEF StepsWithin
<1>4. PICK f \in [0..Len(s) -> Seq(S)] :
        f[0] = <<>> /\ \A n \in 1..Len(s) : f[n] = G[n][f[n - 1]]
  <2> HIDE DEF G
  <2>1. PICK f \in [0..Len(s) -> Seq(S)] : IsRecursion(f, <<>>, G, Len(s))
    BY <1>2, <1>3, Recursion
  <2>2. QED
    BY <2>1 DEF IsRecursion
<1>5. ASSUME NEW n \in 1..Len(s)
      PROVE  f[n] = IF s[n][1] = c THEN Append(f[n - 1], s[n]) ELSE f[n - 1]
  <2>1. n \in Nat /\ n - 1 \in 0..Len(s)
    BY <1>2
  <2>2. f[n - 1] \in Seq(S) /\ f[n] = G[n][f[n - 1]]
    BY <1>4, <2>1
  <2>3. QED
    BY <2>1, <2>2
<1>6. Solves(f)
  <2>1. ASSUME NEW n \in 0..Len(s) PROVE f[n] = Body(f, n)
    <3>1. CASE n = 0
      BY <1>4, <3>1
    <3>2. CASE n # 0
      <4>1. n \in 1..Len(s)
        BY <1>2, <3>2
      <4>2. QED
        BY <1>5, <3>2, <4>1
    <3>3. QED
      BY <3>1, <3>2
  <2> HIDE DEF Body
  <2>2. QED
    BY <2>1
<1>7. PICK k : Solves(k) /\ From(c, s) = k[Len(s)]
  <2> HIDE DEF Solves
  <2>1. Solves(kept)
    BY <1>6
  <2>2. QED
    BY <1>1, <2>1
<1>8. k = f
  <2>1. DOMAIN k = 0..Len(s) /\ \A n \in 0..Len(s) : k[n] = Body(k, n)
    BY <1>7
  <2> DEFINE T == {n \in Nat : n <= Len(s) => k[n] = f[n]}
  <2>2. 0 \in T
    BY <1>2, <1>4, <2>1
  <2>3. ASSUME NEW n \in T PROVE n + 1 \in T
    <3>1. SUFFICES ASSUME n + 1 <= Len(s) PROVE k[n + 1] = f[n + 1]
      OBVIOUS
    <3>2. n \in Nat /\ k[n] = f[n]
      BY <1>2, <3>1
    <3>3. n + 1 \in 1..Len(s) /\ (n + 1) - 1 = n /\ n + 1 # 0 /\ n + 1 \in 0..Len(s)
      BY <1>2, <3>1, <3>2
    <3>4. k[n + 1] = IF s[n + 1][1] = c THEN Append(k[n], s[n + 1]) ELSE k[n]
      <4>1. k[n + 1] = Body(k, n + 1)
        BY <2>1, <3>3
      <4>2. QED
        BY <3>3, <4>1
    <3>5. f[n + 1] = IF s[n + 1][1] = c THEN Append(f[n], s[n + 1]) ELSE f[n]
      BY <1>5, <3>3
    <3>6. QED
      BY <3>2, <3>4, <3>5
  <2>4. T = Nat
    <3> HIDE DEF T
    <3>1. T \subseteq Nat
      BY DEF T
    <3>2. QED
      BY <2>2, <2>3, <3>1, SetInduction
  <2>5. \A n \in 0..Len(s) : k[n] = f[n]
    BY <1>2, <2>4
  <2>6. QED
    <3>1. /\ k = [n \in 0..Len(s) |-> Body(k, n)] /\ f = [n \in 0..Len(s) |-> Body(f, n)]
          /\ \A n \in 0..Len(s) : Body(k, n) = Body(f, n)
      <4>1. \A n \in 0..Len(s) : f[n] = Body(f, n)
        <5> HIDE DEF Body
        <5>1. QED
          BY <1>6
      <4> HIDE DEF Body
      <4>2. QED
        BY <1>6, <1>7, <2>1, <2>5, <4>1
    <3> HIDE DEF Body
    <3>2. QED
      BY <3>1
<1>9. QED
  BY <1>4, <1>5, <1>7, <1>8 DEF IsKept

\* A client's part of a sequence is a sequence.
LEMMA FromType ==
  ASSUME NEW S, NEW c, NEW s \in Seq(S)
  PROVE  From(c, s) \in Seq(S)
<1>1. PICK f : IsKept(f, S, c, s) /\ From(c, s) = f[Len(s)]
  BY FromSolves
<1>2. Len(s) \in 0..Len(s)
  BY LenProperties
<1>3. QED
  BY <1>1, <1>2 DEF IsKept

\* Of no bytes, none are a client's.
LEMMA FromEmpty == ASSUME NEW c PROVE From(c, <<>>) = <<>>
<1>1. PICK none \in Seq({}) : none = <<>> /\ Len(none) = 0
  BY EmptySeq
<1>2. PICK f : IsKept(f, {}, c, none) /\ From(c, none) = f[Len(none)]
  BY FromSolves
<1>3. QED
  BY <1>1, <1>2 DEF IsKept

\* One byte more.
LEMMA FromAppend ==
  ASSUME NEW S, NEW c, NEW s \in Seq(S), NEW e \in S
  PROVE  From(c, Append(s, e)) =
           IF e[1] = c THEN Append(From(c, s), e) ELSE From(c, s)
<1>1. PICK t \in Seq(S) : t = Append(s, e)
  BY AppendProperties
<1>2. /\ Len(s) \in Nat /\ Len(t) = Len(s) + 1 /\ t[Len(s) + 1] = e
      /\ \A n \in 1..Len(s) : t[n] = s[n]
  BY <1>1, AppendProperties, LenProperties
<1>3. PICK f : IsKept(f, S, c, s) /\ From(c, s) = f[Len(s)]
  BY FromSolves
<1>4. PICK g : IsKept(g, S, c, t) /\ From(c, t) = g[Len(t)]
  BY FromSolves
<1> DEFINE T == {n \in Nat : n <= Len(s) => f[n] = g[n]}
<1>5. 0 \in T
  BY <1>3, <1>4 DEF IsKept
<1>6. ASSUME NEW n \in T PROVE n + 1 \in T
  <2>1. SUFFICES ASSUME n + 1 <= Len(s) PROVE f[n + 1] = g[n + 1]
    OBVIOUS
  <2>2. n \in Nat /\ f[n] = g[n]
    BY <1>2, <2>1
  <2>3. n + 1 \in 1..Len(s) /\ n + 1 \in 1..Len(t) /\ (n + 1) - 1 = n
    BY <1>2, <2>1, <2>2
  <2>4. f[n + 1] = IF s[n + 1][1] = c THEN Append(f[n], s[n + 1]) ELSE f[n]
    BY <1>3, <2>3 DEF IsKept
  <2>5. g[n + 1] = IF s[n + 1][1] = c THEN Append(g[n], s[n + 1]) ELSE g[n]
    <3>1. t[n + 1] = s[n + 1]
      BY <1>2, <2>3
    <3>2. QED
      BY <1>4, <2>3, <3>1 DEF IsKept
  <2>6. QED
    BY <2>2, <2>4, <2>5
<1>7. T = Nat
  <2> HIDE DEF T
  <2>1. T \subseteq Nat
    BY DEF T
  <2>2. QED
    BY <1>5, <1>6, <2>1, SetInduction
<1>8. f[Len(s)] = g[Len(s)]
  BY <1>2, <1>7
<1>9. Len(t) \in 1..Len(t) /\ Len(t) - 1 = Len(s) /\ t[Len(t)] = e
  BY <1>2
<1>10. g[Len(t)] = IF e[1] = c THEN Append(g[Len(s)], e) ELSE g[Len(s)]
  BY <1>4, <1>9 DEF IsKept
<1>11. QED
  BY <1>1, <1>3, <1>4, <1>8, <1>10

\* The bytes of c in two chunks are those in the first, then those in the second.
LEMMA FromConcat ==
  ASSUME NEW S, NEW c, NEW s \in Seq(S), NEW t \in Seq(S)
  PROVE  From(c, s \o t) = From(c, s) \o From(c, t)
<1> DEFINE P == {u \in Seq(S) : From(c, s \o u) = From(c, s) \o From(c, u)}
<1>1. <<>> \in P
  <2>1. s \o <<>> = s /\ From(c, s) \o <<>> = From(c, s) /\ <<>> \in Seq(S)
    BY FromType, ConcatEmptySeq, EmptySeq
  <2>2. QED
    BY <2>1, FromEmpty
<1>2. ASSUME NEW u \in P, NEW e \in S PROVE Append(u, e) \in P
  <2>1. PICK v \in Seq(S), f \in Seq(S), g \in Seq(S) :
          v = u /\ f = From(c, s) /\ g = From(c, v) /\ From(c, s \o v) = f \o g
    BY FromType
  <2>2. PICK w \in Seq(S) : w = s \o v
    BY ConcatProperties
  <2>3. s \o Append(v, e) = Append(w, e) /\ f \o Append(g, e) = Append(f \o g, e)
    <3>1. AppendsBehind(s, v, e) /\ AppendsBehind(f, g, e)
      BY <1>2, ConcatAppend
    <3>2. QED
      BY <2>2, <3>1, Zenon DEF AppendsBehind
  <2>4. From(c, Append(w, e)) = IF e[1] = c THEN Append(From(c, w), e) ELSE From(c, w)
    BY FromAppend
  <2>5. From(c, Append(v, e)) = IF e[1] = c THEN Append(g, e) ELSE g
    BY <2>1, FromAppend
  <2>6. From(c, s \o Append(v, e)) = f \o From(c, Append(v, e))
    BY <2>1, <2>2, <2>3, <2>4, <2>5
  <2>7. Append(v, e) \in Seq(S)
    BY AppendProperties
  <2>8. QED
    BY <2>1, <2>6, <2>7
<1>3. P = Seq(S)
  <2> HIDE DEF P
  <2>1. P \subseteq Seq(S)
    BY DEF P
  <2>2. QED
    BY <1>1, <1>2, <2>1, SequenceInduction
<1>4. QED
  BY <1>3

\* Every byte of s is from client d.
Only(d, s) == s \in Seq({d} \X (1..MaxBytes))

\* Such bytes are all the client's own and nobody else's.
LEMMA FromOneClient ==
  ASSUME NEW c, NEW d, NEW s, Only(d, s)
  PROVE  /\ c = d => From(c, s) = s
         /\ c # d => From(c, s) = <<>>
<1> DEFINE S == {d} \X (1..MaxBytes)
           P == {u \in Seq(S) : From(c, u) = IF c = d THEN u ELSE <<>>}
<1>1. <<>> \in P
  BY FromEmpty, EmptySeq
<1>2. ASSUME NEW u \in P, NEW e \in S PROVE Append(u, e) \in P
  <2>1. e[1] = d
    OBVIOUS
  <2>2. u \in Seq(S) /\ From(c, u) = IF c = d THEN u ELSE <<>>
    OBVIOUS
  <2>3. From(c, Append(u, e)) = IF e[1] = c THEN Append(From(c, u), e) ELSE From(c, u)
    BY <2>2, FromAppend
  <2>4. Append(u, e) \in Seq(S)
    BY <2>2, AppendProperties
  <2>5. QED
    BY <2>1, <2>2, <2>3, <2>4
<1>3. P = Seq(S)
  <2> HIDE DEF P
  <2>1. P \subseteq Seq(S)
    BY DEF P
  <2>2. QED
    BY <1>1, <1>2, <2>1, SequenceInduction
<1>4. s \in P
  BY <1>3 DEF Only
<1>5. QED
  BY <1>4

\* One chunk more, behind what has been returned and collected.
Collects(c, r, s, t) == r \o From(c, s \o t) = (r \o From(c, s)) \o From(c, t)

\* What a client sent is found again when sequences are put together.
LEMMA Collected ==
  ASSUME NEW S, NEW c, NEW r \in Seq(S), NEW s \in Seq(S), NEW t \in Seq(S)
  PROVE  Collects(c, r, s, t)
<1>1. From(c, s \o t) = From(c, s) \o From(c, t)
  BY FromConcat
<1>2. From(c, s) \in Seq(S) /\ From(c, t) \in Seq(S)
  BY FromType
<1>3. PICK f \in Seq(S), g \in Seq(S) : f = From(c, s) /\ g = From(c, t)
  BY <1>2
<1>4. PICK h : h = f \o g
  OBVIOUS
<1>5. r \o h = (r \o f) \o g
  <2>1. Associative(r, f, g)
    BY ConcatIsAssociative
  <2>2. QED
    BY <1>4, <2>1, Zenon DEF Associative
<1>6. QED
  BY <1>1, <1>3, <1>4, <1>5, Zenon DEF Collects

-----------------------------------------------------------------------------
(* The invariant.                                                          *)

\* Only read_all() waits in its own select(), counts again or collects
\* chunks; a thread that is in no call has collected none.
CallShape ==
  /\ call \in {"idle", "gone"} => ~inner
  /\ call \in {"select", "count"} => inner
  /\ call \in {"idle", "select", "gone"} \/ ~inner => out = <<>>

\* The socket of a client holds that client's bytes.
OwnBytes == \A c \in Clients : Only(c, inbox[c])

\* The first n bytes client c writes, and those of c the server has taken from
\* its socket.
Written(c, n) == [i \in 1..n |-> <<c, i>>]

Got(c) == returned[c] \o From(c, out)

\* What a client wrote has been taken or is in its socket.
Ledger == call # "gone" => \A c \in Clients : Got(c) \o inbox[c] = Written(c, wrote[c])

Typed == TypeOK /\ CallShape /\ OwnBytes

Inv == Typed /\ Ledger /\ EveryConnectionHeldOnce /\ InnerReadFinds

-----------------------------------------------------------------------------
(* Connections and counts.                                                 *)

\* A connection that nobody holds yet is put behind those the socket holds.
LEMMA NewConnection ==
  ASSUME NEW S, NEW s \in Seq(S), NEW t \in Seq(S), NEW e \in S,
         e \notin ToSet(s \o t), IsInjective(s \o t)
  PROVE  /\ IsInjective(Append(s, e) \o t)
         /\ ToSet(Append(s, e) \o t) = ToSet(s \o t) \cup {e}
<1>1. PICK u \in Seq(S) : u = Append(s, e)
  BY AppendProperties
<1>2. ToSet(s \o t) = ToSet(s) \cup ToSet(t)
  BY ToSetConcat
<1>3. IsInjective(s) /\ IsInjective(t) /\ ToSet(s) \cap ToSet(t) = {}
  BY InjectiveConcat
<1>4. ToSet(u) = ToSet(s) \cup {e} /\ IsInjective(u)
  BY <1>1, <1>2, <1>3, InjectiveAppend
<1>5. IsInjective(u \o t)
  <2>1. ToSet(u) \cap ToSet(t) = {}
    BY <1>2, <1>3, <1>4
  <2>2. QED
    BY <1>3, <1>4, <2>1, InjectiveConcat
<1>6. ToSet(u \o t) = ToSet(s \o t) \cup {e}
  <2>1. ToSet(u \o t) = ToSet(u) \cup ToSet(t)
    BY ToSetConcat
  <2>2. QED
    BY <1>2, <1>4, <2>1
<1>7. QED
  BY <1>1, <1>5, <1>6

\* Accepted connections move from the listening socket to the tracked clients.
LEMMA MoveConnections ==
  ASSUME NEW k \in Seq(Clients), NEW a \in Seq(Clients), NEW b \in Seq(Clients)
  PROVE  /\ k \o a \in Seq(Clients)
         /\ ToSet((a \o b) \o k) = ToSet(b \o (k \o a))
         /\ IsInjective((a \o b) \o k) <=> IsInjective(b \o (k \o a))
<1>1. PICK ab \in Seq(Clients), ka \in Seq(Clients) : ab = a \o b /\ ka = k \o a
  BY ConcatProperties
<1>2. /\ ToSet(ab) = ToSet(a) \cup ToSet(b) /\ ToSet(ka) = ToSet(k) \cup ToSet(a)
  BY <1>1, ToSetConcat
<1>3. /\ ToSet(ab \o k) = ToSet(ab) \cup ToSet(k)
      /\ ToSet(b \o ka) = ToSet(b) \cup ToSet(ka)
  BY ToSetConcat
<1>4. /\ IsInjective(ab \o k) <=>
           IsInjective(ab) /\ IsInjective(k) /\ ToSet(ab) \cap ToSet(k) = {}
      /\ IsInjective(b \o ka) <=>
           IsInjective(b) /\ IsInjective(ka) /\ ToSet(b) \cap ToSet(ka) = {}
      /\ IsInjective(ab) <=>
           IsInjective(a) /\ IsInjective(b) /\ ToSet(a) \cap ToSet(b) = {}
      /\ IsInjective(ka) <=>
           IsInjective(k) /\ IsInjective(a) /\ ToSet(k) \cap ToSet(a) = {}
  BY <1>1, InjectiveConcat
<1>5. ToSet(ab \o k) = ToSet(b \o ka)
  BY <1>2, <1>3
<1>6. IsInjective(ab \o k) <=> IsInjective(b \o ka)
  BY <1>2, <1>4
<1>7. k \o a \in Seq(Clients)
  BY <1>1
<1>8. QED
  BY <1>1, <1>5, <1>6, <1>7

USE TcpAssumption DEF TcpAssumption

\* in_waiting() is positive exactly if a tracked client has bytes, and then counts the first one's.
LEMMA InWaitingCounts ==
  TypeOK =>
    /\ InWaiting \in Nat
    /\ InWaiting > 0 <=> Waiting # {}
    /\ Waiting # {} => /\ FirstWaiting \in Clients /\ inbox[FirstWaiting] # <<>>
                       /\ InWaiting = Len(inbox[FirstWaiting])
<1> SUFFICES ASSUME TypeOK
             PROVE  /\ InWaiting \in Nat
                    /\ InWaiting > 0 <=> Waiting # {}
                    /\ Waiting # {} => /\ FirstWaiting \in Clients
                                       /\ inbox[FirstWaiting] # <<>>
                                       /\ InWaiting = Len(inbox[FirstWaiting])
  OBVIOUS
<1>1. CASE Waiting = {}
  BY <1>1 DEF InWaiting
<1>2. CASE Waiting # {}
  <2>1. Waiting \subseteq Nat
    <3>1. clients \in Seq(Clients)
      BY DEF TypeOK
    <3>2. DOMAIN clients \subseteq Nat
      BY <3>1, LenProperties
    <3>3. QED
      BY <3>2 DEF Waiting
  <2>2. PICK i \in Waiting : FirstWaiting = clients[i]
    <3>1. \E i \in Waiting : \A j \in Waiting : i <= j
      BY <1>2, <2>1, LeastNumber
    <3>2. QED
      BY <3>1 DEF FirstWaiting
  <2>3. FirstWaiting \in Clients /\ inbox[FirstWaiting] # <<>>
    BY <2>2, ElementOfSeq DEF Waiting, TypeOK
  <2>4. Len(inbox[FirstWaiting]) \in Nat /\ Len(inbox[FirstWaiting]) > 0
    BY <2>3, LenProperties, EmptySeq DEF TypeOK
  <2>5. InWaiting = Len(inbox[FirstWaiting])
    BY <1>2 DEF InWaiting
  <2>6. QED
    BY <1>2, <2>3, <2>4, <2>5
<1>3. QED
  BY <1>1, <1>2

\* The same after a step.
LEMMA InWaitingCountsNext == TypeOK' => ((InWaiting > 0)' <=> (Waiting # {})')
BY InWaitingCounts, PTL

\* accept_clients() moves the front of the backlog behind the clients.
LEMMA AcceptStep ==
  ASSUME TypeOK, AcceptClients
  PROVE  \E a \in Seq(Clients), b \in Seq(Clients) :
           backlog = a \o b /\ clients' = clients \o a /\ backlog' = b
<1>1. opts.limit \in Nat /\ Len(clients) \in Nat /\ Len(backlog) \in Nat /\ backlog \in Seq(Clients)
  BY LenProperties DEF TypeOK, AllOptions
<1>2. PICK n \in 0..Len(backlog) :
        /\ clients' = clients \o SubSeq(backlog, 1, n)
        /\ backlog' = SubSeq(backlog, n + 1, Len(backlog))
  <2>1. PICK room : room = IF opts.limit > Len(clients) + 1
                           THEN opts.limit - Len(clients) ELSE 1
    OBVIOUS
  <2>2. room \in Nat
    BY <1>1, <2>1
  <2>3. PICK n : n = IF opts.limit = 0 \/ Len(backlog) < room THEN Len(backlog) ELSE room
    OBVIOUS
  <2>4. n \in 0..Len(backlog)
    BY <1>1, <2>2, <2>3
  <2>5. /\ clients' = clients \o SubSeq(backlog, 1, n)
        /\ backlog' = SubSeq(backlog, n + 1, Len(backlog))
    BY <2>1, <2>3, Zenon DEF AcceptClients
  <2>6. QED
    BY <2>4, <2>5
<1>3. PICK a \in Seq(Clients), b \in Seq(Clients) :
        a = SubSeq(backlog, 1, n) /\ b = SubSeq(backlog, n + 1, Len(backlog))
  BY <1>1, SplitSeq
<1>4. SubSeq(backlog, 1, n) \o SubSeq(backlog, n + 1, Len(backlog)) = backlog
  BY <1>1, SplitSeq
<1>5. backlog = a \o b /\ clients' = clients \o a /\ backlog' = b
  BY <1>2, <1>3, <1>4, Zenon
<1>6. QED
  BY <1>5, Zenon


-----------------------------------------------------------------------------
(* What a read takes and returns.                                          *)

\* A call hands over what it has collected: nothing is lost or added.
LEMMA FinishKeeps ==
  ASSUME TypeOK, Finish(out)
  PROVE  /\ out' \in Seq(Bytes) /\ returned' \in [Clients -> Seq(Bytes)]
         /\ \A c \in Clients : Got(c)' = Got(c)
<1>1. out' = <<>> /\ <<>> \in Seq(Bytes)
  BY EmptySeq DEF Finish
<1>2. ASSUME NEW c \in Clients
      PROVE  returned[c] \o From(c, out) \in Seq(Bytes) /\ Got(c)' = Got(c)
  <2>1. returned[c] \in Seq(Bytes) /\ From(c, out) \in Seq(Bytes)
    BY FromType DEF TypeOK
  <2>2. PICK g \in Seq(Bytes) : g = returned[c] \o From(c, out)
    BY <2>1, ConcatProperties
  <2>3. returned'[c] = g
    BY <2>2 DEF Finish
  <2>4. returned'[c] \o From(c, out') = g
    BY <1>1, <2>2, <2>3, FromEmpty, ConcatEmptySeq
  <2>5. QED
    BY <2>2, <2>4 DEF Got
<1>3. returned' \in [Clients -> Seq(Bytes)]
  BY <1>2 DEF Finish
<1>4. QED
  BY <1>1, <1>2, <1>3

\* A call that has collected nothing so far returns a chunk of client d.
LEMMA FinishWith ==
  ASSUME TypeOK, out = <<>>, NEW d, NEW chunk, Only(d, chunk),
         chunk \in Seq(Bytes), Finish(chunk)
  PROVE  /\ out' \in Seq(Bytes) /\ returned' \in [Clients -> Seq(Bytes)]
         /\ \A c \in Clients : Got(c)' = IF c = d THEN Got(c) \o chunk ELSE Got(c)
<1>1. out' = <<>> /\ <<>> \in Seq(Bytes)
  BY EmptySeq DEF Finish
<1>2. ASSUME NEW c \in Clients
      PROVE  /\ returned[c] \o From(c, chunk) \in Seq(Bytes)
             /\ Got(c)' = IF c = d THEN Got(c) \o chunk ELSE Got(c)
  <2>1. returned[c] \in Seq(Bytes) /\ From(c, chunk) \in Seq(Bytes)
    BY FromType DEF TypeOK
  <2>2. PICK g \in Seq(Bytes) : g = returned[c] \o From(c, chunk)
    BY <2>1, ConcatProperties
  <2>3. returned'[c] = g
    BY <2>2 DEF Finish
  <2>4. returned'[c] \o From(c, out') = g
    BY <1>1, <2>2, <2>3, FromEmpty, ConcatEmptySeq
  <2>5. returned[c] \o From(c, out) = returned[c]
    BY <2>1, FromEmpty, ConcatEmptySeq
  <2>6. g = IF c = d THEN returned[c] \o chunk ELSE returned[c]
    <3>1. From(c, chunk) = IF c = d THEN chunk ELSE <<>>
      <4>1. c = d => From(c, chunk) = chunk
        BY FromOneClient
      <4>2. c # d => From(c, chunk) = <<>>
        BY FromOneClient
      <4>3. QED
        BY <4>1, <4>2
    <3>2. returned[c] \o <<>> = returned[c]
      BY <2>1, ConcatEmptySeq
    <3>3. QED
      BY <2>2, <3>1, <3>2, Zenon
  <2>7. QED
    BY <2>2, <2>4, <2>5, <2>6 DEF Got
<1>3. returned' \in [Clients -> Seq(Bytes)]
  BY <1>2 DEF Finish
<1>4. QED
  BY <1>1, <1>2, <1>3

\* read() returns a chunk of client d, to the API or to read_all().
LEMMA ReadReturnsMoves ==
  ASSUME Typed, NEW d, NEW chunk, Only(d, chunk),
         chunk \in Seq(Bytes), ReadReturns(chunk)
  PROVE  /\ out' \in Seq(Bytes) /\ returned' \in [Clients -> Seq(Bytes)]
         /\ \A c \in Clients : Got(c)' = IF c = d THEN Got(c) \o chunk ELSE Got(c)
<1>1. TypeOK /\ (~inner => out = <<>>)
  BY DEF Typed, CallShape
<1>2. CASE ~inner
  <2>1. Finish(chunk)
    BY <1>2 DEF ReadReturns
  <2>2. QED
    BY <1>1, <1>2, <2>1, FinishWith
<1>3. CASE inner /\ chunk = <<>>
  <2>1. Finish(out)
    BY <1>3 DEF ReadReturns
  <2>2. \A c \in Clients : Got(c) \o chunk = Got(c)
    <3>1. SUFFICES ASSUME NEW c \in Clients PROVE Got(c) \o <<>> = Got(c)
      BY <1>3
    <3>2. Got(c) \in Seq(Bytes)
      BY <1>1, FromType, ConcatProperties DEF Got, TypeOK
    <3>3. QED
      BY <3>2, ConcatEmptySeq
  <2>3. QED
    BY <1>1, <2>1, <2>2, FinishKeeps
<1>4. CASE inner /\ chunk # <<>>
  <2>1. out' = out \o chunk /\ returned' = returned /\ out \in Seq(Bytes)
    BY <1>1, <1>4 DEF ReadReturns, TypeOK
  <2>2. out' \in Seq(Bytes) /\ returned' \in [Clients -> Seq(Bytes)]
    BY <1>1, <2>1, ConcatProperties DEF TypeOK
  <2>3. ASSUME NEW c \in Clients
        PROVE  Got(c)' = IF c = d THEN Got(c) \o chunk ELSE Got(c)
    <3>1. returned[c] \in Seq(Bytes)
      BY <1>1 DEF TypeOK
    <3>2. PICK g \in Seq(Bytes) : g = Got(c)
      BY <2>1, <3>1, FromType, ConcatProperties DEF Got
    <3>3. returned[c] \o From(c, out \o chunk) = Got(c) \o From(c, chunk)
      <4>1. returned[c] \o From(c, out \o chunk)
              = (returned[c] \o From(c, out)) \o From(c, chunk)
        <5>1. Collects(c, returned[c], out, chunk)
          BY <2>1, <3>1, Collected
        <5>2. QED
          BY <5>1 DEF Collects
      <4>2. QED
        BY <4>1 DEF Got
    <3>4. From(c, chunk) = IF c = d THEN chunk ELSE <<>>
      <4>1. c = d => From(c, chunk) = chunk
        BY FromOneClient
      <4>2. c # d => From(c, chunk) = <<>>
        BY FromOneClient
      <4>3. QED
        BY <4>1, <4>2
    <3>5. Got(c) \o <<>> = Got(c)
      BY <3>2, ConcatEmptySeq
    <3>6. Got(c)' = Got(c) \o From(c, chunk)
      BY <2>1, <3>3 DEF Got
    <3>7. QED
      BY <3>4, <3>5, <3>6, Zenon
  <2>4. QED
    BY <2>2, <2>3
<1>5. QED
  BY <1>2, <1>3, <1>4

\* n bytes at the front of client d's socket.
Takes(d, n) ==
  /\ d \in Clients /\ n \in 0..Len(inbox[d])
  /\ Chunk = SubSeq(inbox[d], 1, n)
  /\ Len(Chunk) = n

\* Receive takes nothing when no tracked client has bytes, and otherwise from
\* the front of one client's.
LEMMA ChunkTakes ==
  ASSUME Typed
  PROVE  /\ Waiting = {} => Chunk = <<>>
         /\ Waiting # {} => \E n : Takes(FirstWaiting, n)
<1>1. Waiting = {} => Chunk = <<>>
  BY DEF Chunk
<1>2. ASSUME Waiting # {} PROVE \E n : Takes(FirstWaiting, n)
  <2>1. FirstWaiting \in Clients /\ InWaiting = Len(inbox[FirstWaiting])
    BY <1>2, InWaitingCounts DEF Typed
  <2>2. inbox[FirstWaiting] \in Seq(Bytes) /\ want \in Nat
    BY <2>1 DEF Typed, TypeOK
  <2>3. PICK n : n = IF want < InWaiting THEN want ELSE InWaiting
    OBVIOUS
  <2>4. n \in 0..Len(inbox[FirstWaiting])
    BY <2>1, <2>2, <2>3, LenProperties
  <2>5. Chunk = SubSeq(inbox[FirstWaiting], 1, n)
    BY <1>2, <2>3, Zenon DEF Chunk
  <2>6. Len(Chunk) = n
    BY <2>2, <2>4, <2>5, SplitSeq
  <2>7. QED
    BY <2>1, <2>4, <2>5, <2>6 DEF Takes
<1>3. QED
  BY <1>1, <1>2

-----------------------------------------------------------------------------
(* Steps that keep what is held and what waits.                            *)

\* The connections stay where they are, or some are accepted.
Holding == UNCHANGED <<backlog, clients>> \/ AcceptClients

\* So does every step that accepts, and the others move nothing.
LEMMA HoldingMoves ==
  ASSUME TypeOK, Holding
  PROVE  \E a \in Seq(Clients), b \in Seq(Clients) :
           backlog = a \o b /\ clients' = clients \o a /\ backlog' = b
<1>1. CASE AcceptClients
  BY <1>1, AcceptStep
<1>2. CASE UNCHANGED <<backlog, clients>>
  <2>1. PICK a \in Seq(Clients) : a = <<>>
    BY EmptySeq
  <2>2. a \o backlog = backlog /\ clients \o a = clients
    BY <2>1, ConcatEmptySeq DEF TypeOK
  <2>3. QED
    BY <1>2, <2>2 DEF TypeOK
<1>3. QED
  BY <1>1, <1>2 DEF Holding

\* Such a step keeps every connection in one place.
LEMMA HeldKept ==
  ASSUME TypeOK, Holding, call # "gone",
         \A c \in Clients : peer'[c] = "new" <=> peer[c] = "new"
  PROVE  /\ backlog' \in Seq(Clients) /\ clients' \in Seq(Clients)
         /\ EveryConnectionHeldOnce => EveryConnectionHeldOnce'
<1>1. PICK a \in Seq(Clients), b \in Seq(Clients) :
        backlog = a \o b /\ clients' = clients \o a /\ backlog' = b
  BY HoldingMoves
<1>2. clients \in Seq(Clients)
  BY DEF TypeOK
<1>3. /\ clients \o a \in Seq(Clients)
      /\ ToSet((a \o b) \o clients) = ToSet(b \o (clients \o a))
      /\ IsInjective((a \o b) \o clients) <=> IsInjective(b \o (clients \o a))
  BY <1>2, MoveConnections
<1>4. {c \in Clients : peer'[c] # "new"} = {c \in Clients : peer[c] # "new"}
  OBVIOUS
<1>5. /\ ToSet(backlog \o clients) = ToSet(backlog' \o clients')
      /\ IsInjective(backlog \o clients) <=> IsInjective(backlog' \o clients')
  BY <1>1, <1>3, Zenon
<1>6. EveryConnectionHeldOnce => EveryConnectionHeldOnce'
  BY <1>4, <1>5, Zenon DEF EveryConnectionHeldOnce
<1>7. QED
  BY <1>1, <1>3, <1>6

\* A client whose bytes were seen has them still, and is tracked still.
LEMMA WaitingKept ==
  ASSUME TypeOK, TypeOK', Holding, InWaiting > 0,
         \A c \in Clients : inbox[c] # <<>> => inbox'[c] # <<>>
  PROVE  (InWaiting > 0)'
<1>1. PICK i \in DOMAIN clients : inbox[clients[i]] # <<>>
  BY InWaitingCounts DEF Waiting
<1>2. PICK a \in Seq(Clients) : clients' = clients \o a
  BY HoldingMoves
<1>3. i \in DOMAIN clients' /\ clients'[i] = clients[i] /\ clients[i] \in Clients
  <2>1. clients \in Seq(Clients)
    BY DEF TypeOK
  <2>2. PICK k : k = clients \o a
    OBVIOUS
  <2>3. k \in Seq(Clients) /\ Len(k) = Len(clients) + Len(a)
        /\ \A j \in 1..Len(clients) : k[j] = clients[j]
    BY <2>1, <2>2, ConcatProperties
  <2>4. QED
    BY <1>2, <2>1, <2>2, <2>3, LenProperties
<1>4. inbox'[clients'[i]] # <<>>
  BY <1>1, <1>3
<1>5. (Waiting # {})'
  BY <1>3, <1>4 DEF Waiting
<1>6. QED
  BY <1>5, InWaitingCountsNext

\* A step of a reading call before it receives: it finishes with what it has
\* collected, or goes on; it asks only for bytes that it has seen.
GoesOn ==
  /\ UNCHANGED <<out, returned>>
  /\ call' \in {"select", "read", "accept", "wait"}
  /\ inner' \in BOOLEAN /\ want' \in Nat
  /\ call' = "select" => inner' /\ out = <<>>
  /\ ~inner' => out = <<>>
  /\ inner' /\ call' # "select" =>
       InWaiting > 0 \/ (inner /\ call \in {"read", "accept", "wait"})

QuietStep ==
  /\ ServerFrame /\ UNCHANGED inbox /\ missed' \in BOOLEAN
  /\ call # "gone"
  /\ Holding
  /\ Finish(out) \/ GoesOn

Quiet ==
  \/ ReadAll \/ SelectReturns \/ CountAgain \/ ReadAccepts \/ AcceptBlocking
  \/ \E n \in 1..MaxRead : Read(n)

\* A read() that got nothing ends the call with what was collected before.
LEMMA ReturnsNothing ==
  ASSUME Typed, ReadReturns(<<>>)
  PROVE  Finish(out)
BY DEF Typed, CallShape, ReadReturns

\* The steps that take no bytes.
LEMMA QuietSteps ==
  ASSUME Typed, Quiet
  PROVE  QuietStep
<1> USE DEF QuietStep, Holding, ServerFrame, readVars
<1>1. /\ inner \in BOOLEAN /\ missed \in BOOLEAN /\ want \in Nat /\ InWaiting \in Nat
      /\ call \in {"idle", "gone"} => ~inner
      /\ call \in {"idle", "select", "gone"} \/ ~inner => out = <<>>
  BY InWaitingCounts DEF Typed, TypeOK, CallShape
<1>2. ReadCounted /\ InWaiting > 0 => GoesOn /\ UNCHANGED missed
  BY <1>1 DEF ReadCounted, GoesOn
<1>3. FinishEmpty /\ out = <<>> => Finish(out) /\ missed' \in BOOLEAN
  <2>1. FinishEmpty => missed' \in BOOLEAN
    BY Zenon DEF FinishEmpty
  <2>2. QED
    BY <2>1 DEF FinishEmpty
<1>4. CASE ReadAll
  <2>1. (Finish(out) \/ GoesOn) /\ missed' \in BOOLEAN
    <3>1. CASE InWaiting > 0
      BY <1>1, <1>2, <1>4, <3>1 DEF ReadAll
    <3>2. CASE ~(InWaiting > 0) /\ opts.blocking /\ clients # <<>>
      BY <1>1, <1>4, <3>2 DEF ReadAll, GoesOn
    <3>3. CASE ~(InWaiting > 0) /\ ~(opts.blocking /\ clients # <<>>)
      BY <1>1, <1>3, <1>4, <3>3 DEF ReadAll
    <3>4. QED
      BY <3>1, <3>2, <3>3
  <2>2. QED
    BY <1>4, <2>1 DEF ReadAll
<1>5. CASE SelectReturns
  <2>1. (Finish(out) \/ GoesOn) /\ missed' \in BOOLEAN
    BY <1>1, <1>2, <1>3, <1>5 DEF SelectReturns
  <2>2. QED
    BY <1>5, <2>1 DEF SelectReturns
<1>6. CASE CountAgain
  <2>1. (Finish(out) \/ GoesOn) /\ missed' \in BOOLEAN
    BY <1>1, <1>2, <1>6 DEF CountAgain
  <2>2. QED
    BY <1>6, <2>1 DEF CountAgain
<1>7. CASE ReadAccepts
  <2>1. Finish(out) \/ GoesOn
    <3>1. CASE clients' # <<>> \/ opts.blocking
      BY <1>1, <1>7, <3>1 DEF ReadAccepts, GoesOn
    <3>2. CASE ~(clients' # <<>> \/ opts.blocking)
      BY <1>7, <3>2, ReturnsNothing DEF ReadAccepts
    <3>3. QED
      BY <3>1, <3>2
  <2>2. QED
    BY <1>1, <1>7, <2>1 DEF ReadAccepts
<1>8. CASE AcceptBlocking
  <2>1. Finish(out) \/ GoesOn
    BY <1>1, <1>8, ReturnsNothing DEF AcceptBlocking, GoesOn
  <2>2. QED
    BY <1>1, <1>8, <2>1 DEF AcceptBlocking
<1>9. CASE \E n \in 1..MaxRead : Read(n)
  BY <1>1, <1>9 DEF Read, GoesOn
<1>10. QED
  BY <1>4, <1>5, <1>6, <1>7, <1>8, <1>9 DEF Quiet


\* What a quiet step preserves.
LEMMA QuietKeeps ==
  ASSUME Inv, Quiet
  PROVE  /\ Inv' /\ UNCHANGED wrote
         /\ \A c \in Clients : Got(c)' = Got(c)
<1>1. Typed /\ TypeOK /\ CallShape /\ OwnBytes /\ QuietStep
  BY QuietSteps DEF Inv, Typed
<1>2. /\ out' \in Seq(Bytes) /\ returned' \in [Clients -> Seq(Bytes)]
      /\ \A c \in Clients : Got(c)' = Got(c)
  <2>1. CASE Finish(out)
    BY <1>1, <2>1, FinishKeeps
  <2>2. CASE GoesOn
    <3>1. \A c \in Clients : Got(c)' = Got(c)
      BY <2>2, Zenon DEF GoesOn, Got
    <3>2. QED
      BY <1>1, <2>2, <3>1 DEF GoesOn, TypeOK
  <2>3. QED
    BY <1>1, <2>1, <2>2 DEF QuietStep
<1>3. /\ backlog' \in Seq(Clients) /\ clients' \in Seq(Clients)
      /\ EveryConnectionHeldOnce'
  BY <1>1, HeldKept DEF QuietStep, ServerFrame, Inv
<1>4. /\ call' \in {"idle", "select", "read", "accept", "wait"}
      /\ inner' \in BOOLEAN /\ want' \in Nat /\ missed' \in BOOLEAN
      /\ UNCHANGED <<opts, peer, inbox, terminated, wrote, mail>>
  <2>1. /\ call' \in {"idle", "select", "read", "accept", "wait"}
        /\ inner' \in BOOLEAN /\ want' \in Nat
    <3>1. CASE Finish(out)
      BY <3>1 DEF Finish
    <3>2. CASE GoesOn
      BY <3>2 DEF GoesOn
    <3>3. QED
      BY <1>1, <3>1, <3>2 DEF QuietStep
  <2>2. QED
    BY <1>1, <2>1 DEF QuietStep, ServerFrame
<1>5. TypeOK'
  BY <1>1, <1>2, <1>3, <1>4 DEF TypeOK
<1>6. CallShape'
  BY <1>1 DEF QuietStep, Finish, GoesOn, CallShape
<1>7. OwnBytes'
  BY <1>1, <1>4 DEF OwnBytes
<1>8. Ledger'
  <2>1. Ledger /\ call # "gone"
    BY <1>1 DEF Inv, QuietStep
  <2>2. ASSUME NEW c \in Clients PROVE Got(c)' \o inbox'[c] = Written(c, wrote'[c])
    BY <1>2, <1>4, <2>1 DEF Ledger
  <2>3. QED
    BY <2>2 DEF Ledger
<1>9. InnerReadFinds'
  <2>1. CASE Finish(out)
    BY <2>1 DEF Finish, InnerReadFinds
  <2>2. CASE GoesOn
    <3>1. SUFFICES ASSUME inner', call' \in {"read", "accept", "wait"}
                   PROVE  (InWaiting > 0)'
      BY DEF InnerReadFinds
    <3>2. InWaiting > 0
      BY <2>2, <3>1 DEF GoesOn, Inv, InnerReadFinds
    <3>3. QED
      BY <1>1, <1>4, <1>5, <3>2, WaitingKept DEF QuietStep
  <2>3. QED
    BY <1>1, <2>1, <2>2 DEF QuietStep
<1>10. QED
  BY <1>2, <1>3, <1>4, <1>5, <1>6, <1>7, <1>8, <1>9 DEF Inv, Typed

\* Part of a client's bytes are that client's.
LEMMA OnlyParts ==
  ASSUME NEW d \in Clients, NEW s, Only(d, s), NEW n \in 0..Len(s)
  PROVE  /\ Only(d, SubSeq(s, 1, n)) /\ Only(d, SubSeq(s, n + 1, Len(s)))
         /\ SubSeq(s, 1, n) \in Seq(Bytes) /\ SubSeq(s, n + 1, Len(s)) \in Seq(Bytes)
         /\ SubSeq(s, 1, n) \o SubSeq(s, n + 1, Len(s)) = s
<1>1. s \in Seq({d} \X (1..MaxBytes))
  BY DEF Only
<1>2. /\ SubSeq(s, 1, n) \in Seq({d} \X (1..MaxBytes))
      /\ SubSeq(s, n + 1, Len(s)) \in Seq({d} \X (1..MaxBytes))
      /\ SubSeq(s, 1, n) \o SubSeq(s, n + 1, Len(s)) = s
  BY <1>1, SplitSeq
<1>3. {d} \X (1..MaxBytes) \subseteq Bytes
  BY DEF Bytes
<1>4. QED
  BY <1>2, <1>3, SeqMonotonic DEF Only

\* A receiving read moves n bytes of client d from its socket to what has been
\* taken; n is 0 when it finds none.
MovesFrom(d, n) ==
  /\ d \in Clients /\ n \in 0..Len(inbox[d])
  /\ inbox' = [inbox EXCEPT ![d] = SubSeq(@, n + 1, Len(@))]
  /\ \A c \in Clients :
       Got(c)' = IF c = d THEN Got(c) \o SubSeq(inbox[c], 1, n) ELSE Got(c)

MovesNothing == UNCHANGED inbox /\ \A c \in Clients : Got(c)' = Got(c)

\* recv() takes bytes from the front of one client's, or nothing.
LEMMA ReceiveMoves ==
  ASSUME Typed, Receive
  PROVE  /\ out' \in Seq(Bytes) /\ returned' \in [Clients -> Seq(Bytes)]
         /\ MovesNothing \/ \E d, n : MovesFrom(d, n)
<1>1. ReadReturns(Chunk) /\ TypeOK /\ OwnBytes
  BY DEF Receive, Typed
<1>2. CASE Waiting = {}
  <2>1. Finish(out)
    BY <1>1, <1>2, ChunkTakes, ReturnsNothing
  <2>2. UNCHANGED inbox
    BY <1>2 DEF Receive
  <2>3. QED
    BY <1>1, <2>1, <2>2, FinishKeeps DEF MovesNothing
<1>3. CASE Waiting # {}
  <2>1. PICK d : d = FirstWaiting
    OBVIOUS
  <2>2. PICK n : Takes(d, n)
    BY <1>3, <2>1, ChunkTakes
  <2>3. d \in Clients /\ n \in 0..Len(inbox[d]) /\ Only(d, inbox[d])
    BY <1>1, <2>2 DEF Takes, OwnBytes
  <2>4. Only(d, Chunk) /\ Chunk \in Seq(Bytes)
    <3>1. Chunk = SubSeq(inbox[d], 1, n)
      BY <2>2 DEF Takes
    <3>2. QED
      BY <2>3, <3>1, OnlyParts
  <2>5. /\ out' \in Seq(Bytes) /\ returned' \in [Clients -> Seq(Bytes)]
        /\ \A c \in Clients : Got(c)' = IF c = d THEN Got(c) \o Chunk ELSE Got(c)
    BY <1>1, <2>4, ReadReturnsMoves
  <2>6. inbox' = [inbox EXCEPT ![d] = SubSeq(@, n + 1, Len(@))]
    <3>1. inbox' = [inbox EXCEPT ![d] = SubSeq(@, Len(Chunk) + 1, Len(@))]
      BY <1>3, <2>1, Zenon DEF Receive
    <3>2. QED
      BY <2>2, <3>1 DEF Takes
  <2>7. ASSUME NEW c \in Clients
        PROVE  Got(c)' = IF c = d THEN Got(c) \o SubSeq(inbox[c], 1, n) ELSE Got(c)
    <3>1. Chunk = SubSeq(inbox[d], 1, n)
      BY <2>2 DEF Takes
    <3>2. QED
      BY <2>5, <3>1, Zenon
  <2>8. QED
    BY <2>3, <2>5, <2>6, <2>7 DEF MovesFrom
<1>4. QED
  BY <1>2, <1>3

\* The bytes taken and those waiting are together what they were.
LEMMA LedgerMoves ==
  ASSUME NEW g \in Seq(Bytes), NEW s \in Seq(Bytes), NEW n \in 0..Len(s)
  PROVE  (g \o SubSeq(s, 1, n)) \o SubSeq(s, n + 1, Len(s)) = g \o s
<1>1. /\ SubSeq(s, 1, n) \in Seq(Bytes) /\ SubSeq(s, n + 1, Len(s)) \in Seq(Bytes)
      /\ s = SubSeq(s, 1, n) \o SubSeq(s, n + 1, Len(s))
  BY SplitSeq
<1>2. PICK a \in Seq(Bytes), b \in Seq(Bytes) :
        a = SubSeq(s, 1, n) /\ b = SubSeq(s, n + 1, Len(s))
  BY <1>1
<1>3. s = a \o b
  BY <1>1, <1>2, Zenon
<1>4. g \o s = (g \o a) \o b
  <2>1. Associative(g, a, b)
    BY ConcatIsAssociative
  <2>2. QED
    BY <1>3, <2>1, Zenon DEF Associative
<1>5. QED
  BY <1>2, <1>4

\* A receiving step keeps the invariant.
LEMMA ReceiveKeeps ==
  ASSUME Inv, Receive
  PROVE  Inv'
<1>1. Typed /\ TypeOK /\ OwnBytes /\ call = "wait"
  BY DEF Inv, Typed, Receive
<1>2. /\ out' \in Seq(Bytes) /\ returned' \in [Clients -> Seq(Bytes)]
      /\ MovesNothing \/ \E d, n : MovesFrom(d, n)
  BY <1>1, ReceiveMoves
<1>3. /\ call' \in {"idle", "count"} /\ inner' \in BOOLEAN /\ want' \in Nat
      /\ UNCHANGED <<opts, peer, terminated, wrote, mail, backlog, clients, missed>>
      /\ CallShape'
  <2>1. ReadReturns(Chunk) /\ inner \in BOOLEAN /\ want \in Nat
    BY <1>1 DEF Receive, TypeOK
  <2>2. \/ call' = "idle" /\ inner' = FALSE /\ want' = 0 /\ out' = <<>>
        \/ call' = "count" /\ inner' = TRUE /\ want' = want
    <3>1. CASE inner = TRUE
      BY <2>1, <3>1, Zenon DEF ReadReturns, Finish
    <3>2. CASE inner = FALSE
      BY <2>1, <3>2, Zenon DEF ReadReturns, Finish
    <3>3. QED
      BY <2>1, <3>1, <3>2
  <2>3. UNCHANGED <<opts, peer, terminated, wrote, mail, backlog, clients, missed>>
    BY DEF Receive, ServerFrame
  <2>4. call' \in {"idle", "count"} /\ inner' \in BOOLEAN /\ want' \in Nat
    <3>1. want' = 0 \/ want' = want
      BY <2>2
    <3>2. inner' = TRUE \/ inner' = FALSE
      BY <2>2
    <3>3. call' \in {"idle", "count"}
      BY <2>2
    <3>4. inner' \in BOOLEAN
      BY <3>2, Zenon
    <3>5. want' \in Nat
      BY <2>1, <3>1
    <3>6. QED
      BY <3>3, <3>4, <3>5
  <2>5. CallShape'
    BY <2>1, <2>2 DEF CallShape
  <2>6. QED
    BY <2>3, <2>4, <2>5
<1>4. inbox' \in [Clients -> Seq(Bytes)] /\ OwnBytes'
      /\ Ledger'
  <2>1. Ledger /\ call # "gone" /\ inbox \in [Clients -> Seq(Bytes)]
    BY <1>1 DEF Inv, TypeOK
  <2>2. CASE MovesNothing
    <3>1. OwnBytes'
      BY <1>1, <2>2 DEF MovesNothing, OwnBytes
    <3>2. ASSUME NEW c \in Clients PROVE Got(c)' \o inbox'[c] = Written(c, wrote'[c])
      BY <1>3, <2>1, <2>2 DEF MovesNothing, Ledger
    <3>3. QED
      BY <2>1, <2>2, <3>1, <3>2 DEF MovesNothing, Ledger
  <2>3. CASE \E d, n : MovesFrom(d, n)
    <3>1. PICK d, n : MovesFrom(d, n)
      BY <2>3
    <3>2. d \in Clients /\ Only(d, inbox[d]) /\ n \in 0..Len(inbox[d])
      BY <1>1, <3>1 DEF MovesFrom, OwnBytes
    <3>3. PICK rest \in Seq(Bytes) :
            rest = SubSeq(inbox[d], n + 1, Len(inbox[d])) /\ Only(d, rest)
      BY <3>2, OnlyParts
    <3>4. inbox' = [inbox EXCEPT ![d] = rest]
      BY <3>1, <3>3 DEF MovesFrom
    <3>5. inbox' \in [Clients -> Seq(Bytes)]
      BY <2>1, <3>4
    <3>6. OwnBytes'
      BY <1>1, <2>1, <3>3, <3>4 DEF OwnBytes
    <3>7. ASSUME NEW c \in Clients PROVE Got(c)' \o inbox'[c] = Written(c, wrote'[c])
      <4>1. Got(c) \o inbox[c] = Written(c, wrote'[c])
        BY <1>3, <2>1 DEF Ledger
      <4>2. CASE c # d
        BY <2>1, <3>1, <3>4, <4>1, <4>2 DEF MovesFrom
      <4>3. CASE c = d
        <5>1. Got(c) \in Seq(Bytes) /\ inbox[c] \in Seq(Bytes)
          BY <1>1, FromType, ConcatProperties DEF Got, TypeOK
        <5>2. (Got(c) \o SubSeq(inbox[c], 1, n)) \o rest = Got(c) \o inbox[c]
          BY <3>2, <3>3, <4>3, <5>1, LedgerMoves
        <5>3. Got(c)' = Got(c) \o SubSeq(inbox[c], 1, n) /\ inbox'[c] = rest
          BY <2>1, <3>1, <3>4, <4>3 DEF MovesFrom
        <5>4. QED
          BY <4>1, <5>2, <5>3
      <4>4. QED
        BY <4>2, <4>3
    <3>8. QED
      BY <3>5, <3>6, <3>7 DEF Ledger
  <2>4. QED
    BY <1>2, <2>2, <2>3
<1>5. TypeOK'
  BY <1>1, <1>2, <1>3, <1>4 DEF TypeOK
<1>6. EveryConnectionHeldOnce'
  BY <1>1, <1>3 DEF Inv, EveryConnectionHeldOnce
<1>7. InnerReadFinds'
  BY <1>3 DEF InnerReadFinds
<1>8. QED
  BY <1>3, <1>4, <1>5, <1>6, <1>7 DEF Inv, Typed

-----------------------------------------------------------------------------
(* The steps that are not reads.                                           *)

\* What the history says of the bytes changes only with the sockets and with
\* what a call hands over.
LEMMA LedgerKept ==
  ASSUME Ledger, UNCHANGED <<returned, out, inbox, wrote, call>>
  PROVE  Ledger'
<1>1. ASSUME NEW c \in Clients PROVE Got(c)' = Got(c)
  BY Zenon DEF Got
<1>2. QED
  BY <1>1 DEF Ledger

\* A client that connects stands last in the backlog.
LEMMA ConnectKeeps ==
  ASSUME Inv, NEW c \in Clients, Connect(c)
  PROVE  Inv'
<1>1. Typed /\ TypeOK /\ CallShape /\ OwnBytes
  BY DEF Inv, Typed
<1>2. /\ call # "gone" /\ peer[c] = "new"
      /\ peer' = [peer EXCEPT ![c] = "open"]
      /\ backlog' = Append(backlog, c)
      /\ UNCHANGED <<opts, clients, inbox, wrote, call, inner, want, out, returned,
                     missed, terminated, mail>>
  BY DEF Connect, ClientFrame, callVars, readVars
<1>3. backlog' \in Seq(Clients) /\ backlog \in Seq(Clients) /\ clients \in Seq(Clients)
  BY <1>1, <1>2, AppendProperties DEF TypeOK
<1>4. TypeOK'
  BY <1>1, <1>2, <1>3 DEF TypeOK
<1>5. CallShape' /\ OwnBytes'
  BY <1>1, <1>2 DEF CallShape, OwnBytes
<1>6. Ledger'
  BY <1>2, LedgerKept DEF Inv
<1>7. EveryConnectionHeldOnce'
  <2>1. /\ IsInjective(backlog \o clients)
        /\ ToSet(backlog \o clients) = {d \in Clients : peer[d] # "new"}
    BY <1>2 DEF Inv, EveryConnectionHeldOnce
  <2>2. c \notin ToSet(backlog \o clients)
    BY <1>2, <2>1
  <2>3. /\ IsInjective(Append(backlog, c) \o clients)
        /\ ToSet(Append(backlog, c) \o clients) = ToSet(backlog \o clients) \cup {c}
    BY <1>3, <2>1, <2>2, NewConnection
  <2>4. {d \in Clients : peer'[d] # "new"} = {d \in Clients : peer[d] # "new"} \cup {c}
    BY <1>1, <1>2 DEF TypeOK
  <2>5. backlog' = Append(backlog, c) /\ clients' = clients
    BY <1>2
  <2>6. QED
    BY <2>1, <2>3, <2>4, <2>5, Zenon DEF EveryConnectionHeldOnce
<1>8. InnerReadFinds'
  <2>1. (InWaiting > 0)' <=> InWaiting > 0
    BY <1>2 DEF InWaiting, Waiting, FirstWaiting
  <2>2. QED
    BY <1>2, <2>1 DEF Inv, InnerReadFinds
<1>9. QED
  BY <1>4, <1>5, <1>6, <1>7, <1>8 DEF Inv, Typed

\* What one write of a client adds.
LEMMA WrittenMore ==
  ASSUME NEW c \in Clients, NEW k \in 0..MaxBytes, NEW n \in 1..(MaxBytes - k)
  PROVE  LET chunk == [i \in 1..n |-> <<c, k + i>>]
         IN  /\ Only(c, chunk) /\ chunk \in Seq(Bytes) /\ chunk \in Chunks
             /\ chunk # <<>>
             /\ Written(c, k) \in Seq(Bytes)
             /\ Written(c, k + n) = Written(c, k) \o chunk
<1> DEFINE chunk == [i \in 1..n |-> <<c, k + i>>]
           all == [i \in 1..(k + n) |-> <<c, i>>]
           old == [i \in 1..k |-> <<c, i>>]
<1>1. chunk \in Seq({c} \X (1..MaxBytes)) /\ Len(chunk) = n
  OBVIOUS
<1>2. {c} \X (1..MaxBytes) \subseteq Bytes
  BY DEF Bytes
<1>3. Only(c, chunk) /\ chunk \in Seq(Bytes)
  BY <1>1, <1>2, SeqMonotonic DEF Only
<1>4. chunk \in Chunks
  <2>1. n \in 1..MaxBytes
    OBVIOUS
  <2>2. QED
    BY <2>1 DEF Chunks
<1>5. chunk # <<>>
  BY <1>1
<1>6. old \in Seq(Bytes) /\ Len(old) = k
  BY DEF Bytes
<1>7. all \in Seq(Bytes) /\ Len(all) = k + n
  <2>1. \A i \in 1..(k + n) : <<c, i>> \in Bytes
    BY DEF Bytes
  <2>2. k + n \in Nat
    OBVIOUS
  <2>3. QED
    BY <2>1, <2>2
<1>8. all = old \o chunk
  <2>1. \A i \in 1..(k + n) : all[i] = (old \o chunk)[i]
    BY <1>1, <1>6
  <2>2. old \o chunk \in Seq(Bytes) /\ Len(old \o chunk) = k + n
    <3> HIDE DEF old, chunk
    <3>1. QED
      BY <1>1, <1>3, <1>6, ConcatProperties
  <2>3. QED
    BY <1>7, <2>1, <2>2, SeqEqual
<1>9. QED
  BY <1>3, <1>4, <1>5, <1>6, <1>8 DEF Written

\* One write of a client: its bytes stay together.
WritesChunk(c, chunk) ==
  /\ chunk \in Chunks /\ chunk \in Seq(Bytes) /\ Only(c, chunk) /\ chunk # <<>>
  /\ inbox' = [inbox EXCEPT ![c] = @ \o chunk]
  /\ wrote' \in [Clients -> 0..MaxBytes]
  /\ \A d \in Clients :
       Written(d, wrote'[d]) =
         IF d = c THEN Written(d, wrote[d]) \o chunk ELSE Written(d, wrote[d])
  /\ \A d \in Clients : Written(d, wrote[d]) \in Seq(Bytes)

\* A client writes one chunk behind what it has written.
LEMMA WriteChunk ==
  ASSUME TypeOK, NEW c \in Clients, ClientWrites(c)
  PROVE  \E chunk : WritesChunk(c, chunk)
<1>1. PICK n \in 1..(MaxBytes - wrote[c]) :
        /\ inbox' = [inbox EXCEPT ![c] = @ \o [i \in 1..n |-> <<c, wrote[c] + i>>]]
        /\ wrote' = [wrote EXCEPT ![c] = @ + n]
  BY DEF ClientWrites
<1>2. wrote \in [Clients -> 0..MaxBytes] /\ wrote[c] \in 0..MaxBytes
  BY DEF TypeOK
<1>3. PICK chunk : chunk = [i \in 1..n |-> <<c, wrote[c] + i>>]
  OBVIOUS
<1>4. /\ Only(c, chunk) /\ chunk \in Seq(Bytes) /\ chunk \in Chunks /\ chunk # <<>>
      /\ Written(c, wrote[c] + n) = Written(c, wrote[c]) \o chunk
  BY <1>2, <1>3, WrittenMore
<1>5. inbox' = [inbox EXCEPT ![c] = @ \o chunk]
  BY <1>1, <1>3, Zenon
<1>6. wrote' \in [Clients -> 0..MaxBytes] /\ wrote'[c] = wrote[c] + n
      /\ \A d \in Clients : d # c => wrote'[d] = wrote[d]
  BY <1>1, <1>2
<1>7. \A d \in Clients :
        Written(d, wrote'[d]) =
          IF d = c THEN Written(d, wrote[d]) \o chunk ELSE Written(d, wrote[d])
  BY <1>4, <1>6
<1>8. ASSUME NEW d \in Clients PROVE Written(d, wrote[d]) \in Seq(Bytes)
  <2>1. wrote[d] \in 0..MaxBytes
    BY <1>2
  <2>2. \A i \in 1..wrote[d] : <<d, i>> \in Bytes
    BY <2>1 DEF Bytes
  <2>3. QED
    BY <2>1, <2>2 DEF Written
<1>9. QED
  BY <1>4, <1>5, <1>6, <1>7, <1>8 DEF WritesChunk

\* A client that writes keeps the invariant.
LEMMA WritesKeep ==
  ASSUME Inv, NEW c \in Clients, ClientWrites(c)
  PROVE  Inv'
<1>1. Typed /\ TypeOK /\ CallShape /\ OwnBytes
  BY DEF Inv, Typed
<1>2. /\ call # "gone" /\ peer[c] = "open"
      /\ UNCHANGED <<opts, peer, backlog, clients, call, inner, want, out, returned,
                     missed, terminated, mail>>
  BY DEF ClientWrites, ClientFrame, callVars, readVars
<1>3. PICK chunk : WritesChunk(c, chunk)
  BY <1>1, WriteChunk
<1>4. /\ chunk \in Seq(Bytes) /\ Only(c, chunk) /\ chunk # <<>>
      /\ inbox \in [Clients -> Seq(Bytes)]
      /\ inbox' = [inbox EXCEPT ![c] = inbox[c] \o chunk]
      /\ wrote' \in [Clients -> 0..MaxBytes]
  BY <1>1, <1>3 DEF WritesChunk, TypeOK
<1>5. PICK more \in Seq(Bytes) : more = inbox[c] \o chunk /\ more # <<>> /\ Only(c, more)
  <2>1. PICK s \in Seq(Bytes) : s = inbox[c] /\ Only(c, s)
    BY <1>1, <1>4 DEF OwnBytes
  <2>2. s \o chunk \in Seq(Bytes) /\ s \o chunk # <<>>
    BY <1>4, ConcatProperties, EmptySeq, LenProperties
  <2>3. Only(c, s \o chunk)
    BY <1>4, <2>1, ConcatProperties DEF Only
  <2>4. QED
    BY <2>1, <2>2, <2>3
<1>6. inbox' = [inbox EXCEPT ![c] = more]
  BY <1>4, <1>5
<1>7. inbox' \in [Clients -> Seq(Bytes)] /\ inbox'[c] = more
      /\ \A d \in Clients : d # c => inbox'[d] = inbox[d]
  BY <1>4, <1>6
<1>8. TypeOK'
  BY <1>1, <1>2, <1>4, <1>7 DEF TypeOK
<1>9. CallShape' /\ OwnBytes'
  BY <1>1, <1>2, <1>5, <1>7 DEF CallShape, OwnBytes
<1>10. Ledger'
  <2>1. Ledger
    BY DEF Inv
  <2>2. ASSUME NEW d \in Clients PROVE Got(d)' \o inbox'[d] = Written(d, wrote'[d])
    <3>1. Got(d)' = Got(d)
      BY <1>2, Zenon DEF Got
    <3>2. Got(d) \o inbox[d] = Written(d, wrote[d])
      BY <1>2, <2>1 DEF Ledger
    <3>3. CASE d # c
      BY <1>3, <1>7, <3>1, <3>2, <3>3 DEF WritesChunk
    <3>4. CASE d = c
      <4>1. Got(c) \in Seq(Bytes) /\ inbox[c] \in Seq(Bytes)
        BY <1>1, FromType, ConcatProperties DEF Got, TypeOK
      <4>2. PICK g \in Seq(Bytes), s \in Seq(Bytes) : g = Got(c) /\ s = inbox[c]
        BY <4>1
      <4>3. g \o more = (g \o s) \o chunk
        <5>1. PICK k \in Seq(Bytes) : k = chunk
          BY <1>4
        <5>2. more = s \o k
          BY <1>5, <4>2, <5>1
        <5>3. g \o more = (g \o s) \o k
          BY <5>2, ConcatParts
        <5>4. QED
          BY <5>1, <5>3
      <4>4. Written(c, wrote'[c]) = Written(c, wrote[c]) \o chunk
        BY <1>3 DEF WritesChunk
      <4>5. QED
        BY <1>7, <3>1, <3>2, <3>4, <4>2, <4>3, <4>4, Zenon
    <3>5. QED
      BY <3>3, <3>4
  <2>3. QED
    BY <2>2 DEF Ledger
<1>11. EveryConnectionHeldOnce'
  BY <1>2 DEF Inv, EveryConnectionHeldOnce
<1>12. InnerReadFinds'
  <2>1. Holding
    BY <1>2 DEF Holding
  <2>2. \A d \in Clients : inbox[d] # <<>> => inbox'[d] # <<>>
    BY <1>5, <1>7
  <2>3. InWaiting > 0 => (InWaiting > 0)'
    BY <1>1, <1>8, <2>1, <2>2, WaitingKept
  <2>4. QED
    BY <1>2, <2>3 DEF Inv, InnerReadFinds
<1>13. QED
  BY <1>8, <1>9, <1>10, <1>11, <1>12 DEF Inv, Typed

\* A step after which the thread is where it was and every socket holds what
\* it held.
LEMMA FramedKeeps ==
  ASSUME Inv, call # "gone" \/ UNCHANGED <<backlog, clients>>, Holding,
         peer' \in [Clients -> {"new", "open", "closed", "reset"}],
         \A c \in Clients : peer'[c] = "new" <=> peer[c] = "new",
         mail' \in [Clients -> 0..MaxWrites], terminated' \in BOOLEAN,
         UNCHANGED <<opts, inbox, call, inner, want, out, returned, missed, wrote>>
  PROVE  Inv'
<1>1. Typed /\ TypeOK /\ CallShape /\ OwnBytes
  BY DEF Inv, Typed
<1>2. /\ backlog' \in Seq(Clients) /\ clients' \in Seq(Clients)
      /\ EveryConnectionHeldOnce'
  <2>1. CASE call # "gone"
    BY <1>1, <2>1, HeldKept DEF Inv
  <2>2. CASE call = "gone"
    BY <1>1, <2>2 DEF TypeOK, EveryConnectionHeldOnce
  <2>3. QED
    BY <2>1, <2>2
<1>3. TypeOK'
  BY <1>1, <1>2 DEF TypeOK
<1>4. CallShape' /\ OwnBytes'
  BY <1>1 DEF CallShape, OwnBytes
<1>5. Ledger'
  BY LedgerKept DEF Inv
<1>6. InnerReadFinds'
  <2>1. InWaiting > 0 => (InWaiting > 0)'
    BY <1>1, <1>3, WaitingKept
  <2>2. QED
    BY <2>1 DEF Inv, InnerReadFinds
<1>7. QED
  BY <1>2, <1>3, <1>4, <1>5, <1>6 DEF Inv, Typed

\* A client that closes keeps it.
LEMMA ClosesKeeps ==
  ASSUME Inv, NEW c \in Clients, ClientCloses(c)
  PROVE  Inv'
<1>1. TypeOK
  BY DEF Inv, Typed
<1>2. PICK end \in {"closed", "reset"} : peer' = [peer EXCEPT ![c] = end]
  BY DEF ClientCloses
<1>3. peer[c] = "open"
  BY DEF ClientCloses
<1>4. /\ peer' \in [Clients -> {"new", "open", "closed", "reset"}]
      /\ \A d \in Clients : peer'[d] = "new" <=> peer[d] = "new"
  BY <1>1, <1>2, <1>3 DEF TypeOK
<1>5. UNCHANGED <<opts, backlog, clients, inbox, call, inner, want, out, returned,
                  missed, terminated, wrote, mail>>
  BY DEF ClientCloses, ClientFrame, callVars, readVars
<1>6. mail' \in [Clients -> 0..MaxWrites] /\ terminated' \in BOOLEAN
  BY <1>1, <1>5 DEF TypeOK
<1>7. QED
  BY <1>4, <1>5, <1>6, FramedKeeps DEF Holding

\* The server's write() keeps it.
LEMMA WriteKeeps ==
  ASSUME Inv, Write
  PROVE  Inv'
<1>1. TypeOK /\ call = "idle"
  BY DEF Inv, Typed, Write
<1>2. Holding
  BY DEF Write, Holding
<1>3. UNCHANGED <<opts, inbox, call, inner, want, out, returned, missed, wrote>>
  BY DEF Write, callVars, readVars
<1>4. PICK sentTo, late :
        /\ \A c \in late : peer[c] = "closed"
        /\ \A c \in sentTo : mail[c] < MaxWrites
        /\ mail' = [c \in Clients |-> IF c \in sentTo THEN mail[c] + 1 ELSE mail[c]]
        /\ peer' = [c \in Clients |-> IF c \in late THEN "reset" ELSE peer[c]]
  <2>1. PICK k \in 0..Len(clients'), reached \in SUBSET (DOMAIN clients') :
          LET sentTo == {clients'[i] : i \in reached}
          IN  /\ \A c \in sentTo : mail[c] < MaxWrites
              /\ mail' = [c \in Clients |-> IF c \in sentTo THEN mail[c] + 1 ELSE mail[c]]
              /\ \E late \in SUBSET {c \in sentTo : peer[c] = "closed"} :
                   peer' = [c \in Clients |-> IF c \in late THEN "reset" ELSE peer[c]]
    BY Zenon DEF Write
  <2>2. PICK sentTo : sentTo = {clients'[i] : i \in reached}
    OBVIOUS
  <2>3. PICK late \in SUBSET {c \in sentTo : peer[c] = "closed"} :
          peer' = [c \in Clients |-> IF c \in late THEN "reset" ELSE peer[c]]
    BY <2>1, <2>2, Zenon
  <2>4. /\ \A c \in sentTo : mail[c] < MaxWrites
        /\ mail' = [c \in Clients |-> IF c \in sentTo THEN mail[c] + 1 ELSE mail[c]]
    BY <2>1, <2>2, Zenon
  <2>5. \A c \in late : peer[c] = "closed"
    OBVIOUS
  <2>6. QED
    BY <2>3, <2>4, <2>5, Zenon
<1>5. terminated' \in BOOLEAN
  BY Zenon DEF Write
<1>6. mail' \in [Clients -> 0..MaxWrites]
  <2>1. mail \in [Clients -> 0..MaxWrites]
    BY <1>1 DEF TypeOK
  <2>2. ASSUME NEW c \in Clients
        PROVE  (IF c \in sentTo THEN mail[c] + 1 ELSE mail[c]) \in 0..MaxWrites
    BY <1>4, <2>1
  <2>3. QED
    BY <1>4, <2>2
<1>7. /\ peer' \in [Clients -> {"new", "open", "closed", "reset"}]
      /\ \A c \in Clients : peer'[c] = "new" <=> peer[c] = "new"
  <2>1. peer \in [Clients -> {"new", "open", "closed", "reset"}]
    BY <1>1 DEF TypeOK
  <2>2. \A c \in Clients : c \in late => peer[c] = "closed"
    BY <1>4
  <2>3. QED
    BY <1>4, <2>1, <2>2
<1>8. QED
  BY <1>1, <1>2, <1>3, <1>5, <1>6, <1>7, FramedKeeps

\* The server's destructor keeps it.
LEMMA DestroyKeeps ==
  ASSUME Inv, Destroy
  PROVE  Inv'
<1>1. Typed /\ TypeOK /\ CallShape /\ OwnBytes
  BY DEF Inv, Typed
<1>2. /\ call = "idle" /\ call' = "gone" /\ clients' = <<>> /\ backlog' = <<>>
      /\ inbox' = [c \in Clients |-> <<>>]
      /\ UNCHANGED <<opts, peer, terminated, wrote, mail, inner, want, out, returned,
                     missed>>
  BY DEF Destroy, ServerFrame, readVars
<1>3. <<>> \in Seq(Clients) /\ <<>> \in Seq(Bytes) /\ \A c \in Clients : Only(c, <<>>)
  BY EmptySeq DEF Only
<1>4. TypeOK'
  BY <1>1, <1>2, <1>3 DEF TypeOK
<1>5. CallShape' /\ OwnBytes'
  BY <1>1, <1>2, <1>3 DEF CallShape, OwnBytes
<1>6. Ledger' /\ EveryConnectionHeldOnce' /\ InnerReadFinds'
  BY <1>2 DEF Ledger, EveryConnectionHeldOnce, InnerReadFinds
<1>7. QED
  BY <1>4, <1>5, <1>6 DEF Inv, Typed

\* Every step keeps the invariant.
LEMMA StepKeeps ==
  ASSUME Inv, [Next]_vars
  PROVE  Inv'
<1>1. CASE UNCHANGED vars
  <2>1. UNCHANGED <<opts, peer, backlog, clients, inbox, call, inner, want, out,
                    returned, missed, terminated, wrote, mail>>
    BY <1>1 DEF vars, callVars, readVars
  <2>2. TypeOK
    BY DEF Inv, Typed
  <2>3. /\ peer' \in [Clients -> {"new", "open", "closed", "reset"}]
        /\ mail' \in [Clients -> 0..MaxWrites] /\ terminated' \in BOOLEAN
    BY <2>1, <2>2 DEF TypeOK
  <2>4. Holding /\ \A c \in Clients : peer'[c] = "new" <=> peer[c] = "new"
    BY <2>1 DEF Holding
  <2>5. QED
    BY <2>1, <2>3, <2>4, FramedKeeps
<1>2. CASE \E c \in Clients : Connect(c) \/ ClientWrites(c) \/ ClientCloses(c)
  BY <1>2, ConnectKeeps, WritesKeep, ClosesKeeps
<1>3. CASE Quiet
  BY <1>3, QuietKeeps
<1>4. CASE Receive
  BY <1>4, ReceiveKeeps
<1>5. CASE Write
  BY <1>5, WriteKeeps
<1>6. CASE Destroy
  BY <1>6, DestroyKeeps
<1>7. QED
  BY <1>1, <1>2, <1>3, <1>4, <1>5, <1>6 DEF Next, Continues, Quiet

\* The constructor establishes it.
LEMMA InitEstablishes ==
  ASSUME Init
  PROVE  Inv
<1>1. <<>> \in Seq(Clients) /\ <<>> \in Seq(Bytes) /\ \A c \in Clients : Only(c, <<>>)
  BY EmptySeq DEF Only
<1>2. TypeOK
  <2>1. inner \in BOOLEAN /\ terminated \in BOOLEAN /\ missed \in BOOLEAN
    BY DEF Init
  <2>2. /\ opts \in Options
        /\ peer \in [Clients -> {"new", "open", "closed", "reset"}]
        /\ call \in {"idle", "select", "read", "accept", "wait", "count", "gone"}
    BY DEF Init
  <2>3. /\ backlog \in Seq(Clients) /\ clients \in Seq(Clients) /\ out \in Seq(Bytes)
        /\ inbox \in [Clients -> Seq(Bytes)] /\ returned \in [Clients -> Seq(Bytes)]
    BY <1>1 DEF Init
  <2>4. /\ want \in Nat
        /\ wrote \in [Clients -> 0..MaxBytes] /\ mail \in [Clients -> 0..MaxWrites]
    BY DEF Init
  <2>5. QED
    BY <2>1, <2>2, <2>3, <2>4 DEF TypeOK
<1>3. CallShape /\ OwnBytes /\ InnerReadFinds
  BY <1>1 DEF Init, CallShape, OwnBytes, InnerReadFinds
<1>4. ASSUME NEW c \in Clients PROVE Got(c) \o inbox[c] = Written(c, wrote[c])
  <2>1. /\ Got(c) = <<>> \o <<>> /\ inbox[c] = <<>> /\ wrote[c] = 0
    BY FromEmpty DEF Init, Got
  <2>2. <<>> \o <<>> = <<>>
    BY <1>1, ConcatEmptySeq
  <2>3. Written(c, 0) = <<>>
    <3>1. Written(c, 0) \in Seq(Bytes) /\ Len(Written(c, 0)) = 0
      BY DEF Written
    <3>2. QED
      BY <3>1, EmptySeq
  <2>4. QED
    BY <2>1, <2>2, <2>3
<1>5. Ledger
  BY <1>4 DEF Ledger
<1>6. EveryConnectionHeldOnce
  <2>1. /\ backlog = <<>> /\ clients = <<>>
        /\ {c \in Clients : peer[c] # "new"} = {}
    BY DEF Init
  <2>2. <<>> \o <<>> = <<>>
    BY <1>1, ConcatEmptySeq
  <2>3. IsInjective(<<>>) /\ ToSet(<<>>) = {}
    BY DEF IsInjective, ToSet
  <2>4. QED
    BY <2>1, <2>2, <2>3 DEF EveryConnectionHeldOnce
<1>7. QED
  BY <1>2, <1>3, <1>5, <1>6 DEF Inv, Typed

-----------------------------------------------------------------------------
(* The properties.                                                         *)

\* Inv is an invariant of every execution.
THEOREM InvHolds == Spec => []Inv
<1>1. Init => Inv
  BY InitEstablishes
<1>2. Inv /\ [Next]_vars => Inv'
  BY StepKeeps
<1>3. QED
  BY <1>1, <1>2, PTL DEF Spec

\* Every variable of the server and its clients keeps its type.
THEOREM TypeCorrect == Spec => []TypeOK
BY InvHolds, PTL DEF Inv, Typed

\* A connection is held by the listening socket or tracked, exactly once,
\* whatever max_connect says (accept_clients, TCP.cpp:260-277).
THEOREM ConnectionsAreHeldOnce == Spec => []EveryConnectionHeldOnce
BY InvHolds, PTL DEF Inv

\* The reads in read_all()'s loop find the bytes that were counted before,
\* whoever connects, writes or closes meanwhile (TCP.cpp:188-195, 199-230).
THEOREM InnerReadsFind == Spec => []InnerReadFinds
BY InvHolds, PTL DEF Inv

\* Every connection is a byte channel: what a client writes comes out of the
\* server's reads once and in order (TCP.cpp:179-230).
THEOREM Refinement == Spec => ImplementsByteChannel
<1> DEFINE Accepted == [c \in Clients |-> Written(c, wrote[c])]
           Delivered == [c \in Clients |-> Got(c)]
<1>1. Init => Channel!Init
  <2> SUFFICES ASSUME Init PROVE Channel!Init
    OBVIOUS
  <2>1. ASSUME NEW c \in Clients
        PROVE  [i \in 1..wrote[c] |-> <<c, i>>] = <<>> /\ returned[c] \o From(c, out) = <<>>
    <3>1. [i \in 1..0 |-> <<c, i>>] = <<>>
      <4>1. [i \in 1..0 |-> <<c, i>>] \in Seq({}) /\ Len([i \in 1..0 |-> <<c, i>>]) = 0
        OBVIOUS
      <4>2. QED
        BY <4>1, EmptySeq
    <3>2. <<>> \o <<>> = <<>>
      BY EmptySeq, ConcatEmptySeq
    <3>3. QED
      BY <3>1, <3>2, FromEmpty DEF Init
  <2>2. QED
    BY <2>1 DEF Channel!Init
<1>2. Inv /\ [Next]_vars => [Channel!Next]_<<
        [c \in Clients |-> [i \in 1..wrote[c] |-> <<c, i>>]],
        [c \in Clients |-> returned[c] \o From(c, out)]>>
  <2> SUFFICES ASSUME Inv, [Next]_vars
               PROVE  \/ UNCHANGED <<Accepted, Delivered>>
                      \/ \E c \in Clients : Channel!Accept(c) \/ Channel!Deliver(c)
    BY DEF Channel!Next, Written, Got
  <2>1. Typed /\ TypeOK /\ Ledger
    BY DEF Inv, Typed
  <2>2. ASSUME UNCHANGED wrote, \A c \in Clients : Got(c)' = Got(c)
        PROVE  UNCHANGED <<Accepted, Delivered>>
    BY <2>2
  <2>3. ASSUME UNCHANGED <<wrote, returned, out>> PROVE UNCHANGED <<Accepted, Delivered>>
    <3>1. \A c \in Clients : Got(c)' = Got(c)
      BY <2>3, Zenon DEF Got
    <3>2. QED
      BY <2>2, <2>3, <3>1
  <2>4. CASE \E c \in Clients : ClientWrites(c)
    <3>1. PICK c \in Clients : ClientWrites(c)
      BY <2>4
    <3>2. PICK chunk : WritesChunk(c, chunk)
      BY <2>1, <3>1, WriteChunk
    <3>3. UNCHANGED <<returned, out>>
      BY <3>1 DEF ClientWrites, ClientFrame, readVars
    <3>4. \A d \in Clients : Got(d)' = Got(d)
      BY <3>3, Zenon DEF Got
    <3>5. UNCHANGED Delivered
      BY <3>4
    <3>6. chunk \in Chunks /\ Accepted' = [Accepted EXCEPT ![c] = @ \o chunk]
      BY <3>2 DEF WritesChunk
    <3>7. Channel!Accept(c)
      BY <3>5, <3>6 DEF Channel!Accept, Written, Got
    <3>8. QED
      BY <3>7
  <2>5. CASE Receive
    <3>1. UNCHANGED wrote /\ call # "gone"
      BY <2>5 DEF Receive, ServerFrame
    <3>2. MovesNothing \/ \E d, n : MovesFrom(d, n)
      BY <2>1, <2>5, ReceiveMoves
    <3>3. CASE MovesNothing
      BY <2>2, <3>1, <3>3 DEF MovesNothing
    <3>4. ASSUME NEW d, NEW n, MovesFrom(d, n)
          PROVE  UNCHANGED <<Accepted, Delivered>> \/ Channel!Deliver(d)
      <4>1. /\ d \in Clients /\ n \in 0..Len(inbox[d]) /\ inbox[d] \in Seq(Bytes)
            /\ Got(d) \in Seq(Bytes)
        BY <2>1, <3>4, FromType, ConcatProperties DEF MovesFrom, Got, TypeOK
      <4>2. \A c \in Clients :
              Got(c)' = IF c = d THEN Got(c) \o SubSeq(inbox[c], 1, n) ELSE Got(c)
        BY <3>4 DEF MovesFrom
      <4>3. CASE n = 0
        <5>1. SubSeq(inbox[d], 1, n) = <<>> /\ Got(d) \o <<>> = Got(d)
          BY <4>1, <4>3, SubSeqEmpty, ConcatEmptySeq
        <5>2. \A c \in Clients : Got(c)' = Got(c)
          BY <4>2, <5>1
        <5>3. QED
          BY <2>2, <3>1, <5>2
      <4>4. CASE n # 0
        <5>1. n \in 1..Len(inbox[d])
          BY <4>1, <4>4
        <5>2. PICK front \in Seq(Bytes), rest \in Seq(Bytes) :
                /\ front = Got(d) \o SubSeq(inbox[d], 1, n)
                /\ rest = SubSeq(inbox[d], n + 1, Len(inbox[d]))
                /\ Got(d) \o inbox[d] = front \o rest
                /\ front = SubSeq(Got(d) \o inbox[d], 1, Len(Got(d)) + n)
                /\ Len(Got(d)) + n \in (Len(Got(d)) + 1)..Len(Got(d) \o inbox[d])
          BY <4>1, <5>1, ReadSplits
        <5>3. Got(d) \o inbox[d] = Accepted[d]
          BY <2>1, <3>1, <4>1 DEF Ledger
        <5>4. PICK m \in (Len(Delivered[d]) + 1)..Len(Accepted[d]) :
                front = SubSeq(Accepted[d], 1, m)
          BY <4>1, <5>2, <5>3
        <5>5. Delivered' = [Delivered EXCEPT ![d] = SubSeq(Accepted[d], 1, m)]
          BY <4>1, <4>2, <5>2, <5>4
        <5>6. UNCHANGED Accepted
          BY <3>1
        <5>7. QED
          BY <5>4, <5>5, <5>6 DEF Channel!Deliver, Written, Got
      <4>5. QED
        BY <4>1, <4>3, <4>4
    <3>5. QED
      BY <3>2, <3>3, <3>4 DEF MovesFrom
  <2>6. CASE Quiet
    BY <2>2, <2>6, QuietKeeps
  <2>7. CASE Write \/ Destroy \/ UNCHANGED vars
             \/ \E c \in Clients : Connect(c) \/ ClientCloses(c)
    <3>1. UNCHANGED <<wrote, returned, out>>
      BY <2>7 DEF Write, Destroy, Connect, ClientCloses, ClientFrame, ServerFrame,
                  vars, readVars
    <3>2. QED
      BY <2>3, <3>1
  <2>8. QED
    BY <2>4, <2>5, <2>6, <2>7 DEF Next, Continues, Quiet
<1>3. QED
  BY <1>1, <1>2, InvHolds, PTL DEF Spec, ImplementsByteChannel, Channel!Spec
=============================================================================
