---------------------------- MODULE GattProofs ----------------------------
(***************************************************************************)
(* Proofs about the GATT adapter, for any number of transports, keys,      *)
(* buffers and bytes.                                                      *)
(***************************************************************************)
EXTENDS Gatt, SequenceLemmas

USE GattAssumption DEF GattAssumption, None

\* What write() inserts is a sequence of bytes, one for each it counts.
LEMMA ChunkType ==
  ASSUME NEW t \in Transports, NEW first \in 0..MaxSent[t],
         NEW n \in 1..(MaxSent[t] - first)
  PROVE  /\ Chunk(t, first, n) \in Seq(Byte)
         /\ Len(Chunk(t, first, n)) = n
         /\ Chunk(t, first, n) # <<>>
<1> MaxSent[t] \in Nat
  OBVIOUS
<1>1. \A i \in 1..n : <<t, first + i>> \in Byte
  BY DEF Byte
<1>2. n \in Nat /\ n > 0
  OBVIOUS
<1>3. [i \in 1..n |-> <<t, first + i>>] \in Seq(Byte)
  BY <1>1, <1>2
<1>4. Len([i \in 1..n |-> <<t, first + i>>]) = n
  BY <1>2, <1>3
<1>5. [i \in 1..n |-> <<t, first + i>>] # <<>>
  <2>1. PICK s \in Seq(Byte) : s = [i \in 1..n |-> <<t, first + i>>]
    BY <1>3
  <2>2. Len(s) # 0
    BY <1>2, <1>4, <2>1
  <2>3. s # <<>>
    BY <2>2, EmptySeq
  <2>4. QED
    BY <2>1, <2>3
<1>6. QED
  BY <1>3, <1>4, <1>5, Zenon DEF Chunk

-----------------------------------------------------------------------------
(***************************************************************************)
(* The inductive invariant.  NoDanglingSlot and NoLostWakeup need to know  *)
(* which pointers a thread inside the API holds; the refinement needs to   *)
(* know that a buffer is what was logged and not yet taken.                *)
(***************************************************************************)

\* A thread inside write() or a waiting read belongs to a living transport,
\* and a write() under way holds a buffer.
ThreadsHoldPointers ==
  \A t \in Transports :
    /\ writer[t] = "idle" <=> outbound[t] = None
    /\ reader[t] # "idle" => Live(t)

\* What was inserted is what was read followed by what waits.
LogIsTakenAndBytes == \A b \in Buffers : log[b] = taken[b] \o bytes[b]

Inv ==
  /\ TypeOK
  /\ ThreadsHoldPointers
  /\ NoDanglingSlot
  /\ NoLostWakeup
  /\ LogIsTakenAndBytes

\* What a read returns and leaves behind are sequences of bytes, and nothing
\* is lost between them.
LEMMA TakeStep ==
  ASSUME TypeOK, LogIsTakenAndBytes,
         NEW b \in Buffers, NEW w \in {0, 1}, bytes[b] # <<>>, Take(b, w)
  PROVE  /\ bytes' \in [Buffers -> Seq(Byte)]
         /\ taken' \in [Buffers -> Seq(Byte)]
         /\ log' = log
         /\ LogIsTakenAndBytes'
         /\ \A c \in Buffers : bytes[c] = <<>> => bytes'[c] = <<>>
         /\ \E n \in (Len(taken[b]) + 1)..Len(log[b]) :
              taken' = [taken EXCEPT ![b] = SubSeq(log[b], 1, n)]
<1>1. bytes[b] \in Seq(Byte) /\ taken[b] \in Seq(Byte) /\ log[b] \in Seq(Byte)
  BY DEF TypeOK
<1>2. Len(bytes[b]) \in Nat /\ Len(bytes[b]) > 0
  BY <1>1, EmptySeq
<1>3. PICK n \in 1..Len(bytes[b]) : n = IF w = 0 THEN Len(bytes[b]) ELSE w
  BY <1>2
<1>4. /\ taken' = [taken EXCEPT ![b] = taken[b] \o SubSeq(bytes[b], 1, n)]
      /\ bytes' = [bytes EXCEPT ![b] = SubSeq(bytes[b], n + 1, Len(bytes[b]))]
      /\ log' = log
  BY <1>3 DEF Take
<1>5. PICK front \in Seq(Byte), rest \in Seq(Byte) :
        /\ front = taken[b] \o SubSeq(bytes[b], 1, n)
        /\ rest = SubSeq(bytes[b], n + 1, Len(bytes[b]))
        /\ taken[b] \o bytes[b] = front \o rest
        /\ front = SubSeq(taken[b] \o bytes[b], 1, Len(taken[b]) + n)
        /\ Len(taken[b]) + n \in (Len(taken[b]) + 1)..Len(taken[b] \o bytes[b])
  BY ONLY <1>1, ReadSplits, n \in 1..Len(bytes[b])
<1>6. bytes' \in [Buffers -> Seq(Byte)] /\ taken' \in [Buffers -> Seq(Byte)]
  BY <1>4, <1>5 DEF TypeOK
<1>7. log[b] = taken[b] \o bytes[b]
  BY DEF LogIsTakenAndBytes
<1>8. LogIsTakenAndBytes'
  <2> SUFFICES ASSUME NEW c \in Buffers
               PROVE  log'[c] = taken'[c] \o bytes'[c]
    BY DEF LogIsTakenAndBytes
  <2>1. CASE c = b
    BY <1>4, <1>5, <1>7, <2>1 DEF TypeOK
  <2>2. CASE c # b
    BY <1>4, <1>5, <2>2 DEF TypeOK, LogIsTakenAndBytes
  <2>3. QED
    BY <2>1, <2>2
<1>9. \A c \in Buffers : bytes[c] = <<>> => bytes'[c] = <<>>
  BY <1>4, <1>5 DEF TypeOK
<1>10. QED
  BY <1>4, <1>5, <1>6, <1>7, <1>8, <1>9

\* weak_ptr::lock() yields no pointer or that of a buffer in use.
LEMMA LockType ==
  ASSUME TypeOK, NEW k \in Keys
  PROVE  /\ Lock(k) \in Buffers \cup {None}
         /\ Lock(k) # None => Lock(k) = registry[k] /\ Alive(Lock(k))
         /\ registry[k] # None /\ Alive(registry[k]) => Lock(k) = registry[k]
BY DEF Lock, TypeOK

-----------------------------------------------------------------------------
(* The invariant holds at first and is preserved by every action.          *)

LEMMA InitInv == Init => Inv
<1> SUFFICES ASSUME Init PROVE Inv
  OBVIOUS
<1>1. TypeOK
  BY DEF Init, TypeOK, Buffers
<1>2. ThreadsHoldPointers /\ NoDanglingSlot /\ NoLostWakeup
  BY DEF Init, ThreadsHoldPointers, NoDanglingSlot, NoLostWakeup
<1>3. LogIsTakenAndBytes
  BY ConcatEmptySeq DEF Init, LogIsTakenAndBytes
<1>4. QED
  BY <1>1, <1>2, <1>3 DEF Inv

LEMMA ConstructSharedInv ==
  ASSUME Inv, NEW t \in Transports, ConstructShared(t)
  PROVE  Inv'
<1> USE DEF Inv, Live
<1>1. InKey[t] \in Keys /\ Lock(InKey[t]) \in Buffers /\ Lock(InKey[t]) = registry[InKey[t]]
  BY LockType DEF ConstructShared
<1>2. inbound' = [inbound EXCEPT ![t] = registry[InKey[t]]] /\ inbound[t] = None
  BY <1>1 DEF ConstructShared
<1>3. UNCHANGED <<registry, nbuf, writer, outbound, sent, reader, want, bytes, log, taken>>
  BY DEF ConstructShared, writeVars, readVars, bufferVars
<1>4. TypeOK'
  BY <1>1, <1>2, <1>3 DEF TypeOK
<1>5. ThreadsHoldPointers'
  BY <1>1, <1>2, <1>3 DEF TypeOK, ThreadsHoldPointers, Buffers
<1>6. NoDanglingSlot'
  BY <1>1, <1>2, <1>3 DEF TypeOK, NoDanglingSlot
<1>7. NoLostWakeup'
  BY <1>1, <1>2, <1>3 DEF TypeOK, NoLostWakeup, ThreadsHoldPointers
<1>8. LogIsTakenAndBytes'
  BY <1>3 DEF LogIsTakenAndBytes
<1>9. QED
  BY <1>4, <1>5, <1>6, <1>7, <1>8

LEMMA ConstructNewInv ==
  ASSUME Inv, NEW t \in Transports, ConstructNew(t)
  PROVE  Inv'
<1> USE DEF Inv, Live
<1>1. /\ InKey[t] \in Keys /\ nbuf + 1 \in Buffers /\ nbuf' = nbuf + 1
      /\ registry' = [registry EXCEPT ![InKey[t]] = nbuf + 1]
      /\ inbound' = [inbound EXCEPT ![t] = nbuf + 1]
      /\ inbound[t] = None
  BY DEF ConstructNew, TypeOK, Buffers
<1>2. UNCHANGED <<writer, outbound, sent, reader, want, bytes, log, taken>>
  BY DEF ConstructNew, writeVars, readVars, bufferVars
<1>3. TypeOK'
  <2>1. nbuf' \in 0..MaxBuffers
    BY <1>1 DEF Buffers
  <2>2. QED
    BY <1>1, <1>2, <2>1 DEF TypeOK
<1>4. ThreadsHoldPointers'
  BY <1>1, <1>2 DEF TypeOK, ThreadsHoldPointers, Buffers
<1>5. NoDanglingSlot'
  BY <1>1, <1>2 DEF TypeOK, NoDanglingSlot
<1>6. NoLostWakeup'
  BY <1>1, <1>2 DEF TypeOK, NoLostWakeup, ThreadsHoldPointers
<1>7. LogIsTakenAndBytes'
  BY <1>2 DEF LogIsTakenAndBytes
<1>8. QED
  BY <1>3, <1>4, <1>5, <1>6, <1>7

LEMMA DestroyInv ==
  ASSUME Inv, NEW t \in Transports, Destroy(t)
  PROVE  Inv'
<1> USE DEF Inv, Live
<1>1. /\ InKey[t] \in Keys /\ inbound[t] # None
      /\ writer[t] = "idle" /\ reader[t] = "idle"
      /\ inbound' = [inbound EXCEPT ![t] = None]
  BY DEF Destroy
<1>2. UNCHANGED <<nbuf, writer, outbound, sent, reader, want, bytes, log, taken>>
  BY DEF Destroy, writeVars, readVars, bufferVars
<1>3. \/ registry' = [registry EXCEPT ![InKey[t]] = None]
      \/ /\ registry' = registry
         /\ Lock(InKey[t]) # None /\ Lock(InKey[t]) # inbound[t]
  BY DEF Destroy, UnregisterEndpoint
<1>4. TypeOK'
  BY <1>1, <1>2, <1>3 DEF TypeOK, Buffers
<1>5. ThreadsHoldPointers'
  BY <1>1, <1>2 DEF TypeOK, ThreadsHoldPointers
<1>6. NoDanglingSlot'
  <2> SUFFICES ASSUME NEW k \in Keys, registry'[k] # None
               PROVE  \E u \in Transports : InKey[u] = k /\ inbound'[u] = registry'[k]
    BY DEF NoDanglingSlot
  <2>1. registry'[k] = registry[k]
    BY <1>1, <1>3 DEF TypeOK
  <2>2. PICK u \in Transports : InKey[u] = k /\ inbound[u] = registry[k]
    BY <2>1 DEF NoDanglingSlot
  <2>3. u # t
    <3> SUFFICES ASSUME u = t PROVE FALSE
      OBVIOUS
    <3>1. k = InKey[t] /\ registry[k] = inbound[t]
      BY <2>2
    <3>2. registry' = registry /\ Lock(k) # None /\ Lock(k) # inbound[t]
      BY <1>1, <1>3, <2>1, <3>1 DEF TypeOK
    <3>3. QED
      BY <3>1, <3>2, LockType
  <2>4. QED
    BY <1>1, <2>1, <2>2, <2>3 DEF TypeOK
<1>7. NoLostWakeup'
  BY <1>1, <1>2 DEF TypeOK, NoLostWakeup, ThreadsHoldPointers
<1>8. LogIsTakenAndBytes'
  BY <1>2 DEF LogIsTakenAndBytes
<1>9. QED
  BY <1>4, <1>5, <1>6, <1>7, <1>8

LEMMA FindEndpointInv ==
  ASSUME Inv, NEW t \in Transports, FindEndpoint(t)
  PROVE  Inv'
<1> USE DEF Inv, Live
<1>1. OutKey[t] \in Keys /\ writer[t] = "idle" /\ inbound[t] # None
  BY DEF FindEndpoint
<1>2. PICK found \in Buffers \cup {None} :
        /\ found = None \/ found = registry[OutKey[t]]
        /\ outbound' = [outbound EXCEPT ![t] = found]
        /\ writer' = [writer EXCEPT ![t] = IF found = None THEN "idle" ELSE "found"]
        /\ registry' = [registry EXCEPT ![OutKey[t]] = found]
  BY <1>1, LockType DEF FindEndpoint
<1>3. UNCHANGED <<inbound, nbuf, sent, reader, want, bytes, log, taken>>
  BY DEF FindEndpoint, readVars, bufferVars
<1>4. TypeOK'
  BY <1>1, <1>2, <1>3 DEF TypeOK
<1>5. ThreadsHoldPointers'
  BY <1>2, <1>3 DEF TypeOK, ThreadsHoldPointers
<1>6. NoDanglingSlot'
  BY <1>1, <1>2, <1>3 DEF TypeOK, NoDanglingSlot
<1>7. NoLostWakeup'
  BY <1>1, <1>2, <1>3 DEF TypeOK, NoLostWakeup
<1>8. LogIsTakenAndBytes'
  BY <1>3 DEF LogIsTakenAndBytes
<1>9. QED
  BY <1>4, <1>5, <1>6, <1>7, <1>8

LEMMA InsertInv ==
  ASSUME Inv, NEW t \in Transports, Insert(t)
  PROVE  Inv'
<1> USE DEF Inv, Live
<1>1. PICK b \in Buffers : b = outbound[t]
  BY DEF Insert, TypeOK, ThreadsHoldPointers
<1>2. PICK n \in 1..(MaxSent[t] - sent[t]) :
        /\ bytes' = [bytes EXCEPT ![b] = @ \o Chunk(t, sent[t], n)]
        /\ log' = [log EXCEPT ![b] = @ \o Chunk(t, sent[t], n)]
        /\ sent' = [sent EXCEPT ![t] = @ + n]
  BY <1>1 DEF Insert
<1>3. /\ writer[t] = "found" /\ writer' = [writer EXCEPT ![t] = "inserted"]
      /\ UNCHANGED <<registry, inbound, nbuf, outbound, reader, want, taken>>
  BY DEF Insert, registryVars, readVars
<1>4. sent[t] \in 0..MaxSent[t]
  BY DEF TypeOK
<1>5. PICK chunk \in Seq(Byte) : chunk = Chunk(t, sent[t], n)
  BY <1>4, ChunkType
<1>6. bytes[b] \in Seq(Byte) /\ log[b] \in Seq(Byte) /\ taken[b] \in Seq(Byte)
  BY DEF TypeOK
<1>7. TypeOK'
  <2>1. bytes' \in [Buffers -> Seq(Byte)] /\ log' \in [Buffers -> Seq(Byte)]
    BY <1>2, <1>5, <1>6, ConcatProperties DEF TypeOK
  <2>2. /\ sent' \in [Transports -> Nat]
        /\ \A u \in Transports : sent'[u] <= MaxSent[u]
    BY <1>2, <1>4 DEF TypeOK
  <2>3. QED
    BY <1>3, <2>1, <2>2 DEF TypeOK
<1>8. ThreadsHoldPointers'
  BY <1>3 DEF TypeOK, ThreadsHoldPointers
<1>9. NoDanglingSlot'
  BY <1>3 DEF NoDanglingSlot
<1>10. NoLostWakeup'
  <2> SUFFICES ASSUME NEW r \in Transports, reader[r] = "asleep",
                      bytes'[inbound[r]] # <<>>
               PROVE  \E u \in Transports :
                        writer'[u] = "inserted" /\ outbound[u] = inbound[r]
    BY <1>3 DEF NoLostWakeup
  <2>1. CASE inbound[r] = b
    BY <1>1, <1>3, <2>1 DEF TypeOK
  <2>2. CASE inbound[r] # b
    <3>1. inbound[r] \in Buffers
      BY DEF TypeOK, ThreadsHoldPointers
    <3>2. bytes[inbound[r]] # <<>>
      BY <1>2, <2>2, <3>1 DEF TypeOK
    <3>3. QED
      BY <1>3, <3>2 DEF TypeOK, NoLostWakeup
  <2>3. QED
    BY <2>1, <2>2
<1>11. LogIsTakenAndBytes'
  <2> SUFFICES ASSUME NEW c \in Buffers
               PROVE  log'[c] = taken[c] \o bytes'[c]
    BY <1>3 DEF LogIsTakenAndBytes
  <2>1. CASE c = b
    <3>1. log[b] = taken[b] \o bytes[b]
      BY DEF LogIsTakenAndBytes
    <3>2. log'[b] = log[b] \o chunk /\ bytes'[b] = bytes[b] \o chunk
      BY <1>2, <1>5 DEF TypeOK
    <3>3. taken[b] \o bytes'[b] = (taken[b] \o bytes[b]) \o chunk
      <4> bytes'[b] \in Seq(Byte)
        BY <1>7 DEF TypeOK
      <4>1. PICK g \in Seq(Byte), w \in Seq(Byte), x \in Seq(Byte) :
              g = taken[b] /\ w = bytes[b] /\ x = bytes'[b] /\ x = w \o chunk
        BY <1>6, <3>2
      <4>2. x = w \o chunk
        BY <4>1
      <4>3. g \o x = (g \o w) \o chunk
        BY ONLY <4>2, g \in Seq(Byte), w \in Seq(Byte), chunk \in Seq(Byte),
                ConcatParts, SMTT(30)
      <4>4. QED
        BY <4>1, <4>3
    <3>4. QED
      BY <2>1, <3>1, <3>2, <3>3
  <2>2. CASE c # b
    BY <1>2, <2>2 DEF TypeOK, LogIsTakenAndBytes
  <2>3. QED
    BY <2>1, <2>2
<1>12. QED
  BY <1>7, <1>8, <1>9, <1>10, <1>11

LEMMA NotifyInv ==
  ASSUME Inv, NEW t \in Transports, Notify(t)
  PROVE  Inv'
<1> USE DEF Inv, Live
<1>1. /\ writer[t] = "inserted"
      /\ writer' = [writer EXCEPT ![t] = "idle"]
      /\ outbound' = [outbound EXCEPT ![t] = None]
      /\ reader' = [u \in Transports |->
                      IF reader[u] = "asleep" /\ inbound[u] = outbound[t]
                      THEN "woken" ELSE reader[u]]
  BY DEF Notify, Asleep
<1>2. UNCHANGED <<registry, inbound, nbuf, sent, want, bytes, log, taken>>
  BY DEF Notify, registryVars, bufferVars
<1>3. TypeOK'
  BY <1>1, <1>2 DEF TypeOK
<1>4. ThreadsHoldPointers'
  BY <1>1, <1>2 DEF TypeOK, ThreadsHoldPointers
<1>5. NoDanglingSlot'
  BY <1>2 DEF NoDanglingSlot
<1>6. NoLostWakeup'
  BY <1>1, <1>2 DEF TypeOK, NoLostWakeup
<1>7. LogIsTakenAndBytes'
  BY <1>2 DEF LogIsTakenAndBytes
<1>8. QED
  BY <1>3, <1>4, <1>5, <1>6, <1>7

\* A step of a reader that takes bytes from its buffer, or leaves all buffers
\* alone, and ends asleep only on an empty one.
LEMMA ReaderInv ==
  ASSUME Inv, NEW t \in Transports, NEW place \in {"idle", "asleep", "woken"},
         NEW w \in {0, 1}, inbound[t] # None,
         reader' = [reader EXCEPT ![t] = place], want' = [want EXCEPT ![t] = w],
         UNCHANGED <<registryVars, writeVars>>,
         \/ UNCHANGED bufferVars
         \/ bytes[inbound[t]] # <<>> /\ \E v \in {0, 1} : Take(inbound[t], v),
         place = "asleep" => bytes'[inbound[t]] = <<>>
  PROVE  Inv'
<1> USE DEF Inv, Live
<1>1. inbound[t] \in Buffers
  BY DEF TypeOK
<1>2. UNCHANGED <<registry, inbound, nbuf, writer, outbound, sent>>
  BY DEF registryVars, writeVars
<1>3. /\ bytes' \in [Buffers -> Seq(Byte)]
      /\ log' \in [Buffers -> Seq(Byte)]
      /\ taken' \in [Buffers -> Seq(Byte)]
      /\ LogIsTakenAndBytes'
      /\ \A c \in Buffers : bytes[c] = <<>> => bytes'[c] = <<>>
  <2>1. CASE UNCHANGED bufferVars
    BY <2>1 DEF bufferVars, TypeOK, LogIsTakenAndBytes
  <2>2. CASE bytes[inbound[t]] # <<>> /\ \E v \in {0, 1} : Take(inbound[t], v)
    <3>1. log \in [Buffers -> Seq(Byte)]
      BY DEF TypeOK
    <3>2. QED
      BY <1>1, <2>2, <3>1, TakeStep
  <2>3. QED
    BY <2>1, <2>2
<1>4. TypeOK'
  BY <1>2, <1>3 DEF TypeOK
<1>5. ThreadsHoldPointers'
  BY <1>2 DEF TypeOK, ThreadsHoldPointers
<1>6. NoDanglingSlot'
  BY <1>2 DEF NoDanglingSlot
<1>7. NoLostWakeup'
  <2> SUFFICES ASSUME NEW r \in Transports, reader'[r] = "asleep",
                      bytes'[inbound[r]] # <<>>
               PROVE  \E u \in Transports :
                        writer[u] = "inserted" /\ outbound[u] = inbound[r]
    BY <1>2 DEF NoLostWakeup
  <2>1. r # t /\ reader[r] = "asleep"
    BY DEF TypeOK
  <2>2. inbound[r] \in Buffers
    BY <2>1 DEF TypeOK, ThreadsHoldPointers
  <2>3. QED
    BY <1>3, <2>1, <2>2 DEF NoLostWakeup
<1>8. QED
  BY <1>3, <1>4, <1>5, <1>6, <1>7

LEMMA ReadNowInv ==
  ASSUME Inv, NEW t \in Transports, NEW w \in {0, 1}, ReadNow(t, w)
  PROVE  Inv'
<1>1. /\ inbound[t] # None /\ reader[t] = "idle"
      /\ bytes[inbound[t]] # <<>> /\ Take(inbound[t], w)
      /\ UNCHANGED <<registryVars, writeVars>>
      /\ reader' = reader /\ want' = want
  BY DEF ReadNow, Live, readVars
<1>2. reader' = [reader EXCEPT ![t] = "idle"] /\ want' = [want EXCEPT ![t] = want[t]]
  BY <1>1 DEF Inv, TypeOK
<1>3. want[t] \in {0, 1}
  BY DEF Inv, TypeOK
<1>4. QED
  BY <1>1, <1>2, <1>3, ReaderInv

LEMMA ReadSleepsInv ==
  ASSUME Inv, NEW t \in Transports, NEW w \in {0, 1}, ReadSleeps(t, w)
  PROVE  Inv'
<1>1. /\ inbound[t] # None /\ bytes[inbound[t]] = <<>>
      /\ reader' = [reader EXCEPT ![t] = "asleep"]
      /\ want' = [want EXCEPT ![t] = w]
      /\ UNCHANGED <<registryVars, writeVars>>
      /\ UNCHANGED bufferVars
  BY DEF ReadSleeps, Live
<1>2. bytes' = bytes
  BY <1>1 DEF bufferVars
<1>3. QED
  BY <1>1, <1>2, ReaderInv

LEMMA ReadReturnsInv ==
  ASSUME Inv, NEW t \in Transports, reader[t] # "idle",
         ReadReturns(t), UNCHANGED <<registryVars, writeVars>>
  PROVE  Inv'
<1>1. inbound[t] # None /\ want[t] \in {0, 1}
  BY DEF Inv, TypeOK, ThreadsHoldPointers, Live
<1>2. /\ reader' = [reader EXCEPT ![t] = "idle"]
      /\ want' = [want EXCEPT ![t] = 0]
      /\ \/ UNCHANGED bufferVars
         \/ bytes[inbound[t]] # <<>> /\ \E v \in {0, 1} : Take(inbound[t], v)
  BY <1>1 DEF ReadReturns
<1>3. QED
  BY <1>1, <1>2, ReaderInv

LEMMA RetestInv ==
  ASSUME Inv, NEW t \in Transports, Retest(t)
  PROVE  Inv'
<1>1. CASE bytes[inbound[t]] # <<>>
  BY <1>1, ReadReturnsInv DEF Retest
<1>2. CASE bytes[inbound[t]] = <<>>
  <2>1. /\ inbound[t] # None /\ want[t] \in {0, 1}
        /\ want = [want EXCEPT ![t] = want[t]]
    BY DEF Inv, TypeOK, ThreadsHoldPointers, Live, Retest
  <2>2. /\ reader' = [reader EXCEPT ![t] = "asleep"]
        /\ want' = [want EXCEPT ![t] = want[t]]
        /\ UNCHANGED <<registryVars, writeVars>>
        /\ UNCHANGED bufferVars
    BY <1>2, <2>1 DEF Retest
  <2>3. bytes' = bytes /\ inbound' = inbound
    BY <2>2 DEF bufferVars, registryVars
  <2>4. QED
    BY <1>2, <2>1, <2>2, <2>3, ReaderInv
<1>3. QED
  BY <1>1, <1>2

LEMMA SpuriousWakeInv ==
  ASSUME Inv, NEW t \in Transports, SpuriousWake(t)
  PROVE  Inv'
<1>1. /\ inbound[t] # None /\ want[t] \in {0, 1}
      /\ want = [want EXCEPT ![t] = want[t]]
  BY DEF Inv, TypeOK, ThreadsHoldPointers, Live, SpuriousWake
<1>2. /\ reader' = [reader EXCEPT ![t] = "woken"]
      /\ want' = [want EXCEPT ![t] = want[t]]
      /\ UNCHANGED <<registryVars, writeVars>>
      /\ UNCHANGED bufferVars
  BY <1>1 DEF SpuriousWake
<1>3. QED
  BY <1>1, <1>2, ReaderInv

\* Inv is an invariant of every execution: together with its parts below,
\* the safety of the adapter for any wiring of any number of transports.
THEOREM InvHolds == Spec => []Inv
<1>1. Init => Inv
  BY InitInv
<1>2. Inv /\ [Next]_vars => Inv'
  <2> SUFFICES ASSUME Inv, [Next]_vars PROVE Inv'
    OBVIOUS
  <2>1. CASE UNCHANGED vars
    BY <2>1 DEF vars, registryVars, writeVars, readVars, bufferVars, Inv, TypeOK,
                ThreadsHoldPointers, NoDanglingSlot, NoLostWakeup,
                LogIsTakenAndBytes, Live
  <2>2. CASE Next
    <3>1. PICK t \in Transports :
            \/ ConstructShared(t) \/ ConstructNew(t) \/ Destroy(t)
            \/ FindEndpoint(t) \/ Insert(t) \/ Notify(t)
            \/ \E w \in {0, 1} : ReadNow(t, w) \/ ReadSleeps(t, w)
            \/ Retest(t) \/ Timeout(t) \/ SpuriousWake(t)
      BY <2>2, Zenon DEF Next
    <3>2. CASE ConstructShared(t) \/ ConstructNew(t) \/ Destroy(t)
      BY <3>2, ConstructSharedInv, ConstructNewInv, DestroyInv
    <3>3. CASE FindEndpoint(t) \/ Insert(t) \/ Notify(t)
      BY <3>3, FindEndpointInv, InsertInv, NotifyInv
    <3>4. CASE \E w \in {0, 1} : ReadNow(t, w) \/ ReadSleeps(t, w)
      BY <3>4, ReadNowInv, ReadSleepsInv
    <3>5. CASE Timeout(t)
      BY <3>5, ReadReturnsInv DEF Timeout
    <3>6. CASE Retest(t) \/ SpuriousWake(t)
      BY <3>6, RetestInv, SpuriousWakeInv
    <3>7. QED
      BY <3>1, <3>2, <3>3, <3>4, <3>5, <3>6
  <2>3. QED
    BY <2>1, <2>2
<1>3. QED
  BY <1>1, <1>2, PTL DEF Spec

-----------------------------------------------------------------------------
(* The properties.                                                         *)

\* Every variable of the adapter keeps its type.
THEOREM TypeCorrect == Spec => []TypeOK
BY InvHolds, PTL DEF Inv

\* A writer never finds a buffer that no living transport reads from
\* (GATT.cpp:34-70).
THEOREM SlotsAreOwned == Spec => []NoDanglingSlot
BY InvHolds, PTL DEF Inv

\* notify_all after the mutex is released loses no wakeup, for any number of
\* readers and writers of a buffer (GATT.cpp:171-192).
THEOREM WakeupsAreNotLost == Spec => []NoLostWakeup
BY InvHolds, PTL DEF Inv

\* Only the destruction of a transport that reads the same buffer makes a
\* transport unreachable (GATT.cpp:59-70).
THEOREM OrphansHaveSharers == Spec => OrphanedOnlyBySharer
<1> DEFINE Step == \A t \in Transports :
             (Live(t) /\ Reachable(t) /\ ~Reachable(t)') =>
               \E u \in Transports : inbound[u] = inbound[t] /\ ~Live(u)'
<1>1. Inv /\ [Next]_vars => [Step]_vars
  <2> SUFFICES ASSUME Inv, Next, NEW t \in Transports,
                      Live(t), Reachable(t), ~Reachable(t)'
               PROVE  \E u \in Transports : inbound[u] = inbound[t] /\ ~Live(u)'
    BY DEF Next
  <2> USE DEF Live, Reachable
  <2>1. /\ TypeOK /\ InKey[t] \in Keys
        /\ registry[InKey[t]] = inbound[t] /\ inbound[t] # None
        /\ registry'[InKey[t]] # inbound'[t]
    BY DEF Inv
  <2>2. Lock(InKey[t]) = inbound[t]
    BY <2>1 DEF Lock, Alive
  <2>3. ~UNCHANGED registryVars
    BY <2>1 DEF registryVars
  <2>4. PICK u \in Transports :
          ConstructShared(u) \/ ConstructNew(u) \/ Destroy(u) \/ FindEndpoint(u)
    BY <2>3 DEF Next, Insert, Notify, ReadNow, ReadSleeps, Retest, Timeout,
                SpuriousWake
  <2>5. InKey[u] \in Keys
    OBVIOUS
  <2>6. CASE ConstructShared(u)
    BY <2>1, <2>6 DEF ConstructShared, TypeOK
  <2>7. CASE ConstructNew(u)
    BY <2>1, <2>2, <2>5, <2>7 DEF ConstructNew, TypeOK
  <2>8. CASE FindEndpoint(u)
    <3>1. /\ registry' = [registry EXCEPT ![OutKey[u]] = Lock(OutKey[u])]
          /\ inbound' = inbound
      BY <2>8 DEF FindEndpoint
    <3>2. QED
      BY <2>1, <2>2, <3>1 DEF TypeOK
  <2>9. CASE Destroy(u)
    <3>1. /\ inbound' = [inbound EXCEPT ![u] = None]
          /\ registry' = IF Lock(InKey[u]) \in {None, inbound[u]}
                         THEN [registry EXCEPT ![InKey[u]] = None]
                         ELSE registry
      BY <2>9 DEF Destroy, UnregisterEndpoint
    <3>2. ~Live(u)'
      BY <3>1 DEF TypeOK, Inv
    <3>3. CASE u = t
      BY <3>2, <3>3
    <3>4. CASE u # t
      <4>1. InKey[u] = InKey[t] /\ Lock(InKey[u]) \in {None, inbound[u]}
        BY <2>1, <3>1, <3>4 DEF TypeOK
      <4>2. inbound[u] = inbound[t]
        BY <2>1, <2>2, <4>1
      <4>3. QED
        BY <3>2, <4>2
    <3>5. QED
      BY <3>3, <3>4
  <2>10. QED
    BY <2>4, <2>6, <2>7, <2>8, <2>9
<1>2. QED
  BY <1>1, InvHolds, PTL DEF Spec, OrphanedOnlyBySharer

\* Every buffer is a byte channel: the adapter hands out what was written,
\* once and in order.
THEOREM Refinement == Spec => ImplementsByteChannel
<1>1. Init => Channel!Init
  BY DEF Init, Channel!Init
<1>2. Inv /\ [Next]_vars => [Channel!Next]_<<log, taken>>
  <2> SUFFICES ASSUME Inv, Next, ~UNCHANGED <<log, taken>>
               PROVE  Channel!Next
    BY DEF vars, bufferVars
  <2>1. TypeOK /\ ThreadsHoldPointers /\ LogIsTakenAndBytes
    BY DEF Inv
  <2>2. ~UNCHANGED bufferVars
    BY DEF bufferVars
  <2>3. PICK t \in Transports :
          \/ Insert(t)
          \/ \E w \in {0, 1} : ReadNow(t, w)
          \/ reader[t] # "idle" /\ ReadReturns(t)
    BY <2>2 DEF Next, ConstructShared, ConstructNew, Destroy, FindEndpoint,
                Notify, ReadSleeps, Retest, Timeout, SpuriousWake, bufferVars
  <2>4. CASE Insert(t)
    <3>1. outbound[t] \in Buffers /\ sent[t] \in 0..MaxSent[t]
      BY <2>1, <2>4 DEF Insert, TypeOK, ThreadsHoldPointers
    <3>2. PICK n \in 1..(MaxSent[t] - sent[t]) :
            log' = [log EXCEPT ![outbound[t]] = @ \o Chunk(t, sent[t], n)]
      BY <2>4 DEF Insert
    <3>3. n \in 1..MaxSent[t] /\ taken' = taken
      BY <2>4, <3>1 DEF Insert
    <3>4. Channel!Accept(outbound[t])
      <4>1. Chunk(t, sent[t], n) \in Chunks
        BY <3>1, <3>3 DEF Chunks
      <4>2. QED
        BY <3>2, <3>3, <4>1 DEF Channel!Accept
    <3>5. QED
      BY <3>1, <3>4 DEF Channel!Next
  <2>5. CASE (\E w \in {0, 1} : ReadNow(t, w)) \/ (reader[t] # "idle" /\ ReadReturns(t))
    <3>1. inbound[t] \in Buffers /\ want[t] \in {0, 1}
      BY <2>1, <2>5 DEF ReadNow, TypeOK, ThreadsHoldPointers, Live
    <3>2. bytes[inbound[t]] # <<>> /\ \E w \in {0, 1} : Take(inbound[t], w)
      BY <2>2, <2>5, <3>1 DEF ReadNow, ReadReturns
    <3>3. /\ log' = log
          /\ \E n \in (Len(taken[inbound[t]]) + 1)..Len(log[inbound[t]]) :
               taken' = [taken EXCEPT ![inbound[t]] = SubSeq(log[inbound[t]], 1, n)]
      BY <2>1, <3>1, <3>2, TakeStep
    <3>4. QED
      BY <3>1, <3>3 DEF Channel!Next, Channel!Deliver
  <2>6. QED
    BY <2>3, <2>4, <2>5
<1>3. QED
  BY <1>1, <1>2, InvHolds, PTL DEF Spec, ImplementsByteChannel, Channel!Spec
=============================================================================
