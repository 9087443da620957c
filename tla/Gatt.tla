------------------------------- MODULE Gatt -------------------------------
(***************************************************************************)
(* The process-local GATT adapter (src/src/GATT.cpp): the registry that    *)
(* maps a device/service/characteristic key to the receive buffer of a     *)
(* transport, and the condition variable on which blocking reads wait.     *)
(*                                                                         *)
(* A transport is used by one writing and one reading thread, as a facade  *)
(* with a receive callback does; transports whose URIs name the same       *)
(* device, service and rx characteristic share one buffer.  A step is what *)
(* the code does under one hold of one mutex.                              *)
(***************************************************************************)
EXTENDS Naturals, Sequences, FiniteSets

CONSTANTS
  Transports,  \* the transport objects of the process
  Keys,        \* device/service/characteristic triples in use
  NoKey,       \* the remote of a URI without `remote=`
  InKey,       \* InKey[t]: make_key(local_device, service, rx_char)
  OutKey,      \* OutKey[t]: make_key(remote_device, service, tx_char), or NoKey
  Blocking,    \* transports opened with blocking=1
  Timed,       \* of these, those with timeout_ms >= 0
  MaxBuffers,  \* bound: number of buffers ever created
  MaxSent      \* bound: MaxSent[t] is the number of bytes t ever writes

ASSUME GattAssumption ==
  /\ NoKey \notin Keys
  /\ InKey \in [Transports -> Keys]
  /\ OutKey \in [Transports -> Keys \cup {NoKey}]
  /\ Timed \subseteq Blocking
  /\ Blocking \subseteq Transports
  /\ MaxBuffers \in Nat
  /\ MaxSent \in [Transports -> Nat]

None == 0                \* the null shared_ptr; an absent registry slot
Buffers == 1..MaxBuffers \* EndpointBuffers, in the order of their creation
\* <<writer, number of the byte>>
Byte == {b \in Transports \X Nat : b[2] \in 1..MaxSent[b[1]]}

\* The bytes one write() of transport t hands over: its next n.
Chunk(t, first, n) == [i \in 1..n |-> <<t, first + i>>]

VARIABLES
  registry,  \* g_registry: key -> the buffer a slot names (a weak pointer)
  inbound,   \* inbound_ of each transport, None when it is not constructed
  nbuf,      \* number of buffers created so far
  bytes,     \* EndpointBuffer::bytes
  writer,    \* where the writing thread is in write()
  outbound,  \* write()'s local shared_ptr
  reader,    \* where the reading thread is in wait_for_data()
  want,      \* argument of the read under way; 0 stands for read_all()
  sent,      \* history: number of bytes a transport has written
  log,       \* history: all bytes ever inserted in a buffer, in order
  taken      \* history: all bytes ever read from a buffer, in order

registryVars == <<registry, inbound, nbuf>>
writeVars == <<writer, outbound, sent>>
readVars == <<reader, want>>
bufferVars == <<bytes, log, taken>>
vars == <<registryVars, writeVars, readVars, bufferVars>>

TypeOK ==
  /\ registry \in [Keys -> Buffers \cup {None}]
  /\ inbound \in [Transports -> Buffers \cup {None}]
  /\ nbuf \in 0..MaxBuffers
  /\ bytes \in [Buffers -> Seq(Byte)]
  /\ writer \in [Transports -> {"idle", "found", "inserted"}]
  /\ outbound \in [Transports -> Buffers \cup {None}]
  /\ reader \in [Transports -> {"idle", "asleep", "woken"}]
  /\ want \in [Transports -> {0, 1}]
  /\ sent \in [Transports -> Nat]
  /\ \A t \in Transports : sent[t] <= MaxSent[t]
  /\ log \in [Buffers -> Seq(Byte)]
  /\ taken \in [Buffers -> Seq(Byte)]

Init ==
  /\ registry = [k \in Keys |-> None]
  /\ inbound = [t \in Transports |-> None]
  /\ nbuf = 0
  /\ bytes = [b \in Buffers |-> <<>>]
  /\ writer = [t \in Transports |-> "idle"]
  /\ outbound = [t \in Transports |-> None]
  /\ reader = [t \in Transports |-> "idle"]
  /\ want = [t \in Transports |-> 0]
  /\ sent = [t \in Transports |-> 0]
  /\ log = [b \in Buffers |-> <<>>]
  /\ taken = [b \in Buffers |-> <<>>]

-----------------------------------------------------------------------------
Live(t) == inbound[t] # None

\* A buffer exists while a transport or a write() under way points to it.
Alive(b) == \E t \in Transports : inbound[t] = b \/ outbound[t] = b

\* weak_ptr::lock() on the slot of key k
Lock(k) == IF registry[k] # None /\ Alive(registry[k]) THEN registry[k] ELSE None

-----------------------------------------------------------------------------
(* Construction and destruction: each one hold of g_registry_mutex.        *)

\* register_endpoint() finds a buffer that is still in use.
ConstructShared(t) ==
  /\ ~Live(t)
  /\ Lock(InKey[t]) # None
  /\ inbound' = [inbound EXCEPT ![t] = Lock(InKey[t])]
  /\ UNCHANGED <<registry, nbuf, writeVars, readVars, bufferVars>>

\* register_endpoint() creates a buffer and names it in the slot.
ConstructNew(t) ==
  /\ ~Live(t)
  /\ Lock(InKey[t]) = None
  /\ nbuf < MaxBuffers
  /\ nbuf' = nbuf + 1
  /\ registry' = [registry EXCEPT ![InKey[t]] = nbuf + 1]
  /\ inbound' = [inbound EXCEPT ![t] = nbuf + 1]
  /\ UNCHANGED <<writeVars, readVars, bufferVars>>

\* Mutant of UnregisterEndpoint: erases the slot whatever it names.
UnregisterAny(t) ==
  registry' = [registry EXCEPT ![InKey[t]] = None]

\* Mutant of UnregisterEndpoint: the slot is left to expire.
UnregisterNothing(t) == UNCHANGED registry

\* unregister_endpoint() with the transport's own key and buffer: an absent
\* slot, or one that names another living buffer, is left alone.
UnregisterEndpoint(t) ==
  registry' = IF Lock(InKey[t]) \in {None, inbound[t]}
              THEN [registry EXCEPT ![InKey[t]] = None]
              ELSE registry

\* ~GattTransport(); its threads have left it (the facade joins first).
Destroy(t) ==
  /\ Live(t)
  /\ writer[t] = "idle"
  /\ reader[t] = "idle"
  /\ UnregisterEndpoint(t)
  /\ inbound' = [inbound EXCEPT ![t] = None]
  /\ UNCHANGED <<nbuf, writeVars, readVars, bufferVars>>

-----------------------------------------------------------------------------
(* write(): look the remote up, insert under its mutex, notify.            *)

\* find_endpoint(): without a remote endpoint write() returns 0; a slot
\* whose buffer is gone is erased.
FindEndpoint(t) ==
  /\ Live(t)
  /\ writer[t] = "idle"
  /\ OutKey[t] # NoKey
  /\ sent[t] < MaxSent[t]
  /\ LET found == Lock(OutKey[t]) IN
       /\ outbound' = [outbound EXCEPT ![t] = found]
       /\ writer' = [writer EXCEPT ![t] = IF found = None THEN "idle" ELSE "found"]
       /\ registry' = [registry EXCEPT ![OutKey[t]] = found]
  /\ UNCHANGED <<inbound, nbuf, sent, readVars, bufferVars>>

\* Mutant of Insert: the bytes are put before those that wait.
InsertFront(t) ==
  /\ writer[t] = "found"
  /\ writer' = [writer EXCEPT ![t] = "inserted"]
  /\ \E n \in 1..(MaxSent[t] - sent[t]) :
       /\ bytes' = [bytes EXCEPT ![outbound[t]] = Chunk(t, sent[t], n) \o @]
       /\ log' = [log EXCEPT ![outbound[t]] = @ \o Chunk(t, sent[t], n)]
       /\ sent' = [sent EXCEPT ![t] = @ + n]
  /\ UNCHANGED <<registryVars, outbound, readVars, taken>>

\* Mutant of Insert: the end pointer is one too far.
InsertPastEnd(t) ==
  /\ writer[t] = "found"
  /\ writer' = [writer EXCEPT ![t] = "inserted"]
  /\ \E n \in 1..(MaxSent[t] - sent[t]) :
       /\ bytes' = [bytes EXCEPT ![outbound[t]] = @ \o Chunk(t, sent[t], n + 1)]
       /\ log' = [log EXCEPT ![outbound[t]] = @ \o Chunk(t, sent[t], n + 1)]
       /\ sent' = [sent EXCEPT ![t] = @ + n]
  /\ UNCHANGED <<registryVars, outbound, readVars, taken>>

Insert(t) ==
  /\ writer[t] = "found"
  /\ writer' = [writer EXCEPT ![t] = "inserted"]
  /\ \E n \in 1..(MaxSent[t] - sent[t]) :
       /\ bytes' = [bytes EXCEPT ![outbound[t]] = @ \o Chunk(t, sent[t], n)]
       /\ log' = [log EXCEPT ![outbound[t]] = @ \o Chunk(t, sent[t], n)]
       /\ sent' = [sent EXCEPT ![t] = @ + n]
  /\ UNCHANGED <<registryVars, outbound, readVars, taken>>

Asleep(b) == {u \in Transports : reader[u] = "asleep" /\ inbound[u] = b}

\* Mutant of Notify: notify_one().
NotifyOne(t) ==
  /\ writer[t] = "inserted"
  /\ \/ \E u \in Asleep(outbound[t]) : reader' = [reader EXCEPT ![u] = "woken"]
     \/ Asleep(outbound[t]) = {} /\ UNCHANGED reader
  /\ writer' = [writer EXCEPT ![t] = "idle"]
  /\ outbound' = [outbound EXCEPT ![t] = None]
  /\ UNCHANGED <<registryVars, sent, want, bufferVars>>

\* Mutant of Notify: nobody is notified.
NotifyNone(t) ==
  /\ writer[t] = "inserted"
  /\ writer' = [writer EXCEPT ![t] = "idle"]
  /\ outbound' = [outbound EXCEPT ![t] = None]
  /\ UNCHANGED <<registryVars, sent, readVars, bufferVars>>

\* notify_all(); write() returns and drops its pointer.
Notify(t) ==
  /\ writer[t] = "inserted"
  /\ reader' = [u \in Transports |->
                  IF u \in Asleep(outbound[t]) THEN "woken" ELSE reader[u]]
  /\ writer' = [writer EXCEPT ![t] = "idle"]
  /\ outbound' = [outbound EXCEPT ![t] = None]
  /\ UNCHANGED <<registryVars, sent, want, bufferVars>>

-----------------------------------------------------------------------------
(* read_all() and read(1): each step is one hold of the buffer's mutex.    *)

\* The bytes leave the front of the buffer: all of them, or want of them.
Take(b, w) ==
  LET n == IF w = 0 THEN Len(bytes[b]) ELSE w IN
  /\ taken' = [taken EXCEPT ![b] = @ \o SubSeq(bytes[b], 1, n)]
  /\ bytes' = [bytes EXCEPT ![b] = SubSeq(@, n + 1, Len(@))]
  /\ UNCHANGED log

\* A read that finds bytes.
ReadNow(t, w) ==
  /\ Live(t)
  /\ reader[t] = "idle"
  /\ bytes[inbound[t]] # <<>>
  /\ Take(inbound[t], w)
  /\ UNCHANGED <<registryVars, writeVars, readVars>>

\* A read that finds none and may block goes to sleep on cv, releasing the
\* mutex in the same step.  (With blocking=0 it returns and changes nothing.)
ReadSleeps(t, w) ==
  /\ Live(t)
  /\ reader[t] = "idle"
  /\ bytes[inbound[t]] = <<>>
  /\ t \in Blocking
  /\ reader' = [reader EXCEPT ![t] = "asleep"]
  /\ want' = [want EXCEPT ![t] = w]
  /\ UNCHANGED <<registryVars, writeVars, bufferVars>>

\* A read that has waited returns with what is there, perhaps nothing.
ReadReturns(t) ==
  /\ reader' = [reader EXCEPT ![t] = "idle"]
  /\ want' = [want EXCEPT ![t] = 0]
  /\ IF bytes[inbound[t]] # <<>>
     THEN Take(inbound[t], want[t])
     ELSE UNCHANGED bufferVars

\* A woken reader holds the mutex again and tests the predicate of wait().
Retest(t) ==
  /\ reader[t] = "woken"
  /\ IF bytes[inbound[t]] # <<>>
     THEN ReadReturns(t)
     ELSE /\ reader' = [reader EXCEPT ![t] = "asleep"]
          /\ UNCHANGED <<want, bufferVars>>
  /\ UNCHANGED <<registryVars, writeVars>>

\* Mutant of Timeout: the time starts again with every wakeup.
TimeoutRestarts(t) ==
  /\ t \in Timed
  /\ reader[t] = "asleep"
  /\ ReadReturns(t)
  /\ UNCHANGED <<registryVars, writeVars>>

\* wait_for() runs out, before or after a wakeup, and returns the predicate:
\* a read that finds bytes after all takes them, else it returns empty.
Timeout(t) ==
  /\ t \in Timed
  /\ reader[t] # "idle"
  /\ ReadReturns(t)
  /\ UNCHANGED <<registryVars, writeVars>>

\* A condition variable may wake a thread for no reason.
SpuriousWake(t) ==
  /\ reader[t] = "asleep"
  /\ reader' = [reader EXCEPT ![t] = "woken"]
  /\ UNCHANGED <<registryVars, writeVars, want, bufferVars>>

-----------------------------------------------------------------------------
Next ==
  \E t \in Transports :
    \/ ConstructShared(t) \/ ConstructNew(t) \/ Destroy(t)
    \/ FindEndpoint(t) \/ Insert(t) \/ Notify(t)
    \/ \E w \in {0, 1} : ReadNow(t, w) \/ ReadSleeps(t, w)
    \/ Retest(t) \/ Timeout(t) \/ SpuriousWake(t)

\* A write() under way goes on, a woken thread gets the mutex, and a timer
\* fires.  Nobody has to call the API.
Fairness ==
  \A t \in Transports :
    /\ WF_vars(Insert(t))
    /\ WF_vars(Notify(t))
    /\ WF_vars(Retest(t))
    /\ WF_vars(Timeout(t))

Spec == Init /\ [][Next]_vars /\ Fairness

-----------------------------------------------------------------------------
(* Safety.                                                                 *)

\* A slot of the registry always names the buffer some living transport
\* with that key reads from: a writer never finds a buffer nobody owns,
\* whatever the order in which transports that share a key come and go
\* (register_endpoint, unregister_endpoint, GATT.cpp:34-70).
NoDanglingSlot ==
  \A k \in Keys : registry[k] # None =>
    \E t \in Transports : InKey[t] = k /\ inbound[t] = registry[k]

\* A thread sleeps on a buffer that holds bytes only while the writer of
\* these bytes has still to notify it (notify_all after the mutex is
\* released, two readers of one buffer, GATT.cpp:171-176, 179-192).
NoLostWakeup ==
  \A t \in Transports :
    (reader[t] = "asleep" /\ bytes[inbound[t]] # <<>>) =>
      \E u \in Transports : writer[u] = "inserted" /\ outbound[u] = inbound[t]

Reachable(t) == registry[InKey[t]] = inbound[t]

\* A transport stops being the one that writers find only when it, or
\* another transport that reads the very same buffer, is destroyed: a late
\* destructor with the same key but an older buffer does no harm
\* (unregister_endpoint, GATT.cpp:59-70).
OrphanedOnlyBySharer ==
  [][\A t \in Transports :
       (Live(t) /\ Reachable(t) /\ ~Reachable(t)') =>
         \E u \in Transports : inbound[u] = inbound[t] /\ ~Live(u)']_vars

\* A living transport is the one that writers to its key find
\* (register_endpoint and unregister_endpoint, GATT.cpp:34-70): violated by
\* the code when two transports share a key.
LiveIsReachable == \A t \in Transports : Live(t) => Reachable(t)

\* What one write() may hand over.
Chunks ==
  UNION {{Chunk(t, first, n) : first \in 0..MaxSent[t], n \in 1..MaxSent[t]} :
           t \in Transports}

Channel == INSTANCE ByteChannel WITH
  Channels <- Buffers, accepted <- log, delivered <- taken

\* Every buffer hands out the bytes it was given once and in order, chunks
\* of concurrent writers one after the other (GATT.cpp:125-177).
ImplementsByteChannel == Channel!Spec

-----------------------------------------------------------------------------
(* Liveness.                                                               *)

\* A blocked read of a buffer that has bytes returns, or another reader of
\* the same buffer takes them (GATT.cpp:179-192).
ReaderGetsData ==
  \A t \in Transports :
    (reader[t] # "idle" /\ bytes[inbound[t]] # <<>>) ~>
      (reader[t] = "idle" \/ bytes[inbound[t]] = <<>>)

\* A read with a timeout returns, however often its thread is woken
\* (wait_for with a predicate, GATT.cpp:190-191).
TimedReadReturns ==
  \A t \in Timed : reader[t] # "idle" ~> reader[t] = "idle"
=============================================================================
