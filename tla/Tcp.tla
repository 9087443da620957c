-------------------------------- MODULE Tcp --------------------------------
(***************************************************************************)
(* The TCP server transport (src/src/TCP.cpp): its listening socket, the   *)
(* clients it tracks, and the thread that reads and writes, with the       *)
(* TcpClientTransports that connect to it, write and close as they like.   *)
(* The server has no lock: it is modelled as its code requires it to be    *)
(* used, by one thread at a time.                                          *)
(*                                                                         *)
(* A step ends where the thread looks at its sockets again: at a select(), *)
(* and between two reads of read_all().                                    *)
(***************************************************************************)
EXTENDS Naturals, Sequences, FiniteSets, SequencesExt

CONSTANTS
  Clients,        \* the clients that may connect, each once
  Options,        \* the options of the ifname that are considered
  MaxBytes,       \* bound: number of bytes each client writes
  MaxRead,        \* bound: largest argument of read(n)
  MaxWrites,      \* bound: number of the server's writes a client is sent
  SigpipeIgnored  \* the process ignores SIGPIPE (as Python does)

\* blocking; timeout_ms >= 0; max_connect, which TcpServerConfig may set to 0
AllOptions == [blocking : BOOLEAN, timed : BOOLEAN, limit : Nat]

ASSUME TcpAssumption ==
  /\ Options \subseteq AllOptions
  /\ MaxBytes \in Nat
  /\ MaxRead \in Nat
  /\ MaxWrites \in Nat
  /\ SigpipeIgnored \in BOOLEAN

Bytes == Clients \X (1..MaxBytes)

VARIABLES
  opts,       \* config_, fixed for the object's life
  peer,       \* the client's end of each connection
  backlog,    \* connections the listening socket holds
  clients,    \* clients_
  inbox,      \* inbox[c]: bytes of c its socket at the server holds
  call,       \* where the server's thread is
  inner,      \* is the read under way one of read_all()'s
  want,       \* the max_bytes of the read under way
  out,        \* bytes this call has received
  terminated, \* SIGPIPE has ended the process
  wrote,      \* history: number of bytes each client has written
  returned,   \* history: bytes of each client the server's reads returned
  mail,       \* history: number of the server's writes each client was sent
  missed      \* history: read_all() has returned nothing although bytes of
              \* a connected client were waiting

callVars == <<call, inner, want>>
readVars == <<out, returned, missed>>
vars == <<opts, peer, backlog, clients, inbox, callVars, readVars,
          terminated, wrote, mail>>

TypeOK ==
  /\ opts \in Options
  /\ peer \in [Clients -> {"new", "open", "closed", "reset"}]
  /\ backlog \in Seq(Clients)
  /\ clients \in Seq(Clients)
  /\ inbox \in [Clients -> Seq(Bytes)]
  /\ call \in {"idle", "select", "read", "accept", "wait", "count", "gone"}
  /\ inner \in BOOLEAN
  /\ want \in Nat
  /\ out \in Seq(Bytes)
  /\ terminated \in BOOLEAN
  /\ wrote \in [Clients -> 0..MaxBytes]
  /\ returned \in [Clients -> Seq(Bytes)]
  /\ mail \in [Clients -> 0..MaxWrites]
  /\ missed \in BOOLEAN

\* The constructor: a listening socket, no clients.
Init ==
  /\ opts \in Options
  /\ peer = [c \in Clients |-> "new"]
  /\ backlog = <<>>
  /\ clients = <<>>
  /\ inbox = [c \in Clients |-> <<>>]
  /\ call = "idle"
  /\ inner = FALSE
  /\ want = 0
  /\ out = <<>>
  /\ terminated = FALSE
  /\ wrote = [c \in Clients |-> 0]
  /\ returned = [c \in Clients |-> <<>>]
  /\ mail = [c \in Clients |-> 0]
  /\ missed = FALSE

-----------------------------------------------------------------------------
(* The clients.                                                            *)

ClientFrame ==
  UNCHANGED <<opts, clients, callVars, readVars, terminated, mail>>

\* connect(): the kernel completes the connection before it is accepted.
Connect(c) ==
  /\ call # "gone"
  /\ peer[c] = "new"
  /\ peer' = [peer EXCEPT ![c] = "open"]
  /\ backlog' = Append(backlog, c)
  /\ ClientFrame
  /\ UNCHANGED <<inbox, wrote>>

\* TcpClientTransport::write()
ClientWrites(c) ==
  /\ call # "gone"
  /\ peer[c] = "open"
  /\ \E n \in 1..(MaxBytes - wrote[c]) :
       /\ inbox' = [inbox EXCEPT ![c] = @ \o [i \in 1..n |-> <<c, wrote[c] + i>>]]
       /\ wrote' = [wrote EXCEPT ![c] = @ + n]
  /\ ClientFrame
  /\ UNCHANGED <<peer, backlog>>

\* ~TcpClientTransport(): closing a socket that holds bytes the server wrote
\* resets the connection.
ClientCloses(c) ==
  /\ peer[c] = "open"
  /\ \E end \in {"closed"} \cup (IF mail[c] > 0 THEN {"reset"} ELSE {}) :
       peer' = [peer EXCEPT ![c] = end]
  /\ ClientFrame
  /\ UNCHANGED <<backlog, inbox, wrote>>

-----------------------------------------------------------------------------
(* Helpers of the server.                                                  *)

\* The tracked clients whose sockets hold bytes, and the first of them.
Waiting == {i \in DOMAIN clients : inbox[clients[i]] # <<>>}

FirstWaiting == clients[CHOOSE i \in Waiting : \A j \in Waiting : i <= j]

\* in_waiting(): of the first client that has any.
InWaiting == IF Waiting = {} THEN 0 ELSE Len(inbox[FirstWaiting])

\* select() in wait_for_any_client(): end of file and reset count as well.
Readable == \E i \in DOMAIN clients : inbox[clients[i]] # <<>> \/ peer[clients[i]] # "open"

\* Mutant of AcceptClients: connections over the limit are accepted and
\* forgotten.
AcceptClientsDropping ==
  LET room == IF opts.limit > Len(clients) THEN opts.limit - Len(clients) ELSE 0
      n == IF opts.limit = 0 \/ Len(backlog) < room THEN Len(backlog) ELSE room
  IN  /\ clients' = clients \o SubSeq(backlog, 1, n)
      /\ backlog' = <<>>

\* accept_clients(): every connection up to the limit, which is tested only
\* after one has been accepted.
AcceptClients ==
  LET room == IF opts.limit > Len(clients) + 1 THEN opts.limit - Len(clients) ELSE 1
      n == IF opts.limit = 0 \/ Len(backlog) < room THEN Len(backlog) ELSE room
  IN  /\ clients' = clients \o SubSeq(backlog, 1, n)
      /\ backlog' = SubSeq(backlog, n + 1, Len(backlog))

-----------------------------------------------------------------------------
(* The server's reads.                                                     *)

ServerFrame == UNCHANGED <<opts, peer, terminated, wrote, mail>>

\* The bytes of client c among those of a chunk or of several.
From(c, bytes) ==
  LET kept[n \in 0..Len(bytes)] ==
        IF n = 0 THEN <<>>
        ELSE IF bytes[n][1] = c THEN Append(kept[n - 1], bytes[n])
        ELSE kept[n - 1]
  IN  kept[Len(bytes)]

\* A call returns the bytes `bytes`.
Finish(bytes) ==
  /\ call' = "idle"
  /\ inner' = FALSE
  /\ want' = 0
  /\ out' = <<>>
  /\ returned' = [c \in Clients |-> returned[c] \o From(c, bytes)]

\* read_all() returns without having found anything.
FinishEmpty ==
  /\ Finish(<<>>)
  /\ missed' = (missed \/ \E c \in Clients : inbox[c] # <<>>)

\* read_all() calls read() for what in_waiting() has counted.
ReadCounted ==
  /\ call' = "read"
  /\ inner' = TRUE
  /\ want' = InWaiting
  /\ UNCHANGED readVars

\* read_all() up to its select(), which covers tracked clients only.
ReadAll ==
  /\ call = "idle"
  /\ IF InWaiting > 0 THEN ReadCounted
     ELSE IF opts.blocking /\ clients # <<>>
     THEN call' = "select" /\ inner' = TRUE /\ UNCHANGED <<want, readVars>>
     ELSE FinishEmpty
  /\ ServerFrame
  /\ UNCHANGED <<backlog, clients, inbox>>

\* That select() returns; a client that is only at its end counts nothing.
SelectReturns ==
  /\ call = "select"
  /\ Readable \/ opts.timed
  /\ IF InWaiting > 0 THEN ReadCounted ELSE FinishEmpty
  /\ ServerFrame
  /\ UNCHANGED <<backlog, clients, inbox>>

\* read(n) is called.
Read(n) ==
  /\ call = "idle"
  /\ call' = "read"
  /\ want' = n
  /\ ServerFrame
  /\ UNCHANGED <<backlog, clients, inbox, inner, readVars>>

\* Mutant of ReadReturns: read_all() keeps only the last chunk.
ReadReturnsOverwriting(chunk) ==
  IF inner
  THEN IF chunk = <<>>
       THEN Finish(out)
       ELSE call' = "count" /\ out' = chunk /\ UNCHANGED <<inner, want, returned>>
  ELSE Finish(chunk)

\* read() returns to the API or to read_all(), which collects the chunks and
\* stops at an empty one.
ReadReturns(chunk) ==
  IF inner
  THEN IF chunk = <<>>
       THEN Finish(out)
       ELSE call' = "count" /\ out' = out \o chunk /\ UNCHANGED <<inner, want, returned>>
  ELSE Finish(chunk)

\* read() accepts first.
ReadAccepts ==
  /\ call = "read"
  /\ AcceptClients
  /\ IF clients' # <<>> \/ opts.blocking
     THEN /\ call' = IF clients' # <<>> THEN "wait" ELSE "accept"
          /\ UNCHANGED <<inner, want, out, returned>>
     ELSE ReadReturns(<<>>)
  /\ ServerFrame
  /\ UNCHANGED <<inbox, missed>>

\* accept_blocking(): the first client, or a timeout.
AcceptBlocking ==
  /\ call = "accept"
  /\ \/ /\ backlog # <<>>
        /\ AcceptClients
        /\ call' = "wait"
        /\ UNCHANGED <<inner, want, out, returned>>
     \/ /\ backlog = <<>> /\ opts.timed
        /\ ReadReturns(<<>>)
        /\ UNCHANGED <<backlog, clients>>
  /\ ServerFrame
  /\ UNCHANGED <<inbox, missed>>

\* The first client that has bytes gives up to want of them.
Chunk ==
  IF Waiting = {} THEN <<>>
  ELSE LET n == IF want < InWaiting THEN want ELSE InWaiting
       IN  SubSeq(inbox[FirstWaiting], 1, n)

\* Mutant of Receive: the buffer is not cut to what recv() has put in it.
ReceivePadded ==
  /\ call = "wait"
  /\ ~opts.blocking \/ Readable \/ opts.timed
  /\ ReadReturns(Chunk \o [i \in 1..(want - Len(Chunk)) |-> <<clients[1], 0>>])
  /\ inbox' = IF Waiting = {} THEN inbox
              ELSE [inbox EXCEPT ![FirstWaiting] = SubSeq(@, Len(Chunk) + 1, Len(@))]
  /\ ServerFrame
  /\ UNCHANGED <<backlog, clients, missed>>

\* Mutant of Receive: the timeout is not handed to select().
ReceiveUntimed ==
  /\ call = "wait"
  /\ ~opts.blocking \/ Readable
  /\ ReadReturns(Chunk)
  /\ inbox' = IF Waiting = {} THEN inbox
              ELSE [inbox EXCEPT ![FirstWaiting] = SubSeq(@, Len(Chunk) + 1, Len(@))]
  /\ ServerFrame
  /\ UNCHANGED <<backlog, clients, missed>>

\* Mutant of Receive: select() watches the first client only.
ReceiveFirstOnly ==
  /\ call = "wait"
  /\ ~opts.blocking \/ opts.timed
     \/ inbox[clients[1]] # <<>> \/ peer[clients[1]] # "open"
  /\ ReadReturns(Chunk)
  /\ inbox' = IF Waiting = {} THEN inbox
              ELSE [inbox EXCEPT ![FirstWaiting] = SubSeq(@, Len(Chunk) + 1, Len(@))]
  /\ ServerFrame
  /\ UNCHANGED <<backlog, clients, missed>>

\* The rest of read(): a blocking one waits for any tracked client.
Receive ==
  /\ call = "wait"
  /\ ~opts.blocking \/ Readable \/ opts.timed
  /\ ReadReturns(Chunk)
  /\ inbox' = IF Waiting = {} THEN inbox
              ELSE [inbox EXCEPT ![FirstWaiting] = SubSeq(@, Len(Chunk) + 1, Len(@))]
  /\ ServerFrame
  /\ UNCHANGED <<backlog, clients, missed>>

\* Mutant of CountAgain: in_waiting() is not asked again.
CountStale ==
  /\ call = "count"
  /\ call' = "read"
  /\ UNCHANGED <<inner, want, readVars>>
  /\ ServerFrame
  /\ UNCHANGED <<backlog, clients, inbox>>

\* read_all() asks in_waiting() whether to go on.
CountAgain ==
  /\ call = "count"
  /\ IF InWaiting > 0 THEN ReadCounted ELSE Finish(out) /\ UNCHANGED missed
  /\ ServerFrame
  /\ UNCHANGED <<backlog, clients, inbox>>

-----------------------------------------------------------------------------
(* The server's write() and destructor.                                    *)

\* write() visits the first k tracked clients and succeeds for those in
\* `reached`: a closed peer still takes one write, a reset one takes none, an
\* open one may have a full buffer.  It stops at max_connect successes.
Sends(k, reached) ==
  LET visited == {i \in DOMAIN clients' : i <= k} IN
  /\ reached \subseteq visited
  /\ \A i \in visited : peer[clients'[i]] = "closed" => i \in reached
  /\ \A i \in reached : peer[clients'[i]] # "reset"
  /\ opts.limit > 0 => Cardinality(reached) <= opts.limit
  /\ IF opts.limit > 0 /\ Cardinality(reached) = opts.limit
     THEN k \in reached
     ELSE k = Len(clients')

\* A peer that was closed may answer with a reset; a send to a reset peer
\* raises SIGPIPE.
Write ==
  /\ call = "idle"
  /\ AcceptClients
  /\ \E k \in 0..Len(clients'), reached \in SUBSET (DOMAIN clients') :
       LET sentTo == {clients'[i] : i \in reached}
           hit == \E i \in 1..k : peer[clients'[i]] = "reset"
       IN  /\ Sends(k, reached)
           /\ \A c \in sentTo : mail[c] < MaxWrites
           /\ mail' = [c \in Clients |-> IF c \in sentTo THEN mail[c] + 1 ELSE mail[c]]
           /\ \E late \in SUBSET {c \in sentTo : peer[c] = "closed"} :
                peer' = [c \in Clients |-> IF c \in late THEN "reset" ELSE peer[c]]
           /\ terminated' = (hit /\ ~SigpipeIgnored)
  /\ UNCHANGED <<opts, inbox, callVars, readVars, wrote>>

\* ~TcpServerTransport(): what its sockets hold is lost.
Destroy ==
  /\ call = "idle"
  /\ call' = "gone"
  /\ clients' = <<>>
  /\ backlog' = <<>>
  /\ inbox' = [c \in Clients |-> <<>>]
  /\ ServerFrame
  /\ UNCHANGED <<inner, want, readVars>>

-----------------------------------------------------------------------------
Continues == SelectReturns \/ ReadAccepts \/ AcceptBlocking \/ Receive \/ CountAgain

Next ==
  /\ ~terminated
  /\ \/ \E c \in Clients : Connect(c) \/ ClientWrites(c) \/ ClientCloses(c)
     \/ ReadAll
     \/ \E n \in 1..MaxRead : Read(n)
     \/ Continues
     \/ Write
     \/ Destroy

\* The thread is scheduled and timers fire.  No client has to do anything.
Spec == Init /\ [][Next]_vars /\ WF_vars(~terminated /\ Continues)

-----------------------------------------------------------------------------
(* Safety.                                                                 *)

\* A connection is held by the listening socket or tracked, exactly once,
\* whatever max_connect says: none is accepted and forgotten
\* (accept_clients, TCP.cpp:260-277).
EveryConnectionHeldOnce ==
  call # "gone" =>
    /\ IsInjective(backlog \o clients)
    /\ ToSet(backlog \o clients) = {c \in Clients : peer[c] # "new"}

\* Once read_all() has seen bytes, the reads in its loop find some: none of
\* them blocks or comes back empty, although each accepts new clients first
\* and clients close and reset meanwhile (TCP.cpp:188-195, 199-230).
InnerReadFinds == (inner /\ call \in {"read", "accept", "wait"}) => InWaiting > 0

\* What one write of a client may hand over.
Chunks == {[i \in 1..n |-> <<c, first + i>>] :
             c \in Clients, first \in 0..MaxBytes, n \in 1..MaxBytes}

Channel == INSTANCE ByteChannel WITH
  Channels <- Clients,
  accepted <- [c \in Clients |-> [i \in 1..wrote[c] |-> <<c, i>>]],
  delivered <- [c \in Clients |-> returned[c] \o From(c, out)]

\* The bytes of each client come out once and in order, whatever mixture of
\* read() and read_all() takes them and however clients are interleaved
\* (TCP.cpp:179-230).
ImplementsByteChannel == Channel!Spec

\* max_connect bounds the tracked clients (doc/usage.md:61): violated, as
\* accept_clients accepts one more on every call (TCP.cpp:260-277).
TrackedWithinLimit == opts.limit > 0 => Len(clients) <= opts.limit

\* A blocking read_all() that comes back empty leaves no connected client's
\* bytes waiting (test/tcp_test.cpp:22-26): violated, as read_all() never
\* accepts (TCP.cpp:179-187).
ReadAllMissesNothing == opts.blocking => ~missed

-----------------------------------------------------------------------------
(* Liveness.                                                               *)

Reading == call \notin {"idle", "gone"}

\* A read with a timeout, or one that may not block, returns
\* (TCP.cpp:179-230, 279-316).
BoundedReadReturns ==
  (opts.timed \/ ~opts.blocking) => (Reading ~> ~Reading)

\* A blocked read returns once any tracked client has bytes, not only the
\* first (wait_for_any_client, TCP.cpp:290-316).
ReaderGetsData == (Reading /\ Waiting # {}) ~> ~Reading
=============================================================================
