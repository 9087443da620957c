-------------------------------- MODULE Link --------------------------------
(***************************************************************************)
(* The transports that have neither a thread nor a lock: the loopback      *)
(* (src/src/UniTransmit.cpp), UDP (src/src/UDP.cpp), the TCP client        *)
(* (src/src/TCP.cpp) and the serial port (src/src/Serial.cpp).  One object *)
(* is opened from its options and read by one thread; `kind` says which.   *)
(*                                                                         *)
(* `rx` is what the kernel holds for the descriptor (for the loopback, its *)
(* vector): packets <<sender, bytes>>, a datagram each for UDP, one byte   *)
(* each for the others, which keep no boundaries.  Bytes are numbered in   *)
(* the order they arrive.  A step ends at a select(), between select() and *)
(* recv(), and between two rounds of read_all()'s loop.                    *)
(***************************************************************************)
EXTENDS Integers, Sequences, FiniteSets, SequencesExt

CONSTANTS
  Peers,       \* UDP addresses datagrams come from
  PortOf,      \* the port of each
  NoPeer,      \* no address
  Setups,      \* the ifnames considered: scheme, port and query values
  MaxBytes,    \* bound: number of bytes that ever arrive
  MaxPackets,  \* bound: datagrams the socket holds
  MaxRead      \* bound: largest argument of read(n)

\* A query value that is not given is the "" or the default of Options.
AllSetups ==
  [scheme : STRING, port : Nat, blocking : STRING, timeout_ms : Int,
   max_connect : Int, remote : Peers \cup {"", "malformed"}, broadcast : STRING]

ASSUME LinkAssumption ==
  /\ NoPeer \notin Peers
  /\ PortOf \in [Peers -> Nat]
  /\ Setups \subseteq AllSetups
  /\ MaxBytes \in Nat
  /\ MaxPackets \in Nat
  /\ MaxRead \in Nat

VARIABLES
  kind,       \* the transport make_transport() chose
  opts,       \* config_, fixed for the object's life; `broadcast` is the port
              \* broadcast_addr_ has, 0 without one, and `asked` a history: the
              \* max_connect of the ifname
  valid,      \* the descriptor was opened (and connected)
  rx,         \* packets the descriptor holds
  ended,      \* the other end has closed or the line has hung up
  pending,    \* UDP's pending_: the rest of a datagram
  lastPeer,   \* UDP's last_peer_
  peers,      \* UDP's peers_
  call,       \* where the reading thread is
  all,        \* is it inside read_all()
  want,       \* the max_bytes of the read under way
  out,        \* bytes read_all() has collected
  terminated, \* the process has been aborted
  sender,     \* history: the sender of each byte that has arrived
  returned,   \* history: bytes returned by reads, in order
  stolen,     \* history: bytes another thread has read
  due,        \* history: number of bytes that had arrived when the last
              \* read_all() was called
  lacking     \* history: those of them it has neither returned nor left to
              \* an earlier or another read

udpVars == <<pending, lastPeer, peers>>
callVars == <<call, all, want, out>>
vars == <<kind, opts, valid, rx, ended, udpVars, callVars, terminated,
          sender, returned, stolen, due, lacking>>

Bytes == 1..MaxBytes
Stream == kind \in {"tcp", "serial"}

TypeOK ==
  /\ kind \in {"loop", "udp", "tcp", "serial"}
  /\ opts \in [blocking : BOOLEAN, timed : BOOLEAN, limit : Nat \ {0}, asked : Int,
               remote : Peers \cup {NoPeer}, broadcast : Nat]
  /\ valid \in BOOLEAN
  /\ rx \in Seq((Peers \cup {NoPeer}) \X Seq(Bytes))
  /\ ended \in BOOLEAN
  /\ pending \in Seq(Bytes)
  /\ lastPeer \in Peers \cup {NoPeer}
  /\ peers \in Seq(Peers)
  /\ call \in {"idle", "select", "wait", "recv", "count", "gone"}
  /\ all \in BOOLEAN
  /\ want \in Nat
  /\ out \in Seq(Bytes)
  /\ terminated \in BOOLEAN
  /\ sender \in Seq(Peers \cup {NoPeer})
  /\ returned \in Seq(Bytes)
  /\ stolen \in SUBSET Bytes
  /\ due \in 0..MaxBytes
  /\ lacking \in SUBSET Bytes

-----------------------------------------------------------------------------
(* Construction.                                                           *)

\* make_transport(), for the schemes of this module and unknown ones.
MakeTransport(scheme) == IF scheme \in {"udp", "tcp", "serial"} THEN scheme ELSE "loop"

\* parse_endpoint(): a remote that cannot be parsed is as good as none.
ParseEndpoint(remote) == IF remote \in Peers THEN remote ELSE NoPeer

\* parse_options(); max_connect is taken only when positive, else it stays 1,
\* and broadcast needs the port, to which it goes.
ParseOptions(s) ==
  [blocking  |-> s.blocking \notin {"0", "false"},
   timed     |-> s.timeout_ms >= 0,
   limit     |-> IF s.max_connect > 0 THEN s.max_connect ELSE 1,
   asked     |-> s.max_connect,
   remote    |-> ParseEndpoint(s.remote),
   broadcast |-> IF s.broadcast \in {"1", "true"} THEN s.port ELSE 0]

\* The constructors.  Whatever fails in one leaves an invalid descriptor; that
\* bind() fails goes unnoticed.
LoopOpens == kind = "loop" /\ valid = TRUE
UdpOpens == kind = "udp" /\ valid \in BOOLEAN
ClientConnects == kind = "tcp" /\ valid \in BOOLEAN
SerialOpens == kind = "serial" /\ valid \in BOOLEAN

Init ==
  /\ \E s \in Setups : kind = MakeTransport(s.scheme) /\ opts = ParseOptions(s)
  /\ LoopOpens \/ UdpOpens \/ ClientConnects \/ SerialOpens
  /\ rx = <<>>
  /\ ended = FALSE
  /\ pending = <<>>
  /\ lastPeer = NoPeer
  /\ peers = <<>>
  /\ call = "idle"
  /\ all = FALSE
  /\ want = 0
  /\ out = <<>>
  /\ terminated = FALSE
  /\ sender = <<>>
  /\ returned = <<>>
  /\ stolen = {}
  /\ due = 0
  /\ lacking = {}

-----------------------------------------------------------------------------
(* The other end.                                                          *)

Arrived == Len(sender)

OutsideFrame ==
  UNCHANGED <<kind, opts, valid, udpVars, callVars, terminated, returned, due, lacking>>

\* A datagram of any length, zero included, from any peer.
DatagramArrives ==
  /\ kind = "udp" /\ valid
  /\ call # "gone"
  /\ Len(rx) < MaxPackets
  /\ \E p \in Peers, n \in 0..(MaxBytes - Arrived) :
       /\ rx' = Append(rx, <<p, [i \in 1..n |-> Arrived + i]>>)
       /\ sender' = sender \o [i \in 1..n |-> p]
  /\ OutsideFrame
  /\ UNCHANGED <<ended, stolen>>

\* Bytes from the connection or the line; for the loopback, its own write().
BytesArrive ==
  /\ kind # "udp" /\ valid /\ ~ended
  /\ call # "gone"
  /\ \E n \in 1..(MaxBytes - Arrived) :
       /\ rx' = rx \o [i \in 1..n |-> <<NoPeer, <<Arrived + i>>>>]
       /\ sender' = sender \o [i \in 1..n |-> NoPeer]
  /\ OutsideFrame
  /\ UNCHANGED <<ended, stolen>>

\* The peer closes or resets the connection, or the line hangs up.
Ends ==
  /\ Stream /\ valid /\ ~ended
  /\ call # "gone"
  /\ ended' = TRUE
  /\ OutsideFrame
  /\ UNCHANGED <<rx, sender, stolen>>

Taken(s, n) == IF n < Len(s) THEN SubSeq(s, 1, n) ELSE s
Rest(s, n) == IF n < Len(s) THEN SubSeq(s, n + 1, Len(s)) ELSE <<>>
Data(packets) == FlattenSeq([i \in DOMAIN packets |-> packets[i][2]])

\* Another thread (the receiver thread, or the caller beside it) reads the
\* same descriptor, of which these transports keep no copy of their own.
OtherReads ==
  /\ Stream
  /\ \E n \in 1..Len(rx) :
       /\ rx' = Rest(rx, n)
       /\ stolen' = stolen \cup ToSet(Data(Taken(rx, n)))
  /\ OutsideFrame
  /\ UNCHANGED <<ended, sender>>

-----------------------------------------------------------------------------
(* What the system calls tell.                                             *)

\* FIONREAD: of a UDP socket, the length of the next datagram; 0 on failure.
InWaiting ==
  IF rx = <<>> THEN 0 ELSE IF kind = "udp" THEN Len(rx[1][2]) ELSE Len(rx)

\* select(): an empty datagram and the end of a stream count as well.  An
\* invalid descriptor makes the first argument 0: nothing is watched.
Readable == rx # <<>> \/ ended

-----------------------------------------------------------------------------
(* Returning from read() and read_all().                                   *)

ReaderFrame == UNCHANGED <<kind, opts, valid, ended, sender, stolen>>

Return(bytes) ==
  /\ call' = "idle"
  /\ all' = FALSE
  /\ want' = 0
  /\ out' = <<>>
  /\ returned' = returned \o bytes

ReadAllReturns(bytes) ==
  /\ Return(bytes)
  /\ lacking' = (1..due') \ (ToSet(returned') \cup stolen)

\* Mutant of ReadReturns: read_all() keeps the last chunk only.
ReadReturnsLast(chunk) ==
  IF ~all THEN Return(chunk) /\ UNCHANGED lacking
  ELSE IF kind = "serial" THEN ReadAllReturns(chunk)
  ELSE IF chunk = <<>> THEN ReadAllReturns(out)
  ELSE /\ call' = "count" /\ out' = chunk
       /\ UNCHANGED <<all, want, returned, lacking>>

\* read() returns `chunk`, to the program or to read_all(): the serial port's
\* returns it as well, the others' collect until a chunk is empty.
ReadReturns(chunk) ==
  IF ~all THEN Return(chunk) /\ UNCHANGED lacking
  ELSE IF kind = "serial" THEN ReadAllReturns(chunk)
  ELSE IF chunk = <<>> THEN ReadAllReturns(out)
  ELSE /\ call' = "count" /\ out' = out \o chunk
       /\ UNCHANGED <<all, want, returned, lacking>>

-----------------------------------------------------------------------------
(* read(), read_all(), write() and the destructor.                         *)

\* read(n), once there is nothing in pending_.
StartRead(n) ==
  /\ call' = IF opts.blocking THEN "wait" ELSE "recv"
  /\ want' = n

Read(n) ==
  /\ call = "idle"
  /\ UNCHANGED <<lastPeer, peers, terminated, due, lacking>>
  /\ ReaderFrame
  /\ \/ /\ ~valid \/ n = 0
        /\ Return(<<>>)
        /\ UNCHANGED <<rx, pending>>
     \/ /\ kind = "loop" /\ n > 0
        /\ Return(Data(Taken(rx, n)))
        /\ rx' = Rest(rx, n)
        /\ UNCHANGED pending
     \/ /\ pending # <<>> /\ n > 0
        /\ Return(Taken(pending, n))
        /\ pending' = Rest(pending, n)
        /\ UNCHANGED rx
     \/ /\ valid /\ n > 0 /\ kind # "loop" /\ pending = <<>>
        /\ StartRead(n)
        /\ UNCHANGED <<rx, pending, all, out, returned>>

\* read_all() looks at FIONREAD and reads that much, or returns.
GoOn(collected) ==
  IF InWaiting = 0 THEN ReadAllReturns(collected)
  ELSE /\ StartRead(InWaiting)
       /\ all' = TRUE
       /\ out' = collected
       /\ UNCHANGED <<returned, lacking>>

\* Mutant of UdpReadAll: the rest of a datagram is left behind.
UdpReadAllLeavesPending ==
  /\ kind = "udp"
  /\ GoOn(<<>>)
  /\ UNCHANGED <<rx, pending>>

\* It never waits for a first datagram, whatever config_.blocking says.
UdpReadAll ==
  /\ kind = "udp"
  /\ GoOn(pending)
  /\ pending' = <<>>
  /\ UNCHANGED rx

StreamReadAll ==
  /\ Stream
  /\ IF InWaiting = 0 /\ opts.blocking
     THEN /\ call' = "select" /\ all' = TRUE
          /\ UNCHANGED <<want, out, returned, lacking>>
     ELSE GoOn(<<>>)
  /\ UNCHANGED <<rx, pending>>

LoopReadAll ==
  /\ kind = "loop"
  /\ ReadAllReturns(Data(rx))
  /\ rx' = <<>>
  /\ UNCHANGED pending

ReadAll ==
  /\ call = "idle"
  /\ due' = Arrived
  /\ UdpReadAll \/ StreamReadAll \/ LoopReadAll
  /\ ReaderFrame
  /\ UNCHANGED <<lastPeer, peers, terminated>>

\* wait_for_read() and wait_for_fd(), which select() on the descriptor.
Woken == valid /\ Readable
TimedOut == ~Woken /\ opts.timed

\* Mutant of SelectReturns: timeout_ms is not passed on.
SelectForever ==
  /\ call = "select"
  /\ ReaderFrame
  /\ UNCHANGED <<rx, udpVars, terminated, due>>
  /\ Woken /\ GoOn(<<>>)

SelectReturns ==
  /\ call = "select"
  /\ ReaderFrame
  /\ UNCHANGED <<rx, udpVars, terminated, due>>
  /\ \/ Woken /\ GoOn(<<>>)
     \/ TimedOut /\ ReadAllReturns(<<>>)

\* Mutant of WaitReturns: it waits until there is all that is wanted.
WaitForAll ==
  /\ call = "wait"
  /\ ReaderFrame
  /\ UNCHANGED <<rx, udpVars, terminated, due>>
  /\ \/ /\ Woken /\ (InWaiting >= want \/ ended)
        /\ call' = "recv"
        /\ UNCHANGED <<all, want, out, returned, lacking>>
     \/ TimedOut /\ ReadReturns(<<>>)

WaitReturns ==
  /\ call = "wait"
  /\ ReaderFrame
  /\ UNCHANGED <<rx, udpVars, terminated, due>>
  /\ \/ /\ Woken
        /\ call' = "recv"
        /\ UNCHANGED <<all, want, out, returned, lacking>>
     \/ TimedOut /\ ReadReturns(<<>>)

\* wait_for_read() of an invalid descriptor: FD_SET(-1) is undefined; a
\* fortified build stops, another waits for nothing (see TimedOut).
SelectAborts ==
  /\ call = "select" /\ ~valid
  /\ terminated' = TRUE
  /\ ReaderFrame
  /\ UNCHANGED <<rx, udpVars, callVars, returned, due, lacking>>

\* Mutants of AddPeer: no search; the newest goes.
AddPeerTwice(p) ==
  IF Len(peers) < opts.limit THEN Append(peers, p) ELSE Append(Tail(peers), p)
AddPeerDropsNewest(p) ==
  IF p \in ToSet(peers) \/ Len(peers) = opts.limit THEN peers ELSE Append(peers, p)

\* add_peer(): the oldest goes when there are more than max_connect.
AddPeer(p) ==
  IF p \in ToSet(peers) THEN peers
  ELSE IF Len(peers) < opts.limit THEN Append(peers, p)
  ELSE Append(Tail(peers), p)

\* Mutant of StreamRecv: the buffer keeps its size, so that what select()
\* promised and another thread took is made up.
StreamRecvPadded ==
  /\ Stream
  /\ rx' = Rest(rx, want)
  /\ ReadReturns([i \in 1..want |-> IF i <= Len(rx) THEN rx[i][2][1] ELSE 0])
  /\ UNCHANGED udpVars

\* ioctl() and recvfrom() with a buffer of the size it gave.  A datagram of
\* no bytes is not received: it stays at the head.
UdpRecv ==
  /\ kind = "udp"
  /\ IF InWaiting = 0 THEN ReadReturns(<<>>) /\ UNCHANGED <<rx, udpVars>>
     ELSE LET from == rx[1][1]
              data == rx[1][2]
          IN  /\ rx' = Tail(rx)
              /\ lastPeer' = from
              /\ peers' = IF opts.limit # 1 THEN AddPeer(from) ELSE peers
              /\ pending' = Rest(data, want)
              /\ ReadReturns(Taken(data, want))

StreamRecv ==
  /\ Stream
  /\ rx' = Rest(rx, want)
  /\ ReadReturns(Data(Taken(rx, want)))
  /\ UNCHANGED udpVars

Recv ==
  /\ call = "recv"
  /\ ReaderFrame
  /\ UNCHANGED <<terminated, due>>
  /\ UdpRecv \/ StreamRecv

\* read_all()'s loop condition, after a chunk.
Count ==
  /\ call = "count"
  /\ ReaderFrame
  /\ UNCHANGED <<rx, udpVars, terminated, due>>
  /\ GoOn(out)

\* The peers a datagram of UdpTransport::write() gets to: has_remote_,
\* has_broadcast_ (of 255.255.255.255:port, the sockets that have that port),
\* the table, whose loop the count of `remaining` peers never cuts short (see
\* PeersWithinLimit), or has_last_peer_.
Recipients ==
  IF opts.remote # NoPeer THEN {opts.remote}
  ELSE IF opts.broadcast # 0 THEN {p \in Peers : PortOf[p] = opts.broadcast}
  ELSE IF opts.limit # 1 THEN ToSet(peers)
  ELSE {lastPeer} \ {NoPeer}

Destroy ==
  /\ call = "idle"
  /\ call' = "gone"
  /\ rx' = <<>>
  /\ pending' = <<>>
  /\ ReaderFrame
  /\ UNCHANGED <<lastPeer, peers, all, want, out, terminated, returned, due, lacking>>

Outside == DatagramArrives \/ BytesArrive \/ Ends \/ OtherReads
Begins == ReadAll \/ Destroy \/ \E n \in 0..MaxRead : Read(n)
Continues == SelectReturns \/ WaitReturns \/ Recv \/ Count

Next ==
  /\ ~terminated
  /\ Outside \/ Begins \/ Continues \/ SelectAborts

\* select() returns once the descriptor is readable or its timeout is over.
Fairness == WF_vars(~terminated /\ Continues)

Spec == Init /\ [][Next]_vars /\ Fairness

-----------------------------------------------------------------------------
(* Properties.                                                             *)

\* Every byte is handed out once and in order: what has been returned, what
\* a read_all() under way holds, the rest of a datagram and what the kernel
\* holds are together the bytes that arrived, but for those another thread
\* has read.
Unread == returned \o out \o pending \o Data(rx)
EachByteOnceInOrder ==
  call # "gone" =>
    /\ \A i, j \in DOMAIN Unread : i < j => Unread[i] < Unread[j]
    /\ ToSet(Unread) = (1..Arrived) \ stolen

\* A datagram of no bytes at the head of the queue is never taken off it.
Wedged == kind = "udp" /\ rx # <<>> /\ rx[1][2] = <<>>

\* "reads all available data" (doc/usage.md:112): when read_all() returns it has
\* taken every byte that had arrived when it was called, over however many
\* datagrams, and the rest of one, unless an empty datagram is in the way.
ReadAllTakesAll == call # "gone" /\ lacking # {} => Wedged

\* A program that answers what it has read answers whoever sent it, however
\* the datagrams of several peers and the reads of their parts are mixed, and
\* whichever peers the table has forgotten; except that a configured
\* destination takes the answer from it: a remote, or a broadcast address
\* whose port is not its own (doc/usage.md:62-63).
Speaker == IF returned \o out = <<>> THEN NoPeer ELSE sender[Last(returned \o out)]
ReplyReachesSpeaker ==
  kind = "udp" /\ Speaker # NoPeer /\ opts.remote = NoPeer =>
    Speaker \in Recipients \/ opts.broadcast \notin {0, PortOf[Speaker]}

\* The peer table never holds an address twice, so that a write reaches each
\* peer of it once, nor more addresses than the ifname allows: "max tracked
\* clients/peers; 1 by default, 0 = unlimited" (doc/usage.md:61).  Of a
\* max_connect of 0 it says nothing, as there is no limit to keep; the code
\* remembers one peer then (Protocol.cpp:135).
PeersWithinLimit ==
  IsInjective(peers) /\ (opts.asked > 0 => Len(peers) <= opts.asked)

\* With a timeout, or without blocking, read() and read_all() return, also
\* from a descriptor that could not be opened and although another thread
\* takes the bytes it was woken for.
BoundedReadReturns ==
  (opts.timed \/ ~opts.blocking) /\ call # "idle" ~> call \in {"idle", "gone"} \/ terminated

\* A byte at the head of the queue of a waiting read() or read_all() is
\* returned by it, without waiting for another; unless another thread reads
\* as well, or the byte is behind an empty datagram.
WaitingReadReturns ==
  \A b \in Bytes :
    (call \in {"select", "wait"} /\ Data(rx) # <<>> /\ Head(Data(rx)) = b)
      ~> (b \in ToSet(returned) \/ stolen # {} \/ Wedged)
=============================================================================
