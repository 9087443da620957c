---------------------------- MODULE MqttProofs ----------------------------
(***************************************************************************)
(* Proofs about the MQTT transport, for any options, number of bytes and   *)
(* length of the connection to the broker.                                 *)
(***************************************************************************)
EXTENDS Mqtt, SequenceLemmas

-----------------------------------------------------------------------------
(* The invariant.                                                          *)

\* What the broker may have put on the wire.
Messages ==
  {[i \in 1..n |-> first + i] : first \in 0..MaxBytes, n \in 0..MaxBytes}
    \cap Seq(Bytes)

Packets == Answers \cup {Other} \cup {<<"publish", m>> : m \in Messages}

WireHoldsPackets ==
  /\ wire \in Seq(Packets)
  /\ receiver = "enqueue" => message \in Messages \ {<<>>}

\* How far the handshake has come, and that a connected client has finished it
\* and may still say goodbye.
Constructing == {"new", "await", "subscribe"}

SessionSoFar ==
  /\ owner \in Constructing =>
       ~connected /\ receiver = "none" /\ (accepted <=> owner = "subscribe")
  /\ owner = "new" => sent = <<>>
  /\ owner \in {"await", "subscribe"} => sent = <<"CONNECT">>
  /\ owner = "subscribe" => opts.subscribes
  /\ connected => accepted /\ sent # <<>> /\ (opts.subscribes => Len(sent) > 1)
  /\ owner \notin {"closing", "joining", "gone"} =>
       \A i \in DOMAIN sent : sent[i] # "DISCONNECT"

\* A reader that holds the mutex has seen an empty queue.
TestedQueueIsEmpty == reader = "tested" => queue = <<>>

\* What was queued has been read or is queued still.
LogIsTakenAndQueue == log = taken \o queue

Typed == TypeOK /\ WireHoldsPackets
Session == SessionSoFar /\ SessionIsWellFormed /\ ReadyIsReceiving
Queued == TestedQueueIsEmpty /\ NoLostWakeup /\ LogIsTakenAndQueue

Inv == Typed /\ Session /\ Queued

USE MqttAssumption DEF MqttAssumption

-----------------------------------------------------------------------------
(* Packets and reads.                                                      *)

\* A message that is not empty is a chunk of the abstract channel.
LEMMA MessageType ==
  ASSUME NEW m \in Messages
  PROVE  m \in Seq(Bytes) /\ (m # <<>> => m \in Chunks)
<1>1. PICK first \in 0..MaxBytes, n \in 0..MaxBytes :
        m = [i \in 1..n |-> first + i]
  BY DEF Messages
<1>2. CASE n = 0
  <2>1. Len(m) = 0
    BY <1>1, <1>2
  <2>2. m \in Seq(Bytes) /\ m = <<>>
    BY <2>1, EmptySeq DEF Messages
  <2>3. QED
    BY <2>2
<1>3. CASE n # 0
  <2>1. n \in 1..MaxBytes
    BY <1>3
  <2>2. QED
    <3>1. m \in Chunks
      <4>1. \E f \in 0..MaxBytes, k \in 1..MaxBytes : m = [i \in 1..k |-> f + i]
        BY <1>1, <2>1
      <4>2. QED
        BY <4>1 DEF Chunks
    <3>2. m \in Seq(Bytes)
      BY DEF Messages
    <3>3. QED
      BY <3>1, <3>2
<1>4. QED
  BY <1>2, <1>3

\* A packet is an answer, one to be ignored, or a PUBLISH with a message.
LEMMA PacketType ==
  ASSUME NEW p \in Packets
  PROVE  /\ p \in Answers \cup {Other} \/ IsPublish(p)
         /\ IsPublish(p) => p[2] \in Messages
<1>1. CASE p \in Answers \cup {Other}
  <2>1. p[1] = "connack" \/ p[1] = "other"
    <3>1. CASE p = <<"connack", TRUE>>
      BY <3>1
    <3>2. CASE p = <<"connack", FALSE>>
      BY <3>2
    <3>3. CASE p = <<"other">>
      BY <3>3
    <3>4. QED
      BY <1>1, <3>1, <3>2, <3>3 DEF Answers, Other
  <2>2. QED
    BY <1>1, <2>1 DEF IsPublish
<1>2. CASE \E m \in Messages : p = <<"publish", m>>
  BY <1>2 DEF IsPublish
<1>3. QED
  BY <1>1, <1>2 DEF Packets

\* The same for every packet on the wire.
LEMMA WireType ==
  ASSUME NEW w \in Seq(Packets)
  PROVE  \A i \in DOMAIN w : w[i] \in Answers \cup {Other} \/ IsPublish(w[i])
BY PacketType

\* A PUBLISH of the bytes that follow those published before is a packet.
LEMMA PublishType ==
  ASSUME published \in 0..MaxBytes, NEW n \in 0..(MaxBytes - published)
  PROVE  Publish(published, n) \in Packets
<1> DEFINE m == [i \in 1..n |-> published + i]
<1>1. n \in 0..MaxBytes
  OBVIOUS
<1>2. \A i \in 1..n : published + i \in Bytes
  BY DEF Bytes
<1>3. m \in Seq(Bytes)
  BY <1>1, <1>2
<1>4. m \in Messages
  BY <1>1, <1>3 DEF Messages
<1>5. QED
  BY <1>4 DEF Publish, Packets

\* take_bytes() moves the front of the queue to what has been read.
LEMMA TakeStep ==
  ASSUME TypeOK, LogIsTakenAndQueue, NEW w \in {0, 1}, Take(w), log' = log
  PROVE  /\ queue' \in Seq(Bytes) /\ taken' \in Seq(Bytes)
         /\ LogIsTakenAndQueue'
         /\ \/ UNCHANGED <<queue, taken>>
            \/ \E n \in (Len(taken) + 1)..Len(log) : taken' = SubSeq(log, 1, n)
<1>1. /\ queue \in Seq(Bytes) /\ taken \in Seq(Bytes) /\ Len(queue) \in Nat
      /\ log = taken \o queue
  BY LenProperties DEF TypeOK, LogIsTakenAndQueue
<1>2. PICK n \in 0..Len(queue) :
        /\ taken' = taken \o SubSeq(queue, 1, n)
        /\ queue' = SubSeq(queue, n + 1, Len(queue))
  <2>1. PICK n : n = IF w = 0 \/ w > Len(queue) THEN Len(queue) ELSE w
    OBVIOUS
  <2>2. n \in 0..Len(queue)
    BY <1>1, <2>1
  <2>3. taken' = taken \o SubSeq(queue, 1, n) /\ queue' = SubSeq(queue, n + 1, Len(queue))
    BY <2>1, Zenon DEF Take
  <2>4. QED
    BY <2>2, <2>3
<1>3. CASE n = 0
  <2>1. SubSeq(queue, 1, n) = <<>> /\ SubSeq(queue, n + 1, Len(queue)) = queue
    BY <1>1, <1>3, SubSeqEmpty, SubSeqFull
  <2>2. taken \o <<>> = taken
    BY <1>1, ConcatEmptySeq
  <2>3. UNCHANGED <<queue, taken>>
    BY <1>2, <2>1, <2>2
  <2>4. QED
    BY <1>1, <2>3 DEF LogIsTakenAndQueue
<1>4. CASE n # 0
  <2>1. n \in 1..Len(queue)
    BY <1>4
  <2>2. PICK front \in Seq(Bytes), rest \in Seq(Bytes) :
          /\ front = taken \o SubSeq(queue, 1, n)
          /\ rest = SubSeq(queue, n + 1, Len(queue))
          /\ taken \o queue = front \o rest
          /\ front = SubSeq(taken \o queue, 1, Len(taken) + n)
          /\ Len(taken) + n \in (Len(taken) + 1)..Len(taken \o queue)
    BY <1>1, <2>1, ReadSplits
  <2>3. taken' = front /\ queue' = rest
    BY <1>2, <2>2
  <2>4. QED
    BY <1>1, <2>2, <2>3 DEF LogIsTakenAndQueue
<1>5. QED
  BY <1>3, <1>4

-----------------------------------------------------------------------------
(* Types, and what is on the wire.                                         *)

\* Taking a packet off the wire, or putting one behind the others.
LEMMA WireSteps ==
  ASSUME wire \in Seq(Packets)
  PROVE  /\ wire # <<>> => Head(wire) \in Packets /\ Tail(wire) \in Seq(Packets)
         /\ \A p \in Packets : Append(wire, p) \in Seq(Packets)
         /\ \A p \in Packets : <<p>> \in Seq(Packets)
         /\ <<>> \in Seq(Packets)
BY HeadTailProperties, AppendProperties, EmptySeq

\* The owner's steps: constructor, write() and destructor.
LEMMA OwnerType ==
  ASSUME Typed, Constructs \/ Write \/ Destroy \/ Destructs
  PROVE  Typed'
<1> USE DEF Typed, TypeOK, WireHoldsPackets, connVars, recvVars, readVars, queueVars,
            brokerVars
<1>1. \A p \in {"CONNECT", "SUBSCRIBE", "PUBLISH", "DISCONNECT"} :
        Append(sent, p) \in Seq({"CONNECT", "SUBSCRIBE", "PUBLISH", "DISCONNECT"})
  BY AppendProperties
<1>2. wire # <<>> => Tail(wire) \in Seq(Packets)
  BY WireSteps
<1> DEFINE Written ==
             /\ owner' \in {"new", "await", "subscribe", "open", "failed",
                            "stopping", "closing", "joining", "gone"}
             /\ connected' \in BOOLEAN /\ stop' \in BOOLEAN /\ sock' \in BOOLEAN
             /\ receiver' \in {receiver, "check"}
             /\ link' \in {link, "up"}
             /\ accepted' \in BOOLEAN
             /\ sent' \in Seq({"CONNECT", "SUBSCRIBE", "PUBLISH", "DISCONNECT"})
           Kept == UNCHANGED <<opts, message, readVars, queueVars, published>>
<1>3. Written /\ Kept /\ UNCHANGED wire => Typed'
  OBVIOUS
<1>4. CASE ReceiveConnack
  <2>1. wire' \in Seq(Packets)
    BY <1>2, <1>4 DEF ReceiveConnack
  <2>2. \A i \in DOMAIN wire' : wire'[i] \in Answers \cup {Other} \/ IsPublish(wire'[i])
    BY <2>1, WireType
  <2>3. Written /\ Kept
    BY <1>4 DEF ReceiveConnack, Open, Fail
  <2>4. QED
    BY <2>1, <2>2, <2>3
<1>5. ~ReceiveConnack => Written /\ Kept /\ UNCHANGED wire
  <2>1. CASE Connect
    BY <1>1, <2>1 DEF Connect
  <2>2. CASE ConnackFails
    BY <2>2 DEF ConnackFails, Fail
  <2>3. CASE Subscribe
    BY <1>1, <2>3 DEF Subscribe, SendSucceeds, SendFails, Open, Fail
  <2>4. CASE Write
    BY <1>1, <2>4 DEF Write, SendSucceeds, SendFails
  <2>5. CASE Destroy
    BY <2>5 DEF Destroy
  <2>6. CASE Disconnect
    BY <1>1, <2>6 DEF Disconnect, SendSucceeds, SendFails
  <2>7. CASE CloseSocket
    BY <2>7 DEF CloseSocket
  <2>8. CASE JoinReceiver
    BY <2>8 DEF JoinReceiver
  <2>9. QED
    BY <2>1, <2>2, <2>3, <2>4, <2>5, <2>6, <2>7, <2>8 DEF Constructs, Destructs
<1>6. QED
  BY <1>3, <1>4, <1>5

\* The steps of receiver_loop().
LEMMA ReceiverType ==
  ASSUME Typed, Receives
  PROVE  Typed'
<1> USE DEF Typed, TypeOK, WireHoldsPackets, ReceiverFrame
<1>1. CASE CheckLoop
  BY <1>1 DEF CheckLoop
<1>2. CASE Receive
  <2>1. wire' \in Seq(Packets)
    BY <1>2, WireSteps DEF Receive
  <2>2. \A i \in DOMAIN wire' : wire'[i] \in Answers \cup {Other} \/ IsPublish(wire'[i])
    BY <2>1, WireType
  <2>3. receiver' \in {"enqueue", "check", "ending"} /\
        (receiver' = "enqueue" => message' \in Messages \ {<<>>}) /\
        (receiver' # "enqueue" => message' = message)
    <3>1. wire # <<>> /\ IsPublish(Head(wire)) => Head(wire)[2] \in Messages
      BY WireSteps, PacketType
    <3>2. QED
      BY <1>2, <3>1 DEF Receive
  <2>4. message' \in Seq(Bytes)
    BY <2>3, MessageType
  <2>5. UNCHANGED <<opts, owner, stop, sock, want, taken, link, published,
                    accepted, sent, connected, queue, log, reader>>
    BY <1>2 DEF Receive
  <2>6. QED
    BY <2>1, <2>2, <2>3, <2>4, <2>5
<1>3. CASE Enqueue
  <2>1. queue \o message \in Seq(Bytes) /\ log \o message \in Seq(Bytes)
          /\ <<>> \in Seq(Bytes)
    BY ConcatProperties, EmptySeq
  <2>2. QED
    BY <1>3, <2>1 DEF Enqueue
<1>4. CASE NotifyReader
  BY <1>4 DEF NotifyReader
<1>5. CASE EndLoop
  <2>1. /\ receiver' = "waking"
        /\ UNCHANGED <<opts, owner, stop, sock, message, queue, log, reader, want, link,
                       wire, published, accepted, sent, taken>>
    BY <1>5 DEF EndLoop
  <2>2. connected' \in BOOLEAN
    BY <1>5 DEF EndLoop
  <2>3. QED
    BY <2>1, <2>2
<1>6. QED
  BY <1>1, <1>2, <1>3, <1>4, <1>5 DEF Receives

\* A signal that interrupts a select().
LEMMA InterruptedType ==
  ASSUME Typed, Interrupted
  PROVE  Typed'
<1>1. /\ UNCHANGED <<opts, connected, stop, message, want, reader, queue, log, taken>>
      /\ UNCHANGED <<link, wire, published, accepted, sent>>
  BY DEF Interrupted, readVars, queueVars, brokerVars
<1>2. (owner' = owner /\ sock' = sock) \/ (owner' = "failed" /\ sock' = FALSE)
  BY DEF Interrupted, Fail
<1>3. receiver' = receiver \/ receiver' = "ending"
  BY DEF Interrupted
<1>4. /\ owner' \in {"new", "await", "subscribe", "open", "failed",
                    "stopping", "closing", "joining", "gone"}
      /\ sock' \in BOOLEAN
  BY <1>2 DEF Typed, TypeOK
<1>5. receiver' \in {"none", "check", "enter", "blocked", "enqueue", "notify",
                    "ending", "waking", "done"}
  BY <1>3 DEF Typed, TypeOK
<1>6. \A i \in DOMAIN wire' : wire'[i] \in Answers \cup {Other} \/ IsPublish(wire'[i])
  BY <1>1, Zenon DEF Typed, TypeOK
<1>7. TypeOK'
  BY <1>1, <1>4, <1>5, <1>6, Zenon DEF Typed, TypeOK
<1>8. WireHoldsPackets'
  BY <1>1, <1>3 DEF Typed, WireHoldsPackets
<1>9. QED
  BY <1>7, <1>8 DEF Typed

\* The steps of a reader and of its timer.
Reads ==
  \/ \E w \in {0, 1} : ReadNow(w) \/ ReadTests(w)
  \/ ReadContinues \/ Timeout \/ SpuriousWake

\* A read takes from the queue, or changes nothing but the reader's place.
LEMMA ReaderSteps ==
  ASSUME TypeOK, Reads
  PROVE  /\ UNCHANGED <<opts, owner, connVars, recvVars, log, brokerVars, accepted, sent>>
         /\ reader' \in {"idle", "tested", "asleep", "woken"}
         /\ want' \in {0, 1}
         /\ \/ reader' = "idle" /\ \E w \in {0, 1} : Take(w)
            \/ /\ UNCHANGED <<queue, taken>>
               /\ reader' = "asleep" => reader = "tested"
               /\ reader' = "tested" => queue = <<>>
<1> USE DEF ReaderFrame, readVars, TypeOK
<1>1. CASE \E w \in {0, 1} : ReadNow(w)
  BY <1>1 DEF ReadNow
<1>2. CASE \E w \in {0, 1} : ReadTests(w)
  BY <1>2 DEF ReadTests
<1>3. CASE ReadSleeps
  BY <1>3 DEF ReadSleeps
<1>4. CASE Retest
  BY <1>4 DEF Retest, ReadReturns
<1>5. CASE Timeout
  BY <1>5 DEF Timeout, ReadReturns
<1>6. CASE SpuriousWake
  BY <1>6 DEF SpuriousWake
<1>7. QED
  BY <1>1, <1>2, <1>3, <1>4, <1>5, <1>6 DEF Reads, ReadContinues

\* The steps of a reader; what it takes is taken from the front of the queue.
LEMMA ReaderType ==
  ASSUME Typed, LogIsTakenAndQueue, Reads
  PROVE  Typed'
<1> USE DEF Typed, TypeOK, WireHoldsPackets, connVars, recvVars, brokerVars
<1>1. /\ UNCHANGED <<opts, owner, connVars, recvVars, log, brokerVars, accepted, sent>>
      /\ reader' \in {"idle", "tested", "asleep", "woken"}
      /\ want' \in {0, 1}
      /\ (\E w \in {0, 1} : Take(w)) \/ UNCHANGED <<queue, taken>>
  BY ReaderSteps
<1>2. queue' \in Seq(Bytes) /\ taken' \in Seq(Bytes)
  BY <1>1, TakeStep
<1>3. QED
  BY <1>1, <1>2

\* The steps of the broker.
BrokerSteps == BrokerAnswers \/ BrokerPublishes \/ BrokerSendsOther \/ BrokerCloses

\* What the broker does changes only the connection.
LEMMA BrokerType ==
  ASSUME Typed, BrokerSteps
  PROVE  Typed'
<1> USE DEF Typed, TypeOK, WireHoldsPackets, connVars, recvVars, readVars, queueVars,
            BrokerFrame
<1>1. UNCHANGED <<opts, owner, connVars, recvVars, readVars, queueVars, accepted, sent>>
  BY DEF BrokerSteps, BrokerAnswers, BrokerPublishes, BrokerSendsOther, BrokerCloses
<1>2. Answers \subseteq Packets /\ Other \in Packets
  BY DEF Packets
<1>3. /\ wire' \in Seq(Packets) /\ published' \in 0..MaxBytes
      /\ link' \in {"none", "up", "down"}
  <2>1. CASE BrokerAnswers
    BY <1>2, <2>1, WireSteps DEF BrokerAnswers
  <2>2. CASE BrokerPublishes
    BY <2>2, WireSteps, PublishType DEF BrokerPublishes
  <2>3. CASE BrokerSendsOther
    BY <1>2, <2>3, WireSteps DEF BrokerSendsOther
  <2>4. CASE BrokerCloses
    BY <2>4, WireSteps DEF BrokerCloses
  <2>5. QED
    BY <2>1, <2>2, <2>3, <2>4 DEF BrokerSteps
<1>4. \A i \in DOMAIN wire' : wire'[i] \in Answers \cup {Other} \/ IsPublish(wire'[i])
  BY <1>3, WireType
<1>5. QED
  BY <1>1, <1>3, <1>4

-----------------------------------------------------------------------------
(* The session.                                                            *)

\* One packet more: the session stays well formed if the packet is in its
\* place and nothing follows a DISCONNECT.
LEMMA SendKeepsSession ==
  ASSUME TypeOK, SessionIsWellFormed, sent # <<>>, accepted',
         \A i \in DOMAIN sent : sent[i] # "DISCONNECT",
         NEW p \in {"SUBSCRIBE", "PUBLISH", "DISCONNECT"},
         p = "SUBSCRIBE" <=> opts.subscribes /\ Len(sent) = 1,
         sent' = Append(sent, p), opts' = opts
  PROVE  SessionIsWellFormed' /\ sent' # <<>> /\ Len(sent') = Len(sent) + 1
<1>1. /\ Len(sent) \in Nat /\ Len(sent) # 0 /\ DOMAIN sent = 1..Len(sent)
      /\ Len(sent') = Len(sent) + 1 /\ DOMAIN sent' = 1..(Len(sent) + 1)
      /\ \A i \in 1..Len(sent) : sent'[i] = sent[i]
      /\ sent'[Len(sent) + 1] = p
  BY AppendProperties, LenProperties, EmptySeq DEF TypeOK
<1>2. ASSUME NEW i \in 1..Len(sent)
      PROVE  /\ sent'[i] = "CONNECT" <=> i = 1
             /\ sent'[i] = "SUBSCRIBE" <=> opts.subscribes /\ i = 2
             /\ sent'[i] = "DISCONNECT" => i = Len(sent')
  BY <1>1 DEF SessionIsWellFormed
<1>3. ASSUME NEW i, i = Len(sent) + 1
      PROVE  /\ sent'[i] = "CONNECT" <=> i = 1
             /\ sent'[i] = "SUBSCRIBE" <=> opts.subscribes /\ i = 2
             /\ sent'[i] = "DISCONNECT" => i = Len(sent')
  BY <1>1, <1>3
<1>4. \A i \in DOMAIN sent' :
             /\ sent'[i] = "CONNECT" <=> i = 1
             /\ sent'[i] = "SUBSCRIBE" <=> opts'.subscribes /\ i = 2
             /\ sent'[i] = "DISCONNECT" => i = Len(sent')
  BY <1>1, <1>2, <1>3
<1>5. sent' # <<>>
  BY <1>1, EmptySeq
<1>6. QED
  BY <1>1, <1>4, <1>5 DEF SessionIsWellFormed

\* Steps that send nothing and leave the constructor where it is.
QuietStep ==
  /\ UNCHANGED <<opts, sent, accepted>>
  /\ connected' => connected
  /\ \/ receiver' = receiver
     \/ receiver # "none" /\ receiver' \notin {"none", "waking", "done"}
     \/ receiver # "none" /\ ~connected'
  /\ \/ owner' = owner
     \/ owner \notin {"closing", "joining", "gone"} /\ owner' \notin Constructing
     \/ owner' \in {"closing", "joining", "gone"}

\* A step that sends nothing keeps the session well formed.
LEMMA QuietSession ==
  ASSUME Session, QuietStep
  PROVE  Session'
<1> USE DEF QuietStep, Session, SessionSoFar, Constructing, ReadyIsReceiving
<1>1. SessionIsWellFormed'
  BY DEF SessionIsWellFormed
<1>2. SessionSoFar'
  OBVIOUS
<1>3. ReadyIsReceiving'
  OBVIOUS
<1>4. QED
  BY <1>1, <1>2, <1>3

\* The handshake keeps it too: each packet is sent in its place.
LEMMA ConstructorSession ==
  ASSUME TypeOK, Session, Constructs
  PROVE  Session'
<1> USE DEF connVars, recvVars, readVars, queueVars, brokerVars
<1>1. CASE Connect /\ owner' = "await"
  <2>1. /\ owner = "new" /\ sent' = Append(sent, "CONNECT")
        /\ UNCHANGED <<opts, connected, receiver, accepted>>
    BY <1>1 DEF Connect
  <2>2. sent = <<>> /\ ~connected /\ receiver = "none" /\ ~accepted
    BY <2>1 DEF Session, SessionSoFar, Constructing
  <2>3. sent' = <<"CONNECT">>
    BY <2>1, <2>2
  <2>4. Len(sent') = 1 /\ DOMAIN sent' = {1} /\ sent'[1] = "CONNECT"
    BY <2>3
  <2>5. SessionIsWellFormed'
    BY <2>4 DEF SessionIsWellFormed
  <2>6. SessionSoFar'
    BY <1>1, <2>1, <2>2, <2>3, <2>4 DEF SessionSoFar, Constructing
  <2>7. ReadyIsReceiving'
    BY <2>1, <2>2 DEF ReadyIsReceiving
  <2>8. QED
    BY <2>5, <2>6, <2>7 DEF Session
<1>2. CASE owner' = "failed"
  <2>1. /\ owner \in Constructing
        /\ UNCHANGED <<opts, sent, accepted, connected, receiver>>
    BY <1>2 DEF Constructs, Connect, ReceiveConnack, ConnackFails, Subscribe,
                SendFails, SendSucceeds, Open, Constructing
  <2>2. QED
    <3>1. QuietStep
      BY <1>2, <2>1 DEF Constructing, QuietStep
    <3>2. QED
      BY <3>1, QuietSession
<1>3. CASE ReceiveConnack /\ owner' # "failed"
  <2>1. /\ owner = "await" /\ accepted' = TRUE /\ UNCHANGED <<opts, sent>>
        /\ \/ opts.subscribes /\ owner' = "subscribe" /\ UNCHANGED <<connected, receiver>>
           \/ ~opts.subscribes /\ owner' = "open" /\ connected' = TRUE /\ receiver' = "check"
    BY <1>3 DEF ReceiveConnack, Fail, Open
  <2>2. sent = <<"CONNECT">> /\ ~connected /\ receiver = "none"
    BY <2>1 DEF Session, SessionSoFar, Constructing
  <2>3. Len(sent) = 1 /\ sent # <<>> /\ \A i \in DOMAIN sent : sent[i] # "DISCONNECT"
    BY <2>2
  <2>4. SessionIsWellFormed'
    BY <2>1 DEF Session, SessionIsWellFormed
  <2>5. SessionSoFar'
    BY <2>1, <2>2, <2>3 DEF SessionSoFar, Constructing
  <2>6. ReadyIsReceiving'
    BY <2>1, <2>2 DEF ReadyIsReceiving
  <2>7. QED
    BY <2>4, <2>5, <2>6 DEF Session
<1>4. CASE Subscribe /\ owner' # "failed"
  <2>1. /\ owner = "subscribe" /\ sent' = Append(sent, "SUBSCRIBE")
        /\ owner' = "open" /\ connected' = TRUE /\ receiver' = "check"
        /\ UNCHANGED <<opts, accepted>>
    BY <1>4 DEF Subscribe, SendSucceeds, SendFails, Fail, Open
  <2>2. sent = <<"CONNECT">> /\ accepted /\ opts.subscribes
    BY <2>1 DEF Session, SessionSoFar, Constructing
  <2>3. Len(sent) = 1 /\ sent # <<>> /\ \A i \in DOMAIN sent : sent[i] # "DISCONNECT"
    BY <2>2
  <2>4. SessionIsWellFormed' /\ sent' # <<>> /\ Len(sent') = Len(sent) + 1
    BY <2>1, <2>2, <2>3, SendKeepsSession DEF Session
  <2>5. \A i \in DOMAIN sent' : sent'[i] # "DISCONNECT"
    <3>1. /\ DOMAIN sent' = 1..(Len(sent) + 1) /\ DOMAIN sent = 1..Len(sent)
          /\ \A i \in 1..Len(sent) : sent'[i] = sent[i]
          /\ sent'[Len(sent) + 1] = "SUBSCRIBE" /\ Len(sent) \in Nat
      BY <2>1, AppendProperties, LenProperties DEF TypeOK
    <3>2. QED
      BY <2>3, <3>1
  <2>6. SessionSoFar'
    BY <2>1, <2>2, <2>3, <2>4, <2>5 DEF SessionSoFar, Constructing
  <2>7. ReadyIsReceiving'
    BY <2>1, <2>2 DEF ReadyIsReceiving
  <2>8. QED
    BY <2>4, <2>6, <2>7 DEF Session
<1>5. QED
  <2>1. ConnackFails => owner' = "failed"
    BY DEF ConnackFails, Fail
  <2>2. Connect => owner' \in {"await", "failed"}
    BY DEF Connect
  <2>3. QED
    BY <1>1, <1>2, <1>3, <1>4, <2>1, <2>2 DEF Constructs

\* write() and the destructor.
LEMMA OwnerSession ==
  ASSUME TypeOK, Session, Write \/ Destroy \/ Destructs
  PROVE  Session'
<1> USE DEF connVars, recvVars, readVars, queueVars, brokerVars
<1>1. ASSUME connected, UNCHANGED <<opts, accepted, connected, receiver>>,
             NEW p \in {"PUBLISH", "DISCONNECT"}, SendSucceeds(p),
             \/ owner = "open" /\ owner' = "open" /\ p = "PUBLISH"
             \/ owner = "stopping" /\ owner' = "closing"
      PROVE  Session'
  <2>1. /\ accepted /\ sent # <<>> /\ (opts.subscribes => Len(sent) > 1)
        /\ \A i \in DOMAIN sent : sent[i] # "DISCONNECT"
    BY <1>1 DEF Session, SessionSoFar
  <2>2. /\ sent' = Append(sent, p) /\ p \in {"SUBSCRIBE", "PUBLISH", "DISCONNECT"}
        /\ p = "SUBSCRIBE" <=> opts.subscribes /\ Len(sent) = 1
        /\ accepted' /\ opts' = opts
    <3>1. p # "SUBSCRIBE" /\ ~(opts.subscribes /\ Len(sent) = 1)
      <4>1. p # "SUBSCRIBE"
        BY <1>1
      <4>2. Len(sent) \in Nat
        BY LenProperties DEF TypeOK
      <4>3. Len(sent) = 1 => ~(Len(sent) > 1)
        BY <4>2
      <4>4. QED
        BY <2>1, <4>1, <4>3, Zenon
    <3>2. sent' = Append(sent, p) /\ accepted' = accepted /\ opts' = opts
      BY <1>1 DEF SendSucceeds
    <3>3. QED
      BY <2>1, <3>1, <3>2
  <2>3. SessionIsWellFormed' /\ sent' # <<>> /\ Len(sent') = Len(sent) + 1
    BY <2>1, <2>2, SendKeepsSession DEF Session
  <2>4. p = "PUBLISH" => \A i \in DOMAIN sent' : sent'[i] # "DISCONNECT"
    BY <2>1, <2>2, AppendProperties DEF TypeOK
  <2>5. Len(sent) \in Nat
    BY LenProperties DEF TypeOK
  <2>6. SessionSoFar'
    BY <1>1, <2>1, <2>3, <2>4, <2>5 DEF SessionSoFar, Constructing
  <2>7. ReadyIsReceiving'
    BY <1>1 DEF Session, ReadyIsReceiving
  <2>8. QED
    BY <2>3, <2>6, <2>7 DEF Session
<1>2. CASE Write
  <2>1. CASE SendSucceeds("PUBLISH") /\ UNCHANGED connected
    BY <1>1, <1>2, <2>1 DEF Write
  <2>2. CASE ~(SendSucceeds("PUBLISH") /\ UNCHANGED connected)
    <3>1. QuietStep
      BY <1>2, <2>2 DEF Write, SendFails, Constructing, QuietStep
    <3>2. QED
      BY <3>1, QuietSession
  <2>3. QED
    BY <2>1, <2>2
<1>3. CASE Destroy
  <2>1. QuietStep
    BY <1>3 DEF Destroy, Constructing, QuietStep
  <2>2. QED
    BY <2>1, QuietSession
<1>4. CASE Disconnect
  <2>1. CASE connected /\ SendSucceeds("DISCONNECT") /\ UNCHANGED connected
    BY <1>1, <1>4, <2>1 DEF Disconnect
  <2>2. CASE ~(connected /\ SendSucceeds("DISCONNECT") /\ UNCHANGED connected)
    <3>1. QuietStep
      BY <1>4, <2>2 DEF Disconnect, SendFails, QuietStep
    <3>2. QED
      BY <3>1, QuietSession
  <2>3. QED
    BY <2>1, <2>2
<1>5. CASE CloseSocket
  <2>1. QuietStep
    BY <1>5 DEF CloseSocket, QuietStep
  <2>2. QED
    BY <2>1, QuietSession
<1>6. CASE JoinReceiver
  <2>1. QuietStep
    BY <1>6 DEF JoinReceiver, QuietStep
  <2>2. QED
    BY <2>1, QuietSession
<1>7. QED
  BY <1>2, <1>3, <1>4, <1>5, <1>6 DEF Destructs

\* The receiver thread, readers, signals and the broker send nothing.
LEMMA OtherSession ==
  ASSUME TypeOK, Session, Receives \/ Interrupted \/ Reads \/ BrokerSteps
  PROVE  Session'
<1> USE DEF connVars, recvVars, readVars, queueVars, brokerVars
<1>1. CASE Receives
  <2>1. UNCHANGED <<opts, owner, sent, accepted>> /\ (connected' => connected)
    BY <1>1 DEF Receives, CheckLoop, Receive, Enqueue, NotifyReader, EndLoop, ReceiverFrame
  <2>2. /\ receiver # "none"
        /\ receiver' \notin {"none", "waking", "done"} \/ ~connected'
    <3>1. CASE NotifyReader
      BY <3>1 DEF NotifyReader, ReceiverFrame, Session, ReadyIsReceiving
    <3>2. CASE EndLoop
      BY <3>2 DEF EndLoop
    <3>3. CASE CheckLoop \/ Receive \/ Enqueue
      BY <3>3 DEF CheckLoop, Receive, Enqueue
    <3>4. QED
      BY <1>1, <3>1, <3>2, <3>3 DEF Receives
  <2>3. QED
    <3>1. QuietStep
      BY <2>1, <2>2 DEF QuietStep
    <3>2. QED
      BY <3>1, QuietSession
<1>2. CASE Reads
  <2>1. UNCHANGED <<opts, owner, connVars, recvVars, accepted, sent>>
    BY <1>2, ReaderSteps
  <2>2. QuietStep
    BY <2>1 DEF QuietStep
  <2>3. QED
    BY <2>2, QuietSession
<1>3. CASE BrokerSteps
  <2>1. QuietStep
    BY <1>3 DEF BrokerSteps, BrokerAnswers, BrokerPublishes, BrokerSendsOther,
                BrokerCloses, BrokerFrame, QuietStep
  <2>2. QED
    BY <2>1, QuietSession
<1>4. CASE Interrupted
  <2>1. QuietStep
    BY <1>4 DEF Interrupted, Fail, Constructing, QuietStep
  <2>2. QED
    BY <2>1, QuietSession
<1>5. QED
  BY <1>1, <1>2, <1>3, <1>4

-----------------------------------------------------------------------------
(* The queue.                                                              *)

\* No step loses a wakeup, and the queue stays the log without what was taken.
LEMMA QueueSteps ==
  ASSUME Typed, Session, Queued, Next
  PROVE  Queued'
<1> USE DEF Queued, TestedQueueIsEmpty, NoLostWakeup, connVars, recvVars, readVars,
            queueVars, brokerVars
<1>1. CASE Reads
  <2>1. LogIsTakenAndQueue' /\ UNCHANGED <<receiver, log>>
    <3>1. (\E w \in {0, 1} : Take(w)) \/ UNCHANGED <<queue, taken>>
      BY <1>1, ReaderSteps DEF Typed
    <3>2. UNCHANGED <<receiver, log>>
      BY <1>1, ReaderSteps DEF Typed
    <3>3. QED
      BY <3>1, <3>2, TakeStep DEF LogIsTakenAndQueue, Typed
  <2>2. \/ reader' = "idle"
        \/ /\ UNCHANGED queue
           /\ reader' = "asleep" => reader = "tested"
           /\ reader' = "tested" => queue = <<>>
    BY <1>1, ReaderSteps DEF Typed
  <2>3. QED
    BY <2>1, <2>2
<1>2. CASE Enqueue
  <2>1. /\ queue' = queue \o message /\ log' = log \o message /\ taken' = taken
        /\ reader' = reader /\ reader # "tested" /\ receiver' = "notify"
    BY <1>2 DEF Enqueue, ReceiverFrame
  <2>2. (taken \o queue) \o message = taken \o (queue \o message)
    <3>1. taken \in Seq(Bytes) /\ queue \in Seq(Bytes) /\ message \in Seq(Bytes)
      BY DEF Typed, TypeOK
    <3>2. Associative(taken, queue, message)
      BY <3>1, ConcatIsAssociative
    <3>3. QED
      BY <3>2, Zenon DEF Associative
  <2>3. QED
    BY <2>1, <2>2 DEF LogIsTakenAndQueue
<1>3. CASE NotifyReader
  BY <1>3 DEF NotifyReader, ReceiverFrame, LogIsTakenAndQueue
<1>4. CASE CheckLoop \/ Receive \/ EndLoop
  BY <1>4 DEF CheckLoop, Receive, EndLoop, ReceiverFrame, LogIsTakenAndQueue
<1>5. CASE Constructs
  <2>1. UNCHANGED <<queue, log, taken, reader>> /\ receiver = "none"
    BY <1>5 DEF Constructs, Connect, ReceiveConnack, ConnackFails, Subscribe,
                Session, SessionSoFar, Constructing
  <2>2. QED
    BY <2>1 DEF LogIsTakenAndQueue
<1>6. CASE Write \/ Destroy \/ Destructs \/ BrokerSteps
  <2>1. UNCHANGED <<queue, log, taken, reader, receiver>>
    BY <1>6 DEF Write, Destroy, Destructs, Disconnect, CloseSocket, JoinReceiver,
                BrokerSteps, BrokerAnswers, BrokerPublishes, BrokerSendsOther,
                BrokerCloses, BrokerFrame
  <2>2. QED
    BY <2>1 DEF LogIsTakenAndQueue
<1>7. CASE Interrupted
  BY <1>7 DEF Interrupted, LogIsTakenAndQueue
<1>8. QED
  BY <1>1, <1>2, <1>3, <1>4, <1>5, <1>6, <1>7 DEF Next, Receives, Reads, BrokerSteps

\* Inv is an invariant of every execution.
THEOREM InvHolds == Spec => []Inv
<1>1. Init => Inv
  <2> SUFFICES ASSUME Init PROVE Inv
    OBVIOUS
  <2>1. /\ <<>> \in Seq(Bytes) /\ <<>> \in Seq(Packets)
        /\ <<>> \in Seq({"CONNECT", "SUBSCRIBE", "PUBLISH", "DISCONNECT"})
        /\ <<>> \o <<>> = <<>> /\ DOMAIN <<>> = {} /\ Len(<<>>) = 0
    BY EmptySeq, ConcatEmptySeq
  <2>2. TypeOK
    <3>1. \A i \in DOMAIN wire : wire[i] \in Answers \cup {Other} \/ IsPublish(wire[i])
      BY <2>1 DEF Init
    <3>2. published \in 0..MaxBytes
      BY DEF Init
    <3>3. QED
      BY <2>1, <3>1, <3>2, Zenon DEF Init, TypeOK
  <2>3. WireHoldsPackets
    BY <2>1 DEF Init, WireHoldsPackets
  <2>4. Session
    BY <2>1 DEF Init, Session, SessionSoFar, SessionIsWellFormed, ReadyIsReceiving,
                Constructing
  <2>5. Queued
    BY <2>1 DEF Init, Queued, TestedQueueIsEmpty, NoLostWakeup, LogIsTakenAndQueue
  <2>6. QED
    BY <2>2, <2>3, <2>4, <2>5 DEF Inv, Typed
<1>2. Inv /\ [Next]_vars => Inv'
  <2> SUFFICES ASSUME Inv, [Next]_vars PROVE Inv'
    OBVIOUS
  <2>1. CASE UNCHANGED vars
    BY <2>1 DEF Inv, Typed, TypeOK, WireHoldsPackets, Session, SessionSoFar,
       SessionIsWellFormed, ReadyIsReceiving, Queued, TestedQueueIsEmpty, NoLostWakeup,
       LogIsTakenAndQueue, vars, connVars, recvVars, readVars, queueVars, brokerVars
  <2>2. CASE Next
    <3>1. \/ Constructs \/ Write \/ Destroy \/ Destructs \/ Receives
          \/ Interrupted \/ Reads \/ BrokerSteps
      BY <2>2 DEF Next, Reads, BrokerSteps
    <3>2. Typed'
      BY <3>1, OwnerType, ReceiverType, InterruptedType, ReaderType,
         BrokerType DEF Inv, Queued
    <3>3. Session'
      BY <3>1, ConstructorSession, OwnerSession, OtherSession DEF Inv, Typed
    <3>4. Queued'
      BY <2>2, QueueSteps DEF Inv
    <3>5. QED
      BY <3>2, <3>3, <3>4 DEF Inv
  <2>3. QED
    BY <2>1, <2>2
<1>3. QED
  BY <1>1, <1>2, PTL DEF Spec

-----------------------------------------------------------------------------
(* The properties.                                                         *)

\* Every variable of the transport keeps its type.
THEOREM TypeCorrect == Spec => []TypeOK
BY InvHolds, PTL DEF Inv, Typed

\* On the wire a session is CONNECT, SUBSCRIBE, publications, DISCONNECT
\* (MQTT.cpp:90-175).
THEOREM SessionsAreWellFormed == Spec => []SessionIsWellFormed
BY InvHolds, PTL DEF Inv, Session

\* A transport that says it is ready has a receiver thread that has not ended
\* (MQTT.cpp:109-111, 209, 294, 394).
THEOREM ReadyHasReceiver == Spec => []ReadyIsReceiving
BY InvHolds, PTL DEF Inv, Session

\* No reader sleeps on a queue that holds bytes, but for the moment before it
\* is notified (MQTT.cpp:350-375).
THEOREM WakeupsAreNotLost == Spec => []NoLostWakeup
BY InvHolds, PTL DEF Inv, Queued

\* The queue is a byte channel: payloads are handed out once and in order,
\* whole messages at a time going in (MQTT.cpp:136-153, 350-385).
THEOREM Refinement == Spec => ImplementsByteChannel
<1>1. Init => Channel!Init
  BY DEF Init, Channel!Init
<1>2. Inv /\ [Next]_vars => [Channel!Next]_<<[c \in {"queue"} |-> log],
                                             [c \in {"queue"} |-> taken]>>
  <2> SUFFICES ASSUME Inv, Next, ~UNCHANGED <<log, taken>>
               PROVE  Channel!Next
    BY DEF vars, queueVars
  <2>1. TypeOK /\ WireHoldsPackets /\ LogIsTakenAndQueue
    BY DEF Inv, Typed, Queued
  <2>2. Enqueue \/ Reads
    BY DEF Next, Constructs, Connect, ReceiveConnack, ConnackFails, Subscribe, Write,
           Destroy, Destructs, Disconnect, CloseSocket, JoinReceiver, Receives,
           CheckLoop, Receive, NotifyReader, EndLoop, ReceiverFrame, Interrupted, Reads,
           BrokerAnswers, BrokerPublishes, BrokerSendsOther, BrokerCloses,
           BrokerFrame, queueVars
  <2>3. CASE Enqueue
    <3>1. log' = log \o message /\ taken' = taken /\ message \in Chunks
      BY <2>1, <2>3, MessageType DEF Enqueue, ReceiverFrame, WireHoldsPackets
    <3>2. Channel!Accept("queue")
      BY <3>1 DEF Channel!Accept
    <3>3. QED
      BY <3>2 DEF Channel!Next
  <2>4. CASE Reads
    <3>1. log' = log /\ ((\E w \in {0, 1} : Take(w)) \/ UNCHANGED <<queue, taken>>)
      BY <2>1, <2>4, ReaderSteps
    <3>2. \E n \in (Len(taken) + 1)..Len(log) : taken' = SubSeq(log, 1, n)
      BY <2>1, <3>1, TakeStep
    <3>3. Channel!Deliver("queue")
      BY <3>1, <3>2 DEF Channel!Deliver
    <3>4. QED
      BY <3>3 DEF Channel!Next
  <2>5. QED
    BY <2>2, <2>3, <2>4
<1>3. QED
  BY <1>1, <1>2, InvHolds, PTL DEF Spec, ImplementsByteChannel, Channel!Spec
=============================================================================
