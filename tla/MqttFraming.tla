---------------------------- MODULE MqttFraming ----------------------------
(***************************************************************************)
(* The MQTT transport's two byte streams (src/src/MQTT.cpp): threads that  *)
(* publish, send_packet() with its partial sends and its mutex, a broker   *)
(* that passes each PUBLISH on (as TestBroker of src/test/mqtt_test.cpp    *)
(* does), and the receiver thread, which takes packets from pieces of any  *)
(* size.  In Mqtt a packet is one step; here it is shown that one can say  *)
(* so, and when one cannot.                                                *)
(*                                                                         *)
(* The connection is open and subscribed to the topic that is written to;  *)
(* making and closing it is in Mqtt.  Payload bytes are the number of the  *)
(* message, so that each byte says where it belongs.                       *)
(***************************************************************************)
EXTENDS MqttCodec, FiniteSets, SequencesExt

CONSTANTS
  Writers,     \* threads that call write()
  NoMessage,   \* a writer that is not inside write()
  TopicLength, \* of tx_topic and rx_topic
  Sizes,       \* payload lengths that are written
  MaxWrites,   \* bound: calls of write()
  MaxOthers,   \* bound: packets of its own the broker sends
  Signals      \* may a signal interrupt a send()

ASSUME FramingAssumption ==
  /\ TopicLength \in 1..(U16 - 1)
  /\ Sizes \subseteq Nat \ {0}
  /\ NoMessage \notin Nat \X Sizes
  /\ MaxWrites \in Nat
  /\ MaxOthers \in Nat
  /\ Signals \in BOOLEAN

VARIABLES
  connected,   \* connected_
  writing,     \* per writer: the message of the write() it is in
  offset,      \* per writer: offset in send_packet(), -1 before the lock
  toBroker,    \* bytes sent that the broker has not taken
  link,        \* has the broker closed the connection
  toClient,    \* bytes the broker has sent that have not been received
  header,      \* recv_packet()'s header, <<>> before it is read
  digits,      \* its encoded_length
  payload,     \* its payload, as far as received
  receiver,    \* is the receiver thread in its loop
  queue,       \* bytes ever queued
  writes,      \* number of calls of write()
  others,      \* number of packets of its own the broker has sent
  sent,        \* history: messages wholly sent, in order
  torn,        \* history: a send has failed inside a packet
  spoiled,     \* history: bytes have been sent after that
  fault        \* history: a send has failed, or the broker has sent nonsense

sendVars == <<writing, offset, toBroker, writes, sent, torn, spoiled>>
writerVars == <<connected, sendVars, fault>>
brokerVars == <<link, others>>
receiverVars == <<header, digits, payload, receiver, queue>>
vars == <<writerVars, brokerVars, toClient, receiverVars>>

Messages == (1..MaxWrites) \X Sizes
Topic == [i \in 1..TopicLength |-> 0]
Payload(message) == [i \in 1..message[2] |-> message[1]]
Packet == [message \in Messages |-> PublishPacket(Topic, Payload(message))]

\* recv_packet()'s digits: have they ended, can there be more, and how much of
\* the payload is still to come.
Decodes == digits # <<>> /\ IsLastDigit(Last(digits))
InLength == ~Decodes /\ Len(digits) < MaxDigits
Missing == DecodeLength(digits) - Len(payload)

TypeOK ==
  /\ connected \in BOOLEAN
  /\ writing \in [Writers -> Messages \cup {NoMessage}]
  /\ offset \in [Writers -> Int]
  /\ \A w \in Writers :
       offset[w] \in IF writing[w] = NoMessage THEN {-1} ELSE -1..Len(Packet[writing[w]])
  /\ toBroker \in Seq(Nat) /\ toClient \in Seq(Nat)
  /\ link \in {"up", "down"}
  /\ header \in Seq(Nat) /\ digits \in Seq(Nat) /\ payload \in Seq(Nat)
  /\ receiver \in {"loop", "done"}
  /\ Decodes => Missing >= 0
  /\ queue \in Seq(Nat)
  /\ writes \in 0..MaxWrites
  /\ others \in 0..MaxOthers
  /\ sent \in Seq(Messages)
  /\ torn \in BOOLEAN /\ spoiled \in BOOLEAN /\ fault \in BOOLEAN

Init ==
  /\ connected = TRUE
  /\ writing = [w \in Writers |-> NoMessage]
  /\ offset = [w \in Writers |-> -1]
  /\ toBroker = <<>>
  /\ link = "up"
  /\ toClient = <<>>
  /\ header = <<>>
  /\ digits = <<>>
  /\ payload = <<>>
  /\ receiver = "loop"
  /\ queue = <<>>
  /\ writes = 0
  /\ others = 0
  /\ sent = <<>>
  /\ torn = FALSE
  /\ spoiled = FALSE
  /\ fault = FALSE

-----------------------------------------------------------------------------
(* write() and send_packet().                                              *)

\* write() builds its packet, before it has the lock.
Write(w) ==
  /\ writing[w] = NoMessage
  /\ connected
  /\ writes < MaxWrites
  /\ writes' = writes + 1
  /\ \E n \in Sizes : writing' = [writing EXCEPT ![w] = <<writes + 1, n>>]
  /\ UNCHANGED <<connected, offset, toBroker, sent, torn, spoiled, fault,
                 brokerVars, toClient, receiverVars>>

StartSending(w) ==
  /\ writing[w] # NoMessage /\ offset[w] = -1
  /\ offset' = [offset EXCEPT ![w] = 0]
  /\ UNCHANGED <<connected, writing, toBroker, writes, sent, torn, spoiled, fault,
                 brokerVars, toClient, receiverVars>>

\* Mutant of Acquire: send_mutex_ is not taken.
AcquireNothing(w) == StartSending(w)

\* send_mutex_; connected_ is not looked at again.
Acquire(w) == (\A v \in Writers : offset[v] = -1) /\ StartSending(w)

Returns(w) ==
  /\ writing' = [writing EXCEPT ![w] = NoMessage]
  /\ offset' = [offset EXCEPT ![w] = -1]

\* send() takes some of the bytes: one, or all that are left; taking several
\* is as taking one several times.  A send to a connection the broker has
\* closed may still succeed, and goes nowhere.
SendSome(w) ==
  /\ offset[w] >= 0
  /\ LET packet == Packet[writing[w]]
     IN  \E to \in {offset[w] + 1, Len(packet)} :
           /\ toBroker' = IF link = "up"
                          THEN toBroker \o SubSeq(packet, offset[w] + 1, to)
                          ELSE toBroker
           /\ IF to = Len(packet)
              THEN Returns(w) /\ sent' = Append(sent, writing[w])
              ELSE /\ offset' = [offset EXCEPT ![w] = to]
                   /\ UNCHANGED <<writing, sent>>
  /\ spoiled' = (spoiled \/ torn)
  /\ UNCHANGED <<connected, writes, torn, fault, brokerVars, toClient, receiverVars>>

\* send() fails: the connection is closed, or a signal interrupts it.
SendFails(w) ==
  /\ offset[w] >= 0
  /\ link = "down" \/ Signals
  /\ connected' = FALSE
  /\ fault' = TRUE
  /\ torn' = (torn \/ offset[w] > 0)
  /\ Returns(w)
  /\ UNCHANGED <<toBroker, writes, sent, spoiled, brokerVars, toClient, receiverVars>>

-----------------------------------------------------------------------------
(* The broker.                                                             *)

\* The packet at the head of a stream: where its digits end, 0 if they do not
\* among those that have arrived; and where it ends itself, if it does.
DigitsEnd(stream) ==
  LET ends == {i \in 2..5 : i <= Len(stream) /\ IsLastDigit(stream[i])}
  IN  IF ends = {} THEN 0 ELSE Min(ends)
PacketEnds(stream) ==
  {n \in {i + DecodeLength(SubSeq(stream, 2, i)) : i \in {DigitsEnd(stream)} \ {0}} :
     n <= Len(stream)}

\* What a broker refuses: a fifth digit, or anything but a PUBLISH that has
\* the topic its length promises.
Malformed(stream) ==
  \/ Len(stream) > 4 /\ DigitsEnd(stream) = 0
  \/ Len(stream) > 0 /\ PacketType(stream[1]) # 3
  \/ \E end \in PacketEnds(stream) :
       \E body \in {SubSeq(stream, DigitsEnd(stream) + 1, end)} :
         Len(body) < 2 \/ Len(body) < 2 + DecodeU16(body)

BrokerForwards ==
  /\ link = "up"
  /\ ~Malformed(toBroker)
  /\ \E end \in PacketEnds(toBroker) :
       /\ toClient' = toClient \o SubSeq(toBroker, 1, end)
       /\ toBroker' = SubSeq(toBroker, end + 1, Len(toBroker))
  /\ UNCHANGED <<connected, writing, offset, writes, sent, torn, spoiled, fault,
                 brokerVars, receiverVars>>

\* It closes the connection, of itself or because it must.
BrokerCloses ==
  /\ link = "up"
  /\ link' = "down"
  /\ toBroker' = <<>>
  /\ UNCHANGED <<connected, writing, offset, writes, sent, torn, spoiled, fault,
                 others, toClient, receiverVars>>

\* SUBACK, PINGRESP, somebody's retained PUBLISH of no bytes, and a length
\* that does not end.
Endless == <<48>> \o [i \in 1..4 |-> Base]
OtherPackets ==
  {<<144>> \o RemainingLength[3] \o <<0, 1, 0>>,
   <<208, 0>>,
   <<49>> \o RemainingLength[2 + TopicLength] \o AppendString(Topic),
   Endless}

BrokerSendsOther ==
  /\ link = "up"
  /\ others < MaxOthers
  /\ others' = others + 1
  /\ \E packet \in OtherPackets :
       /\ toClient' = toClient \o packet
       /\ fault' = (fault \/ packet = Endless)
  /\ UNCHANGED <<connected, sendVars, link, receiverVars>>

-----------------------------------------------------------------------------
(* receiver_loop(), recv_packet() and recv_exact().                        *)

\* One recv() of recv_exact(): the header and each digit are one byte, the
\* payload comes in pieces (as in SendSome).
Recv ==
  /\ receiver = "loop" /\ toClient # <<>>
  /\ \/ /\ header = <<>>
        /\ header' = SubSeq(toClient, 1, 1)
        /\ toClient' = Tail(toClient)
        /\ UNCHANGED <<digits, payload>>
     \/ /\ header # <<>> /\ InLength
        /\ digits' = Append(digits, Head(toClient))
        /\ toClient' = Tail(toClient)
        /\ UNCHANGED <<header, payload>>
     \/ /\ Decodes /\ Missing > 0
        /\ \E n \in {1, Min({Missing, Len(toClient)})} :
             /\ payload' = payload \o SubSeq(toClient, 1, n)
             /\ toClient' = SubSeq(toClient, n + 1, Len(toClient))
        /\ UNCHANGED <<header, digits>>
  /\ UNCHANGED <<receiver, queue, writerVars, brokerVars>>

\* Mutant of Message: the topic's length is not counted.
MessageWithTopic(body) ==
  IF Len(body) < 2 \/ Len(body) < 2 + DecodeU16(body) THEN <<>>
  ELSE SubSeq(body, 3, Len(body))

\* What receiver_loop() queues of a PUBLISH; a short one is skipped.
Message(body) ==
  IF Len(body) < 2 \/ Len(body) < 2 + DecodeU16(body) THEN <<>>
  ELSE SubSeq(body, 3 + DecodeU16(body), Len(body))

Queues ==
  /\ receiver = "loop"
  /\ Decodes /\ Missing = 0
  /\ queue' = IF PacketType(header[1]) = 3 THEN queue \o Message(payload) ELSE queue
  /\ header' = <<>>
  /\ digits' = <<>>
  /\ receiver' = IF connected THEN "loop" ELSE "done"
  /\ UNCHANGED <<writerVars, brokerVars, toClient>>

\* Mutant of Handle: the payload is not cleared for the next packet.
HandleKeepsPayload == Queues /\ UNCHANGED payload

\* A whole packet: it is queued if it is a PUBLISH, and the loop's condition
\* is tested before the next.
Handle == Queues /\ payload' = <<>>

\* recv_packet() fails: the stream has ended, or the length has no end.
Ends ==
  /\ receiver = "loop"
  /\ \/ /\ toClient = <<>> /\ link = "down"
        /\ ~(Decodes /\ Missing = 0)
     \/ ~InLength /\ ~Decodes
  /\ receiver' = "done"
  /\ connected' = FALSE
  /\ UNCHANGED <<sendVars, fault, header, digits, payload, queue, brokerVars, toClient>>

Broker == BrokerForwards \/ BrokerCloses \/ BrokerSendsOther
Receiver == Recv \/ Handle \/ Ends
Next ==
  \/ \E w \in Writers : Write(w) \/ Acquire(w) \/ SendSome(w) \/ SendFails(w)
  \/ Broker
  \/ Receiver

\* A running broker passes on what it has; the receiver thread is scheduled.
Fairness ==
  /\ WF_vars(BrokerForwards)
  /\ WF_vars(Malformed(toBroker) /\ BrokerCloses)
  /\ WF_vars(Receiver)

Spec == Init /\ [][Next]_vars /\ Fairness

-----------------------------------------------------------------------------
(* Properties.                                                             *)

\* What the receiver has queued is exactly the first messages that were
\* wholly sent, whole and in order, however the bytes were cut in pieces and
\* whatever else the broker sent between: until a thread that was waiting in
\* send_packet() sends its packet behind the half of one whose send failed.
QueuedAsWritten ==
  spoiled \/ \E k \in 0..Len(sent) :
               queue = FlattenSeq([i \in 1..k |-> Payload(sent[i])])

============================================================================
