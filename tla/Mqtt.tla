------------------------------- MODULE Mqtt -------------------------------
(***************************************************************************)
(* The MQTT transport (src/src/MQTT.cpp): the thread that constructs it,   *)
(* publishes and destroys it (the owner), the thread that reads from it,   *)
(* its own receiver thread, and the broker, of which only the behaviour    *)
(* that a client can see is described.                                     *)
(*                                                                         *)
(* A packet is one step on the wire.  The queue's mutex shows where it is  *)
(* held across two steps: between a reader's test of the predicate and its *)
(* going to sleep (place "tested").                                        *)
(***************************************************************************)
EXTENDS Naturals, Sequences

CONSTANTS
  Options,    \* the options of the ifname that are considered
  MaxBytes,   \* bound: number of bytes the broker ever publishes
  MaxWire,    \* bound: packets on their way from the broker
  MaxWrites   \* bound: number of PUBLISH packets the owner sends

\* blocking; timeout_ms >= 0; rx_topic not empty
AllOptions == [blocking : BOOLEAN, timed : BOOLEAN, subscribes : BOOLEAN]

ASSUME MqttAssumption ==
  /\ Options \subseteq AllOptions
  /\ MaxBytes \in Nat
  /\ MaxWire \in Nat
  /\ MaxWrites \in Nat

VARIABLES
  opts,       \* config_, fixed for the object's life
  owner,      \* where the owner is in the object's life
  connected,  \* connected_
  stop,       \* stop_
  sock,       \* sock_: is the descriptor open
  receiver,   \* where the receiver thread is
  message,    \* receiver_loop()'s local payload
  queue,      \* queue_
  reader,     \* where the reading thread is in wait_for_data()
  want,       \* argument of the read under way; 0 stands for read_all()
  link,       \* the broker's end of the connection
  wire,       \* packets from the broker that have not been received
  published,  \* history: number of bytes the broker has published
  accepted,   \* history: has the client received a CONNACK that accepts it
  sent,       \* history: packets the client has sent, in order
  log,        \* history: all bytes ever queued
  taken       \* history: all bytes ever read

connVars == <<connected, stop, sock>>
recvVars == <<receiver, message>>
readVars == <<reader, want>>
queueVars == <<queue, log, taken>>
brokerVars == <<link, wire, published>>
vars == <<opts, owner, connVars, recvVars, readVars, queueVars, brokerVars,
          accepted, sent>>

Bytes == 1..MaxBytes

\* What the broker may send: its answer to CONNECT, a PUBLISH with its
\* payload, and packets receiver_loop() ignores (SUBACK, PINGRESP, a PUBLISH
\* that is too short).
Answers == {<<"connack", TRUE>>, <<"connack", FALSE>>}
Publish(first, n) == <<"publish", [i \in 1..n |-> first + i]>>
Other == <<"other">>

IsPublish(packet) == packet[1] = "publish"

TypeOK ==
  /\ opts \in Options
  /\ owner \in {"new", "await", "subscribe", "open", "failed",
                "stopping", "closing", "joining", "gone"}
  /\ connected \in BOOLEAN /\ stop \in BOOLEAN /\ sock \in BOOLEAN
  /\ receiver \in {"none", "check", "enter", "blocked", "enqueue", "notify",
                   "ending", "waking", "done"}
  /\ message \in Seq(Bytes)
  /\ queue \in Seq(Bytes)
  /\ reader \in {"idle", "tested", "asleep", "woken"}
  /\ want \in {0, 1}
  /\ link \in {"none", "up", "down"}
  /\ \A i \in DOMAIN wire :
       wire[i] \in Answers \cup {Other} \/ IsPublish(wire[i])
  /\ published \in 0..MaxBytes
  /\ accepted \in BOOLEAN
  /\ sent \in Seq({"CONNECT", "SUBSCRIBE", "PUBLISH", "DISCONNECT"})
  /\ log \in Seq(Bytes)
  /\ taken \in Seq(Bytes)

Init ==
  /\ opts \in Options
  /\ owner = "new"
  /\ connected = FALSE
  /\ stop = FALSE
  /\ sock = FALSE
  /\ receiver = "none"
  /\ message = <<>>
  /\ queue = <<>>
  /\ reader = "idle"
  /\ want = 0
  /\ link = "none"
  /\ wire = <<>>
  /\ published = 0
  /\ accepted = FALSE
  /\ sent = <<>>
  /\ log = <<>>
  /\ taken = <<>>

-----------------------------------------------------------------------------
(* send_packet(): the packet goes out, or a send() fails and is not tried   *)
(* again: on a link that is up (a signal, no buffers) as on one the broker *)
(* has closed, where it may still appear to succeed.  The process is one   *)
(* that ignores SIGPIPE, as Python does; else it ends there.               *)

SendSucceeds(packet) ==
  /\ sock
  /\ link # "none"
  /\ sent' = Append(sent, packet)

SendFails == UNCHANGED sent

-----------------------------------------------------------------------------
(* The constructor.                                                        *)

\* connect_broker() and send_connect()
Connect ==
  /\ owner = "new"
  /\ \/ /\ owner' = "await" /\ sock' = TRUE /\ link' = "up"
        /\ sent' = Append(sent, "CONNECT")
     \/ /\ owner' = "failed"
        /\ UNCHANGED <<sock, link, sent>>
  /\ UNCHANGED <<opts, connected, stop, recvVars, readVars, queueVars, wire,
                 published, accepted>>

\* A handshake step has failed: close_socket_only().
Fail == owner' = "failed" /\ sock' = FALSE

\* The constructor's last lines: connected_ is set, then the thread started.
Open ==
  /\ owner' = "open"
  /\ connected' = TRUE
  /\ receiver' = "check"

\* receive_connack() gets a packet; anything but a CONNACK that accepts the
\* client is a refusal.
ReceiveConnack ==
  /\ owner = "await"
  /\ wire # <<>>
  /\ wire' = Tail(wire)
  /\ IF Head(wire) = <<"connack", TRUE>>
     THEN /\ accepted' = TRUE
          /\ UNCHANGED sock
          /\ IF opts.subscribes
             THEN owner' = "subscribe" /\ UNCHANGED <<connected, receiver>>
             ELSE Open
     ELSE Fail /\ UNCHANGED <<accepted, connected, receiver>>
  /\ UNCHANGED <<opts, stop, message, readVars, queueVars, link, published, sent>>

\* Mutant of ConnackFails: the timeout is not handed down.
ConnackFailsOnClose ==
  /\ owner = "await"
  /\ link = "down" /\ wire = <<>>
  /\ Fail
  /\ UNCHANGED <<opts, connected, stop, recvVars, readVars, queueVars,
                 brokerVars, accepted, sent>>

\* receive_connack() fails: the broker has closed the connection, or
\* timeout_ms has passed.  Without a timeout it waits for ever, whatever
\* `blocking` says.
ConnackFails ==
  /\ owner = "await"
  /\ opts.timed \/ (link = "down" /\ wire = <<>>)
  /\ Fail
  /\ UNCHANGED <<opts, connected, stop, recvVars, readVars, queueVars,
                 brokerVars, accepted, sent>>

\* Mutant of Subscribe: opens before SUBSCRIBE is sent.
SubscribeLater ==
  /\ owner = "subscribe"
  /\ Open
  /\ UNCHANGED <<opts, stop, sock, message, readVars, queueVars, brokerVars,
                 accepted, sent>>

\* send_subscribe(); its SUBACK is not awaited.
Subscribe ==
  /\ owner = "subscribe"
  /\ \/ SendSucceeds("SUBSCRIBE") /\ Open /\ UNCHANGED sock
     \/ SendFails /\ Fail /\ UNCHANGED <<connected, receiver>>
  /\ UNCHANGED <<opts, stop, message, readVars, queueVars, brokerVars, accepted>>

-----------------------------------------------------------------------------
(* write() and the destructor.                                             *)

\* write() on a connected transport; otherwise it returns 0.
Write ==
  /\ owner = "open"
  /\ connected
  /\ Len(SelectSeq(sent, LAMBDA p : p = "PUBLISH")) < MaxWrites
  /\ \/ SendSucceeds("PUBLISH") /\ UNCHANGED connected
     \/ SendFails /\ connected' = FALSE
  /\ UNCHANGED <<opts, owner, stop, sock, recvVars, readVars, queueVars,
                 brokerVars, accepted>>

\* ~MqttTransport(), once no other thread uses the object: stop_ is set ...
Destroy ==
  /\ owner \in {"open", "failed"}
  /\ reader = "idle"
  /\ owner' = "stopping"
  /\ stop' = TRUE
  /\ UNCHANGED <<opts, connected, sock, recvVars, readVars, queueVars,
                 brokerVars, accepted, sent>>

\* Mutant of Disconnect: the connection is dropped without DISCONNECT.
DisconnectSilently ==
  /\ owner = "stopping"
  /\ owner' = "closing"
  /\ UNCHANGED <<opts, connVars, recvVars, readVars, queueVars, brokerVars,
                 accepted, sent>>

\* ... a connected client says goodbye ...
Disconnect ==
  /\ owner = "stopping"
  /\ owner' = "closing"
  /\ \/ connected /\ SendSucceeds("DISCONNECT") /\ UNCHANGED connected
     \/ connected /\ SendFails /\ connected' = FALSE
     \/ ~connected /\ UNCHANGED <<connected, sent>>
  /\ UNCHANGED <<opts, stop, sock, recvVars, readVars, queueVars, brokerVars,
                 accepted>>

\* ... the descriptor is closed ...
CloseSocket ==
  /\ owner = "closing"
  /\ owner' = "joining"
  /\ sock' = FALSE
  /\ UNCHANGED <<opts, connected, stop, recvVars, readVars, queueVars,
                 brokerVars, accepted, sent>>

\* ... and the receiver thread, if there is one, is joined.
JoinReceiver ==
  /\ owner = "joining"
  /\ receiver \in {"none", "done"}
  /\ owner' = "gone"
  /\ UNCHANGED <<opts, connVars, recvVars, readVars, queueVars, brokerVars,
                 accepted, sent>>

-----------------------------------------------------------------------------
(* receiver_loop()                                                         *)

\* The fields no step of the receiver thread writes.
ReceiverFrame ==
  UNCHANGED <<opts, owner, stop, sock, want, taken, link, published,
              accepted, sent>>

\* The loop's condition, then sock_ on entry to recv_packet(): a closed
\* socket ends the loop (select() on the closed descriptor would fail too).
CheckLoop ==
  /\ receiver \in {"check", "enter"}
  /\ receiver' = IF receiver = "check"
                 THEN IF ~stop /\ connected THEN "enter" ELSE "ending"
                 ELSE IF sock THEN "blocked" ELSE "ending"
  /\ ReceiverFrame
  /\ UNCHANGED <<connected, message, queue, log, reader, wire>>

\* Inside select() and recv().  close() does not wake a thread in select():
\* it is woken by what the broker does next, and then fails on the closed
\* descriptor.
Receive ==
  /\ receiver = "blocked"
  /\ \/ /\ sock
        /\ wire # <<>>
        /\ wire' = Tail(wire)
        /\ IF IsPublish(Head(wire)) /\ Head(wire)[2] # <<>>
           THEN receiver' = "enqueue" /\ message' = Head(wire)[2]
           ELSE receiver' = "check" /\ UNCHANGED message
     \/ /\ IF sock THEN link = "down" /\ wire = <<>> ELSE link = "down" \/ wire # <<>>
        /\ receiver' = "ending"
        /\ UNCHANGED <<wire, message>>
  /\ ReceiverFrame
  /\ UNCHANGED <<connected, queue, log, reader>>

\* Mutant of Enqueue: the queue holds only the latest message.
EnqueueLatest ==
  /\ receiver = "enqueue"
  /\ reader # "tested"
  /\ queue' = message
  /\ log' = log \o message
  /\ message' = <<>>
  /\ receiver' = "notify"
  /\ ReceiverFrame
  /\ UNCHANGED <<connected, reader, wire>>

\* Mutant of Enqueue: the reader is not notified.
EnqueueSilently ==
  /\ receiver = "enqueue"
  /\ reader # "tested"
  /\ queue' = queue \o message
  /\ log' = log \o message
  /\ message' = <<>>
  /\ receiver' = "check"
  /\ ReceiverFrame
  /\ UNCHANGED <<connected, reader, wire>>

\* Mutant of Enqueue: queue_mutex_ is not taken.
EnqueueUnlocked ==
  /\ receiver = "enqueue"
  /\ queue' = queue \o message
  /\ log' = log \o message
  /\ message' = <<>>
  /\ receiver' = "notify"
  /\ ReceiverFrame
  /\ UNCHANGED <<connected, reader, wire>>

\* Mutant of Enqueue: the message is cut one byte early and begins with a
\* byte of the topic.
EnqueueOffByOne ==
  /\ receiver = "enqueue"
  /\ reader # "tested"
  /\ queue' = queue \o <<0>> \o message
  /\ log' = log \o message
  /\ message' = <<>>
  /\ receiver' = "notify"
  /\ ReceiverFrame
  /\ UNCHANGED <<connected, reader, wire>>

\* enqueue_payload(), under queue_mutex_.
Enqueue ==
  /\ receiver = "enqueue"
  /\ reader # "tested"
  /\ queue' = queue \o message
  /\ log' = log \o message
  /\ message' = <<>>
  /\ receiver' = "notify"
  /\ ReceiverFrame
  /\ UNCHANGED <<connected, reader, wire>>

\* queue_cv_.notify_all(), after a message and at the end of the loop.
NotifyReader ==
  /\ receiver \in {"notify", "waking"}
  /\ receiver' = IF receiver = "notify" THEN "check" ELSE "done"
  /\ reader' = IF reader = "asleep" THEN "woken" ELSE reader
  /\ ReceiverFrame
  /\ UNCHANGED <<connected, message, queue, log, wire>>

\* Mutant of EndLoop: the transport still says it is ready.
EndLoopReady ==
  /\ receiver = "ending"
  /\ receiver' = "waking"
  /\ ReceiverFrame
  /\ UNCHANGED <<connected, message, queue, log, reader, wire>>

\* The loop has ended: connected_ is cleared without queue_mutex_.
EndLoop ==
  /\ receiver = "ending"
  /\ receiver' = "waking"
  /\ connected' = FALSE
  /\ ReceiverFrame
  /\ UNCHANGED <<message, queue, log, reader, wire>>

\* A signal interrupts the select() of recv_exact(), which nobody repeats:
\* the constructor's or the receiver thread's.
Interrupted ==
  /\ \/ owner = "await" /\ Fail /\ UNCHANGED receiver
     \/ receiver = "blocked" /\ receiver' = "ending" /\ UNCHANGED <<owner, sock>>
  /\ UNCHANGED <<opts, connected, stop, message, readVars, queueVars, brokerVars,
                 accepted, sent>>

-----------------------------------------------------------------------------
(* read_all() and read(1)                                                  *)

\* The fields no step of the reader writes.
ReaderFrame ==
  UNCHANGED <<opts, owner, connVars, recvVars, log, brokerVars, accepted, sent>>

\* take_bytes(): all that is queued, or want of it; perhaps nothing.
Take(w) ==
  LET n == IF w = 0 \/ w > Len(queue) THEN Len(queue) ELSE w IN
  /\ taken' = taken \o SubSeq(queue, 1, n)
  /\ queue' = SubSeq(queue, n + 1, Len(queue))

\* A read that finds bytes.
ReadNow(w) ==
  /\ owner = "open"
  /\ reader = "idle"
  /\ queue # <<>>
  /\ Take(w)
  /\ ReaderFrame
  /\ UNCHANGED readVars

\* A blocking read of an empty queue that finds the transport connected: it
\* holds queue_mutex_ and has evaluated the predicate of wait().  (A read
\* that may not block, or finds connected_ false, returns empty.)
ReadTests(w) ==
  /\ owner = "open"
  /\ reader = "idle"
  /\ opts.blocking
  /\ queue = <<>>
  /\ connected
  /\ reader' = "tested"
  /\ want' = w
  /\ ReaderFrame
  /\ UNCHANGED <<queue, taken>>

\* wait() releases queue_mutex_ and sleeps.
ReadSleeps ==
  /\ reader = "tested"
  /\ reader' = "asleep"
  /\ ReaderFrame
  /\ UNCHANGED <<want, queue, taken>>

\* A read that has waited returns with what is queued.
ReadReturns ==
  /\ reader' = "idle"
  /\ want' = 0
  /\ Take(want)

\* A woken reader evaluates the predicate again.
Retest ==
  /\ reader = "woken"
  /\ IF queue # <<>> \/ ~connected
     THEN ReadReturns
     ELSE reader' = "tested" /\ UNCHANGED <<want, queue, taken>>
  /\ ReaderFrame

\* Mutant of Timeout: the time starts again with every wakeup.
TimeoutRestarts ==
  /\ opts.timed
  /\ reader = "asleep"
  /\ ReadReturns
  /\ ReaderFrame

\* wait_for() runs out, before or after a wakeup.
Timeout ==
  /\ opts.timed
  /\ reader # "idle"
  /\ ReadReturns
  /\ ReaderFrame

\* A condition variable may wake a thread for no reason.
SpuriousWake ==
  /\ reader = "asleep"
  /\ reader' = "woken"
  /\ ReaderFrame
  /\ UNCHANGED <<want, queue, taken>>

-----------------------------------------------------------------------------
(* The broker (external): it answers CONNECT at most once and first,       *)
(* publishes to subscribers only, and may close the connection at any time *)
(* (as it does when keep_alive passes without a PINGREQ).                  *)

BrokerFrame ==
  UNCHANGED <<opts, owner, connVars, recvVars, readVars, queueVars, accepted, sent>>

BrokerAnswers ==
  /\ link = "up"
  /\ owner = "await"
  /\ wire = <<>>
  /\ \E answer \in Answers : wire' = <<answer>>
  /\ BrokerFrame
  /\ UNCHANGED <<link, published>>

\* A PUBLISH may be empty.
BrokerPublishes ==
  /\ link = "up"
  /\ accepted
  /\ "SUBSCRIBE" \in {sent[i] : i \in DOMAIN sent}
  /\ Len(wire) < MaxWire
  /\ \E n \in 0..(MaxBytes - published) :
       /\ wire' = Append(wire, Publish(published, n))
       /\ published' = published + n
  /\ BrokerFrame
  /\ UNCHANGED link

BrokerSendsOther ==
  /\ link = "up"
  /\ accepted
  /\ Len(wire) < MaxWire
  /\ wire' = Append(wire, Other)
  /\ BrokerFrame
  /\ UNCHANGED <<link, published>>

\* In order, or with the loss of what was on its way.
BrokerCloses ==
  /\ link = "up"
  /\ link' = "down"
  /\ wire' \in {wire, <<>>}
  /\ BrokerFrame
  /\ UNCHANGED published

-----------------------------------------------------------------------------
Constructs == Connect \/ ReceiveConnack \/ ConnackFails \/ Subscribe

Destructs == Disconnect \/ CloseSocket \/ JoinReceiver

Receives == CheckLoop \/ Receive \/ Enqueue \/ NotifyReader \/ EndLoop

ReadContinues == ReadSleeps \/ Retest

Next ==
  \/ Constructs \/ Write \/ Destroy \/ Destructs
  \/ Receives \/ Interrupted
  \/ (\E w \in {0, 1} : ReadNow(w) \/ ReadTests(w))
  \/ ReadContinues \/ Timeout \/ SpuriousWake
  \/ BrokerAnswers \/ BrokerPublishes \/ BrokerSendsOther \/ BrokerCloses

\* Every thread is scheduled and a timer fires.  Nobody has to call the API, no
\* packet has to come, and no signal.
Fairness ==
  /\ WF_vars(Constructs)
  /\ WF_vars(Destructs)
  /\ WF_vars(Receives)
  /\ WF_vars(ReadContinues)
  /\ WF_vars(Timeout)

Spec == Init /\ [][Next]_vars /\ Fairness

-----------------------------------------------------------------------------
(* Safety.                                                                 *)

\* On the wire a session is CONNECT, then, once the broker has accepted it,
\* SUBSCRIBE if there is a topic to receive, then publications, then
\* DISCONNECT (the constructor, write() and the destructor, MQTT.cpp:90-175).
SessionIsWellFormed ==
  /\ \A i \in DOMAIN sent :
       /\ sent[i] = "CONNECT" <=> i = 1
       /\ sent[i] = "SUBSCRIBE" <=> opts.subscribes /\ i = 2
       /\ sent[i] = "DISCONNECT" => i = Len(sent)
  /\ Len(sent) > 1 => accepted

\* While is_ready() says yes there is a receiver thread, on an accepted
\* session, that has still to clear connected_ when it ends, whatever
\* send_packet, receiver_loop and the destructor do to connected_
\* (MQTT.cpp:109-111, 209, 294, 394).
ReadyIsReceiving ==
  connected => accepted /\ receiver \notin {"none", "waking", "done"}

\* The reader sleeps on a queue that holds bytes only while the receiver has
\* still to notify it (enqueue_payload and wait_for_data, MQTT.cpp:350-375).
NoLostWakeup == (reader = "asleep" /\ queue # <<>>) => receiver = "notify"

\* What one message may hand over.
Chunks == {[i \in 1..n |-> first + i] : first \in 0..MaxBytes, n \in 1..MaxBytes}

Channel == INSTANCE ByteChannel WITH
  Channels <- {"queue"},
  accepted <- [c \in {"queue"} |-> log],
  delivered <- [c \in {"queue"} |-> taken]

\* Message payloads come out of the queue once and in order, also those that
\* were queued before the connection was lost (MQTT.cpp:136-153, 350-385).
ImplementsByteChannel == Channel!Spec

-----------------------------------------------------------------------------
(* Liveness.                                                               *)

\* With a timeout the constructor comes back (MQTT.cpp:90-112, 235-247).
TimedConstructorReturns ==
  opts.timed => (owner = "new" ~> owner \notin {"new", "await", "subscribe"})

\* A broker that has got DISCONNECT closes the connection: MQTT 3.1.1 (3.14.4)
\* recommends it, and the broker of test/mqtt_test.cpp does it.
BrokerHeedsGoodbye ==
  WF_vars(BrokerCloses /\ sent # <<>> /\ sent[Len(sent)] = "DISCONNECT")

\* The receiver thread is inside select() on a live connection nothing comes
\* from, and the client cannot make the broker close it: a send has failed, so
\* that connected_ is false and no DISCONNECT was sent.
CutOff ==
  owner = "joining" /\ receiver = "blocked" /\ ~connected /\ link = "up" /\ wire = <<>>

\* With such a broker the destructor comes back, although it closes the socket
\* under a thread that may be inside select(), which close() does not wake: a
\* failed send is the one thing that can make it wait for ever
\* (MQTT.cpp:117-127, 207-213).
DestructorReturns ==
  BrokerHeedsGoodbye => (owner = "stopping" ~> owner = "gone") \/ <>[]CutOff

\* A read with a timeout returns, even if the connection is lost just when
\* it goes to sleep (connected_ changes outside queue_mutex_,
\* MQTT.cpp:294-295, 368-374).
TimedReadReturns == opts.timed => (reader # "idle" ~> reader = "idle")

\* A blocked read does not sleep through the arrival of bytes.
ReaderGetsData == (reader # "idle" /\ queue # <<>>) ~> reader = "idle"
=============================================================================
