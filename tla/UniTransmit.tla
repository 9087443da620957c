---------------------------- MODULE UniTransmit ----------------------------
(***************************************************************************)
(* The facade of the library: one UniTransmit object, the thread that      *)
(* calls its API (the caller) and the receiver thread that start_receiver  *)
(* creates to poll the transport and to invoke the receive callback.       *)
(*                                                                         *)
(* The transport is seen through ITransport only: bytes arrive in `rx`,    *)
(* in_waiting() is its length, read() takes one byte, read_all() takes     *)
(* everything, and a read that finds nothing behaves as the options of the *)
(* ifname say (`mode`).  Bytes are numbered in the order they arrive.      *)
(***************************************************************************)
EXTENDS Naturals, Sequences, FiniteSets, SequencesExt

CONSTANTS
  Callbacks,     \* the callbacks the program may register
  NoCallback,    \* the empty std::function
  Modes,         \* the blocking/timeout_ms options considered
  MaxBytes,      \* bound: number of bytes that ever arrive
  PythonBinding  \* TRUE: the object is driven through python/bindings.cpp

\* blocking=0; blocking=1 with timeout_ms >= 0; blocking=1 with timeout_ms < 0
AllModes == {"polling", "timed", "forever"}

ASSUME UniTransmitAssumption ==
  /\ NoCallback \notin Callbacks
  /\ Modes \subseteq AllModes
  /\ MaxBytes \in Nat
  /\ PythonBinding \in BOOLEAN

VARIABLES
  mode,       \* options of the ifname, fixed for the object's life
  started,    \* transport_ is not null
  rx,         \* bytes the transport holds, oldest first
  callback,   \* receive_callback_
  running,    \* receiver_running_
  stop,       \* receiver_stop_
  caller,     \* where the calling thread is inside the API
  receiver,   \* where the receiver thread is
  held,       \* poll_receive's copy of the callback
  hand,       \* bytes poll_receive has read and not yet passed on
  terminated, \* std::terminate has ended the process
  arrived,    \* history: number of bytes that have arrived
  delivered,  \* history: bytes passed to callbacks, in order
  taken,      \* history: bytes the caller read itself
  dropped,    \* history: bytes destroyed with the transport
  stale,      \* history: invocations of a callback other than the
              \* registered one since the last set_receive_callback
  overruled   \* history: the callback has registered another while the
              \* caller was removing it

apiVars  == <<callback, caller>>
flagVars == <<running, stop>>
pollVars == <<held, hand>>
ioVars   == <<started, rx, arrived>>
history  == <<delivered, taken, dropped, stale, overruled>>
vars == <<mode, apiVars, flagVars, receiver, pollVars, ioVars, history, terminated>>

Places == {"none", "check", "copy", "probe", "first", "rest", "all",
           "ready", "calling", "setting", "tail", "exited"}

Bytes == 1..MaxBytes

TypeOK ==
  /\ mode \in Modes
  /\ started \in BOOLEAN
  /\ rx \in Seq(Bytes)
  /\ callback \in Callbacks \cup {NoCallback}
  /\ running \in BOOLEAN
  /\ stop \in BOOLEAN
  /\ caller \in {"idle", "applied", "unsetting", "closing"}
  /\ receiver \in Places
  /\ held \in Callbacks \cup {NoCallback}
  /\ hand \in Seq(Bytes)
  /\ terminated \in BOOLEAN
  /\ arrived \in 0..MaxBytes
  /\ delivered \in Seq(Bytes)
  /\ taken \in SUBSET Bytes
  /\ dropped \in SUBSET Bytes
  /\ stale \in Nat
  /\ overruled \in BOOLEAN

\* The constructor calls start(): a transport, no callback, no thread.
Init ==
  /\ mode \in Modes
  /\ started = TRUE
  /\ rx = <<>>
  /\ callback = NoCallback
  /\ running = FALSE
  /\ stop = FALSE
  /\ caller = "idle"
  /\ receiver = "none"
  /\ held = NoCallback
  /\ hand = <<>>
  /\ terminated = FALSE
  /\ arrived = 0
  /\ delivered = <<>>
  /\ taken = {}
  /\ dropped = {}
  /\ stale = 0
  /\ overruled = FALSE

-----------------------------------------------------------------------------
(* The interpreter lock.  No binding releases it around a call, so a       *)
(* Python caller holds it for as long as it is inside the API, and so does *)
(* a callback that calls it.  The wrapped callback takes the lock before   *)
(* it runs the Python function; the interpreter may pass it to the caller  *)
(* while that function runs, and the callback then needs it back.          *)

CallerMayEnter == caller = "idle" /\ (PythonBinding => receiver # "setting")

CallbackMayRun == PythonBinding => caller = "idle"

-----------------------------------------------------------------------------
(* The transport.                                                          *)

\* One or more bytes reach the transport at once (a segment, a datagram, a
\* published message).
Arrive ==
  /\ started
  /\ \E n \in 1..(MaxBytes - arrived) :
       /\ rx' = rx \o [i \in 1..n |-> arrived + i]
       /\ arrived' = arrived + n
  /\ UNCHANGED <<mode, started, apiVars, flagVars, receiver, pollVars,
                 history, terminated>>

\* A read that finds no byte returns empty, at once or when its timeout
\* expires; with blocking=1 and no timeout it does not return.
EmptyReadReturns == rx = <<>> /\ mode # "forever"

-----------------------------------------------------------------------------
(* The caller's operations.                                                *)

\* Mutant of StartReceiver: receiver_stop_ keeps the value the last stop left.
StartReceiverKeepStop ==
  IF ~started' \/ running
  THEN UNCHANGED <<flagVars, receiver>>
  ELSE /\ running' = TRUE
       /\ receiver' = "check"
       /\ UNCHANGED stop

\* start_receiver()
StartReceiver ==
  IF ~started' \/ running
  THEN UNCHANGED <<flagVars, receiver>>
  ELSE /\ stop' = FALSE
       /\ running' = TRUE
       /\ receiver' = "check"

\* set_receive_callback(), first part: store the callback under its mutex.
SetCallback(c) ==
  /\ CallerMayEnter
  /\ callback' = c
  /\ caller' = "applied"
  /\ stale' = 0
  /\ overruled' = FALSE
  /\ UNCHANGED <<mode, flagVars, receiver, pollVars, ioVars, delivered,
                 taken, dropped, terminated>>

\* set_receive_callback(), second part, a callback is set: start_receiver().
ApplyCallback ==
  /\ caller = "applied"
  /\ callback # NoCallback
  /\ caller' = "idle"
  /\ UNCHANGED <<mode, callback, pollVars, ioVars, history, terminated>>
  /\ StartReceiver

\* Mutant of ApplyNoCallback: joins without having asked the thread to stop.
ApplyNoCallbackNoStop ==
  /\ caller = "applied"
  /\ callback = NoCallback
  /\ caller' = IF running THEN "unsetting" ELSE "idle"
  /\ UNCHANGED <<mode, callback, flagVars, receiver, pollVars, ioVars,
                 history, terminated>>

\* set_receive_callback(), second part, no callback: stop_receiver() up to
\* the join.
ApplyNoCallback ==
  /\ caller = "applied"
  /\ callback = NoCallback
  /\ IF running
     THEN stop' = TRUE /\ caller' = "unsetting"
     ELSE caller' = "idle" /\ UNCHANGED stop
  /\ UNCHANGED <<mode, callback, running, receiver, pollVars, ioVars,
                 history, terminated>>

\* transport_.reset(): whatever the transport still holds is gone.
ResetTransport ==
  /\ started' = FALSE
  /\ rx' = <<>>
  /\ dropped' = dropped \cup ToSet(rx)

\* Mutant of CloseRunning: resets the transport before the join.
CloseRunningResetFirst ==
  /\ CallerMayEnter
  /\ running
  /\ stop' = TRUE
  /\ caller' = "closing"
  /\ ResetTransport
  /\ UNCHANGED <<mode, callback, running, receiver, pollVars, arrived,
                 delivered, taken, stale, overruled, terminated>>

\* close() with a receiver thread: stop_receiver() up to the join.
CloseRunning ==
  /\ CallerMayEnter
  /\ running
  /\ stop' = TRUE
  /\ caller' = "closing"
  /\ UNCHANGED <<mode, callback, running, receiver, pollVars, ioVars,
                 history, terminated>>

\* close() without a receiver thread.
CloseQuiet ==
  /\ CallerMayEnter
  /\ ~running
  /\ started
  /\ ResetTransport
  /\ UNCHANGED <<mode, apiVars, flagVars, receiver, pollVars, arrived,
                 delivered, taken, stale, overruled, terminated>>

\* stop_receiver() after the join, and the rest of set_receive_callback()
\* or close().
Join ==
  /\ caller \in {"unsetting", "closing"}
  /\ receiver = "exited"
  /\ receiver' = "none"
  /\ running' = FALSE
  /\ caller' = "idle"
  /\ IF caller = "closing"
     THEN ResetTransport
     ELSE UNCHANGED <<started, rx, dropped>>
  /\ UNCHANGED <<mode, callback, stop, pollVars, arrived, delivered, taken,
                 stale, overruled, terminated>>

\* Mutant of Start: leaves the registered callback without a receiver.
StartNoReceiver ==
  /\ CallerMayEnter
  /\ ~started
  /\ started' = TRUE
  /\ UNCHANGED <<mode, apiVars, flagVars, receiver, pollVars, rx, arrived,
                 history, terminated>>

\* start() on a closed object: a new transport from the same ifname, and a
\* receiver if a callback is still registered.
Start ==
  /\ CallerMayEnter
  /\ ~started
  /\ started' = TRUE
  /\ UNCHANGED <<mode, apiVars, pollVars, rx, arrived, history, terminated>>
  /\ IF callback # NoCallback
     THEN StartReceiver
     ELSE UNCHANGED <<flagVars, receiver>>

\* read(), read(n) or read_all() by the caller, on the same transport the
\* receiver polls.
CallerReads ==
  /\ CallerMayEnter
  /\ \E n \in 1..Len(rx) :
       /\ taken' = taken \cup ToSet(SubSeq(rx, 1, n))
       /\ rx' = SubSeq(rx, n + 1, Len(rx))
  /\ UNCHANGED <<mode, started, arrived, apiVars, flagVars, receiver,
                 pollVars, delivered, dropped, stale, overruled, terminated>>

-----------------------------------------------------------------------------
(* The receiver thread.                                                    *)

\* The fields no step of the receiver thread writes.
CallbackFrame ==
  UNCHANGED <<mode, started, caller, running, arrived, taken, dropped>>
ReceiverFrame == CallbackFrame /\ UNCHANGED overruled

\* The head of the loop; without a transport it only sleeps.
CheckStop ==
  /\ receiver = "check"
  /\ receiver' = IF stop THEN "exited" ELSE IF started THEN "copy" ELSE "check"
  /\ ReceiverFrame
  /\ UNCHANGED <<rx, callback, stop, pollVars, delivered, stale, terminated>>

\* Mutant of CopyCallback: keeps the copy of an earlier round.
CopyCallbackOnce ==
  /\ receiver = "copy"
  /\ held' = IF held = NoCallback \/ callback = NoCallback THEN callback ELSE held
  /\ receiver' = IF callback = NoCallback THEN "tail" ELSE "probe"
  /\ ReceiverFrame
  /\ UNCHANGED <<rx, callback, stop, hand, delivered, stale, terminated>>

\* poll_receive() copies the callback under its mutex.
CopyCallback ==
  /\ receiver = "copy"
  /\ held' = callback
  /\ receiver' = IF callback = NoCallback THEN "tail" ELSE "probe"
  /\ ReceiverFrame
  /\ UNCHANGED <<rx, callback, stop, hand, delivered, stale, terminated>>

\* in_waiting() decides between read() + read_all() and read_all() alone.
Probe ==
  /\ receiver = "probe"
  /\ receiver' = IF rx = <<>> THEN "first" ELSE "all"
  /\ ReceiverFrame
  /\ UNCHANGED <<rx, callback, stop, pollVars, delivered, stale, terminated>>

\* Mutant of ReadFirst: a buffer of one byte is returned whatever was read.
ReadFirstUnchecked ==
  /\ receiver = "first"
  /\ rx # <<>> \/ EmptyReadReturns
  /\ hand' = <<IF rx = <<>> THEN 0 ELSE Head(rx)>>
  /\ rx' = IF rx = <<>> THEN rx ELSE Tail(rx)
  /\ receiver' = "rest"
  /\ ReceiverFrame
  /\ UNCHANGED <<callback, stop, held, delivered, stale, terminated>>

\* read(): one byte, or nothing.
ReadFirst ==
  /\ receiver = "first"
  /\ \/ /\ rx # <<>>
        /\ hand' = <<Head(rx)>>
        /\ rx' = Tail(rx)
        /\ receiver' = "rest"
     \/ /\ EmptyReadReturns
        /\ receiver' = "tail"
        /\ UNCHANGED <<rx, hand>>
  /\ ReceiverFrame
  /\ UNCHANGED <<callback, stop, held, delivered, stale, terminated>>

\* Mutant of ReadRest: the first byte is put after the others.
ReadRestSwapped ==
  /\ receiver = "rest"
  /\ rx # <<>> \/ EmptyReadReturns
  /\ hand' = rx \o hand
  /\ rx' = <<>>
  /\ receiver' = "ready"
  /\ ReceiverFrame
  /\ UNCHANGED <<callback, stop, held, delivered, stale, terminated>>

\* Mutant of ReadRest: gives up on what it holds when a stop is requested.
ReadRestStopping ==
  /\ receiver = "rest"
  /\ rx # <<>> \/ EmptyReadReturns
  /\ hand' = hand \o rx
  /\ rx' = <<>>
  /\ receiver' = IF stop THEN "tail" ELSE "ready"
  /\ ReceiverFrame
  /\ UNCHANGED <<callback, stop, held, delivered, stale, terminated>>

\* read_all() after read(): it too waits when nothing is left.
ReadRest ==
  /\ receiver = "rest"
  /\ rx # <<>> \/ EmptyReadReturns
  /\ hand' = hand \o rx
  /\ rx' = <<>>
  /\ receiver' = "ready"
  /\ ReceiverFrame
  /\ UNCHANGED <<callback, stop, held, delivered, stale, terminated>>

\* read_all() when in_waiting() was positive; the caller may have taken the
\* bytes in between.
ReadAll ==
  /\ receiver = "all"
  /\ rx # <<>> \/ EmptyReadReturns
  /\ hand' = rx
  /\ rx' = <<>>
  /\ receiver' = IF rx = <<>> THEN "tail" ELSE "ready"
  /\ ReceiverFrame
  /\ UNCHANGED <<callback, stop, held, delivered, stale, terminated>>

\* The copy of the callback is invoked with the bytes read.
InvokeCallback ==
  /\ receiver = "ready"
  /\ CallbackMayRun
  /\ delivered' = delivered \o hand
  /\ hand' = <<>>
  /\ stale' = IF held = callback THEN stale ELSE stale + 1
  /\ receiver' = "calling"
  /\ ReceiverFrame
  /\ UNCHANGED <<rx, callback, stop, held, terminated>>

CallbackReturns ==
  /\ receiver = "calling"
  /\ CallbackMayRun
  /\ receiver' = "tail"
  /\ ReceiverFrame
  /\ UNCHANGED <<rx, callback, stop, pollVars, delivered, stale, terminated>>

\* The callback itself calls set_receive_callback(), first part.
CallbackSets(c) ==
  /\ receiver = "calling"
  /\ CallbackMayRun
  /\ callback' = c
  /\ receiver' = "setting"
  /\ stale' = 0
  /\ overruled' = (overruled \/ (caller = "unsetting" /\ c # NoCallback))
  /\ CallbackFrame
  /\ UNCHANGED <<rx, stop, pollVars, delivered, terminated>>

\* stop_receiver() on the thread it is to stop: join() throws, which ends a
\* C++ program; the Python wrapper catches and prints it.
JoinsItself == stop' = TRUE /\ terminated' = ~PythonBinding

\* set_receive_callback() in the callback, second part.  The callback that is
\* registered by now may be the caller's; start_receiver() does nothing, for
\* the thread runs, even if the caller waits for it to end.
CallbackApplies ==
  /\ receiver = "setting"
  /\ receiver' = "calling"
  /\ IF callback = NoCallback THEN JoinsItself ELSE UNCHANGED <<stop, terminated>>
  /\ ReceiverFrame
  /\ UNCHANGED <<rx, callback, pollVars, delivered, stale>>

\* The callback itself calls close().
CallbackCloses ==
  /\ receiver = "calling"
  /\ CallbackMayRun
  /\ JoinsItself
  /\ ReceiverFrame
  /\ UNCHANGED <<rx, callback, receiver, pollVars, delivered, stale>>

\* The tail of the loop body; the sleep leaves no trace.
Loop ==
  /\ receiver = "tail"
  /\ receiver' = "check"
  /\ ReceiverFrame
  /\ UNCHANGED <<rx, callback, stop, pollVars, delivered, stale, terminated>>

-----------------------------------------------------------------------------
CallerCalls ==
  \/ \E c \in Callbacks \cup {NoCallback} : SetCallback(c)
  \/ CloseRunning
  \/ CloseQuiet
  \/ Start
  \/ CallerReads

CallerContinues == ApplyCallback \/ ApplyNoCallback \/ Join

ReceiverRuns ==
  \/ CheckStop \/ CopyCallback \/ Probe
  \/ ReadFirst \/ ReadRest \/ ReadAll
  \/ InvokeCallback \/ CallbackApplies \/ CallbackReturns \/ Loop

CallbackCalls ==
  \/ \E c \in Callbacks \cup {NoCallback} : CallbackSets(c)
  \/ CallbackCloses

Next ==
  /\ ~terminated
  /\ \/ Arrive
     \/ CallerCalls
     \/ CallerContinues
     \/ ReceiverRuns
     \/ CallbackCalls

\* Both threads are scheduled, and a callback returns after finitely many
\* calls of its own.  Nobody has to call the API, and no byte has to arrive.
Fairness ==
  /\ WF_vars(~terminated /\ CallerContinues)
  /\ WF_vars(~terminated /\ ReceiverRuns)
  /\ SF_vars(~terminated /\ CallbackReturns)

Spec == Init /\ [][Next]_vars /\ Fairness

-----------------------------------------------------------------------------
(* Safety.                                                                 *)

Stopping == caller \in {"unsetting", "closing"}

\* Whenever neither the caller nor the callback is inside the API there is a
\* receiver thread exactly when a callback is registered and the transport is
\* open: once set_receive_callback(nullptr) or close() has returned no callback
\* can run any more, and no order of start, close and set_receive_callback
\* leaves a registered callback without its thread (UniTransmit.cpp:163-173,
\* 204-251).  One does: a callback that registers another while the caller
\* waits for its thread to end leaves that one registered and without thread.
ReceiverMatchesRequest ==
  (caller = "idle" /\ receiver # "setting" /\ ~terminated) =>
    /\ running => callback # NoCallback /\ started
    /\ callback # NoCallback /\ started => running \/ overruled
    /\ receiver # "none" <=> running

\* close() resets the transport only after the receiver is joined, so no
\* poll ever runs on a destroyed transport (UniTransmit.cpp:217-220).
TransportOutlivesReceiver == receiver \notin {"none", "exited"} => started

\* A callback that has been replaced or removed is invoked at most once
\* more: poll_receive works on a copy, but takes a new one every round
\* (UniTransmit.cpp:178-182).
AtMostOneStaleCall == stale <= 1

\* Every byte that arrived is in exactly one place: in the transport, in
\* poll_receive's hands, passed to a callback, read by the caller or lost
\* with the transport; and callbacks see bytes in the order of arrival.
\* (poll_receive's read() + read_all() against a concurrent reader and a
\* stop request, UniTransmit.cpp:177-202.)
EachByteOnceInOrder ==
  LET inFlight == delivered \o hand \o rx IN
  /\ \A i, j \in DOMAIN inFlight : i < j => inFlight[i] < inFlight[j]
  /\ taken \cap dropped = {}
  /\ ToSet(inFlight) \cap (taken \cup dropped) = {}
  /\ ToSet(inFlight) \cup taken \cup dropped = 1..arrived

\* When the receiver thread ends it has passed on everything it read: a stop
\* request never costs a byte (UniTransmit.cpp:195, 200, 229).
NothingLeftInHand == receiver \in {"none", "exited"} => hand = <<>>

-----------------------------------------------------------------------------
(* Liveness.                                                               *)

\* A call that stops the receiver comes back (UniTransmit.cpp:242-251).
StopReturns == Stopping ~> (caller = "idle" \/ terminated)

\* The same where reads are bounded: blocking=0 or timeout_ms >= 0.
BoundedStopReturns == mode # "forever" => StopReturns

Unread(i) == i \in ToSet(rx) \cup ToSet(hand)

\* A byte that is available while a callback is registered reaches the
\* callback or the caller, unless reception is stopped first
\* (poll_receive, UniTransmit.cpp:177-202).
AvailableIsDelivered ==
  \A i \in Bytes :
    (running /\ Unread(i)) ~> (~Unread(i) \/ Stopping \/ terminated)

\* The same where reads are bounded.
BoundedAvailableIsDelivered == mode # "forever" => AvailableIsDelivered
=============================================================================
