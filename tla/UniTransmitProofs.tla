------------------------- MODULE UniTransmitProofs -------------------------
(***************************************************************************)
(* Proofs about the facade and its receiver thread, for any callbacks,     *)
(* options and number of bytes.                                            *)
(***************************************************************************)
EXTENDS UniTransmit, SequenceLemmas

(***************************************************************************)
(* Types.                                                                  *)
(***************************************************************************)

\* The bytes that arrive together are a sequence of bytes.
LEMMA ArrivalType ==
  ASSUME NEW a \in 0..MaxBytes, NEW n \in 1..(MaxBytes - a)
  PROVE  [i \in 1..n |-> a + i] \in Seq(Bytes)
<1>1. \A i \in 1..n : a + i \in Bytes
  BY UniTransmitAssumption DEF UniTransmitAssumption, Bytes
<1>2. n \in Nat
  BY UniTransmitAssumption DEF UniTransmitAssumption
<1>3. QED
  BY <1>1, <1>2

\* Bytes that arrive.
LEMMA ArriveType == TypeOK /\ Arrive => TypeOK'
<1> SUFFICES ASSUME TypeOK, Arrive PROVE TypeOK'
  OBVIOUS
<1> USE UniTransmitAssumption DEF UniTransmitAssumption, TypeOK
<1>1. PICK n \in 1..(MaxBytes - arrived) :
        /\ rx' = rx \o [i \in 1..n |-> arrived + i]
        /\ arrived' = arrived + n
  BY DEF Arrive
<1>2. rx' \in Seq(Bytes)
  <2>1. [i \in 1..n |-> arrived + i] \in Seq(Bytes)
    BY ArrivalType
  <2>2. QED
    BY <1>1, <2>1, ConcatProperties
<1>3. arrived' \in 0..MaxBytes
  BY <1>1
<1>4. QED
  BY <1>2, <1>3 DEF Arrive, apiVars, flagVars, pollVars, history

\* The calls of the controlling thread.
LEMMA CallerType ==
  ASSUME TypeOK, CallerCalls \/ CallerContinues
  PROVE  TypeOK'
<1> USE UniTransmitAssumption, EmptySeq
    DEF UniTransmitAssumption, TypeOK, apiVars, flagVars, pollVars, ioVars, history
<1>1. ToSet(rx) \subseteq Bytes
  BY ToSetType
<1>2. <<>> \in Seq(Bytes)
  OBVIOUS
<1>3. CASE \E c \in Callbacks \cup {NoCallback} : SetCallback(c)
  <2>1. PICK c \in Callbacks \cup {NoCallback} : SetCallback(c)
    BY <1>3
  <2>2. /\ callback' = c /\ caller' = "applied" /\ stale' = 0 /\ overruled' = FALSE
        /\ UNCHANGED <<mode, flagVars, receiver, pollVars, ioVars, delivered,
                       taken, dropped, terminated>>
    BY <2>1 DEF SetCallback
  <2>3. QED
    BY <2>2
<1>4. CASE CloseRunning
  BY <1>4 DEF CloseRunning
<1>5. CASE CloseQuiet
  BY <1>1, <1>2, <1>5 DEF CloseQuiet, ResetTransport
<1>6. CASE Start
  <2>1. /\ started' = TRUE
        /\ UNCHANGED <<mode, apiVars, pollVars, rx, arrived, history, terminated>>
    BY <1>6 DEF Start
  <2>2. receiver' \in {receiver, "check"}
    BY <1>6 DEF Start, StartReceiver
  <2>3. running' \in BOOLEAN /\ stop' \in BOOLEAN
    BY <1>6 DEF Start, StartReceiver
  <2>4. QED
    BY <2>1, <2>2, <2>3 DEF Places
<1>7. CASE CallerReads
  <2>1. PICK n \in 1..Len(rx) :
          /\ taken' = taken \cup ToSet(SubSeq(rx, 1, n))
          /\ rx' = SubSeq(rx, n + 1, Len(rx))
    BY <1>7 DEF CallerReads
  <2>2. n \in Nat /\ Len(rx) \in Nat /\ 1 <= n /\ n <= Len(rx)
    BY <2>1, LenProperties
  <2>3. SubSeq(rx, 1, n) \in Seq(Bytes) /\ SubSeq(rx, n + 1, Len(rx)) \in Seq(Bytes)
    BY <2>2, SubSeqProperties
  <2>4. ToSet(SubSeq(rx, 1, n)) \subseteq Bytes
    BY <2>3, ToSetType
  <2>5. rx' \in Seq(Bytes) /\ taken' \in SUBSET Bytes
    BY <2>1, <2>3, <2>4
  <2>6. QED
    BY <1>7, <2>5 DEF CallerReads
<1>8. CASE ApplyCallback
  <2>1. /\ caller' = "idle"
        /\ UNCHANGED <<mode, callback, pollVars, ioVars, history, terminated>>
    BY <1>8 DEF ApplyCallback
  <2>2. receiver' \in {receiver, "check"}
    BY <1>8 DEF ApplyCallback, StartReceiver
  <2>3. running' \in BOOLEAN /\ stop' \in BOOLEAN
    BY <1>8 DEF ApplyCallback, StartReceiver
  <2>4. QED
    BY <2>1, <2>2, <2>3 DEF Places
<1>9. CASE ApplyNoCallback
  BY <1>9 DEF ApplyNoCallback
<1>10. CASE Join
  BY <1>1, <1>2, <1>10 DEF Join, ResetTransport, Places
<1>11. QED
  BY <1>3, <1>4, <1>5, <1>6, <1>7, <1>8, <1>9, <1>10 DEF CallerCalls, CallerContinues

\* The steps of the receiver thread and of its callback.
LEMMA ReceiverType ==
  ASSUME TypeOK, ReceiverRuns \/ CallbackCalls
  PROVE  TypeOK'
<1> USE DEF TypeOK, ReceiverFrame, CallbackFrame, pollVars, Places
<1>1. <<>> \in Seq(Bytes)
  BY EmptySeq
<1>2. hand \o rx \in Seq(Bytes) /\ delivered \o hand \in Seq(Bytes)
  BY ConcatProperties
<1>3. CASE CheckStop
  BY <1>3 DEF CheckStop
<1>4. CASE CopyCallback
  BY <1>4 DEF CopyCallback
<1>5. CASE Probe
  BY <1>5 DEF Probe
<1>6. CASE ReadFirst
  <2>1. rx # <<>> => Tail(rx) \in Seq(Bytes) /\ <<Head(rx)>> \in Seq(Bytes)
    BY HeadTailProperties
  <2>2. rx' \in Seq(Bytes) /\ hand' \in Seq(Bytes)
    BY <1>6, <2>1 DEF ReadFirst
  <2>3. receiver' \in {"rest", "tail"}
    BY <1>6 DEF ReadFirst
  <2>4. UNCHANGED <<callback, stop, held, delivered, stale, terminated>> /\ ReceiverFrame
    BY <1>6 DEF ReadFirst
  <2>5. QED
    BY <2>2, <2>3, <2>4
<1>7. CASE ReadRest
  BY <1>1, <1>2, <1>7 DEF ReadRest
<1>8. CASE ReadAll
  BY <1>1, <1>8 DEF ReadAll
<1>9. CASE InvokeCallback
  BY <1>1, <1>2, <1>9 DEF InvokeCallback
<1>10. CASE CallbackReturns
  BY <1>10 DEF CallbackReturns
<1>11. CASE Loop
  BY <1>11 DEF Loop
<1>12. CASE CallbackApplies
  <2>1. /\ receiver' = "calling"
        /\ UNCHANGED <<rx, callback, pollVars, delivered, stale>> /\ ReceiverFrame
    BY <1>12 DEF CallbackApplies
  <2>2. stop' \in BOOLEAN /\ terminated' \in BOOLEAN
    BY <1>12 DEF CallbackApplies, JoinsItself
  <2>3. QED
    BY <2>1, <2>2
<1>13. CASE \E c \in Callbacks \cup {NoCallback} : CallbackSets(c)
  BY <1>13 DEF CallbackSets
<1>14. CASE CallbackCloses
  BY <1>14, UniTransmitAssumption DEF CallbackCloses, JoinsItself, UniTransmitAssumption
<1>15. QED
  BY <1>3, <1>4, <1>5, <1>6, <1>7, <1>8, <1>9, <1>10, <1>11, <1>12, <1>13, <1>14
     DEF ReceiverRuns, CallbackCalls

\* Every variable of the facade keeps its type.
THEOREM TypeCorrect == Spec => []TypeOK
<1>1. Init => TypeOK
  <2>1. <<>> \in Seq(Bytes)
    BY EmptySeq
  <2>2. 0 \in 0..MaxBytes
    BY UniTransmitAssumption DEF UniTransmitAssumption
  <2>3. Init => /\ receiver \in Places /\ stale \in Nat
                /\ arrived \in 0..MaxBytes
    BY <2>2 DEF Init, Places
  <2>4. QED
    BY <2>1, <2>3, Zenon DEF Init, TypeOK
<1>2. TypeOK /\ [Next]_vars => TypeOK'
  <2>1. CASE UNCHANGED vars
    BY <2>1 DEF vars, apiVars, flagVars, pollVars, ioVars, history, TypeOK
  <2>2. CASE Next
    BY <2>2, ArriveType, CallerType, ReceiverType DEF Next
  <2>3. QED
    BY <2>1, <2>2
<1>3. QED
  BY <1>1, <1>2, PTL DEF Spec

-----------------------------------------------------------------------------
(***************************************************************************)
(* The protocol between the caller and its receiver thread.  The           *)
(* properties alone are not inductive: they speak of the moments when the  *)
(* caller is outside the API, and need to know what holds inside it.       *)
(***************************************************************************)

\* The thread exists while receiver_running_ is set, which takes a transport,
\* and ends only when it has been asked to.
ThreadMatchesFlags ==
  /\ running <=> receiver # "none"
  /\ running => started
  /\ receiver = "exited" => stop

\* A caller that waits for the thread has asked it to stop; one that unsets
\* the callback has removed it, unless the callback has set another.
StopIsRequested ==
  /\ Stopping => running /\ stop
  /\ caller = "unsetting" => callback = NoCallback \/ overruled

\* Outside the API a receiver runs exactly for a registered callback on an
\* open transport, unless a callback has stopped its own receiver.
RequestIsApplied ==
  (~terminated /\ ~PythonBinding) =>
    /\ (running /\ stop) => Stopping
    /\ (caller = "idle" /\ receiver # "setting") =>
         /\ running => callback # NoCallback /\ started
         /\ callback # NoCallback /\ started => running \/ overruled

\* Between taking its copy and the call poll_receive may hold a callback that
\* has been replaced, but only if none was called since.
Holding == {"probe", "first", "rest", "all", "ready"}

CopyIsFresh ==
  /\ stale \in {0, 1}
  /\ (stale = 1 /\ receiver \in Holding) => held = callback

\* Bytes are in poll_receive's hands only between the read and the call.
HandIsPassedOn == receiver \notin {"rest", "ready"} => hand = <<>>

Inv ==
  /\ TypeOK
  /\ ThreadMatchesFlags
  /\ StopIsRequested
  /\ RequestIsApplied
  /\ CopyIsFresh
  /\ HandIsPassedOn

Parts == ThreadMatchesFlags /\ StopIsRequested /\ RequestIsApplied
           /\ CopyIsFresh /\ HandIsPassedOn

\* The caller's steps keep the parts of the invariant.
LEMMA CallerParts ==
  ASSUME Inv, ~terminated, Arrive \/ CallerCalls \/ CallerContinues
  PROVE  Parts'
<1> USE DEF Inv, Parts, TypeOK, ThreadMatchesFlags, StopIsRequested, RequestIsApplied,
            CopyIsFresh, HandIsPassedOn, Stopping, Holding, CallerMayEnter,
            apiVars, flagVars, pollVars, ioVars, history
<1>1. CASE Arrive
  BY <1>1 DEF Arrive
<1>2. CASE \E c \in Callbacks \cup {NoCallback} : SetCallback(c)
  BY <1>2 DEF SetCallback
<1>3. CASE CloseRunning
  BY <1>3 DEF CloseRunning
<1>4. CASE CloseQuiet
  BY <1>4 DEF CloseQuiet, ResetTransport
<1>5. CASE Start
  BY <1>5 DEF Start, StartReceiver
<1>6. CASE CallerReads
  BY <1>6 DEF CallerReads
<1>7. CASE ApplyCallback
  BY <1>7 DEF ApplyCallback, StartReceiver
<1>8. CASE ApplyNoCallback
  BY <1>8 DEF ApplyNoCallback
<1>9. CASE Join
  BY <1>9 DEF Join, ResetTransport
<1>10. QED
  BY <1>1, <1>2, <1>3, <1>4, <1>5, <1>6, <1>7, <1>8, <1>9
     DEF CallerCalls, CallerContinues

\* The receiver thread's steps keep them too.
LEMMA ReceiverParts ==
  ASSUME Inv, ~terminated,
         ReceiverRuns \/ CallbackCalls
  PROVE  Parts'
<1> USE DEF Inv, Parts, TypeOK, ThreadMatchesFlags, StopIsRequested, RequestIsApplied,
            CopyIsFresh, HandIsPassedOn, Stopping, Holding, ReceiverFrame, CallbackFrame, pollVars
<1>1. CASE CheckStop
  BY <1>1 DEF CheckStop
<1>2. CASE CopyCallback
  BY <1>2 DEF CopyCallback
<1>3. CASE Probe
  BY <1>3 DEF Probe
<1>4. CASE ReadFirst
  BY <1>4 DEF ReadFirst
<1>5. CASE ReadRest
  BY <1>5 DEF ReadRest
<1>6. CASE ReadAll
  BY <1>6 DEF ReadAll
<1>7. CASE InvokeCallback
  BY <1>7 DEF InvokeCallback
<1>8. CASE CallbackReturns
  BY <1>8 DEF CallbackReturns
<1>9. CASE Loop
  BY <1>9 DEF Loop
<1>10. CASE CallbackApplies
  <2>1. CASE callback = NoCallback
    <3>1. ~terminated' => PythonBinding
      BY <1>10, <2>1, Zenon DEF CallbackApplies, JoinsItself
    <3>2. /\ receiver = "setting" /\ receiver' = "calling" /\ stop' = TRUE
          /\ UNCHANGED <<callback, started, caller, running, held, hand, stale,
                         overruled>>
      BY <1>10, <2>1 DEF CallbackApplies, JoinsItself
    <3>3. QED
      BY <3>1, <3>2
  <2>2. CASE callback # NoCallback
    BY <1>10, <2>2 DEF CallbackApplies
  <2>3. QED
    BY <2>1, <2>2
<1>11. CASE \E c \in Callbacks \cup {NoCallback} : CallbackSets(c)
  BY <1>11, UniTransmitAssumption DEF CallbackSets, UniTransmitAssumption
<1>12. CASE CallbackCloses
  <2>1. ~terminated' => PythonBinding
    BY <1>12, Zenon DEF CallbackCloses, JoinsItself
  <2>2. /\ receiver = "calling" /\ stop' = TRUE
        /\ UNCHANGED <<callback, receiver, started, caller, running, held, hand,
                       stale, overruled>>
    BY <1>12 DEF CallbackCloses, JoinsItself
  <2>3. QED
    BY <2>1, <2>2
<1>13. QED
  BY <1>1, <1>2, <1>3, <1>4, <1>5, <1>6, <1>7, <1>8, <1>9, <1>10, <1>11, <1>12
     DEF ReceiverRuns, CallbackCalls

\* Inv is an invariant of every execution.
THEOREM InvHolds == Spec => []Inv
<1>1. Init /\ TypeOK => Inv
  BY DEF Init, Inv, ThreadMatchesFlags, StopIsRequested, RequestIsApplied,
         CopyIsFresh, HandIsPassedOn, Stopping, Holding
<1>2. Inv /\ TypeOK' /\ [Next]_vars => Inv'
  <2>1. CASE UNCHANGED vars
    BY <2>1 DEF vars, apiVars, flagVars, pollVars, ioVars, history, Inv,
                ThreadMatchesFlags, StopIsRequested, RequestIsApplied,
                CopyIsFresh, HandIsPassedOn, Stopping, Holding
  <2>2. CASE Next
    BY <2>2, CallerParts, ReceiverParts DEF Next, Inv, Parts
  <2>3. QED
    BY <2>1, <2>2
<1>3. QED
  BY <1>1, <1>2, TypeCorrect, PTL DEF Spec

-----------------------------------------------------------------------------
(* The properties.                                                         *)

\* In a C++ program a receiver runs exactly while a callback is registered on
\* an open transport (UniTransmit.cpp:163-173, 204-251).
THEOREM ReceiverIsWanted ==
  ASSUME PythonBinding = FALSE
  PROVE  Spec => []ReceiverMatchesRequest
<1>1. Inv => ReceiverMatchesRequest
  BY DEF Inv, ThreadMatchesFlags, RequestIsApplied, ReceiverMatchesRequest
<1>2. QED
  BY <1>1, InvHolds, PTL

\* No poll runs on a destroyed transport (UniTransmit.cpp:217-220).
THEOREM NoPollAfterReset == Spec => []TransportOutlivesReceiver
<1>1. Inv => TransportOutlivesReceiver
  BY DEF Inv, ThreadMatchesFlags, TransportOutlivesReceiver
<1>2. QED
  BY <1>1, InvHolds, PTL

\* A replaced callback is called at most once more (UniTransmit.cpp:178-182).
THEOREM OneStaleCall == Spec => []AtMostOneStaleCall
<1>1. Inv => AtMostOneStaleCall
  BY DEF Inv, CopyIsFresh, AtMostOneStaleCall
<1>2. QED
  BY <1>1, InvHolds, PTL

\* A stop request costs no byte that was read (UniTransmit.cpp:195, 200, 229).
THEOREM StopLosesNothing == Spec => []NothingLeftInHand
<1>1. Inv => NothingLeftInHand
  BY DEF Inv, HandIsPassedOn, NothingLeftInHand
<1>2. QED
  BY <1>1, InvHolds, PTL

-----------------------------------------------------------------------------
(***************************************************************************)
(* No byte is lost, doubled or overtaken.  On its way to the callback a    *)
(* byte is in one of three sequences; each step moves bytes between their  *)
(* ends, adds new ones behind, or takes bytes out of the transport.        *)
(***************************************************************************)

InFlight == (delivered \o hand) \o rx

\* Bytes are numbered as they arrive.
LEMMA BytesAreNumbers == ASSUME NEW s \in Seq(Bytes) PROVE s \in Seq(Int)
<1>1. Bytes \subseteq Int
  BY UniTransmitAssumption DEF Bytes, UniTransmitAssumption
<1>2. QED
  BY <1>1, SeqMonotonic

\* What is delivered, in hand or still in the transport are sequences of bytes.
LEMMA InFlightType ==
  TypeOK => /\ delivered \o hand \in Seq(Bytes) /\ InFlight \in Seq(Bytes)
            /\ delivered \in Seq(Int) /\ hand \in Seq(Int) /\ rx \in Seq(Int)
            /\ delivered \o hand \in Seq(Int) /\ InFlight \in Seq(Int)
<1>2. \A s \in Seq(Bytes) : s \in Seq(Int)
  BY BytesAreNumbers
<1>3. QED
  BY <1>2, ConcatProperties DEF TypeOK, InFlight

\* The property, in the words of SequenceLemmas.
LEMMA EachByteParts ==
  EachByteOnceInOrder <=>
    /\ Increasing(InFlight)
    /\ taken \cap dropped = {}
    /\ ToSet(InFlight) \cap (taken \cup dropped) = {}
    /\ ToSet(InFlight) \cup taken \cup dropped = 1..arrived
BY DEF EachByteOnceInOrder, InFlight, Increasing

\* Bytes that only change hands.
LEMMA SameBytes ==
  ASSUME EachByteOnceInOrder, InFlight' = InFlight,
         UNCHANGED <<taken, dropped, arrived>>
  PROVE  EachByteOnceInOrder'
BY DEF EachByteOnceInOrder, InFlight

\* Bytes that leave the transport for the caller, or for good.
LEMMA BytesLeave ==
  ASSUME TypeOK, EachByteOnceInOrder,
         NEW a \in Seq(Bytes), NEW b \in Seq(Bytes), rx = a \o b,
         rx' = b, UNCHANGED <<delivered, hand, arrived>>,
         \/ taken' = taken \cup ToSet(a) /\ UNCHANGED dropped
         \/ dropped' = dropped \cup ToSet(a) /\ UNCHANGED taken
  PROVE  EachByteOnceInOrder'
<1>1. a \in Seq(Int) /\ b \in Seq(Int)
  BY BytesAreNumbers
<1>2. PICK d \in Seq(Int) : d = delivered \o hand
  BY InFlightType
<1>3. InFlight = d \o (a \o b) /\ InFlight' = d \o b
  BY <1>2 DEF InFlight
<1>4. /\ Increasing(InFlight')
      /\ ToSet(InFlight) = ToSet(InFlight') \cup ToSet(a)
      /\ ToSet(a) \cap ToSet(InFlight') = {}
  BY <1>1, <1>2, <1>3, EachByteParts, RemovePart, Zenon
<1> DEFINE flight == ToSet(InFlight)
           flightAfter == ToSet(InFlight')
           left == ToSet(a)
<1>5. /\ taken \cap dropped = {} /\ flight \cap (taken \cup dropped) = {}
      /\ flight \cup taken \cup dropped = 1..arrived
  BY EachByteParts
<1>6. flight = flightAfter \cup left /\ left \cap flightAfter = {}
  BY <1>4
<1>7. /\ taken' \cap dropped' = {} /\ flightAfter \cap (taken' \cup dropped') = {}
      /\ flightAfter \cup taken' \cup dropped' = 1..arrived'
  <2> HIDE DEF flight, flightAfter, left
  <2>1. \/ taken' = taken \cup left /\ dropped' = dropped
        \/ dropped' = dropped \cup left /\ taken' = taken
    BY DEF left
  <2>2. QED
    BY <1>5, <1>6, <2>1
<1>8. QED
  <2>1. (/\ Increasing(InFlight)
         /\ taken \cap dropped = {}
         /\ ToSet(InFlight) \cap (taken \cup dropped) = {}
         /\ ToSet(InFlight) \cup taken \cup dropped = 1..arrived)' => EachByteOnceInOrder'
    BY Zenon DEF EachByteOnceInOrder, InFlight, Increasing
  <2>2. QED
    BY <1>4, <1>7, <2>1

\* New bytes come behind all others.
LEMMA ArriveOrder ==
  ASSUME TypeOK, EachByteOnceInOrder, Arrive
  PROVE  EachByteOnceInOrder'
<1>1. PICK n \in 1..(MaxBytes - arrived) :
        /\ rx' = rx \o [i \in 1..n |-> arrived + i]
        /\ arrived' = arrived + n
        /\ UNCHANGED <<delivered, hand, taken, dropped>>
  BY DEF Arrive, pollVars, history
<1>2. n \in Nat /\ n >= 1 /\ arrived \in Nat
  BY UniTransmitAssumption DEF UniTransmitAssumption, TypeOK
<1>3. PICK new \in Seq(Int) :
        /\ new = [i \in 1..n |-> arrived + i]
        /\ Increasing(new) /\ ToSet(new) = (arrived + 1)..(arrived + n)
  <2>1. /\ [i \in 1..n |-> arrived + i] \in Seq(Nat)
        /\ Increasing([i \in 1..n |-> arrived + i])
        /\ ToSet([i \in 1..n |-> arrived + i]) = (arrived + 1)..(arrived + n)
    BY <1>2, Numbers
  <2>2. QED
    BY <2>1
<1>4. InFlight' = InFlight \o new
  <2>1. PICK d \in Seq(Int) : d = delivered \o hand
    BY InFlightType
  <2>2. rx \in Seq(Int)
    BY InFlightType
  <2>3. InFlight' = d \o (rx \o new)
    BY <1>1, <1>3, <2>1 DEF InFlight
  <2>4. d \o (rx \o new) = (d \o rx) \o new
    <3>1. PICK r \in Seq(Int) : r = rx
      BY <2>2
    <3>2. d \o (r \o new) = (d \o r) \o new
      <4>1. Associative(d, r, new)
        BY ConcatIsAssociative
      <4>2. QED
        BY <4>1, Zenon DEF Associative
    <3>3. QED
      BY <3>1, <3>2
  <2>5. QED
    BY <2>1, <2>3, <2>4 DEF InFlight
<1>5. PICK f \in Seq(Int) : f = InFlight
  BY InFlightType
<1>6. /\ Increasing(f) /\ taken \cap dropped = {}
      /\ ToSet(f) \cap (taken \cup dropped) = {}
      /\ ToSet(f) \cup taken \cup dropped = 1..arrived
  BY <1>5, EachByteParts
<1>7. ToSet(f \o new) = ToSet(f) \cup ToSet(new)
  BY ToSetConcat
<1>8. Before(ToSet(f), ToSet(new))
  BY <1>2, <1>3, <1>6 DEF Before
<1>9. Increasing(f \o new)
  BY <1>3, <1>6, <1>8, IncreasingConcat
<1>10. /\ ToSet(f \o new) \cap (taken \cup dropped) = {}
       /\ ToSet(f \o new) \cup taken \cup dropped = 1..arrived'
  <2>1. 1..(arrived + n) = (1..arrived) \cup ((arrived + 1)..(arrived + n))
    BY <1>2
  <2>2. (1..arrived) \cap ((arrived + 1)..(arrived + n)) = {}
    BY <1>2
  <2>3. QED
    BY <1>1, <1>3, <1>6, <1>7, <2>1, <2>2
<1>11. (/\ Increasing(InFlight)
        /\ taken \cap dropped = {}
        /\ ToSet(InFlight) \cap (taken \cup dropped) = {}
        /\ ToSet(InFlight) \cup taken \cup dropped = 1..arrived)' => EachByteOnceInOrder'
  BY Zenon DEF EachByteOnceInOrder, InFlight, Increasing
<1>12. QED
  BY <1>1, <1>4, <1>5, <1>6, <1>9, <1>10, <1>11

\* Closing drops what the transport holds.
LEMMA ResetOrder ==
  ASSUME TypeOK, EachByteOnceInOrder, ResetTransport,
         UNCHANGED <<delivered, hand, arrived, taken>>
  PROVE  EachByteOnceInOrder'
<1>1. rx \in Seq(Bytes) /\ <<>> \in Seq(Bytes) /\ rx \o <<>> = rx
  BY ConcatEmptySeq, EmptySeq DEF TypeOK
<1>2. PICK none \in Seq(Bytes) : none = <<>>
  BY <1>1
<1>3. rx = rx \o none /\ rx' = none /\ dropped' = dropped \cup ToSet(rx)
  BY <1>1, <1>2 DEF ResetTransport
<1>4. QED
  BY <1>1, <1>3, BytesLeave

\* The caller's own reads take bytes from the front.
LEMMA CallerOrder ==
  ASSUME TypeOK, EachByteOnceInOrder, CallerCalls \/ CallerContinues
  PROVE  EachByteOnceInOrder'
<1> USE DEF apiVars, flagVars, pollVars, ioVars, history
<1>1. CASE CloseQuiet
  BY <1>1, ResetOrder DEF CloseQuiet
<1>2. CASE CallerReads
  <2>1. PICK n \in 1..Len(rx) :
          /\ taken' = taken \cup ToSet(SubSeq(rx, 1, n))
          /\ rx' = SubSeq(rx, n + 1, Len(rx))
          /\ UNCHANGED <<delivered, hand, arrived, dropped>>
    BY <1>2 DEF CallerReads
  <2>2. n \in 0..Len(rx) /\ rx \in Seq(Bytes)
    BY LenProperties DEF TypeOK
  <2>3. PICK a \in Seq(Bytes), b \in Seq(Bytes) :
          a = SubSeq(rx, 1, n) /\ b = SubSeq(rx, n + 1, Len(rx)) /\ a \o b = rx
    <3>1. /\ SubSeq(rx, 1, n) \in Seq(Bytes) /\ SubSeq(rx, n + 1, Len(rx)) \in Seq(Bytes)
          /\ SubSeq(rx, 1, n) \o SubSeq(rx, n + 1, Len(rx)) = rx
      BY <2>2, SplitSeq
    <3>2. QED
      BY <3>1, Zenon
  <2>4. QED
    BY <2>1, <2>3, BytesLeave
<1>3. CASE Join /\ caller = "closing"
  BY <1>3, ResetOrder DEF Join
<1>4. CASE Join /\ caller # "closing"
  BY <1>4, SameBytes DEF Join, InFlight
<1>5. CASE CloseRunning
  BY <1>5, SameBytes DEF CloseRunning, InFlight
<1>6. CASE \E c \in Callbacks \cup {NoCallback} : SetCallback(c)
  BY <1>6, SameBytes DEF SetCallback, InFlight
<1>7. CASE Start
  BY <1>7, SameBytes DEF Start, InFlight
<1>8. CASE ApplyCallback
  BY <1>8, SameBytes DEF ApplyCallback, InFlight
<1>9. CASE ApplyNoCallback
  BY <1>9, SameBytes DEF ApplyNoCallback, InFlight
<1>10. QED
  BY <1>1, <1>2, <1>3, <1>4, <1>5, <1>6, <1>7, <1>8, <1>9 DEF CallerCalls, CallerContinues

\* poll_receive() takes them from the front and passes on what it has in hand first.
LEMMA ReceiverOrder ==
  ASSUME TypeOK, HandIsPassedOn, EachByteOnceInOrder, ReceiverRuns \/ CallbackCalls
  PROVE  EachByteOnceInOrder'
<1> USE DEF ReceiverFrame, CallbackFrame, pollVars
<1>1. UNCHANGED <<taken, dropped, arrived>>
  BY DEF ReceiverRuns, CallbackCalls, CheckStop, CopyCallback, Probe, ReadFirst, ReadRest,
         ReadAll, InvokeCallback, CallbackApplies, CallbackReturns, Loop, CallbackSets,
         CallbackCloses
<1> SUFFICES InFlight' = InFlight
  BY <1>1, SameBytes
<1>2. PICK d \in Seq(Bytes), h \in Seq(Bytes), r \in Seq(Bytes) :
        d = delivered /\ h = hand /\ r = rx
  BY DEF TypeOK
<1>3. /\ (d \o h) \o r = d \o (h \o r)
      /\ d \o <<>> = d /\ <<>> \o r = r /\ r \o <<>> = r /\ h \o <<>> = h
      /\ (d \o h) \o <<>> = d \o h
      /\ (d \o r) \o <<>> = d \o r
      /\ (d \o (h \o r)) \o <<>> = d \o (h \o r)
  <2>1. Associative(d, h, r)
    BY ConcatIsAssociative
  <2>2. d \o h \in Seq(Bytes) /\ d \o r \in Seq(Bytes) /\ h \o r \in Seq(Bytes)
    BY ConcatProperties
  <2>3. d \o (h \o r) \in Seq(Bytes)
    BY <2>2, ConcatProperties
  <2>4. /\ d \o <<>> = d /\ <<>> \o r = r /\ r \o <<>> = r /\ h \o <<>> = h
        /\ (d \o h) \o <<>> = d \o h
        /\ (d \o r) \o <<>> = d \o r
        /\ (d \o (h \o r)) \o <<>> = d \o (h \o r)
    BY <2>2, <2>3, ConcatEmptySeq
  <2>5. QED
    BY <2>1, <2>4, Zenon DEF Associative
<1>4. CASE ReadFirst /\ rx # <<>>
  <2>1. h = <<>> /\ delivered' = d /\ hand' = <<Head(r)>> /\ rx' = Tail(r)
    BY <1>2, <1>4 DEF ReadFirst, EmptyReadReturns, HandIsPassedOn
  <2>2. PICK u \in Seq(Bytes), v \in Seq(Bytes) :
          u = <<Head(r)>> /\ v = Tail(r) /\ u \o v = r
    BY <1>2, <1>4, HeadSplits
  <2>3. (d \o u) \o v = d \o (u \o v)
    <3>1. Associative(d, u, v)
      BY ConcatIsAssociative
    <3>2. QED
      BY <3>1, Zenon DEF Associative
  <2>4. InFlight = d \o r
    BY <1>2, <1>3, <2>1 DEF InFlight
  <2>5. QED
    BY <2>1, <2>2, <2>3, <2>4 DEF InFlight
<1>5. CASE ReadFirst /\ rx = <<>>
  BY <1>5 DEF ReadFirst, InFlight
<1>6. CASE ReadRest
  <2>1. delivered' = d /\ hand' = h \o r /\ rx' = <<>>
    BY <1>2, <1>6 DEF ReadRest
  <2>2. InFlight' = (d \o (h \o r)) \o <<>>
    BY <2>1 DEF InFlight
  <2>3. QED
    BY <1>2, <1>3, <2>2 DEF InFlight
<1>7. CASE ReadAll
  <2>1. h = <<>> /\ delivered' = d /\ hand' = r /\ rx' = <<>>
    BY <1>2, <1>7 DEF ReadAll, HandIsPassedOn
  <2>2. InFlight' = (d \o r) \o <<>>
    BY <2>1 DEF InFlight
  <2>3. InFlight = (d \o <<>>) \o r
    BY <1>2, <2>1 DEF InFlight
  <2>4. QED
    BY <1>3, <2>2, <2>3
<1>8. CASE InvokeCallback
  <2>1. delivered' = d \o h /\ hand' = <<>> /\ rx' = r
    BY <1>2, <1>8 DEF InvokeCallback
  <2>2. InFlight' = ((d \o h) \o <<>>) \o r
    BY <2>1 DEF InFlight
  <2>3. QED
    BY <1>2, <1>3, <2>2 DEF InFlight
<1>9. CASE UNCHANGED <<delivered, hand, rx>>
  BY <1>9 DEF InFlight
<1>10. QED
  <2>1. CheckStop \/ CopyCallback \/ Probe \/ CallbackReturns \/ Loop \/ CallbackApplies
          \/ CallbackCalls => UNCHANGED <<delivered, hand, rx>>
    BY DEF CheckStop, CopyCallback, Probe, CallbackReturns, Loop, CallbackApplies,
           CallbackCalls, CallbackSets, CallbackCloses
  <2>2. QED
    BY <1>4, <1>5, <1>6, <1>7, <1>8, <1>9, <2>1 DEF ReceiverRuns, CallbackCalls

\* Every byte that arrived is in exactly one place, and callbacks see bytes in
\* the order of arrival (UniTransmit.cpp:177-202).
THEOREM NoByteLostOrOvertaken == Spec => []EachByteOnceInOrder
<1>1. Init => EachByteOnceInOrder
  <2>1. SUFFICES ASSUME Init PROVE EachByteOnceInOrder
    OBVIOUS
  <2>2. <<>> \in Seq(Bytes) /\ ToSet(<<>>) = {}
    BY EmptySeq, ToSetEmpty
  <2>3. InFlight = <<>>
    BY <2>1, <2>2, ConcatEmptySeq DEF Init, InFlight
  <2>4. Increasing(<<>>)
    BY EmptySeq DEF Increasing
  <2>5. QED
    BY <2>1, <2>2, <2>3, <2>4, EachByteParts DEF Init
<1>2. Inv /\ EachByteOnceInOrder /\ [Next]_vars => EachByteOnceInOrder'
  <2>1. SUFFICES ASSUME Inv, EachByteOnceInOrder, [Next]_vars PROVE EachByteOnceInOrder'
    OBVIOUS
  <2>2. CASE UNCHANGED vars
    BY <2>1, <2>2 DEF EachByteOnceInOrder, vars, pollVars, ioVars, history
  <2>3. CASE Next
    BY <2>1, <2>3, ArriveOrder, CallerOrder, ReceiverOrder DEF Next, Inv
  <2>4. QED
    BY <2>1, <2>2, <2>3
<1>3. QED
  BY <1>1, <1>2, InvHolds, PTL DEF Spec
=============================================================================
