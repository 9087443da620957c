---------------------------- MODULE ByteChannel ----------------------------
(***************************************************************************)
(* What a transport promises for the bytes it has accepted: each channel   *)
(* (a receive buffer and whoever writes to it) hands its bytes out once,   *)
(* in the order in which they were accepted, and never one it was not      *)
(* given.  Writers add whole chunks; a reader takes any number of the      *)
(* bytes that are there.                                                   *)
(***************************************************************************)
EXTENDS Naturals, Sequences

CONSTANTS
  Channels,  \* the channels
  Chunks     \* what one write may hand over: non-empty sequences of bytes

VARIABLES
  accepted,  \* accepted[c]: all bytes channel c has accepted
  delivered  \* delivered[c]: all bytes channel c has handed out

Init ==
  /\ accepted = [c \in Channels |-> <<>>]
  /\ delivered = [c \in Channels |-> <<>>]

\* One write: its bytes stay together.
Accept(c) ==
  /\ \E chunk \in Chunks : accepted' = [accepted EXCEPT ![c] = @ \o chunk]
  /\ UNCHANGED delivered

\* One read: at least one byte, at most all that are left.
Deliver(c) ==
  /\ \E n \in (Len(delivered[c]) + 1)..Len(accepted[c]) :
       delivered' = [delivered EXCEPT ![c] = SubSeq(accepted[c], 1, n)]
  /\ UNCHANGED accepted

Next == \E c \in Channels : Accept(c) \/ Deliver(c)

Spec == Init /\ [][Next]_<<accepted, delivered>>
=============================================================================
