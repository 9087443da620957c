------------------------------- MODULE MCTcp -------------------------------
(***************************************************************************)
(* A TCP server with blocking reads, bounded or not, or polled; max_connect*)
(* 1 (the default) or unlimited.                                           *)
(***************************************************************************)
EXTENDS Tcp

CONSTANTS c1, c2

MCClients == {c1, c2}

MCOptions ==
  {o \in [blocking : BOOLEAN, timed : BOOLEAN, limit : {0, 1}] : o.timed => o.blocking}

\* Blocking reads with a timeout and the default max_connect, as in the tests.
MCDefault == [blocking : {TRUE}, timed : {TRUE}, limit : {1}]
=============================================================================
