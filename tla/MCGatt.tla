------------------------------ MODULE MCGatt ------------------------------
(***************************************************************************)
(* A central and a peripheral as in doc/usage.md, and a second object      *)
(* opened with the peripheral's device and rx characteristic, which shares *)
(* the buffer the central writes to and writes to it as well.              *)
(***************************************************************************)
EXTENDS Gatt

CONSTANTS central, peripheral, second, evt, cmd

MCTransports == {central, peripheral, second}
MCKeys == {evt, cmd}

MCInKey == [t \in MCTransports |-> IF t = central THEN evt ELSE cmd]

\* The peripheral's URI has no `remote=`: it only receives.
MCOutKey == [t \in MCTransports |-> IF t = peripheral THEN NoKey ELSE cmd]

MCMaxSent == [t \in MCTransports |-> IF t = central THEN 2 ELSE 1]

MCBlocking == {peripheral, second}
MCTimed == {second}
=============================================================================
