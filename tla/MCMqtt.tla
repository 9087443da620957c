------------------------------ MODULE MCMqtt ------------------------------
(***************************************************************************)
(* The MQTT transport with every combination of its options.               *)
(***************************************************************************)
EXTENDS Mqtt

MCOptions == AllOptions
=============================================================================
