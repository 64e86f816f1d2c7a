----------------------------- MODULE MCMqttFlows -----------------------------
(* Small instances of MqttFlows for TLC. *)
EXTENDS MqttFlows
=============================================================================
