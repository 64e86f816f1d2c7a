--------------------------- MODULE MCMqttConnection ---------------------------
(* Small instances of MqttConnection for TLC: the constants are in the .cfg. *)
EXTENDS MqttConnection
=============================================================================
