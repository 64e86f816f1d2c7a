------------------------------ MODULE MCMqttShim ------------------------------
(* Small instances of MqttShim for TLC. *)
EXTENDS MqttShim

(* Everything goes wrong once. *)
EachOnce == [d \in Disturbances |-> 1]

(* The link is lost once, and nothing else goes wrong. *)
DownOnce == [d \in Disturbances |-> IF d = "down" THEN 1 ELSE 0]
=============================================================================
