------------------------------- MODULE MCInbox -------------------------------
(* Small instances of Inbox for TLC. *)
EXTENDS Inbox

(* A reset or a reconnect, and a kill before or after it. *)
EachOnce == [d \in Disturbances |-> 1]
=============================================================================
