---------------------------- MODULE MCHttpQueue ----------------------------
(* Small instances of HttpQueue for TLC. *)
EXTENDS HttpQueue

(* Only crashes. *)
CrashOnly == [d \in Disturbances |-> IF d = "crash" THEN 1 ELSE 0]

(* Every disturbance once, in any combination and order. *)
EachOnce == [d \in Disturbances |-> 1]
=============================================================================
