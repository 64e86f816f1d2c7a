----------------------------- MODULE AtLeastOnce -----------------------------
(***************************************************************************)
(* What a QoS 1 sender with a store promises: a message it has accepted    *)
(* stays pending until the receiver has got it, unless the session ends:   *)
(* the receiver says that it has forgotten it, or the sender is told to    *)
(* start a clean one. A sender that has restarted may take the             *)
(* acknowledgement of one message for that of another one.                 *)
(***************************************************************************)
EXTENDS Naturals

CONSTANT Messages        \* the number of messages

VARIABLES pending,       \* accepted, and not done with
          received,      \* messages the receiver has got, once or more often
          done,          \* messages the sender takes for delivered
          forgotten,     \* how often either side has ended the session
          restarted      \* how often the sender has been restarted

vars == <<pending, received, done, forgotten, restarted>>

Init == /\ pending = {} /\ received = {} /\ done = {}
        /\ forgotten = 0 /\ restarted = 0

Accept(m) == /\ m \notin pending \union done
             /\ pending' = pending \union {m}
             /\ UNCHANGED <<received, done, forgotten, restarted>>

Receive(m) == /\ received' = received \union {m}
              /\ UNCHANGED <<pending, done, forgotten, restarted>>

Complete(m) == /\ m \in pending
               /\ m \in received \/ restarted > 0
               /\ pending' = pending \ {m}
               /\ done' = done \union {m}
               /\ UNCHANGED <<received, forgotten, restarted>>

Forget == /\ forgotten' = forgotten + 1
          /\ pending' \in SUBSET pending
          /\ UNCHANGED <<received, done, restarted>>

Restart == /\ restarted' = restarted + 1
           /\ UNCHANGED <<pending, received, done, forgotten>>

Next == \/ \E m \in 1..Messages : Accept(m) \/ Receive(m) \/ Complete(m)
        \/ Forget \/ Restart

Spec == Init /\ [][Next]_vars
=============================================================================
