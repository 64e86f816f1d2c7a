------------------------------- MODULE Outbox -------------------------------
(***************************************************************************)
(* What a durable outgoing queue promises to whoever hands it a message,   *)
(* whatever transport drains it: messages leave in the order they were     *)
(* stored, the head leaves only once the server has given a conclusive     *)
(* answer for it, and the only other way out is the overflow rule, which   *)
(* gives up the newest message of a queue that is over its capacity.       *)
(*                                                                         *)
(* This is the abstract specification of the HTTP queue of Connection.m    *)
(* (module HttpQueue).                                                     *)
(***************************************************************************)
EXTENDS Naturals, Sequences, SequencesExt

CONSTANTS Messages,   \* what can be handed to the queue
          Capacity    \* the queue is over its capacity above this many rows

VARIABLES rows,       \* the stored messages, oldest first
          answered    \* the messages the server has conclusively answered

vars == <<rows, answered>>

Init == rows = <<>> /\ answered = {}

(* A new message is made durable behind all the others. *)
Store(m) == rows' = Append(rows, m) /\ UNCHANGED answered

(* The server answers the oldest message, and only that one. *)
AnswerHead ==
  /\ rows # <<>>
  /\ Head(rows) \notin answered
  /\ answered' = answered \union {Head(rows)}
  /\ UNCHANGED rows

(* The oldest message leaves, but never before it was answered. *)
RemoveHead ==
  /\ rows # <<>>
  /\ Head(rows) \in answered
  /\ rows' = Tail(rows)
  /\ UNCHANGED answered

(* Overflow gives up the newest message. *)
DropNewest ==
  /\ Len(rows) > Capacity
  /\ rows' = Front(rows)
  /\ UNCHANGED answered

Next ==
  \/ \E m \in Messages : Store(m)
  \/ AnswerHead
  \/ RemoveHead
  \/ DropNewest

SafeSpec == Init /\ [][Next]_vars

(* The promise of progress: a head that stays is answered, and an answered *)
(* head leaves.                                                            *)
Spec == SafeSpec /\ WF_vars(AnswerHead) /\ WF_vars(RemoveHead)

=============================================================================
