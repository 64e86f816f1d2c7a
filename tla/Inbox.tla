-------------------------------- MODULE Inbox --------------------------------
(***************************************************************************)
(* Messages on their way in, in MQTT mode: OwnTracksAppDelegate counts a   *)
(* message in inQueue, hands it to a block of the queued managed object    *)
(* context, and the session acknowledges it; the block updates a friend    *)
(* and counts the message out again, saving the context when that brings   *)
(* the count to 0. The main thread waits for a count of 0 (syncProcessing) *)
(* before it reconnects with other settings and before terminateSession    *)
(* deletes all friends.                                                    *)
(*                                                                         *)
(* Messages arrive on the delegate queue of the transport, and there can   *)
(* be two: a replaced connection may still be in the middle of a message.  *)
(* The context runs one block at a time.                                   *)
(*                                                                         *)
(* The lock around the count is @synchronized(self.inQueue), that is, on   *)
(* the number which is replaced inside: whoever has seen another number    *)
(* takes another lock. A message stands for the friend it creates.         *)
(***************************************************************************)
EXTENDS Integers, Sequences, SequencesExt

CONSTANTS Messages, Streams,
          Context,     \* the thread of the queued context
          None,        \* no message, no stream
          Width,       \* unsignedLongValue is a number modulo Width
          Limit        \* how often each disturbance may happen, for TLC

(* The main thread closes the session and waits; the process is killed.   *)
Disturbances == {"wait", "kill"}

ASSUME InboxAssumption ==
  /\ Context \notin Streams
  /\ None \notin Messages \union Streams
  /\ Width \in Nat /\ Width > 1
  /\ Limit \in [Disturbances -> Nat]

VARIABLES
  inQueue,    \* messages counted in and not yet counted out
  thread,     \* what each thread is doing: see Places
  queue,      \* the blocks handed to the context, oldest first
  unsaved,    \* friends the context has and the store has not
  store,      \* friends in the main context and on disk
  open,       \* the connected stream
  main,       \* "running", or waiting for a count of 0 and why
  received,   \* messages the broker has delivered and not taken back
  acked,      \* messages acknowledged to the broker
  dropped,    \* messages of a device that is not allowed
  lost,       \* history: acknowledged, and gone with a kill
  old,        \* history: counted in before all friends were deleted
  raced,      \* history: two threads were at the count, under two locks
  hasty,      \* history: a reset saw the 0 of a count not yet acted on
  count       \* history: how often each disturbance has happened

incoming == <<open, received, acked>>
history  == <<lost, old, hasty, count>>
vars == <<inQueue, thread, queue, unsaved, store, main, dropped, raced,
          incoming, history>>

Threads == Streams \union {Context}

(* The way through handleMessage on a stream, and through its block on the *)
(* context: wants has not looked at inQueue, looked has and waits for the  *)
(* lock on key, inside has read val, done has written it.                  *)
Places == {"idle", "busy", "syncing", "wants", "looked", "inside", "done", "saving"}

AtRest == [at |-> "idle", key |-> 0, val |-> 0, msg |-> None]

Goes(t, place) == thread' = [thread EXCEPT ![t].at = place]

(* done is inside the lock for the context, which still tests the count.   *)
Holds(t) == \/ thread[t].at \in {"inside", "saving"}
            \/ t = Context /\ thread[t].at = "done"

Happens(d) == count[d] < Limit[d] /\ count' = [count EXCEPT ![d] = @ + 1]

Init ==
  /\ inQueue = 0 /\ queue = <<>>
  /\ thread = [t \in Threads |-> AtRest]
  /\ unsaved = {} /\ store = {}
  /\ open \in Streams /\ main = "running"
  /\ received = {} /\ acked = {} /\ dropped = {} /\ lost = {} /\ old = {}
  /\ raced = "no" /\ hasty = "no"
  /\ count = [d \in Disturbances |-> 0]


(***************************************************************************)
(* The count, as both sides change it.                                     *)
(***************************************************************************)

(* The expression of @synchronized is evaluated. *)
Looks(t) ==
  /\ thread[t].at = "wants"
  /\ thread' = [thread EXCEPT ![t].at = "looked", ![t].key = inQueue]
  /\ UNCHANGED <<inQueue, queue, unsaved, store, main, dropped, raced, incoming, history>>

(* Mutant: the count is not locked at all. *)
Enters_NoLock(t) ==
  /\ thread[t].at = "looked"
  /\ thread' = [thread EXCEPT ![t].at = "inside", ![t].val = inQueue]
  /\ UNCHANGED <<inQueue, queue, unsaved, store, main, dropped, raced, incoming, history>>

(* The lock of the number seen is free. The number may have been replaced  *)
(* since, and the one that is read now is the new one.                     *)
Enters(t) ==
  /\ thread[t].at = "looked"
  /\ \A u \in Threads \ {t} : Holds(u) => thread[u].key # thread[t].key
  /\ thread' = [thread EXCEPT ![t].at = "inside", ![t].val = inQueue]
  /\ raced' = IF \E u \in Threads : thread[u].at = "inside" /\ thread[u].key # thread[t].key
              THEN "yes" ELSE raced
  /\ UNCHANGED <<inQueue, queue, unsaved, store, main, dropped, incoming, history>>


(***************************************************************************)
(* handleMessage, on the delegate queue of a stream.                       *)
(***************************************************************************)

Arrives(s, m) ==
  /\ open = s /\ thread[s].at = "idle"
  /\ m \notin received
  /\ received' = received \union {m}
  /\ old' = old \ {m}
  /\ thread' = [thread EXCEPT ![s] = [AtRest EXCEPT !.at = "wants", !.msg = m]]
  /\ UNCHANGED <<inQueue, queue, unsaved, store, open, main, acked, dropped,
                 lost, raced, hasty, count>>

CountsIn(s) ==
  /\ thread[s].at = "inside"
  /\ inQueue' = (thread[s].val + 1) % Width
  /\ Goes(s, "done")
  /\ UNCHANGED <<queue, unsaved, store, main, dropped, raced, incoming, history>>

(* performBlock, and true is returned: PUBACK is sent. On a connection     *)
(* that was closed meanwhile it is not, and the broker may deliver the     *)
(* message again.                                                          *)
HandsOver(s) ==
  /\ thread[s].at = "done"
  /\ queue' = Append(queue, thread[s].msg)
  /\ IF open = s
     THEN acked' = acked \union {thread[s].msg} /\ UNCHANGED received
     ELSE received' = received \ ({thread[s].msg} \ acked) /\ UNCHANGED acked
  /\ thread' = [thread EXCEPT ![s] = AtRest]
  /\ UNCHANGED <<inQueue, unsaved, store, open, main, dropped, raced, history>>


(***************************************************************************)
(* The block, on the context.                                              *)
(***************************************************************************)

Starts ==
  /\ thread[Context].at = "idle" /\ queue # <<>>
  /\ thread' = [thread EXCEPT ![Context] = [AtRest EXCEPT !.at = "busy", !.msg = Head(queue)]]
  /\ queue' = Tail(queue)
  /\ UNCHANGED <<inQueue, unsaved, store, main, dropped, raced, incoming, history>>

(* The friend is created or updated; some kinds of message (a card, a      *)
(* deletion) save at once.                                                 *)
Processes ==
  /\ thread[Context].at = "busy"
  /\ unsaved' = unsaved \union {thread[Context].msg}
  /\ dropped' = dropped \ {thread[Context].msg}
  /\ \E next \in {"wants", "syncing"} : Goes(Context, next)
  /\ UNCHANGED <<inQueue, queue, store, main, raced, incoming, history>>

(* Mutant: returns without counting the message out. *)
Drops_KeepsCount ==
  /\ thread[Context].at = "busy"
  /\ dropped' = dropped \union {thread[Context].msg}
  /\ unsaved' = unsaved \ {thread[Context].msg}
  /\ thread' = [thread EXCEPT ![Context] = AtRest]
  /\ UNCHANGED <<inQueue, queue, store, main, raced, incoming, history>>

(* The device is not on the allow list; a friend of that name is deleted   *)
(* and the deletion saved.                                                 *)
Drops ==
  /\ thread[Context].at = "busy"
  /\ dropped' = dropped \union {thread[Context].msg}
  /\ unsaved' = unsaved \ {thread[Context].msg}
  /\ Goes(Context, IF thread[Context].msg \in store \union unsaved THEN "syncing" ELSE "wants")
  /\ UNCHANGED <<inQueue, queue, store, main, raced, incoming, history>>

(* sync: a save of the context goes through the main thread, which is not  *)
(* in the middle of anything.                                              *)
Syncs ==
  /\ thread[Context].at \in {"syncing", "saving"}
  /\ store' = (store \ dropped) \union unsaved
  /\ unsaved' = {}
  /\ IF thread[Context].at = "syncing"
     THEN Goes(Context, "wants")
     ELSE thread' = [thread EXCEPT ![Context] = AtRest]
  /\ UNCHANGED <<inQueue, queue, main, dropped, raced, incoming, history>>

(* Mutant: a signed count. *)
CountsOut_Signed ==
  /\ thread[Context].at = "inside"
  /\ inQueue' = thread[Context].val - 1
  /\ Goes(Context, "done")
  /\ UNCHANGED <<queue, unsaved, store, main, dropped, raced, incoming, history>>

CountsOut ==
  /\ thread[Context].at = "inside"
  /\ inQueue' = (thread[Context].val - 1) % Width
  /\ Goes(Context, "done")
  /\ UNCHANGED <<queue, unsaved, store, main, dropped, raced, incoming, history>>

(* The count is read once more: 0 saves the context, inside the lock.      *)
Tests ==
  /\ thread[Context].at = "done"
  /\ thread' = [thread EXCEPT ![Context] =
                  IF inQueue = 0 /\ unsaved # {} THEN [@ EXCEPT !.at = "saving"] ELSE AtRest]
  /\ UNCHANGED <<inQueue, queue, unsaved, store, main, dropped, raced, incoming, history>>


(***************************************************************************)
(* The main thread.                                                        *)
(***************************************************************************)

(* terminateSession, or a reconnect with other settings: the session is    *)
(* closed, and syncProcessing runs the run loop until the count is 0.      *)
Waits(why) ==
  /\ main = "running"
  /\ Happens("wait")
  /\ open' = None
  /\ main' = why
  /\ UNCHANGED <<inQueue, thread, queue, unsaved, store, received, acked, dropped,
                 lost, old, raced, hasty>>

(* Messages that were counted in by now: all but those still on the way.   *)
CountedIn ==
  received \ {thread[s].msg : s \in {s \in Streams : thread[s].at \in {"wants", "looked", "inside"}}}

(* Mutant: does not wait for the inbox. *)
DeletesAll_AtOnce ==
  /\ main = "reset"
  /\ store' = {}
  /\ main' = "running"
  /\ old' = CountedIn
  /\ UNCHANGED <<inQueue, thread, queue, unsaved, dropped, lost, raced, hasty, count, incoming>>

DeletesAll ==
  /\ main = "reset" /\ inQueue = 0
  /\ store' = {}
  /\ main' = "running"
  /\ old' = CountedIn
  /\ hasty' = IF thread[Context].at \in {"done", "saving"} THEN "yes" ELSE hasty
  /\ UNCHANGED <<inQueue, thread, queue, unsaved, dropped, lost, raced, count, incoming>>

Resumes ==
  /\ main = "reconnect" /\ inQueue = 0
  /\ main' = "running"
  /\ UNCHANGED <<inQueue, thread, queue, unsaved, store, dropped, raced, incoming, history>>

(* connectTo: a new session on a new stream, also by a timer that fires in *)
(* the run loop of syncProcessing.                                         *)
Connects(s) ==
  /\ open = None
  /\ thread[s].at = "idle"
  /\ open' = s
  /\ UNCHANGED <<inQueue, thread, queue, unsaved, store, main, received, acked,
                 dropped, raced, history>>

(* The process is killed and started again. *)
Killed ==
  /\ Happens("kill")
  /\ inQueue' = 0 /\ queue' = <<>> /\ unsaved' = {}
  /\ thread' = [t \in Threads |-> AtRest]
  /\ open' = None /\ main' = "running"
  /\ received' = received \intersect acked
  /\ lost' = lost \union (acked \ store)
  /\ UNCHANGED <<store, acked, dropped, old, raced, hasty>>


(***************************************************************************)
(* The specification.                                                      *)
(***************************************************************************)

Stream(s) == Looks(s) \/ Enters(s) \/ CountsIn(s) \/ HandsOver(s)
Block == \/ Looks(Context) \/ Enters(Context) \/ Starts \/ Processes \/ Drops
         \/ Syncs \/ CountsOut \/ Tests

Next ==
  \/ \E s \in Streams : Stream(s) \/ Connects(s) \/ \E m \in Messages : Arrives(s, m)
  \/ Block
  \/ Waits("reset") \/ Waits("reconnect") \/ DeletesAll \/ Resumes \/ Killed

(* Threads run, and the main thread looks at the count again and again. No *)
(* message has to come and nobody has to connect.                          *)
Fairness == /\ \A s \in Streams : WF_vars(Stream(s))
            /\ WF_vars(Block)
            /\ WF_vars(DeletesAll) /\ WF_vars(Resumes)

SafeSpec == Init /\ [][Next]_vars
Spec == SafeSpec /\ Fairness


(***************************************************************************)
(* Properties.                                                             *)
(***************************************************************************)

TypeOK ==
  /\ inQueue \in 0..Width-1
  /\ thread \in [Threads -> [at : Places, key : 0..Width-1, val : 0..Width-1,
                             msg : Messages \union {None}]]
  /\ queue \in Seq(Messages)
  /\ \A set \in {unsaved, store, received, acked, dropped, lost, old} : set \subseteq Messages
  /\ open \in Streams \union {None}
  /\ main \in {"running", "reset", "reconnect"}
  /\ raced \in {"no", "yes"} /\ hasty \in {"no", "yes"}
  /\ count \in [Disturbances -> Nat]

Quiet == queue = <<>> /\ \A t \in Threads : thread[t].at = "idle"

(* A message that was acknowledged, and that the broker will not send      *)
(* again, is waiting or being processed, or its friend is saved: nothing   *)
(* stays unsaved once the inbox is quiet, whichever message was the last   *)
(* and whether it counted. Only a kill, a reset, or the deletion of a      *)
(* friend that is not allowed loses it, or two threads at the count under  *)
(* two locks, after which it need not come to 0 any more.                  *)
AckedKept ==
  acked \subseteq
    UNION {store, dropped, lost, old, Range(queue), {thread[Context].msg},
           IF Quiet /\ raced = "no" THEN {} ELSE unsaved}

(* After a reset nothing is left of a message that was counted in before   *)
(* all friends were deleted, unless two threads were at the count, or      *)
(* the reset saw the 0 before the context was saved (the code tests and    *)
(* saves after it has written the 0, so the friend can appear later).      *)
ResetForgets ==
  raced = "no" /\ hasty = "no" => old \intersect (unsaved \union store) = {}

(* The wait of the main thread for the inbox ends, unless two threads were *)
(* at the count under two locks: every way through the block counts its    *)
(* message out, and no thread keeps a lock that another needs.             *)
WaitEnds == main # "running" ~> main = "running" \/ raced = "yes"

=============================================================================
