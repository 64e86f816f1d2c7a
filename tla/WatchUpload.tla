------------------------------ MODULE WatchUpload ------------------------------
(***************************************************************************)
(* The watch app's upload path: PendingLocationQueue, a file that every    *)
(* operation reads and writes whole under one lock, and                    *)
(* WatchUploadScheduler, whose drain loops post the head of the queue (one *)
(* point, or a batch when there are at least two), wait for the answer and *)
(* then remove as many points as they have posted.                         *)
(*                                                                         *)
(* A loop is a Swift task that runs concurrently with the others. The      *)
(* timer starts one every 15 s, whatever is still running; Send Now and,   *)
(* in active mode, every new point ask for one too, and only those respect *)
(* isFlushing, which they test and set in two separate steps.              *)
(***************************************************************************)
EXTENDS Naturals, Sequences, FiniteSets, Functions

CONSTANTS Tasks,        \* the drain loops that may run at the same time
          Points,       \* the number of points the tracker enqueues, a bound
          Capacity,     \* maxQueuedPoints: 500
          BatchSize,    \* maxBatchSize: 40
          TickUploads,  \* maxUploadsPerSchedulerTick: 100
          Faults        \* how many requests may fail or kills may happen, a bound

ASSUME SizesAssumption == /\ Capacity \in Nat \ {0}
                          /\ BatchSize \in Nat \ {0, 1}
                          /\ TickUploads \in Nat \ {0}
ASSUME BoundsAssumption == Points \in Nat /\ Faults \in Nat
ASSUME TasksAssumption == IsFiniteSet(Tasks)

VARIABLES
  queue,        \* the points in the file, oldest first; a point is its number
  task,         \* what each drain loop is doing
  isFlushing,   \* the flag, as "yes" or "no"
  wire,         \* requests the server has not got yet, its client waiting or not
  nextAttempt,  \* "past", or "later" when the timer's loops have to wait
  enqueued,     \* number of points enqueued so far
  recorded,     \* history: the points the server has stored
  acked,        \* history: points of a request the watch got 2xx for
  evicted,      \* history: points the capacity has pushed out
  tried,        \* history: points and key of each batch that failed
  disturbed,    \* history: "overlap" or "eviction", once a request has met one
  faults        \* how many requests have failed or kills happened

flags    == <<isFlushing, nextAttempt>>
pastVars == <<recorded, acked, evicted, tried, disturbed>>
vars     == <<queue, task, wire, flags, enqueued, pastVars, faults>>

Idle == [kind |-> "none", pc |-> "idle", sent |-> <<>>, key |-> 0, uploads |-> 0]

Faulty == faults < Faults /\ faults' = faults + 1

InFlight(t) == task[t].pc \in {"posted", "answered"}
BatchMin == 2           \* minQueueDepthForBatchIngest

(* Mutant: the points are not trimmed. *)
Saved_Untrimmed(points) == points

(* Mutant: the newest points go. *)
Saved_Prefix(points) ==
  IF Len(points) > Capacity THEN SubSeq(points, 1, Capacity) ELSE points

(* saveUnlocked: the oldest points over the capacity go. *)
Saved(points) ==
  IF Len(points) > Capacity
    THEN SubSeq(points, Len(points) - Capacity + 1, Len(points)) ELSE points

(* Mutant: nothing is removed when the whole queue was sent. *)
WithoutFirst_KeepsAll(points, n) ==
  IF n >= Len(points) THEN points ELSE SubSeq(points, n + 1, Len(points))

(* Mutant: one point is removed, whatever was sent. *)
WithoutFirst_One(points, n) ==
  IF points = <<>> THEN <<>> ELSE Tail(points)

(* removeFirst. *)
WithoutFirst(points, n) ==
  IF n >= Len(points) THEN <<>> ELSE SubSeq(points, n + 1, Len(points))

-----------------------------------------------------------------------------
Init ==
  /\ queue = <<>> /\ wire = {}
  /\ task = [t \in Tasks |-> Idle]
  /\ isFlushing = "no" /\ nextAttempt = "past"
  /\ enqueued = 0 /\ faults = 0
  /\ recorded = {} /\ acked = {} /\ evicted = {} /\ tried = {} /\ disturbed = {}

(* The tracker enqueues a point; over the capacity the oldest one goes. *)
Enqueue ==
  /\ enqueued < Points
  /\ enqueued' = enqueued + 1
  /\ queue' = Saved(Append(queue, enqueued + 1))
  /\ evicted' = evicted \union (Range(queue) \ Range(queue'))
  /\ disturbed' = IF evicted' # evicted /\ (wire # {} \/ \E t \in Tasks : InFlight(t))
                    THEN disturbed \union {"eviction"} ELSE disturbed
  /\ UNCHANGED <<task, wire, flags, recorded, acked, tried, faults>>

(* Send Now, or a new point in active mode: flushQueueNow is called and    *)
(* reads isFlushing on the main actor.                                     *)
AskFlush(t) ==
  /\ task[t] = Idle
  /\ isFlushing = "no"
  /\ task' = [task EXCEPT ![t] = [Idle EXCEPT !.kind = "flush", !.pc = "asked"]]
  /\ UNCHANGED <<queue, wire, flags, enqueued, pastVars, faults>>

(* flushQueueNow sets the flag, in a second visit to the main actor, drops *)
(* the backoff and refreshes the bearer token.                             *)
BeginFlush(t) ==
  /\ task[t].pc = "asked"
  /\ task' = [task EXCEPT ![t].pc = "loop"]
  /\ isFlushing' = "yes"
  /\ nextAttempt' = "past"
  /\ UNCHANGED <<queue, wire, enqueued, pastVars, faults>>

(* The timer, every 15 s: tick does not look at isFlushing. *)
Tick(t) ==
  /\ task[t] = Idle
  /\ nextAttempt = "past"
  /\ queue # <<>>
  /\ task' = [task EXCEPT ![t] = [Idle EXCEPT !.kind = "tick", !.pc = "loop"]]
  /\ UNCHANGED <<queue, wire, flags, enqueued, pastVars, faults>>

(* The end of a loop: a flush still has to hop to the main actor to clear  *)
(* the flag; a tick decides when the next one may run.                     *)
Ended(t) == IF task[t].kind = "flush"
              THEN [Idle EXCEPT !.kind = "flush", !.pc = "clearing"] ELSE Idle
Scheduled(t, when) == IF task[t].kind = "tick" THEN when ELSE nextAttempt

(* The queue is empty: uploadNextFromQueue has nothing to post. *)
FindsNothing(t) ==
  /\ task[t].pc = "loop"
  /\ queue = <<>>
  /\ task' = [task EXCEPT ![t] = Ended(t)]
  /\ nextAttempt' = Scheduled(t, "later")
  /\ UNCHANGED <<queue, wire, isFlushing, enqueued, pastVars, faults>>

(* Mutant: the newest points are sent first. *)
Payload_Newest == <<queue[Len(queue)]>>

(* uploadNextFromQueue: the payload is a prefix of the queue as it is now. *)
Payload == IF Len(queue) >= BatchMin
             THEN SubSeq(queue, 1, IF Len(queue) < BatchSize THEN Len(queue) ELSE BatchSize)
             ELSE <<Head(queue)>>

(* UUID(): a key that no request still known to anybody carries. *)
Keys == {task[t].key : t \in Tasks} \union {r.key : r \in wire \union tried}
FreshKey == CHOOSE k \in 1..(Cardinality(Keys) + 1) : k \notin Keys

(* Mutant: the points leave the queue when they are sent, not when they    *)
(* are answered.                                                           *)
Post_RemovesAtOnce(t) ==
  /\ task[t].pc = "loop"
  /\ queue # <<>>
  /\ task' = [task EXCEPT ![t] = [@ EXCEPT !.pc = "posted", !.sent = Payload, !.key = FreshKey]]
  /\ wire' = wire \union {[points |-> Payload, key |-> FreshKey]}
  /\ queue' = WithoutFirst(queue, Len(Payload))
  /\ disturbed' = IF \E u \in Tasks \ {t} : InFlight(u)
                    THEN disturbed \union {"overlap"} ELSE disturbed
  /\ UNCHANGED <<flags, enqueued, recorded, acked, evicted, tried, faults>>

Post(t) ==
  /\ task[t].pc = "loop"
  /\ queue # <<>>
  /\ task' = [task EXCEPT ![t] = [@ EXCEPT !.pc = "posted", !.sent = Payload, !.key = FreshKey]]
  /\ wire' = wire \union {[points |-> Payload, key |-> FreshKey]}
  /\ disturbed' = IF \E u \in Tasks \ {t} : InFlight(u)
                    THEN disturbed \union {"overlap"} ELSE disturbed
  /\ UNCHANGED <<queue, flags, enqueued, recorded, acked, evicted, tried, faults>>

(* The server stores the points of a request, each of them once, and       *)
(* answers; nobody hears the answer if the client has given up.            *)
ServerStores(r) ==
  /\ r \in wire
  /\ wire' = wire \ {r}
  /\ recorded' = recorded \union Range(r.points)
  /\ task' = [t \in Tasks |-> IF task[t].pc = "posted" /\ task[t].key = r.key
                               THEN [task[t] EXCEPT !.pc = "answered"] ELSE task[t]]
  /\ UNCHANGED <<queue, flags, enqueued, acked, evicted, tried, disturbed, faults>>

(* 2xx: as many points as were sent are removed from the front; with       *)
(* nothing left the loop is over, as a tick is after its share of uploads. *)
Succeeds(t) ==
  /\ task[t].pc = "answered"
  /\ queue' = WithoutFirst(queue, Len(task[t].sent))
  /\ acked' = acked \union Range(task[t].sent)
  /\ LET uploads == IF task[t].uploads < TickUploads THEN task[t].uploads + 1 ELSE TickUploads
         over == task[t].kind = "tick" /\ uploads = TickUploads
     IN  /\ task' = [task EXCEPT ![t] =
                       IF queue' = <<>> \/ over THEN Ended(t)
                       ELSE [@ EXCEPT !.pc = "loop", !.sent = <<>>, !.key = 0,
                                      !.uploads = uploads]]
         /\ nextAttempt' = IF queue' = <<>> THEN Scheduled(t, "later")
                           ELSE IF over THEN "past" ELSE nextAttempt
  /\ UNCHANGED <<wire, isFlushing, enqueued, recorded, evicted, tried, disturbed, faults>>

(* Mutant: a flush that fails forgets to clear the flag. *)
Fails_KeepsFlag(t) ==
  /\ InFlight(t)
  /\ Faulty
  /\ task' = [task EXCEPT ![t] = Idle]
  /\ nextAttempt' = "later"
  /\ tried' = IF Len(task[t].sent) >= BatchMin
                THEN tried \union {[points |-> task[t].sent, key |-> task[t].key]} ELSE tried
  /\ UNCHANGED <<queue, wire, isFlushing, enqueued, recorded, acked, evicted,
                 disturbed>>

(* Another status, a timeout or no connection, whether the server has      *)
(* stored the points or not: back off. The points stay.                    *)
Fails(t) ==
  /\ InFlight(t)
  /\ Faulty
  /\ task' = [task EXCEPT ![t] = Ended(t)]
  /\ nextAttempt' = "later"
  /\ tried' = IF Len(task[t].sent) >= BatchMin
                THEN tried \union {[points |-> task[t].sent, key |-> task[t].key]} ELSE tried
  /\ UNCHANGED <<queue, wire, isFlushing, enqueued, recorded, acked, evicted,
                 disturbed>>

(* The deferred task of flushQueueNow. *)
ClearFlag(t) ==
  /\ task[t].pc = "clearing"
  /\ task' = [task EXCEPT ![t] = Idle]
  /\ isFlushing' = "no"
  /\ UNCHANGED <<queue, wire, nextAttempt, enqueued, pastVars, faults>>

(* The backoff or the steady-state interval is over. *)
Expires ==
  /\ nextAttempt = "later"
  /\ nextAttempt' = "past"
  /\ UNCHANGED <<queue, task, wire, isFlushing, enqueued, pastVars, faults>>

(* The system kills the app and starts it again: the file remains, and the *)
(* server may still receive what was on its way.                           *)
Crash ==
  /\ Faulty
  /\ task' = [t \in Tasks |-> Idle]
  /\ isFlushing' = "no" /\ nextAttempt' = "past"
  /\ UNCHANGED <<queue, wire, enqueued, pastVars>>

Loop(t) ==
  \/ BeginFlush(t) \/ FindsNothing(t) \/ Post(t) \/ Succeeds(t) \/ ClearFlag(t)

(* A request somebody waits for reaches the server. *)
Answered(t) == \E r \in wire : r.key = task[t].key /\ ServerStores(r)

Next ==
  \/ Enqueue \/ Expires \/ Crash
  \/ \E t \in Tasks : AskFlush(t) \/ Tick(t) \/ Loop(t) \/ Fails(t)
  \/ \E r \in wire : ServerStores(r)

SafeSpec == Init /\ [][Next]_vars

(* A loop that runs goes on, a request is answered, and the timer fires    *)
(* while the app runs. Enqueue, Send Now, failures and crashes need not    *)
(* happen.                                                                 *)
Spec == /\ SafeSpec
        /\ \A t \in Tasks : WF_vars(Loop(t)) /\ WF_vars(Answered(t))
        /\ WF_vars(Expires)
        /\ WF_vars(\E t \in Tasks : Tick(t))

-----------------------------------------------------------------------------
Loops == [kind : {"none", "flush", "tick"},
          pc : {"idle", "asked", "loop", "posted", "answered", "clearing"},
          sent : Seq(1..Points), key : Nat, uploads : 0..TickUploads]

Requests == [points : Seq(1..Points), key : Nat]

TypeOK ==
  /\ queue \in Seq(1..Points) /\ Len(queue) <= Capacity
  /\ task \in [Tasks -> Loops]
  /\ wire \in SUBSET Requests /\ tried \in SUBSET Requests
  /\ \A r \in wire : Len(r.points) <= BatchSize
  /\ isFlushing \in {"no", "yes"} /\ nextAttempt \in {"past", "later"}
  /\ enqueued \in 0..Points
  /\ recorded \subseteq 1..Points /\ acked \subseteq 1..Points /\ evicted \subseteq 1..Points
  /\ disturbed \subseteq {"overlap", "eviction"}
  /\ faults \in 0..Faults

(* No request has met another one, and none was open when the capacity     *)
(* pushed a point out.                                                     *)
Undisturbed == disturbed = {}

(* A point the watch has enqueued stays in the file until the server has   *)
(* stored it and the watch knows, or the capacity pushes it out: failures, *)
(* lost answers and crashes at any step of a drain loop lose nothing.      *)
KeepsPoints ==
  Undisturbed =>
    \A p \in 1..enqueued : p \in Range(queue) \union (acked \intersect recorded) \union evicted

(* A point the server has acknowledged is not in the file any more, so no  *)
(* later request carries it.                                               *)
AckedLeaves == Undisturbed => acked \intersect Range(queue) = {}

(* The server stores the points in the order they were enqueued in, retries*)
(* and late arrivals of requests the watch has given up included: what is  *)
(* new to it is newer than all it has.                                     *)
RecordedInOrder ==
  [][Undisturbed => \A p \in recorded' \ recorded : \A q \in recorded : q < p]_vars

(* However the loops overlap, the file holds the points in the order they  *)
(* were enqueued in, with no gap: what leaves it, leaves from the front.   *)
QueueIsSuffix ==
  \A i \in DOMAIN queue : queue[i] = enqueued - Len(queue) + i

(* Every loop the app may start, the bearer of a failure or a crash, leaves*)
(* the scheduler able to empty the queue.                                  *)
Drains == queue # <<>> ~> queue = <<>>

(* isFlushing, which bars Send Now and active mode, is given back however a*)
(* flush ends.                                                             *)
FlagClears == isFlushing = "yes" ~> isFlushing = "no"

(* docs/watch/HTTP_INGEST_CONTRACT.md: a 2xx removes the payload that was  *)
(* sent, and nothing else.                                                 *)
DequeuesWhatWasSent ==
  [][\A t \in Tasks : Succeeds(t) => Range(queue) \ Range(queue') \subseteq Range(task[t].sent)]_vars

(* docs/watch/HTTP_INGEST_CONTRACT.md: retrying a batch that failed uses   *)
(* the key of the request that failed.                                     *)
RetryReusesKey ==
  \A t \in Tasks : \A old \in tried :
    (InFlight(t) /\ task[t].sent = old.points) => task[t].key = old.key
=============================================================================
