------------------------------ MODULE HttpQueue ------------------------------
(***************************************************************************)
(* The HTTP mode of Connection.m: sendData stores every outgoing message   *)
(* as a row of the Core Data entity Queue, the loop of the Connection      *)
(* thread posts the oldest row whenever the state is state_starting, and   *)
(* the completion handler of the request decides what happens to the row   *)
(* and to the state.                                                       *)
(*                                                                         *)
(* Four actors share the state without a lock: the Connection thread (the  *)
(* loop), the private queue of queuedMOC (blocks run one at a time, in     *)
(* the order they were submitted), the URLSession thread (completions) and *)
(* the main thread (reconnect timers, connectHTTP, reset).                 *)
(*                                                                         *)
(* No request id ties a completion to the row it was made for: a           *)
(* completion deletes the oldest row there is when its block runs.         *)
(***************************************************************************)
EXTENDS Naturals, Sequences, FiniteSets, SequencesExt

CONSTANTS Messages,     \* the messages the program hands to sendData, once each
          None,         \* no message
          Capacity,     \* 100 * 1024 in the code: above it the newest row goes
          Limit         \* how often each disturbance may happen, for TLC

(* What can disturb the orderly run of the queue:                          *)
(*   reconfigure  connectHTTP is called again while the program runs       *)
(*   reset        the session is terminated and the queue emptied          *)
(*   clockback    the wall clock, which orders the rows, steps back        *)
(*   stall        the block queue is held up longer than a reconnect timer *)
(*   crash        the process is killed and started again                  *)
Disturbances == {"reconfigure", "reset", "clockback", "stall", "crash"}

ASSUME NoneAssumption == None \notin Messages
ASSUME CapacityAssumption == Capacity \in Nat \ {0}
ASSUME LimitAssumption == Limit \in [Disturbances -> Nat]

States == {"starting", "connecting", "connected", "error"}

(* The blocks submitted to queuedMOC: an insert of sendData, one pass of   *)
(* the loop, and the deletes of the 2xx and 4xx branches.                  *)
Blocks == [op : {"insert"}, msg : Messages]
          \union [op : {"loop", "delivered", "rejected"}, msg : {None}]

Insert(m) == [op |-> "insert", msg |-> m]
Pass      == [op |-> "loop", msg |-> None]
Delete(o) == [op |-> o, msg |-> None]

VARIABLES
  state,      \* Connection.state
  rows,       \* the rows of Queue by ascending timestamp
  moc,        \* blocks submitted to queuedMOC and not yet finished
  loop,       \* the Connection thread: "idle", "waiting" or "fetched"
  fetched,    \* the firstObject and the count the pass has read
  flight,     \* number of requests on the wire for each message
  timer,      \* self.reconnectTimer: "none" or "armed"
  strayTimers,\* armed timers self.reconnectTimer no longer refers to
  submitted,  \* messages handed to sendData so far
  log,        \* history: the messages stored, in the order they were stored
  answered,   \* history: messages a completion got 2xx or 4xx for
  dropped,    \* history: messages removed by reset or by the overflow rule
  count       \* history: how often each disturbance has happened

queueVars == <<rows, moc>>
wireVars  == <<flight, answered>>
timerVars == <<timer, strayTimers>>
loopVars  == <<loop, fetched>>
pastVars  == <<log, dropped>>
vars == <<state, queueVars, loopVars, wireVars, timerVars, submitted, pastVars, count>>

NothingFetched == [first |-> None, size |-> 0]

Happens(d) == /\ count[d] < Limit[d]
              /\ count' = [count EXCEPT ![d] = @ + 1]

Deletes == {i \in DOMAIN moc : moc[i].op \in {"delivered", "rejected"}}

(* The requests on the wire: the same message may be posted more than once. *)
Requests == UNION {{m} \X (1..flight[m]) : m \in Messages}

-----------------------------------------------------------------------------
(* didFinishLaunching has called connectHTTP: the url is set, the URL      *)
(* session exists and the state is state_starting.                         *)
Init ==
  /\ state = "starting"
  /\ rows = <<>> /\ moc = <<>>
  /\ loop = "idle" /\ fetched = NothingFetched
  /\ flight = [m \in Messages |-> 0]
  /\ timer = "none" /\ strayTimers = 0
  /\ submitted = {} /\ log = <<>>
  /\ answered = {} /\ dropped = {}
  /\ count = [d \in Disturbances |-> 0]

(* sendData with a url: the row is inserted by a block, later. *)
SendData(m) ==
  /\ m \notin submitted
  /\ submitted' = submitted \union {m}
  /\ moc' = Append(moc, Insert(m))
  /\ UNCHANGED <<state, rows, loopVars, wireVars, timerVars, pastVars, count>>

(* The block of sendData: the row gets the wall clock as its timestamp, so *)
(* it is the last one, unless the clock has been set back.                 *)
RunInsert ==
  /\ moc # <<>> /\ Head(moc).op = "insert"
  /\ moc' = Tail(moc)
  /\ log' = Append(log, Head(moc).msg)
  /\ \/ /\ rows' = Append(rows, Head(moc).msg)
        /\ UNCHANGED count
     \/ /\ Happens("clockback")
        /\ \E i \in 1..Len(rows) : rows' = InsertAt(rows, i, Head(moc).msg)
  /\ UNCHANGED <<state, loopVars, wireVars, timerVars, submitted, dropped>>

-----------------------------------------------------------------------------
(* The loop of the Connection thread, in main. *)

(* performBlockAndWait: the pass queues up behind the blocks already there. *)
LoopWaits ==
  /\ loop = "idle"
  /\ loop' = "waiting"
  /\ moc' = Append(moc, Pass)
  /\ UNCHANGED <<state, rows, fetched, wireVars, timerVars, submitted, pastVars, count>>

(* Mutant: the rows are sorted by descending timestamp. *)
LoopFetches_Descending ==
  /\ loop = "waiting" /\ moc # <<>> /\ Head(moc) = Pass
  /\ IF rows = <<>>
       THEN loop' = "idle" /\ moc' = Tail(moc) /\ UNCHANGED fetched
       ELSE /\ loop' = "fetched"
            /\ fetched' = [first |-> Last(rows), size |-> Len(rows)]
            /\ UNCHANGED moc
  /\ UNCHANGED <<state, rows, wireVars, timerVars, submitted, pastVars, count>>

(* The fetch; with no row the pass is over. *)
LoopFetches ==
  /\ loop = "waiting" /\ moc # <<>> /\ Head(moc) = Pass
  /\ IF rows = <<>>
       THEN loop' = "idle" /\ moc' = Tail(moc) /\ UNCHANGED fetched
       ELSE /\ loop' = "fetched"
            /\ fetched' = [first |-> Head(rows), size |-> Len(rows)]
            /\ UNCHANGED moc
  /\ UNCHANGED <<state, rows, wireVars, timerVars, submitted, pastVars, count>>

(* Mutant: a queue over its capacity loses its oldest row. *)
LoopSends_DropsOldest ==
  /\ loop = "fetched"
  /\ loop' = "idle" /\ fetched' = NothingFetched
  /\ moc' = Tail(moc)
  /\ IF state = "starting"
       THEN /\ state' = "connecting"
            /\ flight' = [flight EXCEPT ![fetched.first] = @ + 1]
       ELSE UNCHANGED <<state, flight>>
  /\ IF fetched.size > Capacity /\ rows # <<>>
       THEN rows' = Tail(rows) /\ dropped' = dropped \union {Head(rows)}
       ELSE UNCHANGED <<rows, dropped>>
  /\ UNCHANGED <<answered, timerVars, submitted, log, count>>

(* The rest of the pass, still inside the block: the state is read only    *)
(* now, sendHTTP posts the row that was fetched, and a queue that was over *)
(* its capacity loses its newest row, if resetQueue has not emptied it in  *)
(* between: nothing else changes rows while the pass holds the block queue.*)
LoopSends ==
  /\ loop = "fetched"
  /\ loop' = "idle" /\ fetched' = NothingFetched
  /\ moc' = Tail(moc)
  /\ IF state = "starting"
       THEN /\ state' = "connecting"
            /\ flight' = [flight EXCEPT ![fetched.first] = @ + 1]
       ELSE UNCHANGED <<state, flight>>
  /\ IF fetched.size > Capacity /\ rows # <<>>
       THEN /\ rows' = Front(rows)
            /\ dropped' = dropped \union {Last(rows)}
       ELSE UNCHANGED <<rows, dropped>>
  /\ UNCHANGED <<answered, timerVars, submitted, log, count>>

-----------------------------------------------------------------------------
(* The completion handler of the data task. *)

(* Mutant: the handler of one request runs more than once. *)
Completes_Twice(m) == /\ \E n \in Messages : flight[n] > 0
                      /\ flight' = [flight EXCEPT ![m] = @ - 1]

Completes(m) == /\ flight[m] > 0
                /\ flight' = [flight EXCEPT ![m] = @ - 1]

(* Mutant: every call leaves one more timer behind. *)
StartReconnectTimer_Leaks ==
  /\ timer' = "armed"
  /\ strayTimers' = strayTimers + 1

(* startReconnectTimer forgets the previous timer without invalidating it. *)
StartReconnectTimer ==
  /\ timer' = "armed"
  /\ strayTimers' = IF timer = "armed" THEN strayTimers + 1 ELSE strayTimers

(* Mutant: the next message may go before the row is deleted. *)
Delivered_TooEarly(m) ==
  /\ Completes(m)
  /\ state' = "starting"
  /\ moc' = Append(moc, Delete("delivered"))
  /\ answered' = answered \union {m}
  /\ UNCHANGED <<rows, loopVars, timerVars, submitted, pastVars, count>>

(* 2xx: connected until the block that deletes the row has run. *)
Delivered(m) ==
  /\ Completes(m)
  /\ state' = "connected"
  /\ moc' = Append(moc, Delete("delivered"))
  /\ answered' = answered \union {m}
  /\ UNCHANGED <<rows, loopVars, timerVars, submitted, pastVars, count>>

(* 4xx: the row will never be accepted; it is deleted and the timer runs. *)
Rejected(m) ==
  /\ Completes(m)
  /\ state' = "error"
  /\ moc' = Append(moc, Delete("rejected"))
  /\ answered' = answered \union {m}
  /\ StartReconnectTimer
  /\ UNCHANGED <<rows, loopVars, submitted, pastVars, count>>

(* Mutant: no timer after a transport error. *)
Failed_NoTimer(m) ==
  /\ Completes(m)
  /\ state' = "error"
  /\ UNCHANGED <<queueVars, loopVars, timerVars, answered, submitted, pastVars, count>>

(* Any other status, no HTTP response or a transport error (the server may *)
(* or may not have got the message): the row stays.                        *)
Failed(m) ==
  /\ Completes(m)
  /\ state' = "error"
  /\ StartReconnectTimer
  /\ UNCHANGED <<queueVars, loopVars, answered, submitted, pastVars, count>>

(* Mutant: the newest row is deleted. *)
RunDelete_LastRow ==
  /\ moc # <<>> /\ Head(moc).op \in {"delivered", "rejected"}
  /\ moc' = Tail(moc)
  /\ rows' = IF rows = <<>> THEN rows ELSE Front(rows)
  /\ state' = IF Head(moc).op = "delivered" THEN "starting" ELSE state
  /\ UNCHANGED <<loopVars, wireVars, timerVars, submitted, log, dropped, count>>

(* Mutant: nothing is done when there is no row to delete. *)
RunDelete_EarlyReturn ==
  /\ moc # <<>> /\ Head(moc).op \in {"delivered", "rejected"}
  /\ moc' = Tail(moc)
  /\ rows' = IF rows = <<>> THEN rows ELSE Tail(rows)
  /\ state' = IF Head(moc).op = "delivered" /\ rows # <<>> THEN "starting" ELSE state
  /\ UNCHANGED <<loopVars, wireVars, timerVars, submitted, log, dropped, count>>

(* The block of a completion: whichever row is first now is deleted, and   *)
(* after a 2xx the next message may go.                                    *)
RunDelete ==
  /\ moc # <<>> /\ Head(moc).op \in {"delivered", "rejected"}
  /\ moc' = Tail(moc)
  /\ rows' = IF rows = <<>> THEN rows ELSE Tail(rows)
  /\ state' = IF Head(moc).op = "delivered" THEN "starting" ELSE state
  /\ UNCHANGED <<loopVars, wireVars, timerVars, submitted, log, dropped, count>>

-----------------------------------------------------------------------------
(* The main thread. *)

(* reconnect: invalidates the timer self.reconnectTimer refers to, which   *)
(* need not be the one that fired, and sets state_starting whatever the    *)
(* state is. A timer runs for at least a second: only when the block queue *)
(* is held up that long does it fire before a delete submitted earlier.    *)
Reconnect ==
  /\ \/ timer = "armed" /\ UNCHANGED strayTimers
     \/ strayTimers > 0 /\ strayTimers' = strayTimers - 1
  /\ timer' = "none"
  /\ state' = "starting"
  /\ IF Deletes = {} THEN UNCHANGED count ELSE Happens("stall")
  /\ UNCHANGED <<queueVars, loopVars, wireVars, submitted, pastVars>>

(* connectHTTP once more, after a change of settings or a notification:    *)
(* state_starting, whatever is on the wire or armed.                       *)
ConnectHTTP ==
  /\ Happens("reconfigure")
  /\ state' = "starting"
  /\ UNCHANGED <<queueVars, loopVars, wireVars, timerVars, submitted, pastVars>>

(* terminateSession: disconnect does nothing in HTTP mode and resetQueue   *)
(* deletes every row through mainMOC, not through the block queue.         *)
Reset ==
  /\ Happens("reset")
  /\ rows' = <<>>
  /\ dropped' = dropped \union Range(rows)
  /\ UNCHANGED <<state, moc, loopVars, wireVars, timerVars, submitted, log>>

(* The process dies and is launched again: the rows are all that is left. *)
Crash ==
  /\ Happens("crash")
  /\ state' = "starting"
  /\ moc' = <<>>
  /\ loop' = "idle" /\ fetched' = NothingFetched
  /\ flight' = [m \in Messages |-> 0]
  /\ timer' = "none" /\ strayTimers' = 0
  /\ UNCHANGED <<rows, answered, submitted, pastVars>>

-----------------------------------------------------------------------------
Next ==
  \/ \E m \in Messages : SendData(m)
  \/ RunInsert
  \/ LoopWaits \/ LoopFetches \/ LoopSends
  \/ \E m \in Messages : Delivered(m) \/ Rejected(m) \/ Failed(m)
  \/ RunDelete
  \/ Reconnect \/ ConnectHTTP \/ Reset \/ Crash

Conclusive == \E m \in Messages : Delivered(m) \/ Rejected(m)
Completion == \E m \in Messages : Delivered(m) \/ Rejected(m) \/ Failed(m)

(* The threads and the block queue run, a request has a time-out (45 s)    *)
(* and so completes, an armed timer fires, and a server that is asked      *)
(* again and again answers conclusively again and again. Nothing makes the *)
(* program send, and no disturbance has to happen.                         *)
Fairness ==
  /\ WF_vars(RunInsert) /\ WF_vars(RunDelete)
  /\ WF_vars(LoopWaits) /\ WF_vars(LoopFetches) /\ WF_vars(LoopSends)
  /\ WF_vars(Completion) /\ SF_vars(Conclusive)
  /\ WF_vars(Reconnect)

SafeSpec == Init /\ [][Next]_vars
Spec == SafeSpec /\ Fairness


(***************************************************************************)
(* Properties.                                                             *)
(***************************************************************************)

TypeOK ==
  /\ state \in States
  /\ rows \in Seq(Messages)
  /\ moc \in Seq(Blocks)
  /\ loop \in {"idle", "waiting", "fetched"}
  /\ fetched \in [first : Messages \union {None}, size : Nat]
  /\ loop = "fetched" => fetched.first \in Messages
  /\ flight \in [Messages -> Nat]
  /\ timer \in {"none", "armed"}
  /\ strayTimers \in Nat
  /\ submitted \subseteq Messages
  /\ log \in Seq(Messages)
  /\ answered \subseteq Messages
  /\ dropped \subseteq Messages
  /\ count \in [Disturbances -> Nat]

(* Nothing but crashes has disturbed the queue so far. *)
Orderly == \A d \in Disturbances \ {"crash"} : count[d] = 0

(* A stored message is still there, or the server has answered it, or the  *)
(* overflow rule gave it up: as long as connectHTTP is called once, nobody *)
(* resets the queue, the clock runs forward and the block queue is not     *)
(* held up, the row a completion deletes is the row its request carried,   *)
(* although nothing ties the two together. Crashes may happen.             *)
NoUnansweredLoss ==
  Orderly => Range(log) \subseteq Range(rows) \union answered \union dropped

(* The server answers the messages in the order they were stored: by the   *)
(* time one is answered, so is every earlier one that was not given up.    *)
AnsweredInOrder ==
  Orderly => \A j \in DOMAIN log : log[j] \in answered =>
               \A i \in 1..j : log[i] \in answered \union dropped

(* A message that was answered is never posted again, unless the process   *)
(* died, connectHTTP was called again, the clock stepped back or the block *)
(* queue was held up: the delete of its row runs before the next pass      *)
(* reads the rows, even when the queue is reset under it.                  *)
AnsweredNotResent ==
  [][(\A d \in Disturbances \ {"reset"} : count[d] = 0)
       => \A m \in answered : flight'[m] <= flight[m]]_vars

(* Whatever happens, each call of connectHTTP adds at most one request to  *)
(* the ones that can be on the wire at the same time: timers that          *)
(* outlive their request and blocks that run late never add another.       *)
RequestsBounded == Cardinality(Requests) <= 1 + count["reconfigure"]

(* Whatever happens, the queue cannot get stuck outside state_starting:    *)
(* a request is on the wire, a timer is armed or the block that sets the   *)
(* state back is pending, although timers invalidate one another.          *)
NeverWedged ==
  \/ state = "starting"
  \/ \E m \in Messages : flight[m] > 0
  \/ timer = "armed" \/ strayTimers > 0
  \/ \E i \in Deletes : moc[i].op = "delivered"

(* Every row leaves the queue in the end, whatever has happened to the     *)
(* timers, the blocks and the requests on the way.                         *)
Drains == \A m \in Messages : m \in Range(rows) ~> m \notin Range(rows)

(* Undisturbed but for crashes, this queue is an outbox that keeps its     *)
(* promises, progress included.                                            *)
Promise == INSTANCE Outbox
             WITH Messages <- Messages, Capacity <- Capacity,
                  rows <- rows, answered <- answered
ImplementsOutbox == Promise!Spec

=============================================================================
