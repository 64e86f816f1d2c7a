------------------------------- MODULE MqttShim -------------------------------
(***************************************************************************)
(* What Connection.m does with a QoS 1 message in MQTT mode. While the     *)
(* session is connected, sendData publishes it; otherwise it becomes a row *)
(* of a Core Data queue, the shim, that connected: drains in batches once  *)
(* the session is back. A published message is a flow of the session's     *)
(* own persistent store until the broker acknowledges it.                  *)
(*                                                                         *)
(* sendData runs on the main thread, a drain on the delegate queue of the  *)
(* stream's URL session or, for the batches after the first, on the        *)
(* Connection thread. They meet in the blocks of queuedMOC, which run one  *)
(* at a time, in order, and only while the main thread is free: its parent *)
(* context is the main one.                                                *)
(***************************************************************************)
EXTENDS Naturals, Sequences, FiniteSets, SequencesExt

CONSTANTS Messages,    \* the number of messages the app sends, a bound
          Capacity,    \* rows above which the shim is trimmed: 8000
          Kept,        \* rows a trim leaves: 6000
          BatchSize,   \* kMaxDrainBatch: 48
          WindowSize,  \* flows in flight, maxWindowSize: 16
          Limit        \* how often each disturbance may happen, a bound

Disturbances == {"down", "forget", "clean", "crash"}

ASSUME SizesAssumption == /\ Capacity \in Nat \ {0} /\ Kept \in 1..Capacity
                          /\ BatchSize \in Nat \ {0} /\ WindowSize \in Nat \ {0}
ASSUME BoundsAssumption == Messages \in Nat /\ Limit \in [Disturbances -> Nat]

VARIABLES
  link,      \* "up" while the state and the session's status are connected
  called,    \* number of calls of sendData so far; a message is its number
  sender,    \* the branch sendData has taken: "idle", "publish" or "persist"
  moc,       \* blocks waiting for queuedMOC: what to do, and for whom
  rows,      \* the rows of the shim, oldest first
  drain,     \* the drains, by the thread they run on
  scheduled, \* drains the Connection thread has been asked for
  stored,    \* flows not sent yet: commandType None
  sent,      \* flows in flight: commandType Publish
  drained,   \* history: the messages the drains have published, in that order
  delivered, \* history: acknowledged by the broker
  trimmed,   \* history: removed by a trim
  exposed,   \* history: lost with the process or the session, or deleted with it
  late,      \* history: inserted since the link has been up
  disturbed, \* history: "overlap" or "crash", once a drain has met one
  count      \* how often each disturbance has happened

flows    == <<stored, sent>>
pastVars == <<delivered, trimmed, exposed, late, disturbed>>
vars     == <<link, called, sender, moc, rows, drain, scheduled, flows, drained,
              pastVars, count>>

Threads == {"url", "old", "conn"}  \* "old": the delegate queue of a closed stream
Off     == [pc |-> "off", batch |-> <<>>]
Active(t) == drain[t].pc # "off"

Happens(d) == count[d] < Limit[d] /\ count' = [count EXCEPT ![d] = @ + 1]

-----------------------------------------------------------------------------
Init ==
  /\ link = "down" /\ called = 0 /\ sender = "idle"
  /\ moc = <<>> /\ rows = <<>>
  /\ drain = [t \in Threads |-> Off] /\ scheduled = 0
  /\ stored = {} /\ sent = {} /\ drained = <<>>
  /\ delivered = {} /\ trimmed = {} /\ exposed = {} /\ late = {} /\ disturbed = {}
  /\ count = [d \in Disturbances |-> 0]

(* sendData looks at the state and chooses its branch.                     *)
SendData ==
  /\ sender = "idle"
  /\ called < Messages
  /\ called' = called + 1
  /\ sender' = IF link = "up" THEN "publish" ELSE "persist"
  /\ UNCHANGED <<link, moc, rows, drain, scheduled, flows, drained, pastVars, count>>

(* publishDataV5 with QoS 1: a flow either way, sent at once only if the   *)
(* session is connected, nothing older waits and the window is open.       *)
Publishes(m) ==
  IF link = "up" /\ stored = {} /\ Cardinality(sent) < WindowSize
    THEN sent' = sent \union {m} /\ stored' = stored
    ELSE stored' = stored \union {m} /\ sent' = sent

SendPublishes ==
  /\ sender = "publish"
  /\ sender' = "idle"
  /\ Publishes(called)
  /\ UNCHANGED <<link, called, moc, rows, drain, scheduled, drained, pastVars, count>>

(* enqueueMQTTShimPayload leaves a block to queuedMOC.                     *)
SendPersists ==
  /\ sender = "persist"
  /\ sender' = "idle"
  /\ moc' = Append(moc, <<"insert", called>>)
  /\ UNCHANGED <<link, called, rows, drain, scheduled, flows, drained, pastVars, count>>

(* The next block of queuedMOC is this one, and the main thread is free.   *)
Runs(kind) == /\ sender = "idle"
              /\ moc # <<>> /\ Head(moc)[1] = kind
              /\ moc' = Tail(moc)

(* Mutant: the trim is forgotten. *)
RunInsert_Untrimmed ==
  /\ Runs("insert")
  /\ rows' = Append(rows, Head(moc)[2])
  /\ trimmed' = trimmed
  /\ late' = IF link = "up" THEN late \union {Head(moc)[2]} ELSE late
  /\ UNCHANGED <<link, called, sender, drain, scheduled, flows, drained, delivered,
                 exposed, disturbed, count>>

(* A row is inserted; above the capacity the oldest rows go.               *)
RunInsert ==
  /\ Runs("insert")
  /\ LET all == Append(rows, Head(moc)[2])
         excess == IF Len(all) > Capacity THEN Len(all) - Kept ELSE 0
     IN  /\ rows' = SubSeq(all, excess + 1, Len(all))
         /\ trimmed' = trimmed \union Range(SubSeq(all, 1, excess))
  /\ late' = IF link = "up" THEN late \union {Head(moc)[2]} ELSE late
  /\ UNCHANGED <<link, called, sender, drain, scheduled, flows, drained, delivered,
                 exposed, disturbed, count>>

-----------------------------------------------------------------------------
(* drainMQTTShimQueueIfConnected, from its first fetch to its last count.  *)
Waits(t, pc, kind) == /\ drain' = [drain EXCEPT ![t].pc = pc]
                      /\ moc' = Append(moc, <<kind, t>>)

(* The Connection thread gets to a drain it was asked for.                 *)
Perform ==
  /\ scheduled > 0 /\ ~Active("conn")
  /\ scheduled' = scheduled - 1
  /\ IF link = "up" THEN Waits("conn", "fetching", "fetch")
                    ELSE UNCHANGED <<moc, drain>>
  /\ UNCHANGED <<link, called, sender, rows, flows, drained, pastVars, count>>

(* Mutant: the newest rows are fetched. *)
RunFetch_Descending ==
  /\ Runs("fetch")
  /\ drain' = [drain EXCEPT ![Head(moc)[2]] =
                 IF rows = <<>> THEN Off
                 ELSE [pc |-> "check",
                       batch |-> IF Len(rows) <= BatchSize THEN rows
                                 ELSE SubSeq(rows, Len(rows) - BatchSize + 1, Len(rows))]]
  /\ UNCHANGED <<link, called, sender, rows, scheduled, flows, drained, pastVars, count>>

(* The oldest rows are read into the batch; without any the drain is over. *)
RunFetch ==
  /\ Runs("fetch")
  /\ drain' = [drain EXCEPT ![Head(moc)[2]] =
                 IF rows = <<>> THEN Off
                 ELSE [pc |-> "check",
                       batch |-> IF Len(rows) <= BatchSize THEN rows
                                 ELSE SubSeq(rows, 1, BatchSize)]]
  /\ UNCHANGED <<link, called, sender, rows, scheduled, flows, drained, pastVars, count>>

(* The head of the loop: stop when the batch is done or the link is lost.  *)
Check(t) ==
  /\ drain[t].pc = "check"
  /\ IF drain[t].batch # <<>> /\ link = "up"
       THEN drain' = [drain EXCEPT ![t].pc = "publish"] /\ moc' = moc
       ELSE Waits(t, "counting", "count")
  /\ UNCHANGED <<link, called, sender, rows, scheduled, flows, drained, pastVars, count>>

(* Mutant: a message is not published once the link is lost, but its row   *)
(* goes all the same.                                                      *)
PublishItem_OnlyWhileUp(t) ==
  /\ drain[t].pc = "publish"
  /\ IF link = "up"
       THEN Publishes(Head(drain[t].batch)) /\ drained' = Append(drained, Head(drain[t].batch))
       ELSE UNCHANGED <<flows, drained>>
  /\ Waits(t, "deleting", "delete")
  /\ UNCHANGED <<link, called, sender, rows, scheduled, pastVars, count>>

(* The item is published, even if the link was lost since the check, and   *)
(* then its row is to be deleted.                                          *)
PublishItem(t) ==
  /\ drain[t].pc = "publish"
  /\ Publishes(Head(drain[t].batch))
  /\ drained' = Append(drained, Head(drain[t].batch))
  /\ Waits(t, "deleting", "delete")
  /\ UNCHANGED <<link, called, sender, rows, scheduled, pastVars, count>>

Without(all, m) == IF m \in Range(all)
                     THEN RemoveAt(all, CHOOSE i \in DOMAIN all : all[i] = m) ELSE all

(* The row is deleted, if a trim or another drain has not done it before.  *)
RunDelete ==
  /\ Runs("delete")
  /\ LET t == Head(moc)[2]
     IN  /\ rows' = Without(rows, Head(drain[t].batch))
         /\ drain' = [drain EXCEPT ![t] = [pc |-> "check", batch |-> Tail(@.batch)]]
  /\ UNCHANGED <<link, called, sender, scheduled, flows, drained, pastVars, count>>

(* Mutant: one batch is enough. *)
RunCount_Once ==
  /\ Runs("count")
  /\ scheduled' = scheduled
  /\ drain' = [drain EXCEPT ![Head(moc)[2]] = Off]
  /\ UNCHANGED <<link, called, sender, rows, flows, drained, pastVars, count>>

(* The drain ends; the Connection thread does the next if rows remain.     *)
RunCount ==
  /\ Runs("count")
  /\ scheduled' = IF rows # <<>> /\ link = "up" THEN scheduled + 1 ELSE scheduled
  /\ drain' = [drain EXCEPT ![Head(moc)[2]] = Off]
  /\ UNCHANGED <<link, called, sender, rows, flows, drained, pastVars, count>>

-----------------------------------------------------------------------------
(* connect of a session with the clean flag, on the main thread: every     *)
(* flow of the client is deleted, those never sent with the others.        *)
CleanConnect ==
  /\ link = "down" /\ sender = "idle"
  /\ Happens("clean")
  /\ stored' = {} /\ sent' = {}
  /\ exposed' = exposed \union stored \union sent
  /\ UNCHANGED <<link, called, sender, moc, rows, drain, scheduled, drained,
                 delivered, trimmed, late, disturbed>>

(* CONNACK: connected: drains on the new stream's queue. A broker without  *)
(* the session makes the client drop its flows in flight.                  *)
LinkUp(present) ==
  /\ link = "down"
  /\ link' = "up"
  /\ Waits("url", "fetching", "fetch")
  /\ disturbed' = IF scheduled > 0 \/ \E t \in Threads : Active(t)
                    THEN disturbed \union {"overlap"} ELSE disturbed
  /\ late' = {}
  /\ IF present THEN UNCHANGED <<sent, exposed, count>>
     ELSE Happens("forget") /\ sent' = {} /\ exposed' = exposed \union sent
  /\ UNCHANGED <<called, sender, rows, scheduled, stored, drained, delivered, trimmed>>

(* The session ends: by disconnect, on the main thread, or by the network, *)
(* on the stream's own queue, which a drain there keeps busy. No more than *)
(* one drain of a closed stream is followed, a bound.                      *)
LinkDown ==
  /\ link = "up"
  /\ sender = "idle" \/ ~Active("url")
  /\ Active("url") => ~Active("old")
  /\ Happens("down")
  /\ link' = "down"
  /\ IF Active("url")
       THEN /\ drain' = [drain EXCEPT !["old"] = drain["url"], !["url"] = Off]
            /\ moc' = [i \in DOMAIN moc |->
                         IF moc[i][1] # "insert" /\ moc[i][2] = "url"
                           THEN <<moc[i][1], "old">> ELSE moc[i]]
       ELSE UNCHANGED <<drain, moc>>
  /\ UNCHANGED <<called, sender, rows, scheduled, flows, drained, pastVars>>

(* checkTxFlows, every second: waiting flows are sent while the window is  *)
(* open. Which one goes first is left open.                                *)
Transmit ==
  /\ link = "up"
  /\ stored # {} /\ Cardinality(sent) < WindowSize
  /\ \E m \in stored : /\ stored' = stored \ {m}
                       /\ sent' = sent \union {m}
  /\ UNCHANGED <<link, called, sender, moc, rows, drain, scheduled, drained,
                 pastVars, count>>

(* PUBACK ends the flow. *)
Puback(m) ==
  /\ link = "up" /\ m \in sent
  /\ sent' = sent \ {m}
  /\ delivered' = delivered \union {m}
  /\ UNCHANGED <<link, called, sender, moc, rows, drain, scheduled, stored, drained,
                 trimmed, exposed, late, disturbed, count>>

Inserting == {moc[i][2] : i \in {j \in DOMAIN moc : moc[j][1] = "insert"}}
InSender  == IF sender = "idle" THEN {} ELSE {called}

(* The process ends and is started again. Rows and flows are on disk.      *)
Crash ==
  /\ Happens("crash")
  /\ link' = "down" /\ sender' = "idle" /\ moc' = <<>>
  /\ drain' = [t \in Threads |-> Off] /\ scheduled' = 0
  /\ exposed' = exposed \union Inserting \union InSender
  /\ disturbed' = IF \E t \in Threads : drain[t].pc = "deleting"
                    THEN disturbed \union {"crash"} ELSE disturbed
  /\ UNCHANGED <<called, rows, flows, drained, delivered, trimmed, late>>

App == SendPublishes \/ SendPersists \/ RunInsert \/ RunFetch \/ RunDelete \/ RunCount
Drain(t) == Check(t) \/ PublishItem(t)

Next ==
  \/ SendData \/ App \/ Perform
  \/ \E t \in Threads : Drain(t)
  \/ \E present \in BOOLEAN : LinkUp(present)
  \/ CleanConnect \/ LinkDown \/ Transmit \/ Crash
  \/ \E m \in sent : Puback(m)

SafeSpec == Init /\ [][Next]_vars

(* Threads and queues that have something to do go on. Nothing is assumed  *)
(* of the app, the network and the broker.                                 *)
Spec == /\ SafeSpec
        /\ WF_vars(App) /\ WF_vars(Perform)
        /\ \A t \in Threads : WF_vars(Drain(t))

-----------------------------------------------------------------------------
Numbers == 1..Messages
Pcs     == {"off", "fetching", "check", "publish", "deleting", "counting"}
Blocks  == ({"insert"} \X Numbers) \union ({"fetch", "delete", "count"} \X Threads)

TypeOK ==
  /\ link \in {"up", "down"} /\ called \in 0..Messages
  /\ sender \in {"idle", "publish", "persist"}
  /\ moc \in Seq(Blocks)
  /\ rows \in Seq(Numbers) /\ Len(rows) <= Capacity
  /\ drain \in [Threads -> [pc : Pcs, batch : Seq(Numbers)]]
  /\ \A t \in Threads :
       /\ Len(drain[t].batch) <= BatchSize
       /\ drain[t].pc \in {"publish", "deleting"} => drain[t].batch # <<>>
  /\ scheduled \in Nat /\ Cardinality(sent) <= WindowSize
  /\ \A set \in {stored, sent, delivered, trimmed, exposed, late} : set \subseteq Numbers
  /\ drained \in Seq(Numbers) /\ disturbed \subseteq {"overlap", "crash"}
  /\ count \in [Disturbances -> Nat] /\ \A d \in Disturbances : count[d] <= Limit[d]

(* A QoS 1 message that sendData was called with is somewhere on its way,  *)
(* delivered, or accounted for: trimmed, in the memory of a process that   *)
(* died, in flight in a session the broker has forgotten, or a flow of the *)
(* session that was deleted by a clean connect. No order of drains,        *)
(* disconnects and reconnects loses it between shim and session.           *)
NoLoss ==
  \A m \in 1..called :
    m \in InSender \union Inserting \union Range(rows) \union stored \union sent
            \union delivered \union trimmed \union exposed

(* The drains publish the rows in the order they were stored in, and each  *)
(* once, unless the link came back while an earlier drain was still at     *)
(* work or the process died between a publish and its delete.              *)
DrainedOnceInOrder ==
  disturbed = {} => \A i, j \in DOMAIN drained : i < j => drained[i] < drained[j]

(* With the link up for good every row that was stored before it came up   *)
(* leaves the shim, batch after batch.                                     *)
Drains == <>[](link = "up") => <>[](Range(rows) \subseteq late)

(* Connection.m:407: what is sent while the broker is not ready is kept    *)
(* for later delivery. Once the link is up for good, nothing stays behind. *)
DrainsEverything == <>[](link = "up") => <>[](rows = <<>>)
=============================================================================
