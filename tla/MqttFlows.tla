------------------------------ MODULE MqttFlows ------------------------------
(***************************************************************************)
(* The outgoing QoS 1 flows of MQTTSession: publishDataV5 stores a flow and*)
(* sends it while the window is open, checkTxFlows sends what waits and    *)
(* sends again what is overdue, PUBACK deletes the flow. With MQTT 5 a     *)
(* topic is replaced by an alias once it has been sent with it.            *)
(*                                                                         *)
(* None of this is guarded by a lock. The main thread publishes and runs   *)
(* the dup timer; the delegate queue of the stream handles CONNACK, with a *)
(* check of its own, and PUBACK, and publishes what the app's queue drains.*)
(* A stream that has been replaced may still be at work.                   *)
(*                                                                         *)
(* One topic and its alias stand for all; the broker of an MQTT 5          *)
(* connection accepts aliases. Whether a session starts without knowing its*)
(* connection ("down") or with a dead one ("gone") is the network's choice.*)
(***************************************************************************)
EXTENDS Naturals, Sequences, FiniteSets, SequencesExt

CONSTANTS Messages,    \* the number of messages published, a bound
          Streams,     \* delegate queues of streams
          WindowSize,  \* maxWindowSize: 16
          Limit        \* how many disturbances there may be, a bound

(* What can disturb the orderly run of the flows:                          *)
(*   down     the connection is lost, or closed by the app                 *)
(*   forget   the broker has no session                                    *)
(*   clean    the app connects with the clean flag, or starts afresh       *)
(*   crash    the process is killed and started again                      *)
(*   late     an answer takes longer than dupTimeout, 20 s                 *)
Disturbances == {"down", "forget", "clean", "crash", "late"}

ASSUME SizesAssumption == /\ Messages \in Nat /\ WindowSize \in Nat \ {0}
                          /\ Limit \in Nat

None == "none"

ASSUME StreamsAssumption == Streams \intersect {"main", None} = {}

Threads == {"main"} \union Streams

VARIABLES
  version,    \* protocolLevel: 4 or 5
  link,       \* "up" while status is MQTTSessionStatusConnected
  stream,     \* the delegate queue of the present stream, or None
  job,        \* what each thread is doing
  flows,      \* the stored flows
  txMsgId,    \* the last message id given out
  maximum,    \* brokerTopicAliasMaximum: "unknown" or "known"
  registered, \* whether brokerTopicAliases holds the alias
  peer,       \* the other end: "open", or "gone" before the client knows
  known,      \* whether the broker knows the alias
  wire, acks, \* PUBLISH and PUBACK packets on their way, in order
  called,     \* the number of messages published so far; a message is its number
  received,   \* history: messages the broker has got
  done,       \* history: messages whose flow a PUBACK has ended
  overtaken,  \* history: "yes" once a close, a PUBACK or a crash got ahead of
              \* the mark or the deadline of an MQTT 5 flow
  crowded,    \* history: "yes" once two threads looked at the window together
  rushed,     \* history: "yes" once an alias was used ahead of its topic
  count       \* how often each disturbance has happened

aliasVars == <<maximum, registered, rushed>>
netVars   == <<link, stream, peer, known>>
pastVars  == <<received, done, crowded>>
vars == <<version, netVars, job, flows, txMsgId, aliasVars, wire, acks, called,
          pastVars, overtaken, count>>

Idle == [pc |-> "idle", m |-> 0, id |-> 0, form |-> "topic", todo |-> {}, size |-> 0]

Happened == count["down"] + count["forget"] + count["clean"] + count["crash"] + count["late"]

Happens(d) == /\ Happened < Limit
              /\ count' = [count EXCEPT ![d] = @ + 1]

Waiting  == {f \in flows : f.cmd = "none"}
InFlight == {f \in flows : f.cmd = "publish"}
FlowOf(m) == CHOOSE f \in flows : f.m = m
Stored(m) == \E f \in flows : f.m = m
Change(m, f) == flows' = {g \in flows : g.m # m} \union {f}

Overtakes(case) == overtaken' = IF version = 5 /\ case THEN "yes" ELSE overtaken

(* Mutant: the branches are swapped. *)
Deadline_Swapped == IF version = 5 THEN "later" ELSE "never"

(* dupTimeout from now, or never: MQTT 5 does not send again.              *)
Deadline == IF version = 5 THEN "never" ELSE "later"

-----------------------------------------------------------------------------
Init ==
  /\ version \in {4, 5} /\ link = "down" /\ stream = None
  /\ job = [t \in Threads |-> Idle]
  /\ flows = {} /\ txMsgId = 0
  /\ maximum = "unknown" /\ registered = "no" /\ known = "no" /\ peer = "gone"
  /\ wire = <<>> /\ acks = <<>> /\ called = 0
  /\ received = {} /\ done = {} /\ overtaken = "no" /\ rushed = "no" /\ crowded = "no"
  /\ count = [d \in Disturbances |-> 0]

(* topicToSend: the topic the first time, and nothing once it is registered.*)
Form == IF maximum = "known" /\ registered = "yes" THEN "empty" ELSE "topic"

(* A thread has taken the topic and not sent it yet.                       *)
Owes(t) == job[t].pc \in {"decide", "storepub", "storenone", "send"} /\ job[t].form = "topic"

TopicToSend(t) ==
  /\ registered' = IF maximum = "known" THEN "yes" ELSE registered
  /\ rushed' = IF Form = "empty" /\ \E u \in Threads \ {t} : Owes(u) THEN "yes" ELSE rushed
  /\ maximum' = maximum

(* Mutant: ids that are in use are given out again.                        *)
NextMsgId_Reused == txMsgId + 1

(* nextMsgId: the next id no flow has.                                     *)
NextMsgId == CHOOSE n \in (txMsgId + 1)..(txMsgId + 1 + Messages) :
               /\ \A f \in flows : f.id # n
               /\ \A k \in (txMsgId + 1)..(n - 1) : \E f \in flows : f.id = k

-----------------------------------------------------------------------------
(* publishDataV5: the topic and the id.                                    *)
Publish(t) ==
  /\ job[t] = Idle
  /\ t = "main" \/ t = stream
  /\ link = "up"
  /\ called < Messages
  /\ called' = called + 1
  /\ txMsgId' = NextMsgId
  /\ job' = [job EXCEPT ![t] = [Idle EXCEPT !.pc = "decide", !.m = called + 1,
                                            !.id = NextMsgId, !.form = Form]]
  /\ TopicToSend(t)
  /\ UNCHANGED <<version, netVars, flows, wire, acks, pastVars, overtaken, count>>

(* A thread has counted the flows in flight and not marked its own yet; t  *)
(* counts them now.                                                        *)
Counts(t) ==
  crowded' = IF \E u \in Threads \ {t} : job[u].pc \in {"storepub", "scan", "marknew", "markagain"}
               THEN "yes" ELSE crowded

(* Mutant: the window is not looked at. *)
Decide_NoWindow(t) ==
  /\ job[t].pc = "decide"
  /\ job' = [job EXCEPT ![t].pc =
               IF link = "up" /\ Waiting = {} THEN "storepub" ELSE "storenone"]
  /\ Counts(t)
  /\ UNCHANGED <<version, netVars, flows, txMsgId, aliasVars, wire, acks, called,
                 received, done, overtaken, count>>

(* It may go at once if nothing older waits and the window is open.        *)
Decide(t) ==
  /\ job[t].pc = "decide"
  /\ job' = [job EXCEPT ![t].pc =
               IF link = "up" /\ Waiting = {} /\ Cardinality(InFlight) < WindowSize
                 THEN "storepub" ELSE "storenone"]
  /\ Counts(t)
  /\ UNCHANGED <<version, netVars, flows, txMsgId, aliasVars, wire, acks, called,
                 received, done, overtaken, count>>

(* storeMessage: the flow of that id, or a new one.                        *)
Store(t) ==
  /\ job[t].pc \in {"storepub", "storenone"}
  /\ LET now == job[t].pc = "storepub"
         f == [m |-> job[t].m, id |-> job[t].id,
               cmd |-> IF now THEN "publish" ELSE "none",
               due |-> IF now THEN Deadline ELSE "now"]
     IN  /\ flows' = {g \in flows : g.id # f.id} \union {f}
         /\ job' = [job EXCEPT ![t] = IF now THEN [@ EXCEPT !.pc = "send"] ELSE Idle]
         /\ rushed' = IF ~now /\ maximum = "known" /\ job[t].form = "topic"
                        THEN "yes" ELSE rushed
  /\ UNCHANGED <<version, netVars, txMsgId, maximum, registered, wire, acks, called,
                 pastVars, overtaken, count>>

(* encode never fails: what is written to a dead or closed connection is   *)
(* gone.                                                                   *)
Encode(id, m, form) ==
  wire' = IF link = "up" /\ peer = "open"
            THEN Append(wire, [id |-> id, m |-> m, form |-> form]) ELSE wire

Send(t) ==
  /\ job[t].pc = "send"
  /\ Encode(job[t].id, job[t].m, job[t].form)
  /\ job' = [job EXCEPT ![t] = Idle]
  /\ UNCHANGED <<version, netVars, flows, txMsgId, aliasVars, acks, called, pastVars,
                 overtaken, count>>

-----------------------------------------------------------------------------
(* checkTxFlows: the flows as they are now, and how many are in flight.    *)
Scan == [Idle EXCEPT !.pc = "scan", !.todo = {f.m : f \in flows},
                     !.size = Cardinality(InFlight)]

(* The dup timer, every second on the main thread.                         *)
Timer ==
  /\ job["main"] = Idle
  /\ link = "up"
  /\ \E f \in flows : f.due = "now"
  /\ job' = [job EXCEPT !["main"] = Scan]
  /\ Counts("main")
  /\ UNCHANGED <<version, netVars, flows, txMsgId, aliasVars, wire, acks, called,
                 received, done, overtaken, count>>

(* A flow that is due is sent again, or for the first time if the window   *)
(* allows; the others are passed over.                                     *)
Sends(t, m) == /\ Stored(m)
               /\ FlowOf(m).due = "now"
               /\ FlowOf(m).cmd = "none" => job[t].size < WindowSize

PassOver(t, m) ==
  /\ job[t].pc = "scan" /\ m \in job[t].todo
  /\ ~Sends(t, m)
  /\ job' = [job EXCEPT ![t].todo = @ \ {m}]
  /\ UNCHANGED <<version, netVars, flows, txMsgId, aliasVars, wire, acks, called,
                 pastVars, overtaken, count>>

(* It is marked in a step of its own.                                      *)
Resend(t, m) ==
  /\ job[t].pc = "scan" /\ m \in job[t].todo
  /\ Sends(t, m)
  /\ Encode(FlowOf(m).id, m, Form)
  /\ TopicToSend(t)
  /\ job' = [job EXCEPT ![t] =
               [job[t] EXCEPT !.pc = IF FlowOf(m).cmd = "none" THEN "marknew" ELSE "markagain",
                              !.m = m, !.todo = @ \ {m}]]
  /\ UNCHANGED <<version, netVars, flows, txMsgId, acks, called, pastVars, overtaken, count>>

Mark(t) ==
  /\ job[t].pc \in {"marknew", "markagain"}
  /\ LET new == job[t].pc = "marknew"
         m == job[t].m
     IN  /\ IF Stored(m)
              THEN Change(m, [FlowOf(m) EXCEPT !.cmd = "publish",
                                               !.due = IF new THEN Deadline ELSE "later"])
              ELSE flows' = flows
         /\ job' = [job EXCEPT ![t] =
                      [job[t] EXCEPT !.pc = "scan", !.m = 0, !.size = IF new THEN @ + 1 ELSE @]]
  /\ UNCHANGED <<version, netVars, txMsgId, aliasVars, wire, acks, called, pastVars,
                 overtaken, count>>

(* The check is over; the one of CONNACK goes on to read the maxima.       *)
Checked(t) ==
  /\ job[t].pc = "scan" /\ job[t].todo = {}
  /\ job' = [job EXCEPT ![t] = Idle]
  /\ maximum' = IF t # "main" /\ version = 5 THEN "known" ELSE maximum
  /\ UNCHANGED <<version, netVars, flows, txMsgId, registered, rushed, wire, acks, called,
                 pastVars, overtaken, count>>

(* dupTimeout has passed. Unless something is late, nothing of the flow is *)
(* on its way any more.                                                    *)
Expire(m) ==
  /\ Stored(m) /\ FlowOf(m).due = "later"
  /\ Change(m, [FlowOf(m) EXCEPT !.due = "now"])
  /\ IF \E p \in Range(wire) : p.m = m THEN Happens("late")
     ELSE IF FlowOf(m).id \in Range(acks) THEN Happens("late")
     ELSE UNCHANGED count
  /\ UNCHANGED <<version, netVars, job, txMsgId, aliasVars, wire, acks, called, pastVars,
                 overtaken>>

-----------------------------------------------------------------------------
(* connect with the clean flag deletes every flow, those never sent with   *)
(* the others. A forced connect with other parameters does so in a new     *)
(* session, which knows no ids and aliases; that it finds all threads idle *)
(* is a bound: what they did would be done by the session replaced.        *)
CleanConnect(fresh) ==
  /\ link = "down" /\ job["main"] = Idle
  /\ Happens("clean")
  /\ flows' = {}
  /\ IF fresh THEN /\ \A t \in Threads : job[t] = Idle
                   /\ txMsgId' = 0 /\ maximum' = "unknown" /\ registered' = "no"
             ELSE UNCHANGED <<txMsgId, maximum, registered>>
  /\ UNCHANGED <<version, netVars, job, rushed, wire, acks, called, pastVars, overtaken>>

(* Mutant: the aliases of the last connection are kept.                    *)
LinkUp_KeepsAliases(s, present) ==
  /\ link = "down" /\ job[s] = Idle
  /\ link' = "up" /\ stream' = s /\ peer' = "open" /\ known' = "no"
  /\ wire' = <<>> /\ acks' = <<>>
  /\ UNCHANGED registered
  /\ IF present THEN flows' = flows /\ UNCHANGED count
                ELSE flows' = Waiting /\ Happens("forget")
  /\ job' = [job EXCEPT ![s] =
               [Scan EXCEPT !.todo = {f.m : f \in flows'},
                            !.size = Cardinality({f \in flows' : f.cmd = "publish"})]]
  /\ Counts(s)
  /\ UNCHANGED <<version, txMsgId, maximum, rushed, called, received, done, overtaken>>

(* CONNACK on the queue of a new stream. Without a session at the broker   *)
(* the flows in flight are deleted; then a check.                          *)
LinkUp(s, present) ==
  /\ link = "down" /\ job[s] = Idle
  /\ link' = "up" /\ stream' = s /\ peer' = "open" /\ known' = "no"
  /\ wire' = <<>> /\ acks' = <<>>
  /\ registered' = "no"
  /\ IF present THEN flows' = flows /\ UNCHANGED count
                ELSE flows' = Waiting /\ Happens("forget")
  /\ job' = [job EXCEPT ![s] =
               [Scan EXCEPT !.todo = {f.m : f \in flows'},
                            !.size = Cardinality({f \in flows' : f.cmd = "publish"})]]
  /\ Counts(s)
  /\ UNCHANGED <<version, txMsgId, maximum, rushed, called, received, done, overtaken>>

(* The connection is dead, and what was on its way is lost.                *)
Breaks ==
  /\ peer = "open" /\ Happens("down")
  /\ peer' = "gone" /\ wire' = <<>> /\ acks' = <<>>
  /\ UNCHANGED <<version, link, stream, known, job, flows, txMsgId, aliasVars,
                 called, pastVars, overtaken>>

(* The app closes the session, on the main thread, or the stream's queue   *)
(* finds it dead.                                                          *)
MayClose == \/ peer = "gone" /\ job[stream].pc = "idle" /\ UNCHANGED count
            \/ job["main"].pc = "idle" /\ Happens("down")

(* Mutant: the deadlines stay as they are.                                 *)
LinkDown_KeepsDeadlines ==
  /\ link = "up" /\ MayClose
  /\ link' = "down" /\ stream' = None /\ peer' = "gone"
  /\ wire' = <<>> /\ acks' = <<>>
  /\ UNCHANGED flows
  /\ Overtakes(\E t \in Threads : job[t].pc \in {"storepub", "scan", "marknew"})
  /\ rushed' = IF \E t \in Threads : job[t].form = "empty" THEN "yes" ELSE rushed
  /\ UNCHANGED <<version, known, job, txMsgId, maximum, registered, called, pastVars>>

(* closeInternal: what is in flight is due at once.                        *)
LinkDown ==
  /\ link = "up" /\ MayClose
  /\ link' = "down" /\ stream' = None /\ peer' = "gone"
  /\ wire' = <<>> /\ acks' = <<>>
  /\ flows' = Waiting \union {[f EXCEPT !.due = "now"] : f \in InFlight}
  /\ Overtakes(\E t \in Threads : job[t].pc \in {"storepub", "scan", "marknew"})
  /\ rushed' = IF \E t \in Threads : job[t].form = "empty" THEN "yes" ELSE rushed
  /\ UNCHANGED <<version, known, job, txMsgId, maximum, registered, called, pastVars>>

Unknown(p) == p.form = "empty" /\ known = "no"

(* The broker takes the next packet, or hangs up on an alias it has not met.*)
BrokerReceives ==
  /\ wire # <<>>
  /\ IF Unknown(Head(wire))
       THEN /\ peer' = "gone" /\ wire' = <<>>
            /\ UNCHANGED <<known, received, acks>>
       ELSE /\ received' = received \union {Head(wire).m}
            /\ known' = IF version = 5 THEN "yes" ELSE known
            /\ wire' = Tail(wire)
            /\ acks' = Append(acks, Head(wire).id)
            /\ UNCHANGED <<peer>>
  /\ UNCHANGED <<version, link, stream, job, flows, txMsgId, aliasVars, called, done, crowded,
                 overtaken, count>>

(* handlePuback: the flow of that id ends, if it is marked as sent.        *)
Puback ==
  /\ acks # <<>> /\ link = "up" /\ job[stream] = Idle
  /\ acks' = Tail(acks)
  /\ LET acked == {f \in flows : f.id = Head(acks)}
     IN  /\ flows' = flows \ (acked \intersect InFlight)
         /\ done' = done \union {f.m : f \in acked \intersect InFlight}
         /\ Overtakes(acked \intersect Waiting # {})
  /\ UNCHANGED <<version, netVars, job, txMsgId, aliasVars, wire, called, received, crowded, count>>

(* The process is killed and started again: the flows are on disk.         *)
Crash ==
  /\ Happens("crash")
  /\ link' = "down" /\ stream' = None /\ peer' = "gone" /\ known' = "no"
  /\ wire' = <<>> /\ acks' = <<>>
  /\ job' = [t \in Threads |-> Idle]
  /\ txMsgId' = 0 /\ maximum' = "unknown" /\ registered' = "no"
  /\ Overtakes(\E f \in flows : f.due = "never")
  /\ UNCHANGED <<version, flows, rushed, called, pastVars>>

-----------------------------------------------------------------------------
Step(t) ==
  \/ Decide(t) \/ Store(t) \/ Send(t) \/ Mark(t) \/ Checked(t)
  \/ \E m \in job[t].todo : PassOver(t, m) \/ Resend(t, m)

Next ==
  \/ \E t \in Threads : Publish(t) \/ Step(t)
  \/ \E s \in Streams, present \in BOOLEAN : LinkUp(s, present)
  \/ \E fresh \in BOOLEAN : CleanConnect(fresh)
  \/ \E m \in 1..Messages : Expire(m)
  \/ Timer \/ Breaks \/ LinkDown \/ BrokerReceives \/ Puback \/ Crash

SafeSpec == Init /\ [][Next]_vars

(* A thread that is at work goes on, timers fire, time passes, a dead      *)
(* connection is noticed and another one made, the broker takes what       *)
(* reaches it and answers. Nothing makes the app publish or close.         *)
Spec == /\ SafeSpec
        /\ \A t \in Threads : WF_vars(Step(t))
        /\ WF_vars(Timer) /\ \A m \in 1..Messages : WF_vars(Expire(m))
        /\ WF_vars(BrokerReceives) /\ WF_vars(Puback)
        /\ WF_vars(peer = "gone" /\ LinkDown)
        /\ WF_vars(\E s \in Streams : LinkUp(s, TRUE))

-----------------------------------------------------------------------------
Numbers == 1..Messages
Ids     == 1..Messages
Pcs     == {"idle", "decide", "storepub", "storenone", "send", "scan", "marknew", "markagain"}
Forms   == {"topic", "empty"}
Jobs    == [pc : Pcs, m : 0..Messages, id : {0} \union Ids, form : Forms,
            todo : SUBSET Numbers, size : Nat]
Flows   == [m : Numbers, id : Ids, cmd : {"none", "publish"}, due : {"now", "later", "never"}]
Packets == [id : Ids, m : Numbers, form : Forms]

TypeOK ==
  /\ version \in {4, 5} /\ link \in {"up", "down"} /\ peer \in {"open", "gone"}
  /\ stream \in Streams \union {None} /\ (link = "up" <=> stream # None)
  /\ job \in [Threads -> Jobs]
  /\ flows \subseteq Flows /\ \A f \in flows : f.due = "never" => version = 5
  /\ txMsgId \in {0} \union Ids
  /\ maximum \in {"unknown", "known"} /\ (maximum = "known" => version = 5)
  /\ \A flag \in {registered, known, overtaken, crowded, rushed} : flag \in {"yes", "no"}
  /\ wire \in Seq(Packets) /\ acks \in Seq(Ids)
  /\ called \in 0..Messages /\ received \union done \subseteq Numbers
  /\ count \in [Disturbances -> 0..Limit]

(* No more flows are in flight than the window allows, over reconnects,    *)
(* retransmissions and restarts, unless two threads have looked at the     *)
(* window together.                                                        *)
InFlightBounded == crowded = "no" => Cardinality(InFlight) <= WindowSize

(* The broker meets an alias it has not been told only if a message with   *)
(* the topic had to wait for the window, or two threads or two connections *)
(* were publishing at the same time. Neither reconnects nor retransmissions*)
(* bring an alias of an earlier connection.                                *)
AliasKnown == wire # <<>> /\ Unknown(Head(wire)) => rushed = "yes"

(* Every flow ends in the end, whatever has become of connections and      *)
(* answers. With MQTT 5 a message that was decided on before a close and   *)
(* stored after it, or acknowledged before it was marked, or in flight at a*)
(* crash, stays and holds its place in the window: nothing is promised then.*)
Delivers == <>[](\/ flows = {}
                 \/ overtaken = "yes")

(* The flows are a sender with a store that keeps its promise.             *)
Promise == INSTANCE AtLeastOnce
             WITH pending <- {f.m : f \in flows}, received <- received, done <- done,
                  forgotten <- count["forget"] + count["clean"], restarted <- count["crash"]
ImplementsAtLeastOnce == Promise!Spec
=============================================================================
