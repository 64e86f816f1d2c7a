---------------------------- MODULE MqttConnection ----------------------------
(***************************************************************************)
(* The MQTT mode of Connection.m: the state machine that keeps one         *)
(* MQTTSession connected, with the session's own status, its transport and *)
(* the timers that act on it.                                              *)
(*                                                                         *)
(* Commands and timers run on the main thread, everything the network does *)
(* on the delegate queue of a transport's URL session, each stream with a  *)
(* queue of its own. Neither takes a lock, so a handler is split wherever  *)
(* it has written a field the other thread reads: job[t] is what thread t  *)
(* is doing and where it has got to, and each step below writes one part   *)
(* of the connection.                                                      *)
(*                                                                         *)
(* Nothing ties an event to the connection attempt it belongs to. connect  *)
(* replaces the stream task and the connack timer without closing or       *)
(* invalidating the old ones, a cancelled stream still reports its end to  *)
(* whoever is the transport's delegate by then, and handleEvent does not   *)
(* look at the session that calls it.                                      *)
(***************************************************************************)
EXTENDS Naturals

CONSTANTS
  Workers,  \* threads of the delegate queues; as many as are at work at once
  Limit,    \* how many disturbances may happen, for TLC
  Races     \* how often a handler may start while another one runs, for TLC

(* What can disturb the connection:                                        *)
(*   failure      the network or the broker ends an attempt or a session   *)
(*   overtake     connectToLast connects while a reconnect timer is armed  *)
(*   early        MQTT 5 DISCONNECT arrives instead of CONNACK             *)
(*   certificate  TLS fails with errSSLPeerCertUnknown                     *)
(*   off          disconnect: to the background, or by the user            *)
(*   reconfigure  reconnect: disconnect and connectTo in one go            *)
Disturbances == {"failure", "overtake", "early", "certificate", "off", "reconfigure"}

ASSUME LimitAssumption == Limit \in Nat /\ Races \in Nat
ASSUME WorkersAssumption == "main" \notin Workers

Threads == {"main"} \cup Workers

States   == {"starting", "connecting", "connected", "error", "closing"}
Statuses == {"none", "created", "connecting", "connected", "disconnecting", "error", "closed"}

VARIABLES
  conn,     \* the connection: see Connections
  job,      \* what each thread is doing: see Jobs
  wanted,   \* what was asked for last: "on" or "off"
  count,    \* history: how many disturbances there have been,
  kinds,    \*   and of which kinds
  races,    \* history: how often a handler started while another one was running
  raced     \* history: "yes" from there until a disconnect that is alone

vars == <<conn, job, wanted, count, kinds, races, raced>>

Connections ==
  [state    : States,                   \* Connection.state
   timer    : {"none", "armed"},        \* Connection.reconnectTimer
   loose    : Nat,                      \* reconnect timers overwritten while armed
   intended : {"no", "yes"},            \* Connection.intendedDisconnect
   status   : Statuses,                 \* session.status, "none" without a session
   listens  : {"no", "yes"},            \* transport.delegate is the session
   stream   : {"none", "silent", "up"}, \* the stream task, CONNACK received or not
   connack  : {"none", "armed"},        \* session.connackTimer
   strays   : Nat,                      \* connack timers nobody refers to any more,
   orphans  : Nat,                      \*   and those of sessions that were replaced
   leaked   : Nat,                      \* streams replaced while they were open, silent,
   leakedUp : Nat,                      \*   and up
   ghosts   : Nat,                      \* closed streams that have not reported their end
   clean    : {"no", "yes"},            \* session.cleanSessionFlag
   sent     : {"no", "yes"}]            \* the clean flag of the last CONNECT

(* Where a handler has got to.                                             *)
Failing    == {"arm", "error"}
Shutting   == {"detach", "shut", "starting", "rearm"}
Accepting  == {"accept", "connected"}
Commanding == {"closing", "look", "stop", "renew"}
Dialling   == {"try", "dial", "listen", "open", "unclean"}

Jobs ==
  [pc   : {"idle"} \cup Failing \cup Shutting \cup Accepting \cup Commanding \cup Dialling,
   goal : {"none", "early", "certificate", "ended", "off", "same", "changed"},
   own  : {"no", "yes"},                \* the session it works on is the connection's
   on   : {"none", "current", "other"}] \* the stream whose queue it occupies

Idle == [pc |-> "idle", goal |-> "none", own |-> "yes", on |-> "none"]

-----------------------------------------------------------------------------
(* Handlers and their steps. *)

Happens(d) == /\ count < Limit
              /\ count' = count + 1
              /\ kinds' = kinds \cup {d}

Calm == UNCHANGED <<count, kinds>>

Alone(t) == \A u \in Threads \ {t} : job[u].pc = "idle"

(* A thread runs one handler at a time, a queue one at a time as well. *)
Takes(t, pc, goal, own, on) ==
  /\ job[t].pc = "idle"
  /\ on = "none" \/ \A u \in Threads : job[u].on # on
  /\ job' = [job EXCEPT ![t] = [pc |-> pc, goal |-> goal, own |-> own, on |-> on]]

Overlaps(t) ==
  IF Alone(t) THEN UNCHANGED <<races, raced>>
              ELSE races < Races /\ races' = races + 1 /\ raced' = "yes"

Begins(t, pc, goal, own, on) == Takes(t, pc, goal, own, on) /\ Overlaps(t)

(* A disconnect that runs alone, with no timer left that nobody refers to, *)
(* makes good whatever overlapping handlers have done.                     *)
BeginsDisconnect(goal) ==
  /\ Takes("main", "closing", goal, "yes", "none")
  /\ IF Alone("main") /\ conn.loose = 0 /\ conn.strays = 0 /\ conn.orphans = 0
     THEN raced' = "no" /\ UNCHANGED races
     ELSE Overlaps("main")

GoesOn(t, pc) == job' = [job EXCEPT ![t].pc = pc]
Returns(t)    == job' = [job EXCEPT ![t] = Idle]

(* A step of thread t at pc; the histories only follow the starts. *)
At(t, pc) == job[t].pc = pc /\ Calm /\ UNCHANGED <<wanted, races, raced>>

(* The stream of the transport is cancelled or replaced. *)
Forgotten(jobs) ==
  [u \in Threads |-> [jobs[u] EXCEPT !.on = IF @ = "current" THEN "other" ELSE @]]

(* The session is replaced or dropped. *)
Disowned(jobs) ==
  [u \in Threads |-> IF jobs[u].pc = "idle" THEN jobs[u]
                     ELSE [Forgotten(jobs)[u] EXCEPT !.own = "no"]]

(* startReconnectTimer: the old timer is overwritten, not invalidated. *)
Arm(c) == [c EXCEPT !.timer = "armed", !.loose = IF c.timer = "armed" THEN @ + 1 ELSE @]

-----------------------------------------------------------------------------
(* An error: error: of the session, handleEvent, closeInternal, handleEvent.*)

(* The status, and the first lines of handleEvent. *)
Erring(c, own) ==
  [c EXCEPT !.status = IF own = "yes" THEN "error" ELSE @, !.timer = "none"]

(* newMQTTSession, or nil: the old session goes with its transport; its    *)
(* connack timers retain it and stay.                                      *)
NewSession(c, status, force) ==
  [c EXCEPT !.status = status, !.listens = "no", !.stream = "none", !.connack = "none",
            !.orphans = @ + c.strays + (IF c.connack = "armed" THEN 1 ELSE 0),
            !.strays = 0, !.leaked = 0, !.leakedUp = 0, !.ghosts = 0,
            !.clean = force]

(* The unknown certificate takes the session away, and the timer starts.   *)
ArmsTimer(t) ==
  /\ At(t, "arm")
  /\ IF job[t].goal = "certificate"
     THEN /\ conn' = Arm(NewSession(conn, "none", "no"))
          /\ job' = [Disowned(job) EXCEPT ![t].pc = "error"]
     ELSE /\ conn' = Arm(conn)
          /\ GoesOn(t, "error")

(* An early DISCONNECT closes nothing. *)
ShowsError(t) ==
  /\ At(t, "error")
  /\ conn' = [conn EXCEPT !.state = "error"]
  /\ IF job[t].goal = "early" THEN Returns(t) ELSE GoesOn(t, "detach")

(* Mutant: the connack timer survives. *)
Detached_KeepsConnack(c) ==
  [c EXCEPT !.listens = "no", !.stream = "none",
            !.ghosts = IF c.stream = "none" THEN @ ELSE @ + 1]

(* Mutant: the transport keeps its delegate. *)
Detached_KeepsDelegate(c) ==
  [c EXCEPT !.connack = "none", !.stream = "none",
            !.ghosts = IF c.stream = "none" THEN @ ELSE @ + 1]

(* closeInternal: timers off, stream cancelled, delegate gone. *)
Detached(c) ==
  [c EXCEPT !.connack = "none", !.listens = "no", !.stream = "none",
            !.ghosts = IF c.stream = "none" THEN @ ELSE @ + 1]

(* A session that was replaced stops its own timer, if that is still armed.*)
Detaches(t) ==
  /\ At(t, "detach")
  /\ IF job[t].own = "yes"
     THEN /\ conn' = Detached(conn)
          /\ job' = [Forgotten(job) EXCEPT ![t].pc = "shut"]
     ELSE /\ \/ UNCHANGED conn
             \/ conn.orphans > 0 /\ conn' = [conn EXCEPT !.orphans = @ - 1]
          /\ GoesOn(t, "shut")

Shuts(t) ==
  /\ At(t, "shut")
  /\ conn' = IF job[t].own = "yes" THEN [conn EXCEPT !.status = "closed"] ELSE conn
  /\ GoesOn(t, "starting")

(* Mutant: the state stays closed. *)
Closed_Stays(c) == [c EXCEPT !.timer = "none", !.state = "closed"]

(* The closed event: no timer, closed, and starting at once. *)
Closed(c) == [c EXCEPT !.timer = "none", !.state = "starting"]

ShowsStarting(t) ==
  /\ At(t, "starting")
  /\ conn' = Closed(conn)
  /\ GoesOn(t, "rearm")

(* Mutant: an intended disconnect leaves its mark. *)
Resumed_KeepsIntended(c) == IF c.intended = "yes" THEN c ELSE Arm(c)

(* Mutant: the timer is started only after an error. *)
Resumed_NoTimer(c) == [c EXCEPT !.intended = "no"]

(* The rest of the closed event: the timer, unless that was intended. At   *)
(* the end of a stream this comes before closeInternal, and once again.    *)
Resumed(c) == IF c.intended = "yes" THEN [c EXCEPT !.intended = "no"] ELSE Arm(c)

Rearms(t) ==
  /\ At(t, "rearm")
  /\ conn' = Resumed(conn)
  /\ CASE job[t].goal = "ended" -> job' = [job EXCEPT ![t].pc = "detach", ![t].goal = "none"]
       [] job[t].goal \in {"off", "same", "changed"} -> GoesOn(t, "stop")
       [] OTHER -> Returns(t)

-----------------------------------------------------------------------------
(* CONNACK: the status first; then flows, checkDup and two callbacks later *)
(* the state.                                                              *)

Accepts(t) ==
  /\ At(t, "accept")
  /\ conn' = IF job[t].own = "yes" THEN [conn EXCEPT !.status = "connected", !.connack = "none"]
                                   ELSE conn
  /\ GoesOn(t, "connected")

ShowsConnected(t) ==
  /\ At(t, "connected")
  /\ conn' = [conn EXCEPT !.timer = "none", !.state = "connected"]
  /\ Returns(t)

-----------------------------------------------------------------------------
(* disconnect and connectTo. The setting clean_preference is off.          *)

Closing(c) == [c EXCEPT !.intended = "yes", !.state = "closing"]

Closes(t) ==
  /\ At(t, "closing")
  /\ conn' = Closing(conn)
  /\ GoesOn(t, "look")

(* closeWithReturnCode: a connected session sends DISCONNECT; without a    *)
(* session nobody sends the closed event.                                  *)
Looks(t) ==
  /\ At(t, "look")
  /\ conn' = IF conn.status = "connected" THEN [conn EXCEPT !.status = "disconnecting"]
                                          ELSE conn
  /\ GoesOn(t, IF conn.status = "none" THEN "stop" ELSE "detach")

StopsTimer(t) ==
  /\ At(t, "stop")
  /\ conn' = [conn EXCEPT !.timer = "none"]
  /\ IF job[t].goal = "off" THEN Returns(t) ELSE GoesOn(t, "renew")

(* connectTo: a new session only when there is none or a parameter has     *)
(* changed.                                                                *)
Renews(t) ==
  /\ At(t, "renew")
  /\ IF job[t].goal = "changed" \/ conn.status = "none"
     THEN /\ conn' = NewSession(conn, "created", "yes")
          /\ job' = [Disowned(job) EXCEPT ![t] = [job[t] EXCEPT !.pc = "try", !.own = "yes"]]
     ELSE /\ UNCHANGED conn
          /\ GoesOn(t, "try")

(* connectToInternal connects in state_starting and in no other state. *)
Tries(t) ==
  /\ At(t, "try")
  /\ IF conn.state = "starting"
     THEN /\ conn' = LET s == IF conn.status = "none" THEN NewSession(conn, "created", "no")
                                                      ELSE conn
                     IN  [s EXCEPT !.state = "connecting"]
          /\ job' = [job EXCEPT ![t].pc = "dial", ![t].own = "yes"]
     ELSE UNCHANGED conn /\ Returns(t)

(* connect of the session: its flows go if the flag is set (see MqttShim). *)
Dials(t) ==
  /\ At(t, "dial")
  /\ IF conn.status = "none" THEN UNCHANGED conn /\ Returns(t)
     ELSE conn' = [conn EXCEPT !.status = "connecting"] /\ GoesOn(t, "listen")

Listens(t) ==
  /\ At(t, "listen")
  /\ conn' = [conn EXCEPT !.listens = IF job[t].own = "yes" THEN "yes" ELSE @]
  /\ GoesOn(t, "open")

(* A new stream, whatever there was before; its delegate arms the connack  *)
(* timer and sends CONNECT.                                                *)
Opened(c) ==
  [c EXCEPT !.stream = "silent",
            !.leaked = IF c.stream = "silent" THEN @ + 1 ELSE @,
            !.leakedUp = IF c.stream = "up" THEN @ + 1 ELSE @,
            !.connack = IF c.listens = "yes" THEN "armed" ELSE @,
            !.strays = IF c.listens = "yes" /\ c.connack = "armed" THEN @ + 1 ELSE @,
            !.sent = IF c.listens = "yes" THEN c.clean ELSE @]

Opens(t) ==
  /\ At(t, "open")
  /\ conn' = IF job[t].own = "yes" THEN Opened(conn)
                                   ELSE [conn EXCEPT !.orphans = @ + 1]
  /\ job' = [(IF job[t].own = "yes" THEN Forgotten(job) ELSE job) EXCEPT ![t].pc = "unclean"]

Uncleans(t) ==
  /\ At(t, "unclean")
  /\ conn' = [conn EXCEPT !.clean = "no"]
  /\ Returns(t)

Step(t) ==
  \/ ArmsTimer(t) \/ ShowsError(t)
  \/ Detaches(t) \/ Shuts(t) \/ ShowsStarting(t) \/ Rearms(t)
  \/ Accepts(t) \/ ShowsConnected(t)
  \/ Closes(t) \/ Looks(t) \/ StopsTimer(t) \/ Renews(t)
  \/ Tries(t) \/ Dials(t) \/ Listens(t) \/ Opens(t) \/ Uncleans(t)

-----------------------------------------------------------------------------
(* init, and the connectTo of didFinishLaunching up to connectToInternal.  *)
Init ==
  /\ conn = [state |-> "starting", timer |-> "none", loose |-> 0, intended |-> "no",
             status |-> "created", listens |-> "no", stream |-> "none", connack |-> "none",
             strays |-> 0, orphans |-> 0, leaked |-> 0, leakedUp |-> 0, ghosts |-> 0,
             clean |-> "no", sent |-> "no"]
  /\ job = [t \in Threads |-> IF t = "main" THEN [Idle EXCEPT !.pc = "try"] ELSE Idle]
  /\ wanted = "on"
  /\ count = 0 /\ kinds = {}
  /\ races = 0 /\ raced = "no"

(* The app becomes active or refreshes, or sendData has something to send. *)
ConnectToLast ==
  /\ conn.state = "starting"
  /\ Begins("main", "try", "none", "yes", "none")
  /\ wanted' = "on"
  /\ IF conn.timer = "armed" \/ conn.loose > 0 THEN Happens("overtake") ELSE Calm
  /\ UNCHANGED conn

(* reconnect, one second or more after the timer was started: by then the  *)
(* streams cancelled before it have reported their end. A timer that was   *)
(* overwritten fires like any other.                                       *)
ReconnectTimerFires ==
  /\ conn.ghosts = 0
  /\ \/ conn.timer = "armed" /\ conn' = [conn EXCEPT !.timer = "none", !.state = "starting"]
     \/ conn.loose > 0 /\ conn' = [conn EXCEPT !.timer = "none", !.state = "starting",
                                               !.loose = @ - 1]
  /\ Begins("main", "try", "none", "yes", "none")
  /\ Calm /\ UNCHANGED wanted

(* The app goes to the background, or the user turns the connection off. *)
Off ==
  /\ Happens("off")
  /\ BeginsDisconnect("off")
  /\ wanted' = "off"
  /\ UNCHANGED conn

(* AppDelegate.reconnect: disconnect, and connectTo with force. *)
Reconfigure ==
  /\ Happens("reconfigure")
  /\ \E changed \in {"same", "changed"} : BeginsDisconnect(changed)
  /\ wanted' = "on"
  /\ UNCHANGED conn

-----------------------------------------------------------------------------
(* The network. Its events go to the transport's delegate of that moment.  *)

(* A session that is not connecting ignores CONNACK. *)
AwaitsConnack(c) == c.listens = "yes" /\ c.status = "connecting"

Connack(t, on) ==
  /\ IF AwaitsConnack(conn) THEN Begins(t, "accept", "none", "yes", on)
                            ELSE UNCHANGED <<job, races, raced>>
  /\ Calm /\ UNCHANGED wanted

BrokerAccepts(t) ==
  /\ conn.stream = "silent"
  /\ conn' = [conn EXCEPT !.stream = "up"]
  /\ Connack(t, "current")

BrokerAcceptsLeaked(t) ==
  /\ conn.leaked > 0
  /\ conn' = [conn EXCEPT !.leaked = @ - 1, !.leakedUp = @ + 1]
  /\ Connack(t, "other")

(* CONNACK with an error, DISCONNECT, or a packet that has no place in the *)
(* status of the session, on whatever stream.                              *)
BrokerRefuses(t) ==
  /\ Happens("failure")
  /\ conn.listens = "yes" /\ conn.status \in {"connecting", "connected"}
  /\ \/ conn.stream # "none" /\ Begins(t, "arm", "none", "yes", "current")
     \/ conn.leaked + conn.leakedUp > 0 /\ Begins(t, "arm", "none", "yes", "other")
  /\ conn' = Erring(conn, "yes")
  /\ UNCHANGED wanted

(* An MQTT 5 broker answers CONNECT with DISCONNECT: the refused event, and*)
(* nothing is closed.                                                      *)
BrokerRefusesEarly(t) ==
  /\ Happens("early")
  /\ conn.stream = "silent" /\ AwaitsConnack(conn)
  /\ Begins(t, "arm", "early", "yes", "current")
  /\ conn' = [conn EXCEPT !.timer = "none"]
  /\ UNCHANGED wanted

(* Mutant: the delegate is not told. *)
Ends_Untold(t, c, goal, on) == conn' = c /\ UNCHANGED <<job, races, raced>>

(* The end of a stream, c without it: an error, or "ended" by the broker,  *)
(* of which handleEvent makes a closed event.                              *)
Ends(t, c, goal, on) ==
  IF c.listens = "yes"
  THEN /\ Begins(t, IF goal = "ended" THEN "starting" ELSE "arm", goal, "yes", on)
       /\ conn' = Erring(c, "yes")
  ELSE conn' = c /\ UNCHANGED <<job, races, raced>>

(* The stream ends or fails. *)
StreamEnds(t) ==
  /\ Happens("failure")
  /\ conn.stream # "none"
  /\ \E goal \in {"none", "ended"} : Ends(t, [conn EXCEPT !.stream = "none"], goal, "current")
  /\ UNCHANGED wanted

LeakedStreamEnds(t) ==
  /\ \E goal \in {"none", "ended"} :
       \/ conn.leaked > 0 /\ Ends(t, [conn EXCEPT !.leaked = @ - 1], goal, "other")
       \/ conn.leakedUp > 0 /\ Ends(t, [conn EXCEPT !.leakedUp = @ - 1], goal, "other")
  /\ Calm /\ UNCHANGED wanted

(* A stream that was cancelled reports its end. *)
GhostEnds(t) ==
  /\ conn.ghosts > 0
  /\ \E goal \in {"none", "ended"} : Ends(t, [conn EXCEPT !.ghosts = @ - 1], goal, "other")
  /\ Calm /\ UNCHANGED wanted

(* TLS fails on the unknown peer certificate. *)
CertificateUnknown(t) ==
  /\ Happens("certificate")
  /\ conn.stream = "silent"
  /\ Ends(t, [conn EXCEPT !.stream = "none"], "certificate", "current")
  /\ UNCHANGED wanted

-----------------------------------------------------------------------------
(* The connack timers, on the main run loop. *)

ConnackTimeout ==
  /\ Happens("failure")
  /\ conn.connack = "armed"
  /\ conn' = Erring([conn EXCEPT !.connack = "none"], "yes")
  /\ Begins("main", "arm", "none", "yes", "none")
  /\ UNCHANGED wanted

(* A timer that connect has overwritten fires, whatever the session does. *)
StrayTimeout ==
  /\ conn.strays > 0
  /\ conn' = Erring([conn EXCEPT !.strays = @ - 1], "yes")
  /\ Begins("main", "arm", "none", "yes", "none")
  /\ Calm /\ UNCHANGED wanted

(* The same for a session that is not the connection's any more: it closes *)
(* itself, and its events change the connection's state.                   *)
OrphanTimeout ==
  /\ conn.orphans > 0
  /\ conn' = Erring([conn EXCEPT !.orphans = @ - 1], "no")
  /\ Begins("main", "arm", "none", "no", "none")
  /\ Calm /\ UNCHANGED wanted

Network(t) ==
  \/ BrokerAccepts(t) \/ BrokerAcceptsLeaked(t) \/ BrokerRefuses(t) \/ BrokerRefusesEarly(t)
  \/ StreamEnds(t) \/ LeakedStreamEnds(t) \/ GhostEnds(t) \/ CertificateUnknown(t)

Next ==
  \/ \E t \in Threads : Step(t)
  \/ ConnectToLast \/ ReconnectTimerFires \/ Off \/ Reconfigure
  \/ \E t \in Workers : Network(t)
  \/ ConnackTimeout \/ StrayTimeout \/ OrphanTimeout

SafeSpec == Init /\ [][Next]_vars

(* A handler goes on, timers fire, a cancelled stream reports its end, and *)
(* a broker that is asked answers. Failures and commands need not happen.  *)
Spec == /\ SafeSpec
        /\ \A t \in Threads : WF_vars(Step(t))
        /\ WF_vars(ReconnectTimerFires)
        /\ WF_vars(\E t \in Workers : BrokerAccepts(t))
        /\ WF_vars(\E t \in Workers : GhostEnds(t))
        /\ WF_vars(StrayTimeout)
        /\ WF_vars(OrphanTimeout)

-----------------------------------------------------------------------------
TypeOK ==
  /\ conn \in Connections
  /\ job \in [Threads -> Jobs]
  /\ wanted \in {"on", "off"}
  /\ count \in Nat /\ kinds \in SUBSET Disturbances
  /\ races \in Nat /\ raced \in {"no", "yes"}

(* No handler is running, and what overlapping handlers may have left has  *)
(* been made good by a disconnect.                                         *)
Settled == raced = "no" /\ \A t \in Threads : job[t].pc = "idle"

(* No attempt was started while another one was under way. *)
Undisturbed == kinds \cap {"overtake", "early"} = {}

(* Between two handlers there is always something that leads on: a timer,  *)
(* an attempt with its timeout, or the wish to stay off. No sequence of    *)
(* handlers leaves the connection in state_error or state_closing for good,*)
(* from where connectToInternal would refuse every later connectTo.        *)
NeverWedged ==
  Settled /\ "certificate" \notin kinds =>
    /\ conn.state # "closing"
    /\ conn.state = "error" => conn.timer = "armed"
    /\ conn.state = "connecting" => conn.status = "connecting" /\ conn.connack = "armed"
    /\ (conn.state = "starting" /\ wanted = "on") => conn.timer = "armed"

(* Between two handlers state_connected, which lets sendData and the drain *)
(* of the shim queue publish, means a session that is connected over an    *)
(* open stream.                                                            *)
ConnectedMeansConnected ==
  Settled /\ conn.state = "connected" => conn.status = "connected" /\ conn.stream # "none"

(* An attempt that is neither overtaken nor refused early, nor meets       *)
(* another handler, leaves no second stream and no timer behind that could *)
(* end a later connection.                                                 *)
NothingLeftBehind ==
  Undisturbed /\ "certificate" \notin kinds /\ races = 0 =>
    /\ conn.leaked = 0 /\ conn.leakedUp = 0
    /\ conn.strays = 0 /\ conn.orphans = 0 /\ conn.loose = 0

(* After disconnect nothing but a new command connects again. *)
OffMeansOff ==
  Settled /\ Undisturbed /\ "certificate" \notin kinds /\ wanted = "off" =>
     conn.state = "starting" /\ conn.timer = "none" /\ conn.stream = "none"

(* Once the connection is wanted for good, and what races have done is made*)
(* good, it is up in the end, and stays up, whatever streams and timers    *)
(* earlier attempts have left behind.                                      *)
Recovers ==
  <>[](wanted = "on" /\ "certificate" \notin kinds /\ raced = "no")
    => <>[](conn.state = "connected" /\ conn.status = "connected")

(* Connection.m, newMQTTSession: "at forced connect, clean session to avoid*)
(* unsynced status with broker". *)
ForcedConnectIsClean ==
  [][Opens("main") /\ job["main"].goal \in {"same", "changed"} => conn'.sent = "yes"]_vars
=============================================================================
