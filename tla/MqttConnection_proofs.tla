------------------------ MODULE MqttConnection_proofs ------------------------
(***************************************************************************)
(* Proofs about MqttConnection, however often each disturbance happens and *)
(* however many delegate queues are at work: as long as handlers do not    *)
(* overlap, and again after a disconnect that runs alone, the state machine*)
(* is never stuck, says connected only when it is, and stays off; and      *)
(* attempts one at a time leave nothing behind.                            *)
(***************************************************************************)
EXTENDS MqttConnection, TLAPS

PCs == {"idle"} \cup Failing \cup Shutting \cup Accepting \cup Commanding \cup Dialling

Trusted == "certificate" \notin kinds
Plain   == Undisturbed /\ Trusted

(* No stream and no timer of the session. *)
Bare == conn.stream = "none" /\ conn.connack = "none"

(* A transport that reports to the session has a stream to report on. *)
Heard == conn.listens = "yes" => conn.stream # "none"

(* Only without a session does an intended disconnect stay marked. *)
Unmarked == Trusted => conn.intended = "no"

(* Between two handlers. *)
Rest ==
  /\ Heard /\ Unmarked
  /\ Plain /\ (conn.state = "starting" \/ conn.timer = "armed") => Bare
  /\ conn.state = "connected" => conn.status = "connected" /\ conn.listens = "yes"
  /\ Trusted =>
       /\ conn.state # "closing"
       /\ conn.state = "error" => conn.timer = "armed"
       /\ conn.state = "connecting" => conn.status = "connecting" /\ conn.connack = "armed"
       /\ (conn.state = "starting" /\ wanted = "on") => conn.timer = "armed"
  /\ Plain /\ wanted = "off" =>
       conn.state = "starting" /\ conn.timer = "none" /\ conn.stream = "none"

(* In a handler: what the steps so far have established, by where it is.   *)

StageError(j) ==
  /\ j.pc = "arm" => conn.timer = "none"
  /\ j.pc = "error" => conn.timer = "armed"
  /\ (j.goal = "early" \/ j.own = "no") => Heard
  /\ j.goal = "early" => ~Undisturbed
  /\ j.goal \notin {"off", "same", "changed"}
  /\ Unmarked
  /\ Plain => wanted = "on" /\ j.own = "yes"

StageShut(j) ==
  /\ j.pc # "detach" /\ j.own = "yes" /\ j.goal # "ended" => Bare /\ conn.listens = "no"
  /\ j.pc = "rearm" => conn.timer = "none" /\ conn.state = "starting"
  /\ j.goal \in {"off", "same", "changed"} => conn.intended = "yes" /\ j.own = "yes"
  /\ j.goal \notin {"off", "same", "changed"} =>
       /\ j.own = "no" => Heard
       /\ Unmarked
       /\ Plain => wanted = "on" /\ j.own = "yes"

StageAccept(j) ==
  /\ j.own = "yes" /\ conn.listens = "yes" /\ conn.stream # "none" /\ Unmarked
  /\ Plain => wanted = "on"
  /\ j.pc = "connected" => conn.status = "connected"

StageCommand(j) ==
  /\ j.own = "yes"
  /\ j.goal \in {"off", "same", "changed"}
  /\ j.pc = "renew" => j.goal # "off"
  /\ j.pc = "look" => conn.intended = "yes" /\ conn.state = "closing"
  /\ j.pc \in {"stop", "renew"} =>
       /\ Heard
       /\ conn.state \in {"starting", "closing"}
       /\ conn.state = "closing" => ~Trusted
       /\ conn.state = "starting" =>
            conn.intended = "no" /\ conn.timer = "none" /\ Bare /\ conn.listens = "no"

StageDial(j) ==
  /\ Unmarked
  /\ Plain => wanted = "on" /\ conn.timer = "none"
  /\ j.pc = "try" =>
       /\ Heard
       /\ conn.state \in {"starting", "closing"}
       /\ conn.state = "closing" => ~Trusted
  /\ j.pc # "try" => conn.state = "connecting"
  /\ j.pc # "unclean" /\ Plain => Bare
  /\ j.pc \in {"dial", "listen", "open"} => j.own = "yes" /\ conn.status # "none"
  /\ j.pc \in {"listen", "open", "unclean"} => conn.status = "connecting"
  /\ j.pc \in {"open", "unclean"} => conn.listens = "yes"
  /\ j.pc = "unclean" => conn.stream # "none" /\ conn.connack = "armed"

Stage(j) ==
  /\ j.pc \in Failing => StageError(j)
  /\ j.pc \in Shutting => StageShut(j)
  /\ j.pc \in Accepting => StageAccept(j)
  /\ j.pc \in Commanding => StageCommand(j)
  /\ j.pc \in Dialling => StageDial(j)
  /\ j.pc # "idle" /\ j.goal = "off" => wanted = "off"
  /\ j.pc # "idle" /\ j.goal \in {"same", "changed"} => wanted = "on"

(* Nothing is left of earlier attempts that could start a handler. *)
Clear ==
  /\ conn.loose = 0
  /\ Plain => conn.strays = 0 /\ conn.orphans = 0
  /\ Plain /\ races = 0 => conn.leaked = 0 /\ conn.leakedUp = 0

Solo == \A t, u \in Threads : t # u => job[t].pc = "idle" \/ job[u].pc = "idle"

Serial ==
  raced = "no" =>
    /\ Clear /\ Solo
    /\ \A t \in Threads : Stage(job[t])
    /\ (\A t \in Threads : job[t].pc = "idle") => Rest

(* A handler that works on no session, or has not looked for it yet. *)
Sessionless(j) ==
  j.own = "yes" => j.pc \in {"idle", "closing", "look", "stop", "renew", "try"}

(* Whatever overlaps: without a session there is nothing of one, and nobody*)
(* who works on one.                                                       *)
NoSession ==
  conn.status = "none" =>
    /\ ~Trusted
    /\ conn.listens = "no" /\ Bare /\ conn.strays = 0
    /\ \A t \in Threads : Sessionless(job[t])

Histories ==
  /\ raced = "yes" => races > 0
  /\ \A t \in Threads : job[t].goal = "certificate" => ~Trusted

IInv == TypeOK /\ Histories /\ NoSession /\ Serial

-----------------------------------------------------------------------------
(* What the steps of a thread do to the jobs.                              *)

LEMMA GoesOnJobs ==
  ASSUME TypeOK, NEW t \in Threads, NEW pc \in PCs, GoesOn(t, pc)
  PROVE  /\ job' \in [Threads -> Jobs]
         /\ job'[t] = [job[t] EXCEPT !.pc = pc]
         /\ \A u \in Threads \ {t} : job'[u] = job[u]
  BY DEF TypeOK, GoesOn, Jobs, PCs

LEMMA ReturnsJobs ==
  ASSUME TypeOK, NEW t \in Threads, Returns(t)
  PROVE  /\ job' \in [Threads -> Jobs]
         /\ job'[t] = Idle
         /\ \A u \in Threads \ {t} : job'[u] = job[u]
  BY DEF TypeOK, Returns, Jobs, Idle

LEMMA ForgottenJobs ==
  ASSUME TypeOK
  PROVE  /\ Forgotten(job) \in [Threads -> Jobs]
         /\ \A u \in Threads : /\ Forgotten(job)[u].pc = job[u].pc
                               /\ Forgotten(job)[u].goal = job[u].goal
                               /\ Forgotten(job)[u].own = job[u].own
<1>1. ASSUME NEW u \in Threads
      PROVE  /\ Forgotten(job)[u] \in Jobs
             /\ Forgotten(job)[u].pc = job[u].pc
             /\ Forgotten(job)[u].goal = job[u].goal
             /\ Forgotten(job)[u].own = job[u].own
  <2>1. job[u] \in Jobs
    BY DEF TypeOK
  <2>2. Forgotten(job)[u] =
          [job[u] EXCEPT !.on = IF job[u].on = "current" THEN "other" ELSE job[u].on]
    BY <2>1 DEF Forgotten, Jobs
  <2>3. CASE job[u].on = "current"
    BY <2>1, <2>2, <2>3 DEF Jobs
  <2>4. CASE job[u].on # "current"
    BY <2>1, <2>2, <2>4 DEF Jobs
  <2> QED BY <2>3, <2>4
<1> QED BY <1>1 DEF Forgotten

LEMMA DisownedJobs ==
  ASSUME TypeOK
  PROVE  /\ Disowned(job) \in [Threads -> Jobs]
         /\ \A u \in Threads : /\ Disowned(job)[u].pc = job[u].pc
                               /\ Disowned(job)[u].goal = job[u].goal
                               /\ job[u].pc # "idle" => Disowned(job)[u].own = "no"
<1>1. ASSUME NEW u \in Threads
      PROVE  /\ Disowned(job)[u] \in Jobs
             /\ Disowned(job)[u].pc = job[u].pc
             /\ Disowned(job)[u].goal = job[u].goal
             /\ job[u].pc # "idle" => Disowned(job)[u].own = "no"
  <2>1. CASE job[u].pc = "idle"
    BY <2>1 DEF TypeOK, Disowned
  <2>2. CASE job[u].pc # "idle"
    <3>1. Disowned(job)[u] = [Forgotten(job)[u] EXCEPT !.own = "no"]
      BY <2>2 DEF Disowned
    <3>2. Forgotten(job)[u] \in Jobs
      BY ForgottenJobs
    <3> QED BY <3>1, <3>2, ForgottenJobs DEF Jobs
  <2> QED BY <2>1, <2>2
<1> QED BY <1>1 DEF Disowned

-----------------------------------------------------------------------------
(* What they do to the connection, as facts about its fields.              *)

(* The fields no handler but connect and its streams changes. *)
SameTransport(c, d) ==
  /\ d.status = c.status /\ d.listens = c.listens /\ d.stream = c.stream
  /\ d.connack = c.connack /\ d.strays = c.strays /\ d.orphans = c.orphans
  /\ d.leaked = c.leaked /\ d.leakedUp = c.leakedUp

LEMMA ArmFields ==
  ASSUME NEW c \in Connections
  PROVE  LET d == Arm(c)
         IN  /\ d \in Connections
             /\ d.state = c.state /\ d.timer = "armed" /\ d.intended = c.intended
             /\ c.timer = "none" => d.loose = c.loose
             /\ SameTransport(c, d)
<1> DEFINE n == IF c.timer = "armed" THEN c.loose + 1 ELSE c.loose
<1>1. n \in Nat /\ (c.timer = "none" => n = c.loose)
  BY DEF Connections
<1>2. Arm(c) = [c EXCEPT !.timer = "armed", !.loose = n]
  BY DEF Arm
<1> HIDE DEF n
<1> QED BY <1>1, <1>2 DEF Connections, SameTransport

LEMMA ResumedFields ==
  ASSUME NEW c \in Connections
  PROVE  LET d == Resumed(c)
         IN  /\ d \in Connections
             /\ d.state = c.state /\ d.intended = "no"
             /\ c.intended = "yes" => d.timer = c.timer
             /\ c.intended = "no" => d.timer = "armed"
             /\ c.timer = "none" => d.loose = c.loose
             /\ SameTransport(c, d)
<1>1. CASE c.intended = "yes"
  BY <1>1 DEF Resumed, Connections, SameTransport
<1>2. CASE c.intended # "yes"
  <2>1. Resumed(c) = Arm(c) /\ c.intended = "no"
    BY <1>2 DEF Resumed, Connections
  <2> QED BY <1>2, <2>1, ArmFields
<1> QED BY <1>1, <1>2

LEMMA ErringFields ==
  ASSUME NEW c \in Connections, NEW own \in {"no", "yes"}
  PROVE  LET d == Erring(c, own)
         IN  /\ d \in Connections
             /\ d.state = c.state /\ d.timer = "none" /\ d.intended = c.intended
             /\ d.loose = c.loose /\ d.listens = c.listens /\ d.stream = c.stream
             /\ d.connack = c.connack /\ d.strays = c.strays /\ d.orphans = c.orphans
             /\ d.leaked = c.leaked /\ d.leakedUp = c.leakedUp
             /\ d.status = IF own = "yes" THEN "error" ELSE c.status
<1>1. CASE own = "yes"
  BY <1>1 DEF Erring, Connections, Statuses
<1>2. CASE own # "yes"
  BY <1>2 DEF Erring, Connections, Statuses
<1> QED BY <1>1, <1>2

LEMMA NewSessionFields ==
  ASSUME NEW c \in Connections, NEW st \in Statuses, NEW force \in {"no", "yes"}
  PROVE  LET d == NewSession(c, st, force)
         IN  /\ d \in Connections
             /\ d.state = c.state /\ d.timer = c.timer /\ d.intended = c.intended
             /\ d.loose = c.loose /\ d.status = st
             /\ d.listens = "no" /\ d.stream = "none" /\ d.connack = "none"
             /\ d.strays = 0 /\ d.leaked = 0 /\ d.leakedUp = 0
             /\ c.strays = 0 /\ c.connack = "none" => d.orphans = c.orphans
<1> DEFINE n == c.orphans + c.strays + (IF c.connack = "armed" THEN 1 ELSE 0)
<1>1. n \in Nat /\ (c.strays = 0 /\ c.connack = "none" => n = c.orphans)
  BY DEF Connections
<1>2. NewSession(c, st, force) =
        [c EXCEPT !.status = st, !.listens = "no", !.stream = "none", !.connack = "none",
                  !.orphans = n, !.strays = 0, !.leaked = 0, !.leakedUp = 0, !.ghosts = 0,
                  !.clean = force]
  BY DEF NewSession
<1> HIDE DEF n
<1> DEFINE d == [state |-> c.state, timer |-> c.timer, loose |-> c.loose,
                 intended |-> c.intended, status |-> st, listens |-> "no",
                 stream |-> "none", connack |-> "none", strays |-> 0, orphans |-> n,
                 leaked |-> 0, leakedUp |-> 0, ghosts |-> 0, clean |-> force, sent |-> c.sent]
<1>3. d \in Connections
  BY <1>1 DEF Connections
<1>4. NewSession(c, st, force) = d
  BY <1>2 DEF Connections
<1> QED BY <1>1, <1>3, <1>4

LEMMA DetachedFields ==
  ASSUME NEW c \in Connections
  PROVE  LET d == Detached(c)
         IN  /\ d \in Connections
             /\ d.state = c.state /\ d.timer = c.timer /\ d.intended = c.intended
             /\ d.loose = c.loose /\ d.status = c.status
             /\ d.listens = "no" /\ d.stream = "none" /\ d.connack = "none"
             /\ d.strays = c.strays /\ d.orphans = c.orphans
             /\ d.leaked = c.leaked /\ d.leakedUp = c.leakedUp
<1> DEFINE n == IF c.stream = "none" THEN c.ghosts ELSE c.ghosts + 1
<1>1. n \in Nat
  BY DEF Connections
<1>2. Detached(c) = [c EXCEPT !.connack = "none", !.listens = "no", !.stream = "none",
                              !.ghosts = n]
  BY DEF Detached
<1> HIDE DEF n
<1> QED BY <1>1, <1>2 DEF Connections

LEMMA OpenedFields ==
  ASSUME NEW c \in Connections
  PROVE  LET d == Opened(c)
         IN  /\ d \in Connections
             /\ d.state = c.state /\ d.timer = c.timer /\ d.intended = c.intended
             /\ d.loose = c.loose /\ d.status = c.status /\ d.listens = c.listens
             /\ d.stream = "silent" /\ d.orphans = c.orphans
             /\ c.listens = "yes" => d.connack = "armed"
             /\ c.connack = "none" => d.strays = c.strays
             /\ c.stream = "none" => d.leaked = c.leaked /\ d.leakedUp = c.leakedUp
<1> DEFINE l == IF c.stream = "silent" THEN c.leaked + 1 ELSE c.leaked
           u == IF c.stream = "up" THEN c.leakedUp + 1 ELSE c.leakedUp
           k == IF c.listens = "yes" THEN "armed" ELSE c.connack
           s == IF c.listens = "yes" /\ c.connack = "armed" THEN c.strays + 1 ELSE c.strays
           z == IF c.listens = "yes" THEN c.clean ELSE c.sent
<1>1. /\ l \in Nat /\ u \in Nat /\ s \in Nat /\ k \in {"none", "armed"}
      /\ z \in {"no", "yes"}
  BY DEF Connections
<1>2. /\ c.listens = "yes" => k = "armed"
      /\ c.connack = "none" => s = c.strays
      /\ c.stream = "none" => l = c.leaked /\ u = c.leakedUp
  OBVIOUS
<1>3. Opened(c) = [c EXCEPT !.stream = "silent", !.leaked = l, !.leakedUp = u,
                            !.connack = k, !.strays = s, !.sent = z]
  BY DEF Opened
<1> HIDE DEF l, u, k, s, z
<1>4. LET d == Opened(c)
      IN  /\ d \in Connections
          /\ d.state = c.state /\ d.timer = c.timer /\ d.intended = c.intended
          /\ d.loose = c.loose /\ d.status = c.status /\ d.listens = c.listens
          /\ d.stream = "silent" /\ d.orphans = c.orphans
          /\ d.connack = k /\ d.strays = s /\ d.leaked = l /\ d.leakedUp = u
  BY <1>1, <1>3 DEF Connections
<1> QED BY <1>2, <1>4

-----------------------------------------------------------------------------
(* Nothing but losing the session can break NoSession, and that ends all   *)
(* work on it.                                                             *)
LEMMA NoSessionKept ==
  ASSUME NoSession, NEW t \in Threads, kinds \subseteq kinds',
         conn'.status = "none" => /\ conn.status = "none" \/ ~Trusted
                                  /\ conn'.listens = "no" /\ conn'.strays = 0
                                  /\ conn'.stream = "none" /\ conn'.connack = "none"
                                  /\ Sessionless(job[t])'
                                  /\ \A u \in Threads \ {t} :
                                       Sessionless(job[u]) => Sessionless(job[u])'
                                  /\ conn.status = "none" \/ \A u \in Threads \ {t} :
                                       Sessionless(job[u])'
  PROVE  NoSession'
<1> SUFFICES ASSUME conn'.status = "none"
             PROVE  /\ ~Trusted' /\ conn'.listens = "no" /\ Bare' /\ conn'.strays = 0
                    /\ \A u \in Threads : Sessionless(job[u])'
  BY DEF NoSession
<1>1. ~Trusted'
  BY DEF NoSession, Trusted
<1>2. \A u \in Threads \ {t} : Sessionless(job[u])'
  BY DEF NoSession
<1> QED BY <1>1, <1>2 DEF Bare

-----------------------------------------------------------------------------
(* Three kinds of step: a handler goes on, a handler starts, or the network*)
(* changes something nobody is told of.                                    *)

LEMMA HandlerGoesOn ==
  ASSUME IInv, NEW t \in Threads, job[t].pc # "idle",
         UNCHANGED <<wanted, count, kinds, races, raced>>,
         conn' \in Connections, job' \in [Threads -> Jobs],
         \A u \in Threads \ {t} : job'[u].pc = job[u].pc /\ job'[u].goal = job[u].goal,
         job'[t].goal \in {job[t].goal, "none"},
         NoSession',
         (raced = "no" /\ Stage(job[t]) /\ Clear) =>
            /\ Clear' /\ Stage(job[t])'
            /\ job'[t].pc = "idle" => Rest'
  PROVE  IInv'
<1>1. TypeOK' /\ Histories'
  BY DEF IInv, TypeOK, Histories, Trusted
<1>2. ASSUME raced = "no"
      PROVE  /\ Clear' /\ Solo'
             /\ \A u \in Threads : Stage(job[u])'
             /\ (\A u \in Threads : job'[u].pc = "idle") => Rest'
  <2>1. Clear /\ Solo /\ Stage(job[t])
    BY <1>2 DEF IInv, Serial
  <2>2. \A u \in Threads \ {t} : job'[u].pc = "idle"
    BY <2>1 DEF Solo
  <2>3. \A u \in Threads \ {t} : Stage(job[u])'
    BY <2>2 DEF Stage, Failing, Shutting, Accepting, Commanding, Dialling
  <2>4. Solo'
    BY <2>2 DEF Solo
  <2> QED BY <1>2, <2>1, <2>3, <2>4
<1>3. Serial'
  BY <1>2 DEF Serial
<1> QED BY <1>1, <1>3 DEF IInv

LEMMA HandlerStarts ==
  ASSUME IInv, NEW t \in Threads, NEW pc \in PCs,
         NEW goal \in {"none", "early", "certificate", "ended"},
         NEW own \in {"no", "yes"}, NEW on \in {"none", "current", "other"},
         pc # "idle", Begins(t, pc, goal, own, on),
         conn' \in Connections, wanted' \in {"on", "off"},
         count' \in Nat, kinds \subseteq kinds', kinds' \in SUBSET Disturbances,
         goal = "certificate" => ~Trusted',
         NoSession',
         (raced = "no" /\ Rest /\ Clear) => Clear' /\ Stage(job[t])'
  PROVE  IInv'
<1>1. /\ job[t].pc = "idle"
      /\ job' = [job EXCEPT ![t] = [pc |-> pc, goal |-> goal, own |-> own, on |-> on]]
      /\ Overlaps(t)
  BY DEF Begins, Takes
<1>2. /\ job' \in [Threads -> Jobs]
      /\ job'[t] = [pc |-> pc, goal |-> goal, own |-> own, on |-> on]
      /\ \A u \in Threads \ {t} : job'[u] = job[u]
  BY <1>1 DEF IInv, TypeOK, Jobs, PCs
<1>3. /\ races' \in Nat /\ raced' \in {"no", "yes"}
      /\ raced' = "yes" => races' > 0
      /\ raced' = "no" => raced = "no" /\ Alone(t)
  <2>1. CASE Alone(t)
    BY <1>1, <2>1 DEF Overlaps, IInv, TypeOK, Histories
  <2>2. CASE ~Alone(t)
    BY <1>1, <2>2 DEF Overlaps, IInv, TypeOK
  <2> QED BY <2>1, <2>2
<1>4. TypeOK'
  BY <1>2, <1>3 DEF TypeOK
<1>5. Histories'
  BY <1>2, <1>3 DEF IInv, Histories, Trusted
<1>6. ASSUME raced' = "no"
      PROVE  /\ Clear' /\ Solo'
             /\ \A u \in Threads : Stage(job[u])'
             /\ ~\A u \in Threads : job'[u].pc = "idle"
  <2>1. raced = "no" /\ \A u \in Threads : job[u].pc = "idle"
    BY <1>1, <1>3, <1>6 DEF Alone
  <2>2. Rest /\ Clear
    BY <2>1 DEF IInv, Serial
  <2>3. \A u \in Threads \ {t} : job'[u].pc = "idle"
    BY <1>2, <2>1
  <2>4. \A u \in Threads \ {t} : Stage(job[u])'
    BY <2>3 DEF Stage, Failing, Shutting, Accepting, Commanding, Dialling
  <2>5. job'[t].pc # "idle"
    BY <1>2
  <2> QED BY <2>1, <2>2, <2>3, <2>4, <2>5 DEF Solo
<1>7. Serial'
  BY <1>6 DEF Serial
<1> QED BY <1>4, <1>5, <1>7 DEF IInv

(* A disconnect needs nothing but that no forgotten timer is left. *)
LEMMA DisconnectStarts ==
  ASSUME IInv, NEW goal \in {"off", "same", "changed"}, BeginsDisconnect(goal),
         UNCHANGED conn, wanted' = IF goal = "off" THEN "off" ELSE "on",
         count' \in Nat, kinds \subseteq kinds', kinds' \in SUBSET Disturbances
  PROVE  IInv'
<1> DEFINE t == "main"
<1>0. t \in Threads
  BY DEF Threads
<1>1. /\ job[t].pc = "idle"
      /\ job' = [job EXCEPT ![t] = [pc |-> "closing", goal |-> goal, own |-> "yes",
                                   on |-> "none"]]
  BY DEF BeginsDisconnect, Takes
<1>2. /\ job' \in [Threads -> Jobs]
      /\ job'[t] = [pc |-> "closing", goal |-> goal, own |-> "yes", on |-> "none"]
      /\ \A u \in Threads \ {t} : job'[u] = job[u]
  BY <1>0, <1>1 DEF IInv, TypeOK, Jobs, Commanding
<1>3. /\ races' \in Nat /\ raced' \in {"no", "yes"}
      /\ raced' = "yes" => races' > 0
      /\ raced' = "no" => Alone(t) /\ races' = races
      /\ (raced' = "no" /\ raced # "no") =>
           conn.loose = 0 /\ conn.strays = 0 /\ conn.orphans = 0
  <2>1. CASE Alone(t) /\ conn.loose = 0 /\ conn.strays = 0 /\ conn.orphans = 0
    BY <2>1 DEF BeginsDisconnect, IInv, TypeOK, Histories
  <2>2. CASE ~(Alone(t) /\ conn.loose = 0 /\ conn.strays = 0 /\ conn.orphans = 0)
    <3>1. Overlaps(t)
      BY <2>2 DEF BeginsDisconnect
    <3>2. CASE Alone(t)
      BY <3>1, <3>2 DEF Overlaps, IInv, TypeOK, Histories
    <3>3. CASE ~Alone(t)
      BY <3>1, <3>3 DEF Overlaps, IInv, TypeOK
    <3> QED BY <3>2, <3>3
  <2> QED BY <2>1, <2>2
<1>4. TypeOK'
  BY <1>2, <1>3 DEF TypeOK, IInv
<1>5. Histories'
  BY <1>2, <1>3 DEF IInv, Histories, Trusted
<1>6. NoSession'
  <2>1. Sessionless(job[t])'
    BY <1>2 DEF Sessionless
  <2>2. \A u \in Threads \ {t} : Sessionless(job[u]) => Sessionless(job[u])'
    BY <1>2 DEF Sessionless
  <2> QED BY <1>0, <2>1, <2>2, NoSessionKept DEF IInv, NoSession, Bare
<1>7. ASSUME raced' = "no"
      PROVE  /\ Clear' /\ Solo'
             /\ \A u \in Threads : Stage(job[u])'
             /\ ~\A u \in Threads : job'[u].pc = "idle"
  <2>1. \A u \in Threads \ {t} : job'[u].pc = "idle"
    BY <1>2, <1>3, <1>7 DEF Alone
  <2>2. Clear'
    <3>1. CASE raced = "no"
      <4>1. Clear /\ races' = races
        BY <1>3, <1>7, <3>1 DEF IInv, Serial
      <4> QED BY <4>1 DEF Clear, Plain, Trusted, Undisturbed
    <3>2. CASE raced # "no"
      <4>1. /\ races' > 0 /\ races' \in Nat
            /\ conn.loose = 0 /\ conn.strays = 0 /\ conn.orphans = 0
        BY <1>3, <1>7, <3>2 DEF IInv, TypeOK, Histories
      <4> QED BY <4>1 DEF Clear
    <3> QED BY <3>1, <3>2
  <2>3. \A u \in Threads \ {t} : Stage(job[u])'
    BY <2>1 DEF Stage, Failing, Shutting, Accepting, Commanding, Dialling
  <2>4. Stage(job[t])'
    BY <1>2 DEF Stage, StageCommand, Failing, Shutting, Accepting, Commanding, Dialling
  <2> QED BY <1>0, <1>2, <2>1, <2>2, <2>3, <2>4 DEF Solo
<1>8. Serial'
  BY <1>7 DEF Serial
<1> QED BY <1>4, <1>5, <1>6, <1>8 DEF IInv
-----------------------------------------------------------------------------
(* The steps of an error and of closeInternal.                             *)

LEMMA AtFacts ==
  ASSUME IInv, NEW t \in Threads, NEW pc, At(t, pc)
  PROVE  /\ TypeOK /\ conn \in Connections /\ job[t] \in Jobs /\ job[t].pc = pc
         /\ UNCHANGED <<wanted, count, kinds, races, raced>>
         /\ NoSession /\ Histories
  BY DEF IInv, TypeOK, At, Calm

LEMMA ArmsTimerInv ==
  ASSUME IInv, NEW t \in Threads, ArmsTimer(t)
  PROVE  IInv'
<1>0. /\ TypeOK /\ conn \in Connections /\ job[t] \in Jobs /\ job[t].pc = "arm"
      /\ UNCHANGED <<wanted, count, kinds, races, raced>>
      /\ NoSession /\ Histories
  BY AtFacts DEF ArmsTimer
<1>1. CASE job[t].goal = "certificate"
  <2> DEFINE c == NewSession(conn, "none", "no")
  <2>1. /\ conn' = Arm(c)
        /\ job' = [Disowned(job) EXCEPT ![t].pc = "error"]
    BY <1>1 DEF ArmsTimer
  <2>2. /\ c \in Connections
        /\ c.state = conn.state /\ c.timer = conn.timer /\ c.intended = conn.intended
        /\ c.loose = conn.loose /\ c.status = "none"
        /\ c.listens = "no" /\ c.stream = "none" /\ c.connack = "none"
        /\ c.strays = 0 /\ c.leaked = 0 /\ c.leakedUp = 0
    BY <1>0, NewSessionFields DEF Statuses
  <2> HIDE DEF c
  <2>3. /\ conn' \in Connections
        /\ conn'.state = conn.state /\ conn'.timer = "armed"
        /\ conn'.intended = conn.intended
        /\ conn.timer = "none" => conn'.loose = conn.loose
        /\ conn'.status = "none"
        /\ conn'.listens = "no" /\ conn'.stream = "none" /\ conn'.connack = "none"
        /\ conn'.strays = 0 /\ conn'.leaked = 0 /\ conn'.leakedUp = 0
    BY <2>1, <2>2, ArmFields DEF SameTransport
  <2>4. /\ job' \in [Threads -> Jobs]
        /\ job'[t].pc = "error" /\ job'[t].goal = job[t].goal /\ job'[t].own = "no"
        /\ \A u \in Threads \ {t} : job'[u].pc = job[u].pc /\ job'[u].goal = job[u].goal
        /\ \A u \in Threads \ {t} : job[u].pc # "idle" => job'[u].own = "no"
    BY <1>0, <2>1, DisownedJobs DEF Jobs, Failing
  <2>5. ~Trusted
    BY <1>0, <1>1 DEF Histories
  <2>6. NoSession'
    <3>1. \A u \in Threads : Sessionless(job[u])'
      BY <1>0, <2>4 DEF Sessionless
    <3> QED BY <1>0, <2>3, <2>5, <3>1, NoSessionKept
  <2>7. ASSUME raced = "no", Stage(job[t]), Clear
        PROVE  Clear' /\ Stage(job[t])'
    <3>1. Clear'
      BY <1>0, <2>3, <2>5, <2>7
      DEF Clear, Plain, Trusted, Undisturbed, Stage, StageError, Failing
    <3>2. Stage(job[t])'
      BY <1>0, <1>1, <2>3, <2>4, <2>5
      DEF Stage, StageError, Failing, Shutting, Accepting, Commanding, Dialling,
          Heard, Unmarked, Plain, Trusted
    <3> QED BY <3>1, <3>2
  <2> QED BY <1>0, <2>3, <2>4, <2>6, <2>7, HandlerGoesOn
<1>2. CASE job[t].goal # "certificate"
  <2>1. conn' = Arm(conn) /\ GoesOn(t, "error")
    BY <1>2 DEF ArmsTimer
  <2>2. /\ conn' \in Connections
        /\ conn'.state = conn.state /\ conn'.timer = "armed"
        /\ conn'.intended = conn.intended
        /\ conn.timer = "none" => conn'.loose = conn.loose
        /\ SameTransport(conn, conn')
    BY <1>0, <2>1, ArmFields
  <2>3. /\ job' \in [Threads -> Jobs]
        /\ job'[t] = [job[t] EXCEPT !.pc = "error"]
        /\ \A u \in Threads \ {t} : job'[u] = job[u]
    BY <1>0, <2>1, GoesOnJobs DEF PCs, Failing
  <2>4. job'[t].pc = "error" /\ job'[t].goal = job[t].goal /\ job'[t].own = job[t].own
    BY <1>0, <2>3 DEF Jobs
  <2>5. NoSession'
    <3>1. conn.status = "none" => Sessionless(job[t])'
      BY <1>0, <2>4 DEF NoSession, Sessionless
    <3>2. \A u \in Threads \ {t} : Sessionless(job[u]) => Sessionless(job[u])'
      BY <2>3 DEF Sessionless
    <3> QED BY <1>0, <2>2, <3>1, <3>2, NoSessionKept DEF SameTransport, NoSession, Bare
  <2>6. ASSUME raced = "no", Stage(job[t]), Clear
        PROVE  Clear' /\ Stage(job[t])'
    <3>1. StageError(job[t])
      BY <1>0, <2>6 DEF Stage, Failing
    <3>2. Clear'
      BY <1>0, <2>2, <2>6, <3>1
      DEF Clear, Plain, Trusted, Undisturbed, StageError, SameTransport
    <3>3. StageError(job[t])'
      BY <1>0, <2>2, <2>4, <3>1
      DEF StageError, SameTransport, Heard, Unmarked, Plain, Trusted, Undisturbed
    <3>4. Stage(job[t])'
      BY <1>0, <2>4, <2>6, <3>3
      DEF Stage, Failing, Shutting, Accepting, Commanding, Dialling
    <3> QED BY <3>2, <3>4
  <2> QED BY <1>0, <2>2, <2>3, <2>4, <2>5, <2>6, HandlerGoesOn
<1> QED BY <1>1, <1>2

LEMMA ShowsErrorInv ==
  ASSUME IInv, NEW t \in Threads, ShowsError(t)
  PROVE  IInv'
<1>0. /\ TypeOK /\ conn \in Connections /\ job[t] \in Jobs /\ job[t].pc = "error"
      /\ UNCHANGED <<wanted, count, kinds, races, raced>>
      /\ NoSession /\ Histories
  BY AtFacts DEF ShowsError
<1>1. /\ conn' \in Connections /\ SameTransport(conn, conn')
      /\ conn'.state = "error" /\ conn'.timer = conn.timer
      /\ conn'.intended = conn.intended /\ conn'.loose = conn.loose
  BY <1>0 DEF ShowsError, Connections, States, SameTransport
<1>2. ASSUME raced = "no", Stage(job[t]), Clear
      PROVE  Clear' /\ StageError(job[t])
  BY <1>0, <1>1, <1>2
  DEF Clear, Plain, Trusted, Undisturbed, SameTransport, Stage, Failing
<1>3. CASE job[t].goal = "early"
  <2>1. /\ job' \in [Threads -> Jobs] /\ job'[t] = Idle
        /\ \A u \in Threads \ {t} : job'[u] = job[u]
    BY <1>0, <1>3, ReturnsJobs DEF ShowsError
  <2>2. job'[t].pc = "idle" /\ job'[t].goal = "none"
    BY <2>1 DEF Idle
  <2>3. NoSession'
    <3>1. conn.status = "none" => Sessionless(job[t])'
      BY <1>0, <2>2 DEF NoSession, Sessionless
    <3>2. \A u \in Threads \ {t} : Sessionless(job[u]) => Sessionless(job[u])'
      BY <2>1 DEF Sessionless
    <3> QED BY <1>0, <1>1, <3>1, <3>2, NoSessionKept DEF SameTransport, NoSession, Bare
  <2>4. ASSUME raced = "no", Stage(job[t]), Clear
        PROVE  Stage(job[t])' /\ Rest'
    <3>1. Rest'
      BY <1>0, <1>1, <1>2, <1>3, <2>4
      DEF Rest, StageError, SameTransport, Heard, Unmarked, Plain, Trusted, Undisturbed
    <3>2. Stage(job[t])'
      BY <2>2 DEF Stage, Failing, Shutting, Accepting, Commanding, Dialling
    <3> QED BY <3>1, <3>2
  <2> QED BY <1>0, <1>1, <1>2, <2>1, <2>2, <2>3, <2>4, HandlerGoesOn
<1>4. CASE job[t].goal # "early"
  <2>1. /\ job' \in [Threads -> Jobs] /\ job'[t] = [job[t] EXCEPT !.pc = "detach"]
        /\ \A u \in Threads \ {t} : job'[u] = job[u]
    BY <1>0, <1>4, GoesOnJobs DEF ShowsError, PCs, Shutting
  <2>2. job'[t].pc = "detach" /\ job'[t].goal = job[t].goal /\ job'[t].own = job[t].own
    BY <1>0, <2>1 DEF Jobs
  <2>3. NoSession'
    <3>1. conn.status = "none" => Sessionless(job[t])'
      BY <1>0, <2>2 DEF NoSession, Sessionless
    <3>2. \A u \in Threads \ {t} : Sessionless(job[u]) => Sessionless(job[u])'
      BY <2>1 DEF Sessionless
    <3> QED BY <1>0, <1>1, <3>1, <3>2, NoSessionKept DEF SameTransport, NoSession, Bare
  <2>4. ASSUME raced = "no", Stage(job[t]), Clear
        PROVE  Stage(job[t])'
    <3>1. StageShut(job[t])'
      BY <1>0, <1>1, <1>2, <2>2, <2>4
      DEF StageError, StageShut, SameTransport, Heard, Unmarked, Plain, Trusted, Undisturbed
    <3>2. Stage(job[t])'
      BY <1>0, <2>2, <2>4, <3>1
      DEF Stage, Failing, Shutting, Accepting, Commanding, Dialling
    <3> QED BY <3>2
  <2> QED BY <1>0, <1>1, <1>2, <2>1, <2>2, <2>3, <2>4, HandlerGoesOn
<1> QED BY <1>3, <1>4

(* A step after which the thread goes on, or is done, and which leaves the *)
(* other threads and a missing session alone.                              *)
LEMMA StepInv ==
  ASSUME IInv, NEW t \in Threads, NEW pc \in PCs \ {"idle"}, At(t, pc),
         NEW next \in PCs, GoesOn(t, next) \/ (next = "idle" /\ Returns(t)),
         conn' \in Connections,
         conn'.status = "none" =>
            /\ conn.status = "none" /\ conn'.listens = conn.listens
            /\ conn'.strays = conn.strays /\ conn'.stream = conn.stream
            /\ conn'.connack = conn.connack,
         \/ pc \notin {"closing", "look", "stop", "renew", "try"}
         \/ next \in {"idle", "closing", "look", "stop", "renew", "try"}
         \/ conn'.status # "none",
         (raced = "no" /\ Stage(job[t]) /\ Clear /\ job'[t].pc = next
            /\ (next # "idle" => job'[t].goal = job[t].goal /\ job'[t].own = job[t].own)) =>
            /\ Clear' /\ (next # "idle" => Stage(job[t])')
            /\ next = "idle" => Rest'
  PROVE  IInv'
<1>0. /\ TypeOK /\ conn \in Connections /\ job[t] \in Jobs /\ job[t].pc = pc
      /\ UNCHANGED <<wanted, count, kinds, races, raced>>
      /\ NoSession /\ Histories
  BY AtFacts
<1>1. /\ job' \in [Threads -> Jobs] /\ job'[t].pc = next
      /\ next # "idle" => job'[t].goal = job[t].goal /\ job'[t].own = job[t].own
      /\ job'[t].goal \in {job[t].goal, "none"}
      /\ \A u \in Threads \ {t} : job'[u] = job[u]
  <2>1. CASE GoesOn(t, next)
    <3>1. /\ job' \in [Threads -> Jobs] /\ job'[t] = [job[t] EXCEPT !.pc = next]
          /\ \A u \in Threads \ {t} : job'[u] = job[u]
      BY <1>0, <2>1, GoesOnJobs
    <3> QED BY <1>0, <3>1 DEF Jobs
  <2>2. CASE next = "idle" /\ Returns(t)
    BY <1>0, <2>2, ReturnsJobs DEF Idle
  <2> QED BY <2>1, <2>2
<1>2. NoSession'
  <2>1. conn'.status = "none" => Sessionless(job[t])'
    BY <1>0, <1>1 DEF NoSession, Sessionless
  <2>2. \A u \in Threads \ {t} : Sessionless(job[u]) => Sessionless(job[u])'
    BY <1>1 DEF Sessionless
  <2> QED BY <1>0, <2>1, <2>2, NoSessionKept DEF NoSession, Bare
<1>3. next = "idle" => Stage(job[t])'
  BY <1>1 DEF Stage, Failing, Shutting, Accepting, Commanding, Dialling
<1> QED BY <1>0, <1>1, <1>2, <1>3, HandlerGoesOn

LEMMA ShutsInv ==
  ASSUME IInv, NEW t \in Threads, Shuts(t)
  PROVE  IInv'
<1>0. /\ conn \in Connections /\ job[t] \in Jobs /\ job[t].pc = "shut"
      /\ UNCHANGED <<wanted, count, kinds, races, raced>> /\ NoSession
      /\ At(t, "shut") /\ GoesOn(t, "starting")
  BY AtFacts DEF Shuts
<1>1. /\ conn' \in Connections
      /\ conn'.status = IF job[t].own = "yes" THEN "closed" ELSE conn.status
      /\ conn'.state = conn.state /\ conn'.timer = conn.timer /\ conn'.loose = conn.loose
      /\ conn'.intended = conn.intended /\ conn'.listens = conn.listens
      /\ conn'.stream = conn.stream /\ conn'.connack = conn.connack
      /\ conn'.strays = conn.strays /\ conn'.orphans = conn.orphans
      /\ conn'.leaked = conn.leaked /\ conn'.leakedUp = conn.leakedUp
  <2>1. CASE job[t].own = "yes"
    BY <1>0, <2>1 DEF Shuts, Connections, Statuses
  <2>2. CASE job[t].own # "yes"
    BY <1>0, <2>2 DEF Shuts
  <2> QED BY <2>1, <2>2
<1>2. conn'.status = "none" => conn.status = "none"
  BY <1>1
<1>3. ASSUME raced = "no", Stage(job[t]), Clear, job'[t].pc = "starting",
             job'[t].goal = job[t].goal, job'[t].own = job[t].own
      PROVE  Clear' /\ Stage(job[t])'
  <2>1. StageShut(job[t])
    BY <1>0, <1>3 DEF Stage, Shutting
  <2>2. Clear'
    BY <1>0, <1>1, <1>3 DEF Clear, Plain, Trusted, Undisturbed
  <2>3. StageShut(job[t])'
    BY <1>0, <1>1, <1>3, <2>1
    DEF StageShut, Bare, Heard, Unmarked, Plain, Trusted, Undisturbed
  <2>4. Stage(job[t])'
    BY <1>0, <1>3, <2>3
    DEF Stage, Failing, Shutting, Accepting, Commanding, Dialling
  <2> QED BY <2>2, <2>4
<1> QED BY <1>0, <1>1, <1>2, <1>3, StepInv DEF PCs, Shutting

LEMMA ShowsStartingInv ==
  ASSUME IInv, NEW t \in Threads, ShowsStarting(t)
  PROVE  IInv'
<1>0. /\ conn \in Connections /\ job[t] \in Jobs /\ job[t].pc = "starting"
      /\ UNCHANGED <<wanted, count, kinds, races, raced>> /\ NoSession
      /\ At(t, "starting") /\ GoesOn(t, "rearm")
  BY AtFacts DEF ShowsStarting
<1>1. /\ conn' \in Connections
      /\ conn'.state = "starting" /\ conn'.timer = "none"
      /\ conn'.loose = conn.loose /\ conn'.intended = conn.intended
      /\ SameTransport(conn, conn')
  BY <1>0 DEF ShowsStarting, Closed, Connections, States, SameTransport
<1>2. ASSUME raced = "no", Stage(job[t]), Clear, job'[t].pc = "rearm",
             job'[t].goal = job[t].goal, job'[t].own = job[t].own
      PROVE  Clear' /\ Stage(job[t])'
  <2>1. StageShut(job[t])
    BY <1>0, <1>2 DEF Stage, Shutting
  <2>2. Clear'
    BY <1>0, <1>1, <1>2 DEF Clear, Plain, Trusted, Undisturbed, SameTransport
  <2>3. StageShut(job[t])'
    BY <1>0, <1>1, <1>2, <2>1
    DEF StageShut, SameTransport, Bare, Heard, Unmarked, Plain, Trusted, Undisturbed
  <2>4. Stage(job[t])'
    BY <1>0, <1>2, <2>3
    DEF Stage, Failing, Shutting, Accepting, Commanding, Dialling
  <2> QED BY <2>2, <2>4
<1> QED BY <1>0, <1>1, <1>2, StepInv DEF PCs, Shutting, SameTransport

LEMMA RearmsInv ==
  ASSUME IInv, NEW t \in Threads, Rearms(t)
  PROVE  IInv'
<1>0. /\ conn \in Connections /\ job[t] \in Jobs /\ job[t].pc = "rearm"
      /\ UNCHANGED <<wanted, count, kinds, races, raced>> /\ NoSession
      /\ At(t, "rearm") /\ conn' = Resumed(conn)
  BY AtFacts DEF Rearms
<1>1. /\ conn' \in Connections
      /\ conn'.state = conn.state /\ conn'.intended = "no"
      /\ conn.intended = "yes" => conn'.timer = conn.timer
      /\ conn.intended = "no" => conn'.timer = "armed"
      /\ conn.timer = "none" => conn'.loose = conn.loose
      /\ SameTransport(conn, conn')
  BY <1>0, ResumedFields
<1>2. ASSUME raced = "no", Stage(job[t]), Clear
      PROVE  StageShut(job[t]) /\ Clear'
  <2>1. StageShut(job[t])
    BY <1>0, <1>2 DEF Stage, Shutting
  <2>2. Clear'
    BY <1>0, <1>1, <1>2, <2>1 DEF StageShut, Clear, Plain, Trusted, Undisturbed, SameTransport
  <2> QED BY <2>1, <2>2
<1>3. CASE job[t].goal \in {"off", "same", "changed"}
  <2>1. GoesOn(t, "stop")
    BY <1>3 DEF Rearms
  <2>2. ASSUME raced = "no", Stage(job[t]), Clear, job'[t].pc = "stop",
               job'[t].goal = job[t].goal, job'[t].own = job[t].own
        PROVE  Stage(job[t])'
    <3>1. StageCommand(job[t])'
      BY <1>0, <1>1, <1>2, <1>3, <2>2
      DEF StageShut, StageCommand, SameTransport, Bare, Heard, Unmarked, Trusted
    <3> QED BY <1>0, <2>2, <3>1
        DEF Stage, Failing, Shutting, Accepting, Commanding, Dialling
  <2> QED BY <1>0, <1>1, <1>2, <2>1, <2>2, StepInv DEF PCs, Shutting, Commanding, SameTransport
<1>4. CASE job[t].goal = "ended"
  <2> DEFINE j == [job[t] EXCEPT !.pc = "detach", !.goal = "none"]
  <2>1. job' = [job EXCEPT ![t] = j] /\ j \in Jobs
    BY <1>0, <1>4 DEF Rearms, Jobs, Shutting
  <2>2. /\ j.pc = "detach" /\ j.goal = "none" /\ j.own = job[t].own
    BY <1>0 DEF Jobs
  <2> HIDE DEF j
  <2>3. /\ job' \in [Threads -> Jobs] /\ job'[t] = j
        /\ \A u \in Threads \ {t} : job'[u] = job[u]
    BY <2>1 DEF IInv, TypeOK
  <2>4. NoSession'
    <3>1. conn.status = "none" => Sessionless(job[t])'
      BY <1>0, <2>2, <2>3 DEF NoSession, Sessionless
    <3>2. \A u \in Threads \ {t} : Sessionless(job[u]) => Sessionless(job[u])'
      BY <2>3 DEF Sessionless
    <3> QED BY <1>0, <1>1, <3>1, <3>2, NoSessionKept DEF SameTransport, NoSession, Bare
  <2>5. ASSUME raced = "no", Stage(job[t]), Clear
        PROVE  Stage(job[t])'
    <3>1. StageShut(job[t])'
      BY <1>0, <1>1, <1>2, <1>4, <2>2, <2>3, <2>5
      DEF StageShut, SameTransport, Heard, Unmarked, Plain, Trusted, Undisturbed
    <3> QED BY <2>2, <2>3, <3>1
        DEF Stage, Failing, Shutting, Accepting, Commanding, Dialling
  <2> QED BY <1>0, <1>1, <1>2, <2>2, <2>3, <2>4, <2>5, HandlerGoesOn
<1>5. CASE job[t].goal \notin {"ended", "off", "same", "changed"}
  <2>1. Returns(t)
    BY <1>5 DEF Rearms
  <2>2. ASSUME raced = "no", Stage(job[t]), Clear
        PROVE  Rest'
    <3>1. /\ conn'.state = "starting"
          /\ Heard /\ Unmarked /\ (Plain => Bare)
          /\ Plain => wanted = "on"
      BY <1>0, <1>1, <1>2, <1>5, <2>2 DEF StageShut, Bare, Heard, Jobs
    <3>2. Trusted => conn'.timer = "armed"
      BY <1>0, <1>1, <3>1 DEF Unmarked, Connections
    <3> QED BY <1>0, <1>1, <3>1, <3>2
        DEF Rest, SameTransport, Bare, Heard, Unmarked, Plain, Trusted, Undisturbed
  <2> QED BY <1>0, <1>1, <1>2, <2>1, <2>2, StepInv DEF PCs, Shutting, SameTransport
<1> QED BY <1>3, <1>4, <1>5

LEMMA DetachesInv ==
  ASSUME IInv, NEW t \in Threads, Detaches(t)
  PROVE  IInv'
<1>0. /\ TypeOK /\ conn \in Connections /\ job[t] \in Jobs /\ job[t].pc = "detach"
      /\ UNCHANGED <<wanted, count, kinds, races, raced>>
      /\ NoSession /\ At(t, "detach")
  BY AtFacts DEF Detaches
<1>1. CASE job[t].own = "yes"
  <2>1. /\ conn' = Detached(conn)
        /\ job' = [Forgotten(job) EXCEPT ![t].pc = "shut"]
    BY <1>1 DEF Detaches
  <2>2. /\ conn' \in Connections
        /\ conn'.state = conn.state /\ conn'.timer = conn.timer
        /\ conn'.intended = conn.intended /\ conn'.loose = conn.loose
        /\ conn'.status = conn.status
        /\ conn'.listens = "no" /\ conn'.stream = "none" /\ conn'.connack = "none"
        /\ conn'.strays = conn.strays /\ conn'.orphans = conn.orphans
        /\ conn'.leaked = conn.leaked /\ conn'.leakedUp = conn.leakedUp
    BY <1>0, <2>1, DetachedFields
  <2>3. /\ job' \in [Threads -> Jobs] /\ job'[t].pc = "shut"
        /\ job'[t].goal = job[t].goal /\ job'[t].own = job[t].own
        /\ \A u \in Threads \ {t} : /\ job'[u].pc = job[u].pc
                                    /\ job'[u].goal = job[u].goal
                                    /\ job'[u].own = job[u].own
    <3>1. [Forgotten(job)[t] EXCEPT !.pc = "shut"] \in Jobs
      BY <1>0, ForgottenJobs DEF Jobs, Shutting
    <3> QED BY <1>0, <2>1, <3>1, ForgottenJobs DEF Jobs
  <2>4. conn.status # "none"
    BY <1>0, <1>1 DEF NoSession, Sessionless
  <2>5. NoSession'
    BY <2>2, <2>4 DEF NoSession
  <2>6. ASSUME raced = "no", Stage(job[t]), Clear
        PROVE  Clear' /\ Stage(job[t])'
    <3>1. StageShut(job[t])
      BY <1>0, <2>6 DEF Stage, Shutting
    <3>2. Clear'
      BY <1>0, <2>2, <2>6 DEF Clear, Plain, Trusted, Undisturbed
    <3>3. StageShut(job[t])'
      BY <1>0, <2>2, <2>3, <3>1
      DEF StageShut, Bare, Heard, Unmarked, Plain, Trusted, Undisturbed
    <3>4. Stage(job[t])'
      BY <1>0, <2>3, <2>6, <3>3
      DEF Stage, Failing, Shutting, Accepting, Commanding, Dialling
    <3> QED BY <3>2, <3>4
  <2> QED BY <1>0, <2>2, <2>3, <2>5, <2>6, HandlerGoesOn
<1>2. CASE job[t].own # "yes"
  <2>1. /\ conn' = conn \/ (conn.orphans > 0 /\ conn' = [conn EXCEPT !.orphans = @ - 1])
        /\ GoesOn(t, "shut")
    BY <1>2 DEF Detaches
  <2>2. /\ conn' \in Connections
        /\ conn'.state = conn.state /\ conn'.timer = conn.timer
        /\ conn'.intended = conn.intended /\ conn'.loose = conn.loose
        /\ conn'.status = conn.status /\ conn'.listens = conn.listens
        /\ conn'.stream = conn.stream /\ conn'.connack = conn.connack
        /\ conn'.strays = conn.strays
        /\ conn.orphans = 0 => conn'.orphans = 0
        /\ conn'.leaked = conn.leaked /\ conn'.leakedUp = conn.leakedUp
    <3>1. CASE conn' = conn
      BY <1>0, <3>1
    <3>2. CASE conn.orphans > 0 /\ conn' = [conn EXCEPT !.orphans = @ - 1]
      BY <1>0, <3>2 DEF Connections
    <3> QED BY <2>1, <3>1, <3>2
  <2>3. ASSUME raced = "no", Stage(job[t]), Clear, job'[t].pc = "shut",
               job'[t].goal = job[t].goal, job'[t].own = job[t].own
        PROVE  Clear' /\ Stage(job[t])'
    <3>1. StageShut(job[t])
      BY <1>0, <2>3 DEF Stage, Shutting
    <3>2. Clear'
      BY <1>0, <2>2, <2>3 DEF Clear, Plain, Trusted, Undisturbed
    <3>3. StageShut(job[t])'
      BY <1>0, <1>2, <2>2, <2>3, <3>1
      DEF StageShut, Bare, Heard, Unmarked, Plain, Trusted, Undisturbed
    <3>4. Stage(job[t])'
      BY <1>0, <2>3, <3>3
      DEF Stage, Failing, Shutting, Accepting, Commanding, Dialling
    <3> QED BY <3>2, <3>4
  <2> QED BY <1>0, <2>1, <2>2, <2>3, StepInv DEF PCs, Shutting
<1> QED BY <1>1, <1>2

-----------------------------------------------------------------------------
(* The steps of CONNACK. *)

LEMMA AcceptsInv ==
  ASSUME IInv, NEW t \in Threads, Accepts(t)
  PROVE  IInv'
<1>0. /\ conn \in Connections /\ job[t] \in Jobs /\ job[t].pc = "accept"
      /\ UNCHANGED <<wanted, count, kinds, races, raced>> /\ NoSession
      /\ At(t, "accept") /\ GoesOn(t, "connected")
  BY AtFacts DEF Accepts
<1>1. /\ conn' \in Connections
      /\ conn'.status = IF job[t].own = "yes" THEN "connected" ELSE conn.status
      /\ conn'.state = conn.state /\ conn'.timer = conn.timer
      /\ conn'.intended = conn.intended /\ conn'.listens = conn.listens
      /\ conn'.stream = conn.stream
      /\ job[t].own = "no" => conn'.connack = conn.connack
      /\ conn'.loose = conn.loose
      /\ conn'.strays = conn.strays /\ conn'.orphans = conn.orphans
      /\ conn'.leaked = conn.leaked /\ conn'.leakedUp = conn.leakedUp
  <2>1. CASE job[t].own = "yes"
    BY <1>0, <2>1 DEF Accepts, Connections, Statuses
  <2>2. CASE job[t].own # "yes"
    BY <1>0, <2>2 DEF Accepts
  <2> QED BY <2>1, <2>2
<1>2. conn'.status = "none" => conn.status = "none" /\ job[t].own = "no"
  BY <1>0, <1>1 DEF Jobs
<1>3. ASSUME raced = "no", Stage(job[t]), Clear, job'[t].pc = "connected",
             job'[t].goal = job[t].goal, job'[t].own = job[t].own
      PROVE  Clear' /\ Stage(job[t])'
  <2>1. StageAccept(job[t])
    BY <1>0, <1>3 DEF Stage, Accepting
  <2>2. Clear'
    BY <1>0, <1>1, <1>3 DEF Clear, Plain, Trusted, Undisturbed, SameTransport
  <2>3. StageAccept(job[t])'
    BY <1>0, <1>1, <1>3, <2>1
    DEF StageAccept, SameTransport, Bare, Heard, Unmarked, Plain, Trusted, Undisturbed
  <2>4. Stage(job[t])'
    BY <1>0, <1>3, <2>3
    DEF Stage, Failing, Shutting, Accepting, Commanding, Dialling
  <2> QED BY <2>2, <2>4
<1> QED BY <1>0, <1>1, <1>2, <1>3, StepInv DEF PCs, Accepting

LEMMA ShowsConnectedInv ==
  ASSUME IInv, NEW t \in Threads, ShowsConnected(t)
  PROVE  IInv'
<1>0. /\ conn \in Connections /\ job[t] \in Jobs /\ job[t].pc = "connected"
      /\ UNCHANGED <<wanted, count, kinds, races, raced>> /\ NoSession
      /\ At(t, "connected") /\ Returns(t)
  BY AtFacts DEF ShowsConnected
<1>1. /\ conn' \in Connections
      /\ conn'.state = "connected" /\ conn'.timer = "none"
      /\ conn'.loose = conn.loose /\ conn'.intended = conn.intended
      /\ SameTransport(conn, conn')
  BY <1>0 DEF ShowsConnected, Connections, States, SameTransport
<1>2. ASSUME raced = "no", Stage(job[t]), Clear
      PROVE  Clear' /\ Rest'
  <2>1. StageAccept(job[t])
    BY <1>0, <1>2 DEF Stage, Accepting
  <2>2. Clear'
    BY <1>0, <1>1, <1>2 DEF Clear, Plain, Trusted, Undisturbed, SameTransport
  <2>3. Rest'
    BY <1>0, <1>1, <2>1
    DEF Rest, StageAccept, SameTransport, Bare, Heard, Unmarked, Plain, Trusted, Undisturbed
  <2> QED BY <2>2, <2>3
<1> QED BY <1>0, <1>1, <1>2, StepInv DEF PCs, Accepting, SameTransport

-----------------------------------------------------------------------------
(* The steps of disconnect and connectTo. *)

LEMMA ClosesInv ==
  ASSUME IInv, NEW t \in Threads, Closes(t)
  PROVE  IInv'
<1>0. /\ conn \in Connections /\ job[t] \in Jobs /\ job[t].pc = "closing"
      /\ UNCHANGED <<wanted, count, kinds, races, raced>> /\ NoSession
      /\ At(t, "closing") /\ GoesOn(t, "look")
  BY AtFacts DEF Closes
<1>1. /\ conn' \in Connections
      /\ conn'.state = "closing" /\ conn'.intended = "yes"
      /\ conn'.timer = conn.timer /\ conn'.loose = conn.loose
      /\ SameTransport(conn, conn')
  BY <1>0 DEF Closes, Closing, Connections, States, SameTransport
<1>2. ASSUME raced = "no", Stage(job[t]), Clear, job'[t].pc = "look",
             job'[t].goal = job[t].goal, job'[t].own = job[t].own
      PROVE  Clear' /\ Stage(job[t])'
  <2>1. StageCommand(job[t])
    BY <1>0, <1>2 DEF Stage, Commanding
  <2>2. Clear'
    BY <1>0, <1>1, <1>2 DEF Clear, Plain, Trusted, Undisturbed, SameTransport
  <2>3. StageCommand(job[t])'
    BY <1>0, <1>1, <1>2, <2>1
    DEF StageCommand
  <2>4. Stage(job[t])'
    BY <1>0, <1>2, <2>3
    DEF Stage, Failing, Shutting, Accepting, Commanding, Dialling
  <2> QED BY <2>2, <2>4
<1> QED BY <1>0, <1>1, <1>2, StepInv DEF PCs, Commanding, SameTransport

LEMMA LooksInv ==
  ASSUME IInv, NEW t \in Threads, Looks(t)
  PROVE  IInv'
<1>0. /\ conn \in Connections /\ job[t] \in Jobs /\ job[t].pc = "look"
      /\ UNCHANGED <<wanted, count, kinds, races, raced>> /\ NoSession
      /\ At(t, "look")
  BY AtFacts DEF Looks
<1>1. /\ conn' \in Connections
      /\ conn'.status = IF conn.status = "connected" THEN "disconnecting" ELSE conn.status
      /\ conn'.state = conn.state /\ conn'.timer = conn.timer
      /\ conn'.intended = conn.intended /\ conn'.listens = conn.listens
      /\ conn'.stream = conn.stream /\ conn'.connack = conn.connack
      /\ conn'.loose = conn.loose
      /\ conn'.strays = conn.strays /\ conn'.orphans = conn.orphans
      /\ conn'.leaked = conn.leaked /\ conn'.leakedUp = conn.leakedUp
  <2>1. CASE conn.status = "connected"
    BY <1>0, <2>1 DEF Looks, Connections, Statuses
  <2>2. CASE conn.status # "connected"
    BY <1>0, <2>2 DEF Looks
  <2> QED BY <2>1, <2>2
<1>2. CASE conn.status = "none"
  <2>1. GoesOn(t, "stop")
    BY <1>2 DEF Looks
  <2>2. ASSUME raced = "no", Stage(job[t]), Clear, job'[t].pc = "stop",
               job'[t].goal = job[t].goal, job'[t].own = job[t].own
        PROVE  Clear' /\ Stage(job[t])'
    <3>1. StageCommand(job[t])
      BY <1>0, <2>2 DEF Stage, Commanding
    <3>2. Clear'
      BY <1>0, <1>1, <2>2 DEF Clear, Plain, Trusted, Undisturbed
    <3>3. StageCommand(job[t])'
      BY <1>0, <1>1, <1>2, <2>2, <3>1 DEF StageCommand, NoSession, Heard, Trusted
    <3>4. Stage(job[t])'
      BY <1>0, <2>2, <3>3
      DEF Stage, Failing, Shutting, Accepting, Commanding, Dialling
    <3> QED BY <3>2, <3>4
  <2> QED BY <1>0, <1>1, <2>1, <2>2, StepInv DEF PCs, Commanding
<1>3. CASE conn.status # "none"
  <2>1. GoesOn(t, "detach")
    BY <1>3 DEF Looks
  <2>2. ASSUME raced = "no", Stage(job[t]), Clear, job'[t].pc = "detach",
               job'[t].goal = job[t].goal, job'[t].own = job[t].own
        PROVE  Clear' /\ Stage(job[t])'
    <3>1. StageCommand(job[t])
      BY <1>0, <2>2 DEF Stage, Commanding
    <3>2. Clear'
      BY <1>0, <1>1, <2>2 DEF Clear, Plain, Trusted, Undisturbed
    <3>3. StageShut(job[t])'
      BY <1>0, <1>1, <2>2, <3>1 DEF StageCommand, StageShut
    <3>4. Stage(job[t])'
      BY <1>0, <2>2, <3>3
      DEF Stage, Failing, Shutting, Accepting, Commanding, Dialling
    <3> QED BY <3>2, <3>4
  <2> QED BY <1>0, <1>1, <1>3, <2>1, <2>2, StepInv DEF PCs, Commanding, Shutting
<1> QED BY <1>2, <1>3

LEMMA StopsTimerInv ==
  ASSUME IInv, NEW t \in Threads, StopsTimer(t)
  PROVE  IInv'
<1>0. /\ conn \in Connections /\ job[t] \in Jobs /\ job[t].pc = "stop"
      /\ UNCHANGED <<wanted, count, kinds, races, raced>> /\ NoSession
      /\ At(t, "stop")
  BY AtFacts DEF StopsTimer
<1>1. /\ conn' \in Connections
      /\ conn'.state = conn.state /\ conn'.timer = "none"
      /\ conn'.loose = conn.loose /\ conn'.intended = conn.intended
      /\ SameTransport(conn, conn')
  BY <1>0 DEF StopsTimer, Connections, SameTransport
<1>2. ASSUME raced = "no", Stage(job[t]), Clear
      PROVE  Clear' /\ StageCommand(job[t])
  BY <1>0, <1>1, <1>2
  DEF Clear, Plain, Trusted, Undisturbed, SameTransport, Stage, Commanding
<1>3. CASE job[t].goal = "off"
  <2>1. Returns(t)
    BY <1>3 DEF StopsTimer
  <2>2. ASSUME raced = "no", Stage(job[t]), Clear
        PROVE  Rest'
    <3>1. wanted = "off"
      BY <1>0, <1>3, <2>2 DEF Stage
    <3> QED BY <1>0, <1>1, <1>2, <2>2, <3>1
        DEF Rest, StageCommand, SameTransport, Bare, Heard, Unmarked, Plain, Trusted, Undisturbed
  <2> QED BY <1>0, <1>1, <1>2, <2>1, <2>2, StepInv DEF PCs, Commanding, SameTransport
<1>4. CASE job[t].goal # "off"
  <2>1. GoesOn(t, "renew")
    BY <1>4 DEF StopsTimer
  <2>2. ASSUME raced = "no", Stage(job[t]), Clear, job'[t].pc = "renew",
               job'[t].goal = job[t].goal, job'[t].own = job[t].own
        PROVE  Stage(job[t])'
    <3>1. StageCommand(job[t])'
      BY <1>0, <1>1, <1>2, <1>4, <2>2
      DEF StageCommand, SameTransport, Bare, Heard, Unmarked, Plain, Trusted, Undisturbed
    <3> QED BY <1>0, <2>2, <3>1
        DEF Stage, Failing, Shutting, Accepting, Commanding, Dialling
  <2> QED BY <1>0, <1>1, <1>2, <2>1, <2>2, StepInv DEF PCs, Commanding, SameTransport
<1> QED BY <1>3, <1>4
LEMMA RenewsInv ==
  ASSUME IInv, NEW t \in Threads, Renews(t)
  PROVE  IInv'
<1>0. /\ TypeOK /\ conn \in Connections /\ job[t] \in Jobs /\ job[t].pc = "renew"
      /\ UNCHANGED <<wanted, count, kinds, races, raced>> /\ NoSession
      /\ At(t, "renew")
  BY AtFacts DEF Renews
<1>1. CASE job[t].goal = "changed" \/ conn.status = "none"
  <2>1. /\ conn' = NewSession(conn, "created", "yes")
        /\ job' = [Disowned(job) EXCEPT ![t] = [job[t] EXCEPT !.pc = "try", !.own = "yes"]]
    BY <1>1 DEF Renews
  <2>2. /\ conn' \in Connections
        /\ conn'.state = conn.state /\ conn'.timer = conn.timer
        /\ conn'.intended = conn.intended
        /\ conn'.loose = conn.loose /\ conn'.status = "created"
        /\ conn'.listens = "no" /\ conn'.stream = "none" /\ conn'.connack = "none"
        /\ conn'.strays = 0 /\ conn'.leaked = 0 /\ conn'.leakedUp = 0
        /\ conn.strays = 0 /\ conn.connack = "none" => conn'.orphans = conn.orphans
    BY <1>0, <2>1, NewSessionFields DEF Statuses
  <2>3. /\ job' \in [Threads -> Jobs] /\ job'[t].pc = "try"
        /\ job'[t].goal = job[t].goal
        /\ \A u \in Threads \ {t} : job'[u].pc = job[u].pc /\ job'[u].goal = job[u].goal
    <3>1. [job[t] EXCEPT !.pc = "try", !.own = "yes"] \in Jobs
      BY <1>0 DEF Jobs, Dialling
    <3>2. job' \in [Threads -> Jobs] /\ job'[t] = [job[t] EXCEPT !.pc = "try", !.own = "yes"]
      BY <2>1, <3>1, DisownedJobs, <1>0
    <3>3. job'[t].pc = "try" /\ job'[t].goal = job[t].goal
      BY <1>0, <3>2 DEF Jobs
    <3>4. \A u \in Threads \ {t} : job'[u] = Disowned(job)[u]
      BY <1>0, <2>1, DisownedJobs
    <3> QED BY <1>0, <3>2, <3>3, <3>4, DisownedJobs
  <2>4. NoSession'
    BY <2>2 DEF NoSession
  <2>5. ASSUME raced = "no", Stage(job[t]), Clear
        PROVE  Clear' /\ Stage(job[t])'
    <3>1. /\ StageCommand(job[t])
          /\ wanted = "on"
      BY <1>0, <2>5 DEF Stage, StageCommand, Commanding
    <3>2. Clear'
      BY <1>0, <2>2, <2>5, <3>1
      DEF Clear, StageCommand, Bare, Plain, Trusted, Undisturbed
    <3>3. StageDial(job[t])'
      BY <1>0, <2>2, <2>3, <3>1
      DEF StageCommand, StageDial, Bare, Heard, Unmarked, Plain, Trusted, Undisturbed
    <3>4. Stage(job[t])'
      BY <1>0, <2>3, <2>5, <3>3
      DEF Stage, Failing, Shutting, Accepting, Commanding, Dialling
    <3> QED BY <3>2, <3>4
  <2> QED BY <1>0, <2>2, <2>3, <2>4, <2>5, HandlerGoesOn
<1>2. CASE ~(job[t].goal = "changed" \/ conn.status = "none")
  <2>1. conn' = conn /\ GoesOn(t, "try")
    BY <1>2 DEF Renews
  <2>2. ASSUME raced = "no", Stage(job[t]), Clear, job'[t].pc = "try",
               job'[t].goal = job[t].goal, job'[t].own = job[t].own
        PROVE  Clear' /\ Stage(job[t])'
    <3>1. /\ StageCommand(job[t])
          /\ wanted = "on"
      BY <1>0, <2>2 DEF Stage, StageCommand, Commanding
    <3>2. Clear'
      BY <1>0, <2>1, <2>2 DEF Clear, Plain, Trusted, Undisturbed
    <3>3. StageDial(job[t])'
      BY <1>0, <2>1, <2>2, <3>1
      DEF StageCommand, StageDial, Bare, Heard, Unmarked, Plain, Trusted, Undisturbed
    <3>4. Stage(job[t])'
      BY <1>0, <2>2, <3>3
      DEF Stage, Failing, Shutting, Accepting, Commanding, Dialling
    <3> QED BY <3>2, <3>4
  <2> QED BY <1>0, <2>1, <2>2, StepInv DEF PCs, Commanding, Dialling
<1> QED BY <1>1, <1>2

LEMMA TriesInv ==
  ASSUME IInv, NEW t \in Threads, Tries(t)
  PROVE  IInv'
<1>0. /\ TypeOK /\ conn \in Connections /\ job[t] \in Jobs /\ job[t].pc = "try"
      /\ UNCHANGED <<wanted, count, kinds, races, raced>> /\ NoSession
      /\ At(t, "try")
  BY AtFacts DEF Tries
<1>1. CASE conn.state = "starting"
  <2> DEFINE c == IF conn.status = "none" THEN NewSession(conn, "created", "no") ELSE conn
  <2>1. /\ conn' = [c EXCEPT !.state = "connecting"]
        /\ job' = [job EXCEPT ![t].pc = "dial", ![t].own = "yes"]
    BY <1>1 DEF Tries
  <2>2. /\ c \in Connections /\ c.timer = conn.timer /\ c.intended = conn.intended
        /\ c.loose = conn.loose /\ c.status # "none"
        /\ Bare => /\ c.stream = "none" /\ c.connack = "none"
                   /\ conn.strays = 0 => c.strays = 0 /\ c.orphans = conn.orphans
        /\ conn.leaked = 0 => c.leaked = 0
        /\ conn.leakedUp = 0 => c.leakedUp = 0
    <3>1. CASE conn.status = "none"
      BY <1>0, <3>1, NewSessionFields DEF Statuses, Bare
    <3>2. CASE conn.status # "none"
      BY <1>0, <3>2 DEF Bare
    <3> QED BY <3>1, <3>2
  <2> HIDE DEF c
  <2>3. /\ conn' \in Connections /\ conn'.state = "connecting"
        /\ conn'.timer = conn.timer /\ conn'.intended = conn.intended
        /\ conn'.loose = conn.loose /\ conn'.status # "none"
        /\ Bare => /\ conn'.stream = "none" /\ conn'.connack = "none"
                   /\ conn.strays = 0 => conn'.strays = 0 /\ conn'.orphans = conn.orphans
        /\ conn.leaked = 0 => conn'.leaked = 0
        /\ conn.leakedUp = 0 => conn'.leakedUp = 0
    BY <2>1, <2>2 DEF Connections, States
  <2>4. /\ job' \in [Threads -> Jobs] /\ job'[t].pc = "dial" /\ job'[t].own = "yes"
        /\ job'[t].goal = job[t].goal
        /\ \A u \in Threads \ {t} : job'[u] = job[u]
    <3>1. [job[t] EXCEPT !.pc = "dial", !.own = "yes"] \in Jobs
      BY <1>0 DEF Jobs, Dialling
    <3>2. job' = [job EXCEPT ![t] = [job[t] EXCEPT !.pc = "dial", !.own = "yes"]]
      BY <1>0, <2>1 DEF TypeOK, Jobs
    <3>3. /\ job' \in [Threads -> Jobs]
          /\ job'[t] = [job[t] EXCEPT !.pc = "dial", !.own = "yes"]
          /\ \A u \in Threads \ {t} : job'[u] = job[u]
      BY <1>0, <3>1, <3>2 DEF TypeOK
    <3> QED BY <1>0, <3>3 DEF Jobs
  <2>5. NoSession'
    BY <2>3 DEF NoSession
  <2>6. ASSUME raced = "no", Stage(job[t]), Clear
        PROVE  Clear' /\ Stage(job[t])'
    <3>1. StageDial(job[t])
      BY <1>0, <2>6 DEF Stage, Dialling
    <3>2. Clear'
      BY <1>0, <2>3, <2>6, <3>1 DEF Clear, StageDial, Plain, Trusted, Undisturbed
    <3>3. StageDial(job[t])'
      BY <1>0, <2>3, <2>4, <3>1
      DEF StageDial, Bare, Heard, Unmarked, Plain, Trusted, Undisturbed
    <3>4. Stage(job[t])'
      BY <1>0, <2>4, <2>6, <3>3
      DEF Stage, Failing, Shutting, Accepting, Commanding, Dialling
    <3> QED BY <3>2, <3>4
  <2> QED BY <1>0, <2>3, <2>4, <2>5, <2>6, HandlerGoesOn
<1>2. CASE conn.state # "starting"
  <2>1. conn' = conn /\ Returns(t)
    BY <1>2 DEF Tries
  <2>2. ASSUME raced = "no", Stage(job[t]), Clear
        PROVE  Clear' /\ Rest'
    <3>1. StageDial(job[t])
      BY <1>0, <2>2 DEF Stage, Dialling
    <3>2. Clear'
      BY <1>0, <2>1, <2>2 DEF Clear, Plain, Trusted, Undisturbed
    <3>3. Rest'
      BY <1>0, <1>2, <2>1, <3>1
      DEF StageDial, Rest, Bare, Heard, Unmarked, Plain, Trusted, Undisturbed
    <3> QED BY <3>2, <3>3
  <2> QED BY <1>0, <2>1, <2>2, StepInv DEF PCs, Dialling
<1> QED BY <1>1, <1>2

LEMMA DialsInv ==
  ASSUME IInv, NEW t \in Threads, Dials(t)
  PROVE  IInv'
<1>0. /\ conn \in Connections /\ job[t] \in Jobs /\ job[t].pc = "dial"
      /\ UNCHANGED <<wanted, count, kinds, races, raced>> /\ NoSession
      /\ At(t, "dial")
  BY AtFacts DEF Dials
<1>1. CASE conn.status = "none"
  <2>1. conn' = conn /\ Returns(t)
    BY <1>1 DEF Dials
  <2>2. ASSUME raced = "no", Stage(job[t])
        PROVE  FALSE
    BY <1>0, <1>1, <2>2 DEF Stage, StageDial, Dialling
  <2> QED BY <1>0, <2>1, <2>2, StepInv DEF PCs, Dialling
<1>2. CASE conn.status # "none"
  <2>1. conn' = [conn EXCEPT !.status = "connecting"] /\ GoesOn(t, "listen")
    BY <1>2 DEF Dials
  <2>2. /\ conn' \in Connections /\ conn'.status = "connecting"
        /\ conn'.state = conn.state /\ conn'.timer = conn.timer
        /\ conn'.intended = conn.intended /\ conn'.listens = conn.listens
        /\ conn'.stream = conn.stream /\ conn'.connack = conn.connack
        /\ conn'.loose = conn.loose
        /\ conn'.strays = conn.strays /\ conn'.orphans = conn.orphans
        /\ conn'.leaked = conn.leaked /\ conn'.leakedUp = conn.leakedUp
    BY <1>0, <2>1 DEF Connections, Statuses
  <2>3. ASSUME raced = "no", Stage(job[t]), Clear, job'[t].pc = "listen",
               job'[t].goal = job[t].goal, job'[t].own = job[t].own
        PROVE  Clear' /\ Stage(job[t])'
    <3>1. StageDial(job[t])
      BY <1>0, <2>3 DEF Stage, Dialling
    <3>2. Clear'
      BY <1>0, <2>2, <2>3 DEF Clear, Plain, Trusted, Undisturbed
    <3>3. StageDial(job[t])'
      BY <1>0, <2>2, <2>3, <3>1
      DEF StageDial, Bare, Heard, Unmarked, Plain, Trusted, Undisturbed
    <3>4. Stage(job[t])'
      BY <1>0, <2>3, <3>3
      DEF Stage, Failing, Shutting, Accepting, Commanding, Dialling
    <3> QED BY <3>2, <3>4
  <2> QED BY <1>0, <2>1, <2>2, <2>3, StepInv DEF PCs, Dialling
<1> QED BY <1>1, <1>2

LEMMA ListensInv ==
  ASSUME IInv, NEW t \in Threads, Listens(t)
  PROVE  IInv'
<1>0. /\ conn \in Connections /\ job[t] \in Jobs /\ job[t].pc = "listen"
      /\ UNCHANGED <<wanted, count, kinds, races, raced>> /\ NoSession
      /\ At(t, "listen") /\ GoesOn(t, "open")
  BY AtFacts DEF Listens
<1>1. /\ conn' \in Connections
      /\ conn'.listens = IF job[t].own = "yes" THEN "yes" ELSE conn.listens
      /\ conn'.status = conn.status
      /\ conn'.state = conn.state /\ conn'.timer = conn.timer
      /\ conn'.intended = conn.intended
      /\ conn'.stream = conn.stream /\ conn'.connack = conn.connack
      /\ conn'.loose = conn.loose
      /\ conn'.strays = conn.strays /\ conn'.orphans = conn.orphans
      /\ conn'.leaked = conn.leaked /\ conn'.leakedUp = conn.leakedUp
  BY <1>0 DEF Listens, Connections
<1>2. conn'.status = "none" => conn.status = "none" /\ conn'.listens = conn.listens
  BY <1>0, <1>1 DEF NoSession, Sessionless
<1>3. ASSUME raced = "no", Stage(job[t]), Clear, job'[t].pc = "open",
             job'[t].goal = job[t].goal, job'[t].own = job[t].own
      PROVE  Clear' /\ Stage(job[t])'
  <2>1. StageDial(job[t])
    BY <1>0, <1>3 DEF Stage, Dialling
  <2>2. Clear'
    BY <1>0, <1>1, <1>3 DEF Clear, Plain, Trusted, Undisturbed, SameTransport
  <2>3. StageDial(job[t])'
    BY <1>0, <1>1, <1>3, <2>1
    DEF StageDial, Bare, Heard, Unmarked, Plain, Trusted, Undisturbed
  <2>4. Stage(job[t])'
    BY <1>0, <1>3, <2>3
    DEF Stage, Failing, Shutting, Accepting, Commanding, Dialling
  <2> QED BY <2>2, <2>4
<1> QED BY <1>0, <1>1, <1>2, <1>3, StepInv DEF PCs, Dialling

LEMMA OpensInv ==
  ASSUME IInv, NEW t \in Threads, Opens(t)
  PROVE  IInv'
<1>0. /\ TypeOK /\ conn \in Connections /\ job[t] \in Jobs /\ job[t].pc = "open"
      /\ UNCHANGED <<wanted, count, kinds, races, raced>> /\ NoSession
      /\ At(t, "open")
  BY AtFacts DEF Opens
<1>1. CASE job[t].own = "yes"
  <2>1. /\ conn' = Opened(conn)
        /\ job' = [Forgotten(job) EXCEPT ![t].pc = "unclean"]
    BY <1>1 DEF Opens
  <2>2. /\ conn' \in Connections
        /\ conn'.state = conn.state /\ conn'.timer = conn.timer
        /\ conn'.intended = conn.intended /\ conn'.loose = conn.loose
        /\ conn'.status = conn.status /\ conn'.listens = conn.listens
        /\ conn'.stream = "silent" /\ conn'.orphans = conn.orphans
        /\ conn.listens = "yes" => conn'.connack = "armed"
        /\ conn.connack = "none" => conn'.strays = conn.strays
        /\ conn.stream = "none" => conn'.leaked = conn.leaked /\ conn'.leakedUp = conn.leakedUp
    BY <1>0, <2>1, OpenedFields
  <2>3. /\ job' \in [Threads -> Jobs] /\ job'[t].pc = "unclean"
        /\ job'[t].goal = job[t].goal
        /\ \A u \in Threads \ {t} : job'[u].pc = job[u].pc /\ job'[u].goal = job[u].goal
    <3>1. [Forgotten(job)[t] EXCEPT !.pc = "unclean"] \in Jobs
      BY <1>0, ForgottenJobs DEF Jobs, Dialling
    <3> QED BY <1>0, <2>1, <3>1, ForgottenJobs DEF Jobs
  <2>4. conn.status # "none"
    BY <1>0, <1>1 DEF NoSession, Sessionless
  <2>5. NoSession'
    BY <2>2, <2>4 DEF NoSession
  <2>6. ASSUME raced = "no", Stage(job[t]), Clear
        PROVE  Clear' /\ Stage(job[t])'
    <3>1. StageDial(job[t])
      BY <1>0, <2>6 DEF Stage, Dialling
    <3>2. Clear'
      BY <1>0, <2>2, <2>6, <3>1 DEF Clear, StageDial, Bare, Plain, Trusted, Undisturbed
    <3>3. StageDial(job[t])'
      BY <1>0, <2>2, <2>3, <3>1
      DEF StageDial, Unmarked, Plain, Trusted, Undisturbed
    <3>4. Stage(job[t])'
      BY <1>0, <2>3, <2>6, <3>3
      DEF Stage, Failing, Shutting, Accepting, Commanding, Dialling
    <3> QED BY <3>2, <3>4
  <2> QED BY <1>0, <2>2, <2>3, <2>5, <2>6, HandlerGoesOn
<1>2. CASE job[t].own # "yes"
  <2>1. /\ conn' = [conn EXCEPT !.orphans = @ + 1]
        /\ GoesOn(t, "unclean")
    BY <1>2 DEF Opens, GoesOn
  <2>2. /\ conn' \in Connections /\ conn'.status = conn.status
        /\ conn'.listens = conn.listens /\ conn'.strays = conn.strays
        /\ conn'.stream = conn.stream /\ conn'.connack = conn.connack
    BY <1>0, <2>1 DEF Connections
  <2>3. ASSUME raced = "no", Stage(job[t])
        PROVE  FALSE
    BY <1>0, <1>2, <2>3 DEF Stage, StageDial, Dialling
  <2> QED BY <1>0, <2>1, <2>2, <2>3, StepInv DEF PCs, Dialling
<1> QED BY <1>1, <1>2

LEMMA UncleansInv ==
  ASSUME IInv, NEW t \in Threads, Uncleans(t)
  PROVE  IInv'
<1>0. /\ conn \in Connections /\ job[t] \in Jobs /\ job[t].pc = "unclean"
      /\ UNCHANGED <<wanted, count, kinds, races, raced>> /\ NoSession
      /\ At(t, "unclean") /\ Returns(t)
  BY AtFacts DEF Uncleans
<1>1. /\ conn' \in Connections
      /\ conn'.state = conn.state /\ conn'.timer = conn.timer
      /\ conn'.loose = conn.loose /\ conn'.intended = conn.intended
      /\ SameTransport(conn, conn')
  BY <1>0 DEF Uncleans, Connections, SameTransport
<1>2. ASSUME raced = "no", Stage(job[t]), Clear
      PROVE  Clear' /\ Rest'
  <2>1. StageDial(job[t])
    BY <1>0, <1>2 DEF Stage, Dialling
  <2>2. Clear'
    BY <1>0, <1>1, <1>2 DEF Clear, Plain, Trusted, Undisturbed, SameTransport
  <2>3. Rest'
    BY <1>0, <1>1, <2>1
    DEF Rest, StageDial, SameTransport, Bare, Heard, Unmarked, Plain, Trusted, Undisturbed
  <2> QED BY <2>2, <2>3
<1> QED BY <1>0, <1>1, <1>2, StepInv DEF PCs, Dialling, SameTransport

-----------------------------------------------------------------------------
(* The starts. *)

LEMMA HappensFacts ==
  ASSUME TypeOK, NEW d \in Disturbances, Happens(d)
  PROVE  /\ count' \in Nat /\ kinds' \in SUBSET Disturbances
         /\ kinds \subseteq kinds' /\ d \in kinds'
  BY DEF TypeOK, Happens

LEMMA CalmFacts ==
  ASSUME TypeOK, Calm
  PROVE  count' \in Nat /\ kinds' \in SUBSET Disturbances /\ kinds' = kinds
  BY DEF TypeOK, Calm

LEMMA StartInv ==
  ASSUME IInv, NEW t \in Threads, NEW pc \in PCs,
         NEW goal \in {"none", "early", "certificate", "ended"},
         NEW own \in {"no", "yes"}, NEW on \in {"none", "current", "other"},
         pc # "idle", Begins(t, pc, goal, own, on),
         conn' \in Connections, wanted' \in {"on", "off"},
         count' \in Nat, kinds \subseteq kinds', kinds' \in SUBSET Disturbances,
         goal = "certificate" => ~Trusted',
         conn'.status = "none" =>
           /\ conn.status = "none" /\ conn'.listens = conn.listens
           /\ conn'.strays = conn.strays /\ conn'.connack = conn.connack
           /\ conn'.stream = conn.stream
           /\ own = "no" \/ pc = "try",
         (raced = "no" /\ Rest /\ Clear /\ job'[t].pc = pc /\ job'[t].goal = goal
            /\ job'[t].own = own) => Clear' /\ Stage(job[t])'
  PROVE  IInv'
<1>1. /\ job'[t] = [pc |-> pc, goal |-> goal, own |-> own, on |-> on]
      /\ \A u \in Threads \ {t} : job'[u] = job[u]
  BY DEF Begins, Takes, IInv, TypeOK
<1>2. job'[t].pc = pc /\ job'[t].goal = goal /\ job'[t].own = own
  BY <1>1
<1>3. NoSession'
  <2>1. conn'.status = "none" => Sessionless(job[t])'
    BY <1>2 DEF Sessionless
  <2>2. \A u \in Threads \ {t} : Sessionless(job[u]) => Sessionless(job[u])'
    BY <1>1 DEF Sessionless
  <2> QED BY <2>1, <2>2, NoSessionKept DEF IInv, NoSession, Bare
<1> QED BY <1>2, <1>3, HandlerStarts

(* What nobody is told of does not disturb a handler that is running. *)
LEMMA UntoldInv ==
  ASSUME IInv, NEW c \in Connections, conn' = c,
         c.state = conn.state, c.timer = conn.timer, c.loose = conn.loose,
         c.intended = conn.intended, c.status = conn.status, c.listens = conn.listens,
         c.connack = conn.connack, c.strays = conn.strays, c.orphans = conn.orphans,
         conn.leaked = 0 => c.leaked = 0,
         conn.leaked = 0 /\ conn.leakedUp = 0 => c.leakedUp = 0,
         conn.stream = "none" => c.stream = "none",
         conn.listens = "yes" /\ conn.stream # "none" => c.stream # "none",
         UNCHANGED <<wanted, job, races, raced>>,
         count' \in Nat, kinds \subseteq kinds', kinds' \in SUBSET Disturbances
  PROVE  IInv'
<1>1. TypeOK' /\ Histories'
  BY DEF IInv, TypeOK, Histories, Trusted
<1>2. NoSession'
  BY DEF IInv, NoSession, Sessionless, Trusted, Bare
<1>3. ASSUME raced = "no"
      PROVE  /\ Clear' /\ Solo'
             /\ \A t \in Threads : Stage(job[t])'
             /\ (\A t \in Threads : job'[t].pc = "idle") => Rest'
  <2>1. /\ Clear /\ Solo
        /\ \A t \in Threads : Stage(job[t])
        /\ (\A t \in Threads : job[t].pc = "idle") => Rest
    BY <1>3 DEF IInv, Serial
  <2>2. (Plain' => Plain) /\ (Trusted' => Trusted) /\ (Undisturbed' => Undisturbed)
    BY DEF Plain, Trusted, Undisturbed
  <2>3. /\ Heard => Heard'
        /\ Unmarked => Unmarked'
        /\ Bare => Bare'
    BY <2>2 DEF Heard, Unmarked, Bare
  <2>4. Clear'
    BY <2>1, <2>2 DEF Clear
  <2>5. Rest => Rest'
    BY <2>2, <2>3 DEF Rest
  <2>6. ASSUME NEW t \in Threads
        PROVE  Stage(job[t])'
    <3>1. StageError(job[t]) => StageError(job[t])'
      BY <2>2, <2>3 DEF StageError
    <3>2. StageShut(job[t]) => StageShut(job[t])'
      BY <2>2, <2>3 DEF StageShut
    <3>3. StageAccept(job[t]) => StageAccept(job[t])'
      BY <2>2, <2>3 DEF StageAccept
    <3>4. StageCommand(job[t]) => StageCommand(job[t])'
      BY <2>2, <2>3 DEF StageCommand
    <3>5. StageDial(job[t]) => StageDial(job[t])'
      BY <2>2, <2>3 DEF StageDial
    <3> QED BY <2>1, <3>1, <3>2, <3>3, <3>4, <3>5 DEF Stage
  <2> QED BY <2>1, <2>4, <2>5, <2>6 DEF Solo
<1>4. Serial'
  BY <1>3 DEF Serial
<1> QED BY <1>1, <1>2, <1>4 DEF IInv

LEMMA ConnectToLastInv == IInv /\ ConnectToLast => IInv'
<1> SUFFICES ASSUME IInv, ConnectToLast PROVE IInv'
  OBVIOUS
<1>1. /\ count' \in Nat /\ kinds' \in SUBSET Disturbances /\ kinds \subseteq kinds'
      /\ Plain' => conn.timer = "none"
  <2>1. CASE conn.timer = "armed" \/ conn.loose > 0
    <3>1. Happens("overtake")
      BY <2>1 DEF ConnectToLast
    <3> QED BY <3>1, HappensFacts DEF IInv, Disturbances, Plain, Undisturbed
  <2>2. CASE ~(conn.timer = "armed" \/ conn.loose > 0)
    BY <2>2, CalmFacts DEF ConnectToLast, IInv, TypeOK, Connections
  <2> QED BY <2>1, <2>2
<1>2. /\ Begins("main", "try", "none", "yes", "none") /\ "main" \in Threads
      /\ conn' = conn /\ conn.state = "starting" /\ wanted' = "on"
  BY DEF ConnectToLast, Threads
<1>3. ASSUME raced = "no", Rest, Clear, job'["main"].pc = "try", job'["main"].goal = "none",
             job'["main"].own = "yes"
      PROVE  Clear' /\ Stage(job["main"])'
  <2>1. (Plain' => Plain) /\ (Trusted' => Trusted)
    BY <1>1 DEF Plain, Trusted, Undisturbed
  <2>2. races' = races \/ races' > 0
    BY <1>2 DEF Begins, Overlaps, IInv, TypeOK
  <2>3. Clear'
    BY <1>2, <1>3, <2>1, <2>2 DEF Clear
  <2>4. StageDial(job["main"])'
    BY <1>1, <1>2, <1>3, <2>1 DEF StageDial, Rest, Heard, Unmarked, Bare
  <2>5. Stage(job["main"])'
    BY <1>3, <2>4 DEF Stage, Failing, Shutting, Accepting, Commanding, Dialling
  <2> QED BY <2>3, <2>5
<1> QED BY <1>1, <1>2, <1>3, StartInv DEF PCs, Dialling, IInv, TypeOK

(* The number of overlaps only grows, and one that counts is positive. *)
LEMMA ClearKept ==
  ASSUME IInv, NEW t \in Threads, NEW pc, NEW goal, NEW own, NEW on,
         Begins(t, pc, goal, own, on), kinds \subseteq kinds', Clear,
         conn'.loose = conn.loose,
         conn.strays = 0 => conn'.strays = 0,
         conn.orphans = 0 => conn'.orphans = 0,
         conn.leaked = 0 => conn'.leaked = 0,
         conn.leaked = 0 /\ conn.leakedUp = 0 => conn'.leakedUp = 0
  PROVE  Clear'
<1>1. races' = races \/ races' > 0
  BY DEF Begins, Overlaps, IInv, TypeOK
<1>2. Plain' => Plain
  BY DEF Plain, Trusted, Undisturbed
<1>3. races' = 0 => races = 0
  BY <1>1
<1> QED BY <1>2, <1>3 DEF Clear

LEMMA ReconnectTimerFiresInv == IInv /\ ReconnectTimerFires => IInv'
<1> SUFFICES ASSUME IInv, ReconnectTimerFires PROVE IInv'
  OBVIOUS
<1>1. /\ count' \in Nat /\ kinds' \in SUBSET Disturbances /\ kinds' = kinds
      /\ wanted' = wanted /\ wanted \in {"on", "off"} /\ conn \in Connections
  BY CalmFacts DEF ReconnectTimerFires, IInv, TypeOK
<1>2. Begins("main", "try", "none", "yes", "none") /\ "main" \in Threads
  BY DEF ReconnectTimerFires, Threads
<1>3. /\ conn' \in Connections
      /\ conn'.timer = "none" /\ conn'.state = "starting"
      /\ conn'.intended = conn.intended /\ SameTransport(conn, conn')
      /\ conn.loose = 0 => conn.timer = "armed" /\ conn'.loose = 0
  <2>1. CASE conn.timer = "armed" /\ conn' = [conn EXCEPT !.timer = "none", !.state = "starting"]
    BY <1>1, <2>1 DEF Connections, States, SameTransport
  <2>2. CASE conn.loose > 0 /\ conn' = [conn EXCEPT !.timer = "none", !.state = "starting",
                                                    !.loose = @ - 1]
    <3>1. conn.loose - 1 \in Nat /\ conn.loose # 0
      BY <1>1, <2>2 DEF Connections
    <3> QED BY <1>1, <2>2, <3>1 DEF Connections, States, SameTransport
  <2> QED BY <2>1, <2>2 DEF ReconnectTimerFires
<1>4. ASSUME raced = "no", Rest, Clear, job'["main"].pc = "try", job'["main"].goal = "none",
             job'["main"].own = "yes"
      PROVE  Clear' /\ Stage(job["main"])'
  <2>1. conn.timer = "armed" /\ conn'.loose = conn.loose
    BY <1>3, <1>4 DEF Clear
  <2>2. (Plain' <=> Plain) /\ (Trusted' <=> Trusted)
    BY <1>1 DEF Plain, Trusted, Undisturbed
  <2>3. Clear'
    BY <1>1, <1>2, <1>3, <1>4, <2>1, ClearKept DEF SameTransport
  <2>4. StageDial(job["main"])'
    BY <1>1, <1>3, <1>4, <2>1, <2>2
    DEF StageDial, Rest, Heard, Unmarked, Bare, SameTransport
  <2>5. Stage(job["main"])'
    BY <1>4, <2>4 DEF Stage, Failing, Shutting, Accepting, Commanding, Dialling
  <2> QED BY <2>3, <2>5
<1> QED BY <1>1, <1>2, <1>3, <1>4, StartInv DEF PCs, Dialling, SameTransport

LEMMA OffInv == IInv /\ Off => IInv'
<1> SUFFICES ASSUME IInv, Off PROVE IInv'
  OBVIOUS
<1>1. /\ count' \in Nat /\ kinds' \in SUBSET Disturbances /\ kinds \subseteq kinds'
  BY HappensFacts DEF Off, IInv, Disturbances
<1> QED BY <1>1, DisconnectStarts DEF Off

LEMMA ReconfigureInv == IInv /\ Reconfigure => IInv'
<1> SUFFICES ASSUME IInv, Reconfigure PROVE IInv'
  OBVIOUS
<1>1. /\ count' \in Nat /\ kinds' \in SUBSET Disturbances /\ kinds \subseteq kinds'
  BY HappensFacts DEF Reconfigure, IInv, Disturbances
<1>2. PICK changed \in {"same", "changed"} : BeginsDisconnect(changed)
  BY DEF Reconfigure
<1> QED BY <1>1, <1>2, DisconnectStarts DEF Reconfigure

-----------------------------------------------------------------------------
(* The network and its timers. *)

(* CONNACK, c being the connection with the stream it arrived on. *)
LEMMA ConnackInv ==
  ASSUME IInv, NEW t \in Threads, NEW on \in {"current", "other"}, Connack(t, on),
         NEW c \in Connections, conn' = c,
         c.state = conn.state, c.timer = conn.timer, c.loose = conn.loose,
         c.intended = conn.intended, c.status = conn.status, c.listens = conn.listens,
         c.connack = conn.connack, c.strays = conn.strays, c.orphans = conn.orphans,
         conn.leaked = 0 => c.leaked = 0,
         conn.leaked = 0 /\ conn.leakedUp = 0 => c.leakedUp = 0,
         conn.stream = "none" <=> c.stream = "none"
  PROVE  IInv'
<1>1. /\ count' \in Nat /\ kinds' \in SUBSET Disturbances /\ kinds' = kinds
      /\ wanted' = wanted /\ wanted \in {"on", "off"}
  BY CalmFacts DEF Connack, IInv, TypeOK
<1>2. CASE AwaitsConnack(conn)
  <2>1. Begins(t, "accept", "none", "yes", on) /\ conn.listens = "yes" /\ conn'.status # "none"
    BY <1>2 DEF Connack, AwaitsConnack
  <2>2. ASSUME raced = "no", Rest, Clear, job'[t].pc = "accept", job'[t].goal = "none",
               job'[t].own = "yes"
        PROVE  Clear' /\ Stage(job[t])'
    <3>1. Clear'
      BY <1>1, <2>1, <2>2, ClearKept
    <3>2. (Plain' <=> Plain) /\ (Trusted' <=> Trusted)
      BY <1>1 DEF Plain, Trusted, Undisturbed
    <3>3. StageAccept(job[t])'
      BY <1>1, <2>1, <2>2, <3>2 DEF StageAccept, Rest, Heard, Unmarked
    <3>4. Stage(job[t])'
      BY <2>2, <3>3 DEF Stage, Failing, Shutting, Accepting, Commanding, Dialling
    <3> QED BY <3>1, <3>4
  <2> QED BY <1>1, <2>1, <2>2, StartInv DEF PCs, Accepting
<1>3. CASE ~AwaitsConnack(conn)
  <2>1. UNCHANGED <<wanted, job, races, raced>>
    BY <1>3 DEF Connack
  <2> QED BY <1>1, <2>1, UntoldInv
<1> QED BY <1>2, <1>3

LEMMA BrokerAcceptsInv ==
  ASSUME IInv, NEW t \in Threads, BrokerAccepts(t)
  PROVE  IInv'
<1> DEFINE c == [conn EXCEPT !.stream = "up"]
<1>1. conn \in Connections /\ conn' = c /\ Connack(t, "current") /\ conn.stream = "silent"
  BY DEF BrokerAccepts, IInv, TypeOK
<1>2. /\ c \in Connections
      /\ c.state = conn.state /\ c.timer = conn.timer /\ c.loose = conn.loose
      /\ c.intended = conn.intended /\ c.stream = "up"
  BY <1>1 DEF Connections
<1>3. /\ c.status = conn.status /\ c.listens = conn.listens
      /\ c.connack = conn.connack /\ c.strays = conn.strays /\ c.orphans = conn.orphans
      /\ c.leaked = conn.leaked /\ c.leakedUp = conn.leakedUp
  BY <1>1 DEF Connections
<1> HIDE DEF c
<1> QED BY <1>1, <1>2, <1>3, ConnackInv

LEMMA BrokerAcceptsLeakedInv ==
  ASSUME IInv, NEW t \in Threads, BrokerAcceptsLeaked(t)
  PROVE  IInv'
<1> DEFINE c == [conn EXCEPT !.leaked = @ - 1, !.leakedUp = @ + 1]
<1>1. conn \in Connections /\ conn' = c /\ Connack(t, "other") /\ conn.leaked > 0
  BY DEF BrokerAcceptsLeaked, IInv, TypeOK
<1>2. conn.leaked - 1 \in Nat /\ conn.leakedUp + 1 \in Nat /\ conn.leaked # 0
  BY <1>1 DEF Connections
<1>3. /\ c \in Connections
      /\ c.state = conn.state /\ c.timer = conn.timer /\ c.loose = conn.loose
      /\ c.intended = conn.intended /\ c.stream = conn.stream
      /\ c.status = conn.status /\ c.listens = conn.listens
      /\ c.connack = conn.connack /\ c.strays = conn.strays /\ c.orphans = conn.orphans
  BY <1>1, <1>2 DEF Connections
<1> HIDE DEF c
<1> QED BY <1>1, <1>2, <1>3, ConnackInv

(* An error of the session, c being the connection without what failed, or *)
(* the end of its stream.                                                  *)
LEMMA ErrsInv ==
  ASSUME IInv, NEW t \in Threads, NEW goal \in {"none", "certificate", "ended"},
         NEW on \in {"none", "current", "other"},
         NEW pc, pc = (IF goal = "ended" THEN "starting" ELSE "arm"),
         Begins(t, pc, goal, "yes", on),
         NEW c \in Connections, conn' = Erring(c, "yes"), wanted' = wanted,
         c.state = conn.state, c.loose = conn.loose, c.intended = conn.intended,
         c.orphans = conn.orphans,
         conn.strays = 0 => c.strays = 0,
         conn.leaked = 0 => c.leaked = 0,
         conn.leaked = 0 /\ conn.leakedUp = 0 => c.leakedUp = 0,
         Rest /\ Clear /\ Plain => wanted = "on",
         count' \in Nat, kinds \subseteq kinds', kinds' \in SUBSET Disturbances,
         goal = "certificate" => ~Trusted'
  PROVE  IInv'
<1>1. /\ conn' \in Connections /\ conn'.state = c.state /\ conn'.timer = "none"
      /\ conn'.intended = c.intended /\ conn'.loose = c.loose /\ conn'.strays = c.strays
      /\ conn'.orphans = c.orphans /\ conn'.leaked = c.leaked /\ conn'.leakedUp = c.leakedUp
      /\ conn'.status = "error"
  BY ErringFields
<1>2. ASSUME raced = "no", Rest, Clear, job'[t].pc = pc, job'[t].goal = goal,
             job'[t].own = "yes"
      PROVE  Clear' /\ Stage(job[t])'
  <2>1. Clear'
    BY <1>1, <1>2, ClearKept
  <2>2. (Plain' => Plain) /\ (Trusted' => Trusted)
    BY DEF Plain, Trusted, Undisturbed
  <2>3. goal # "ended" => StageError(job[t])'
    BY <1>1, <1>2, <2>2 DEF StageError, Rest, Unmarked
  <2>4. goal = "ended" => StageShut(job[t])'
    BY <1>1, <1>2, <2>2 DEF StageShut, Rest, Unmarked
  <2>5. Stage(job[t])'
    BY <1>2, <2>3, <2>4 DEF Stage, Failing, Shutting, Accepting, Commanding, Dialling
  <2> QED BY <2>1, <2>5
<1>3. wanted' \in {"on", "off"} /\ pc \in PCs /\ pc # "idle"
  BY DEF IInv, TypeOK, PCs, Failing, Shutting
<1> QED BY <1>1, <1>2, <1>3, StartInv

(* Who listens between two handlers has a stream, and so is wanted. *)
LEMMA ListensIsWanted ==
  ASSUME IInv, conn.listens = "yes"
  PROVE  Rest /\ Clear /\ Plain => wanted = "on"
  BY DEF Rest, Heard, IInv, TypeOK

LEMMA BrokerRefusesInv ==
  ASSUME IInv, NEW t \in Threads, BrokerRefuses(t)
  PROVE  IInv'
<1>1. /\ count' \in Nat /\ kinds' \in SUBSET Disturbances /\ kinds \subseteq kinds'
  BY HappensFacts DEF BrokerRefuses, IInv, Disturbances
<1>2. PICK on \in {"current", "other"} : Begins(t, "arm", "none", "yes", on)
  BY DEF BrokerRefuses
<1>3. conn' = Erring(conn, "yes") /\ wanted' = wanted /\ conn \in Connections
  BY DEF BrokerRefuses, IInv, TypeOK
<1>4. Rest /\ Clear /\ Plain => wanted = "on"
  BY ListensIsWanted DEF BrokerRefuses
<1> QED BY <1>1, <1>2, <1>3, <1>4, ErrsInv

LEMMA BrokerRefusesEarlyInv ==
  ASSUME IInv, NEW t \in Threads, BrokerRefusesEarly(t)
  PROVE  IInv'
<1>1. /\ count' \in Nat /\ kinds' \in SUBSET Disturbances /\ kinds \subseteq kinds'
      /\ "early" \in kinds'
  BY HappensFacts DEF BrokerRefusesEarly, IInv, Disturbances
<1>2. /\ Begins(t, "arm", "early", "yes", "current")
      /\ conn' = [conn EXCEPT !.timer = "none"] /\ conn \in Connections
      /\ wanted' = wanted /\ wanted \in {"on", "off"}
      /\ conn.stream = "silent" /\ conn.status = "connecting"
  BY DEF BrokerRefusesEarly, AwaitsConnack, IInv, TypeOK
<1>3. /\ conn' \in Connections /\ conn'.timer = "none" /\ conn'.intended = conn.intended
      /\ conn'.loose = conn.loose /\ conn'.status = conn.status
      /\ conn'.stream = conn.stream /\ conn'.strays = conn.strays
      /\ conn'.orphans = conn.orphans /\ conn'.leaked = conn.leaked
      /\ conn'.leakedUp = conn.leakedUp
  BY <1>2 DEF Connections
<1>4. ASSUME raced = "no", Rest, Clear, job'[t].pc = "arm", job'[t].goal = "early",
             job'[t].own = "yes"
      PROVE  Clear' /\ Stage(job[t])'
  <2>1. Clear'
    BY <1>1, <1>2, <1>3, <1>4, ClearKept
  <2>2. ~Undisturbed' /\ ~Plain' /\ (Trusted' => Trusted)
    BY <1>1 DEF Plain, Trusted, Undisturbed
  <2>3. StageError(job[t])'
    BY <1>2, <1>3, <1>4, <2>2 DEF StageError, Rest, Unmarked, Heard
  <2>4. Stage(job[t])'
    BY <1>4, <2>3 DEF Stage, Failing, Shutting, Accepting, Commanding, Dialling
  <2> QED BY <2>1, <2>4
<1> QED BY <1>1, <1>2, <1>3, <1>4, StartInv DEF PCs, Failing

LEMMA EndsInv ==
  ASSUME IInv, NEW t \in Threads, NEW c \in Connections,
         NEW goal \in {"none", "certificate", "ended"},
         NEW on \in {"current", "other"}, Ends(t, c, goal, on), wanted' = wanted,
         c.state = conn.state, c.timer = conn.timer, c.loose = conn.loose,
         c.intended = conn.intended, c.status = conn.status, c.listens = conn.listens,
         c.connack = conn.connack, c.strays = conn.strays, c.orphans = conn.orphans,
         conn.leaked = 0 => c.leaked = 0,
         conn.leaked = 0 /\ conn.leakedUp = 0 => c.leakedUp = 0,
         conn.stream = "none" => c.stream = "none",
         count' \in Nat, kinds \subseteq kinds', kinds' \in SUBSET Disturbances,
         goal = "certificate" => ~Trusted'
  PROVE  IInv'
<1>1. CASE c.listens = "yes"
  <2>1. /\ Begins(t, IF goal = "ended" THEN "starting" ELSE "arm", goal, "yes", on)
        /\ conn' = Erring(c, "yes")
    BY <1>1 DEF Ends
  <2>2. Rest /\ Clear /\ Plain => wanted = "on"
    BY <1>1, ListensIsWanted
  <2> QED BY <2>1, <2>2, ErrsInv
<1>2. CASE c.listens # "yes"
  <2>1. conn' = c /\ UNCHANGED <<wanted, job, races, raced>>
    BY <1>2 DEF Ends
  <2> QED BY <1>2, <2>1, UntoldInv
<1> QED BY <1>1, <1>2

LEMMA WithoutStream ==
  ASSUME NEW d \in Connections
  PROVE  LET c == [d EXCEPT !.stream = "none"]
         IN  /\ c \in Connections /\ c.stream = "none"
             /\ c.state = d.state /\ c.timer = d.timer /\ c.loose = d.loose
             /\ c.intended = d.intended /\ c.status = d.status /\ c.listens = d.listens
             /\ c.connack = d.connack /\ c.strays = d.strays /\ c.orphans = d.orphans
             /\ c.leaked = d.leaked /\ c.leakedUp = d.leakedUp
  BY DEF Connections

LEMMA StreamEndsInv ==
  ASSUME IInv, NEW t \in Threads, StreamEnds(t)
  PROVE  IInv'
<1>1. /\ count' \in Nat /\ kinds' \in SUBSET Disturbances /\ kinds \subseteq kinds'
  BY HappensFacts DEF StreamEnds, IInv, Disturbances
<1>2. PICK goal \in {"none", "ended"} : Ends(t, [conn EXCEPT !.stream = "none"], goal, "current")
  BY DEF StreamEnds
<1>3. wanted' = wanted /\ conn \in Connections
  BY DEF StreamEnds, IInv, TypeOK
<1> QED BY <1>1, <1>2, <1>3, WithoutStream, EndsInv

LEMMA CertificateUnknownInv ==
  ASSUME IInv, NEW t \in Threads, CertificateUnknown(t)
  PROVE  IInv'
<1>1. /\ count' \in Nat /\ kinds' \in SUBSET Disturbances /\ kinds \subseteq kinds'
      /\ ~Trusted'
  BY HappensFacts DEF CertificateUnknown, IInv, Disturbances, Trusted
<1>2. /\ Ends(t, [conn EXCEPT !.stream = "none"], "certificate", "current")
      /\ wanted' = wanted /\ conn \in Connections
  BY DEF CertificateUnknown, IInv, TypeOK
<1> QED BY <1>1, <1>2, WithoutStream, EndsInv

LEMMA LeakedStreamEndsInv ==
  ASSUME IInv, NEW t \in Threads, LeakedStreamEnds(t)
  PROVE  IInv'
<1>1. /\ count' \in Nat /\ kinds' \in SUBSET Disturbances /\ kinds' = kinds
      /\ wanted' = wanted /\ conn \in Connections
  BY CalmFacts DEF LeakedStreamEnds, IInv, TypeOK
<1>0. PICK goal \in {"none", "ended"} :
        \/ conn.leaked > 0 /\ Ends(t, [conn EXCEPT !.leaked = @ - 1], goal, "other")
        \/ conn.leakedUp > 0 /\ Ends(t, [conn EXCEPT !.leakedUp = @ - 1], goal, "other")
  BY DEF LeakedStreamEnds
<1>2. CASE conn.leaked > 0 /\ Ends(t, [conn EXCEPT !.leaked = @ - 1], goal, "other")
  <2> DEFINE c == [conn EXCEPT !.leaked = @ - 1]
  <2>1. conn.leaked - 1 \in Nat /\ conn.leaked # 0
    BY <1>1, <1>2 DEF Connections
  <2>2. /\ c \in Connections /\ c.stream = conn.stream
        /\ c.state = conn.state /\ c.timer = conn.timer /\ c.loose = conn.loose
        /\ c.intended = conn.intended /\ c.status = conn.status
        /\ c.listens = conn.listens /\ c.connack = conn.connack
        /\ c.strays = conn.strays /\ c.orphans = conn.orphans
        /\ c.leakedUp = conn.leakedUp
    BY <1>1, <2>1 DEF Connections
  <2>3. Ends(t, c, goal, "other")
    BY <1>2
  <2> HIDE DEF c
  <2> QED BY <1>1, <2>1, <2>2, <2>3, EndsInv
<1>3. CASE conn.leakedUp > 0 /\ Ends(t, [conn EXCEPT !.leakedUp = @ - 1], goal, "other")
  <2> DEFINE c == [conn EXCEPT !.leakedUp = @ - 1]
  <2>1. conn.leakedUp - 1 \in Nat /\ conn.leakedUp # 0
    BY <1>1, <1>3 DEF Connections
  <2>2. /\ c \in Connections /\ c.stream = conn.stream
        /\ c.state = conn.state /\ c.timer = conn.timer /\ c.loose = conn.loose
        /\ c.intended = conn.intended /\ c.status = conn.status
        /\ c.listens = conn.listens /\ c.connack = conn.connack
        /\ c.strays = conn.strays /\ c.orphans = conn.orphans
        /\ c.leaked = conn.leaked
    BY <1>1, <2>1 DEF Connections
  <2>3. Ends(t, c, goal, "other")
    BY <1>3
  <2> HIDE DEF c
  <2> QED BY <1>1, <2>1, <2>2, <2>3, EndsInv
<1> QED BY <1>0, <1>2, <1>3

LEMMA GhostEndsInv ==
  ASSUME IInv, NEW t \in Threads, GhostEnds(t)
  PROVE  IInv'
<1> DEFINE c == [conn EXCEPT !.ghosts = @ - 1]
<1>1. /\ count' \in Nat /\ kinds' \in SUBSET Disturbances /\ kinds' = kinds
      /\ wanted' = wanted /\ conn \in Connections /\ conn.ghosts > 0
  BY CalmFacts DEF GhostEnds, IInv, TypeOK
<1>2. PICK goal \in {"none", "ended"} : Ends(t, c, goal, "other")
  BY DEF GhostEnds
<1>3. conn.ghosts - 1 \in Nat
  BY <1>1 DEF Connections
<1>4. /\ c \in Connections /\ c.stream = conn.stream
      /\ c.state = conn.state /\ c.timer = conn.timer /\ c.loose = conn.loose
      /\ c.intended = conn.intended /\ c.status = conn.status
      /\ c.listens = conn.listens /\ c.connack = conn.connack
      /\ c.strays = conn.strays /\ c.orphans = conn.orphans
      /\ c.leaked = conn.leaked /\ c.leakedUp = conn.leakedUp
  BY <1>1, <1>3 DEF Connections
<1> HIDE DEF c
<1> QED BY <1>1, <1>2, <1>4, EndsInv

LEMMA ConnackTimeoutInv == IInv /\ ConnackTimeout => IInv'
<1> SUFFICES ASSUME IInv, ConnackTimeout PROVE IInv'
  OBVIOUS
<1> DEFINE c == [conn EXCEPT !.connack = "none"]
<1>1. /\ count' \in Nat /\ kinds' \in SUBSET Disturbances /\ kinds \subseteq kinds'
  BY HappensFacts DEF ConnackTimeout, IInv, Disturbances
<1>2. /\ Begins("main", "arm", "none", "yes", "none") /\ "main" \in Threads
      /\ conn' = Erring(c, "yes") /\ conn.connack = "armed" /\ wanted' = wanted
      /\ conn \in Connections /\ wanted \in {"on", "off"}
  BY DEF ConnackTimeout, Threads, IInv, TypeOK
<1>3. /\ c \in Connections
      /\ c.state = conn.state /\ c.loose = conn.loose /\ c.intended = conn.intended
      /\ c.strays = conn.strays /\ c.orphans = conn.orphans
      /\ c.leaked = conn.leaked /\ c.leakedUp = conn.leakedUp
  BY <1>2 DEF Connections
<1>4. Rest /\ Clear /\ Plain => wanted = "on"
  BY <1>2 DEF Rest, Bare
<1> HIDE DEF c
<1> QED BY <1>1, <1>2, <1>3, <1>4, ErrsInv

LEMMA StrayTimeoutInv == IInv /\ StrayTimeout => IInv'
<1> SUFFICES ASSUME IInv, StrayTimeout PROVE IInv'
  OBVIOUS
<1> DEFINE c == [conn EXCEPT !.strays = @ - 1]
<1>1. /\ count' \in Nat /\ kinds' \in SUBSET Disturbances /\ kinds' = kinds
      /\ wanted' = wanted /\ conn \in Connections /\ conn.strays > 0
      /\ conn' = Erring(c, "yes")
      /\ Begins("main", "arm", "none", "yes", "none") /\ "main" \in Threads
  BY CalmFacts DEF StrayTimeout, Threads, IInv, TypeOK
<1>2. conn.strays - 1 \in Nat /\ conn.strays # 0
  BY <1>1 DEF Connections
<1>3. /\ c \in Connections
      /\ c.state = conn.state /\ c.loose = conn.loose /\ c.intended = conn.intended
      /\ c.orphans = conn.orphans
      /\ c.leaked = conn.leaked /\ c.leakedUp = conn.leakedUp
  BY <1>1, <1>2 DEF Connections
<1>4. Clear => ~Plain
  BY <1>2 DEF Clear
<1> HIDE DEF c
<1> QED BY <1>1, <1>2, <1>3, <1>4, ErrsInv

LEMMA OrphanTimeoutInv == IInv /\ OrphanTimeout => IInv'
<1> SUFFICES ASSUME IInv, OrphanTimeout PROVE IInv'
  OBVIOUS
<1> DEFINE c == [conn EXCEPT !.orphans = @ - 1]
<1>1. /\ count' \in Nat /\ kinds' \in SUBSET Disturbances /\ kinds' = kinds
      /\ wanted' = wanted /\ wanted \in {"on", "off"} /\ conn \in Connections
      /\ conn.orphans > 0 /\ conn' = Erring(c, "no")
      /\ Begins("main", "arm", "none", "no", "none") /\ "main" \in Threads
  BY CalmFacts DEF OrphanTimeout, Threads, IInv, TypeOK
<1>2. conn.orphans - 1 \in Nat /\ conn.orphans # 0
  BY <1>1 DEF Connections
<1>3. /\ c \in Connections
      /\ c.state = conn.state /\ c.loose = conn.loose /\ c.intended = conn.intended
      /\ c.status = conn.status /\ c.listens = conn.listens /\ c.stream = conn.stream
      /\ c.connack = conn.connack /\ c.strays = conn.strays
      /\ c.leaked = conn.leaked /\ c.leakedUp = conn.leakedUp
  BY <1>1, <1>2 DEF Connections
<1> HIDE DEF c
<1>4. /\ conn' \in Connections /\ conn'.timer = "none"
      /\ conn'.intended = conn.intended /\ conn'.loose = conn.loose
      /\ conn'.status = conn.status /\ conn'.listens = conn.listens
      /\ conn'.stream = conn.stream /\ conn'.connack = conn.connack
      /\ conn'.strays = conn.strays
      /\ conn'.leaked = conn.leaked /\ conn'.leakedUp = conn.leakedUp
  BY <1>1, <1>3, ErringFields
<1>5. ASSUME raced = "no", Rest, Clear, job'["main"].pc = "arm", job'["main"].goal = "none",
             job'["main"].own = "no"
      PROVE  Clear' /\ Stage(job["main"])'
  <2>1. ~Plain /\ ~Plain' /\ (Trusted' <=> Trusted)
    BY <1>1, <1>2, <1>5 DEF Clear, Plain, Trusted, Undisturbed
  <2>2. Clear'
    BY <1>4, <1>5, <2>1 DEF Clear
  <2>3. StageError(job["main"])'
    BY <1>4, <1>5, <2>1 DEF StageError, Rest, Unmarked, Heard
  <2>4. Stage(job["main"])'
    BY <1>5, <2>3 DEF Stage, Failing, Shutting, Accepting, Commanding, Dialling
  <2> QED BY <2>2, <2>4
<1> QED BY <1>1, <1>4, <1>5, StartInv DEF PCs, Failing

-----------------------------------------------------------------------------
LEMMA InitInv == Init => IInv
<1> SUFFICES ASSUME Init PROVE IInv
  OBVIOUS
<1>1. TypeOK
  <2>1. conn \in Connections
    BY DEF Init, Connections, States, Statuses
  <2>2. job \in [Threads -> Jobs]
    BY DEF Init, Idle, Jobs, Dialling
  <2> QED BY <2>1, <2>2 DEF Init, TypeOK
<1>2. /\ "main" \in Threads
      /\ job["main"].pc = "try" /\ job["main"].goal = "none" /\ job["main"].own = "yes"
      /\ \A t \in Threads \ {"main"} : job[t].pc = "idle" /\ job[t].goal = "none"
  BY DEF Init, Idle, Threads
<1>3. Histories
  BY <1>2 DEF Init, Histories
<1>4. NoSession
  BY DEF Init, NoSession
<1>5. Serial
  <2>1. Clear
    BY DEF Init, Clear
  <2>2. Solo
    BY <1>2 DEF Solo
  <2>3. Stage(job["main"])
    BY <1>2 DEF Init, Stage, StageDial, Heard, Unmarked, Bare, Failing, Shutting,
       Accepting, Commanding, Dialling
  <2>4. \A t \in Threads \ {"main"} : Stage(job[t])
    BY <1>2 DEF Stage, Failing, Shutting, Accepting, Commanding, Dialling
  <2> QED BY <1>2, <2>1, <2>2, <2>3, <2>4 DEF Serial
<1> QED BY <1>1, <1>3, <1>4, <1>5 DEF IInv

LEMMA NextInv == IInv /\ [Next]_vars => IInv'
<1> SUFFICES ASSUME IInv, [Next]_vars PROVE IInv'
  OBVIOUS
<1>1. ASSUME NEW t \in Threads, Step(t)
      PROVE  IInv'
  BY <1>1, ArmsTimerInv, ShowsErrorInv, DetachesInv, ShutsInv, ShowsStartingInv, RearmsInv,
     AcceptsInv, ShowsConnectedInv, ClosesInv, LooksInv, StopsTimerInv, RenewsInv, TriesInv,
     DialsInv, ListensInv, OpensInv, UncleansInv
  DEF Step
<1>2. ASSUME NEW t \in Workers, Network(t)
      PROVE  IInv'
  <2>1. t \in Threads
    BY DEF Threads
  <2> QED BY <1>2, <2>1, BrokerAcceptsInv, BrokerAcceptsLeakedInv, BrokerRefusesInv,
             BrokerRefusesEarlyInv, StreamEndsInv, LeakedStreamEndsInv, GhostEndsInv,
             CertificateUnknownInv
          DEF Network
<1>3. CASE UNCHANGED vars
  BY <1>3 DEF vars, IInv, TypeOK, Histories, NoSession, Sessionless, Serial, Clear, Solo,
     Stage, StageError, StageShut, StageAccept, StageCommand, StageDial, Rest, Bare, Heard,
     Unmarked, Plain, Trusted, Undisturbed
<1> QED BY <1>1, <1>2, <1>3, ConnectToLastInv, ReconnectTimerFiresInv, OffInv,
           ReconfigureInv, ConnackTimeoutInv, StrayTimeoutInv, OrphanTimeoutInv
        DEF Next

THEOREM Invariance == SafeSpec => []IInv
  BY InitInv, NextInv, PTL DEF SafeSpec

(* The connection and what its threads are doing stay what the types say.  *)
THEOREM TypeCorrect == SafeSpec => []TypeOK
<1>1. IInv => TypeOK
  BY DEF IInv
<1> QED BY <1>1, Invariance, PTL

LEMMA SettledFacts ==
  ASSUME IInv, Settled
  PROVE  Rest
  BY DEF IInv, Serial, Settled

(* However many errors, ends, timeouts and commands there are, between two *)
(* handlers a timer is armed or an attempt with its timeout is under way,  *)
(* unless the connection is up or not wanted: as long as handlers of two   *)
(* threads do not overlap, and again after a disconnect that runs alone.   *)
THEOREM AlwaysLeadsOn == SafeSpec => []NeverWedged
<1>1. IInv => NeverWedged
  BY SettledFacts DEF NeverWedged, Rest, Trusted
<1> QED BY <1>1, Invariance, PTL

(* state_connected between two handlers means a connected session and an   *)
(* open stream, with the same exception.                                   *)
THEOREM ConnectedIsTrue == SafeSpec => []ConnectedMeansConnected
<1>1. IInv => ConnectedMeansConnected
  BY SettledFacts DEF ConnectedMeansConnected, Rest, Heard
<1> QED BY <1>1, Invariance, PTL

(* Attempts made one at a time leave no stream and no timer behind.        *)
THEOREM LeavesNothing == SafeSpec => []NothingLeftBehind
<1>1. IInv => NothingLeftBehind
  BY DEF NothingLeftBehind, IInv, TypeOK, Histories, Serial, Clear, Plain, Trusted
<1> QED BY <1>1, Invariance, PTL

(* After disconnect there is no timer and no stream until a new command,   *)
(* with the exception of the first of these theorems.                      *)
THEOREM StaysOff == SafeSpec => []OffMeansOff
<1>1. IInv => OffMeansOff
  BY SettledFacts DEF OffMeansOff, Rest, Plain, Trusted
<1> QED BY <1>1, Invariance, PTL
=============================================================================
