-------------------------- MODULE MqttFlows_proofs --------------------------
(***************************************************************************)
(* Proofs about MqttFlows for every number of messages, every window, any  *)
(* streams and any number of disturbances.                                 *)
(***************************************************************************)
EXTENDS MqttFlows, TLAPS, SequenceTheorems, FiniteSetTheorems, WellFoundedInduction

(***************************************************************************)
(* The inductive invariant.                                                *)
(***************************************************************************)

Storing == {"decide", "storepub", "storenone"}
Sending == Storing \union {"send"}
Counted == {"storepub", "scan", "marknew", "markagain"}

(* A message and an id are given out once: nothing that is about to be     *)
(* stored is stored, done or in the hands of another thread.               *)
Named ==
  /\ IsFiniteSet(flows)
  /\ txMsgId <= called
  /\ \A m \in done : m <= called
  /\ \A f \in flows : f.m <= called /\ f.id <= called /\ f.m \notin done
  /\ \A f, g \in flows : f.m = g.m \/ f.id = g.id => f = g
  /\ \A t \in Threads : job[t].m <= called
  /\ \A t \in Threads : job[t].pc \in Storing =>
       /\ job[t].m # 0 /\ job[t].m \notin done
       /\ job[t].id # 0 /\ job[t].id <= txMsgId
       /\ \A f \in flows : f.m # job[t].m /\ f.id # job[t].id
       /\ \A u \in Threads \ {t} : job[u].m # job[t].m
       /\ \A u \in Threads \ {t} : job[u].pc \in Storing => job[u].id # job[t].id
  /\ \A t \in Threads : job[t].pc = "send" => job[t].m # 0 /\ job[t].id # 0

(* The id of a message is its number, counted from message b on.           *)
Numbered(b) ==
  /\ txMsgId + b = called
  /\ \A f \in flows : f.id + b = f.m
  /\ \A t \in Threads : job[t].pc \in Sending => job[t].id + b = job[t].m
  /\ \A i \in DOMAIN wire : wire[i].id + b = wire[i].m
  /\ \A i \in DOMAIN acks : acks[i] + b \in received

(* Until the first restart ids are numbers: a session that starts afresh   *)
(* counts from zero again, and nothing of the one before is left.          *)
Same ==
  count["crash"] = 0 =>
    /\ link = "down" => wire = <<>> /\ acks = <<>>
    /\ \E b \in 0..called : Numbered(b)

Pending(F)   == {f.m : f \in F}
Published(F) == Cardinality({f \in F : f.cmd = "publish"})

(* What a thread between its look at the window and its mark has seen.     *)
Sees(r, F) ==
  /\ r.pc = "storepub" => Published(F) < WindowSize
  /\ r.pc \in {"scan", "marknew", "markagain"} => Published(F) <= r.size
  /\ r.pc = "marknew" => r.size < WindowSize
  /\ r.pc = "markagain" => \A f \in F : f.m = r.m => f.cmd = "publish"

(* While no two threads have looked at the window together, one at most is *)
(* between its look and its mark, and what it has seen is not too little.  *)
Window ==
  crowded = "no" =>
    /\ Published(flows) <= WindowSize
    /\ \A t, u \in Threads : job[t].pc \in Counted /\ job[u].pc \in Counted => t = u
    /\ \A t \in Threads : Sees(job[t], flows)

(* The broker knows the alias, or will when w has been delivered.          *)
Tells(w) == known = "yes" \/ \E i \in DOMAIN w : w[i].form = "topic"

(* No alias in w is ahead of its topic.                                    *)
Ordered(w) == \A i \in DOMAIN w : w[i].form = "empty" =>
                known = "yes" \/ \E j \in 1..(i - 1) : w[j].form = "topic"

(* Aliases belong to MQTT 5. Until one is rushed, an alias that is in use  *)
(* has been told to the broker of this very connection, or the thread that *)
(* took the topic is still on its way.                                     *)
Told ==
  /\ peer = "open" => link = "up"
  /\ peer = "gone" => wire = <<>>
  /\ maximum = "unknown" => registered = "no"
  /\ \A t \in Threads : job[t].form = "empty" => version = 5
  /\ \A i \in DOMAIN wire : wire[i].form = "empty" => version = 5
  /\ rushed = "no" =>
       /\ link = "down" => \A t \in Threads : job[t].form = "topic"
       /\ Ordered(wire)
       /\ peer = "open" =>
            /\ (\E t \in Threads : job[t].form = "empty") => Tells(wire)
            /\ registered = "yes" => Tells(wire) \/ \E t \in Threads : Owes(t)

(***************************************************************************)
(* Lemmas about the operators.                                             *)
(***************************************************************************)

LEMMA LeastNat ==
  ASSUME NEW T, T \subseteq Nat, T # {}
  PROVE  \E n \in T : \A k \in T : n <= k
<1>1. PICK n \in T : \A k \in T : ~ (<<k, n>> \in OpToRel(<, Nat))
  BY NatLessThanWellFounded, WFMin, Zenon
<1>2. \A k \in T : ~ (k < n)
  BY <1>1 DEF OpToRel
<1> QED BY <1>2

LEMMA FlowIs ==
  ASSUME NEW m, Stored(m)
  PROVE  FlowOf(m) \in flows /\ FlowOf(m).m = m
BY DEF Stored, FlowOf

(* nextMsgId finds an id that no flow has, and no higher one than needed. *)
LEMMA NextIdFree ==
  ASSUME TypeOK, Named, called < Messages
  PROVE  /\ NextMsgId \in Ids /\ txMsgId < NextMsgId /\ NextMsgId <= called + 1
         /\ \A f \in flows : f.id # NextMsgId
         /\ (\A f \in flows : f.id <= txMsgId) => NextMsgId = txMsgId + 1
<1> DEFINE Free == {n \in Nat : txMsgId < n /\ \A f \in flows : f.id # n}
<1>1. /\ Messages \in Nat /\ txMsgId \in Nat /\ called \in Nat /\ txMsgId <= called
      /\ \A f \in flows : f.id \in Nat /\ f.id <= called
  BY SizesAssumption DEF TypeOK, Named, Ids, Flows
<1>2. called + 1 \in Free
  BY <1>1
<1>3. PICK n \in Free : \A k \in Free : n <= k
  BY <1>2, LeastNat
<1>4. /\ n \in (txMsgId + 1)..(txMsgId + 1 + Messages)
      /\ \A f \in flows : f.id # n
      /\ \A k \in (txMsgId + 1)..(n - 1) : \E f \in flows : f.id = k
  <2>1. n <= called + 1 /\ n \in Nat /\ txMsgId < n
    BY <1>2, <1>3
  <2>2. ASSUME NEW k \in (txMsgId + 1)..(n - 1) PROVE \E f \in flows : f.id = k
    <3>1. k \in Nat /\ txMsgId < k /\ ~ (n <= k)
      BY <1>1, <2>1
    <3> QED BY <1>3, <3>1
  <2>3. n \in (txMsgId + 1)..(txMsgId + 1 + Messages)
    BY <1>1, <2>1
  <2> QED BY <1>3, <2>2, <2>3
<1> DEFINE x == NextMsgId
<1>5. /\ x \in (txMsgId + 1)..(txMsgId + 1 + Messages)
      /\ \A f \in flows : f.id # x
      /\ \A k \in (txMsgId + 1)..(x - 1) : \E f \in flows : f.id = k
  BY <1>4 DEF NextMsgId
<1> HIDE DEF x, Free
<1>6. x \in Nat /\ txMsgId < x
  BY <1>1, <1>5
<1>7. x <= called + 1
  <2> SUFFICES ASSUME ~ (x <= called + 1) PROVE FALSE
    OBVIOUS
  <2>1. called + 1 \in (txMsgId + 1)..(x - 1)
    BY <1>1, <1>6
  <2>2. PICK f \in flows : f.id = called + 1
    BY <1>5, <2>1
  <2> QED BY <1>1, <2>2
<1>8. x \in Ids
  BY <1>1, <1>6, <1>7 DEF Ids
<1>9. ASSUME \A f \in flows : f.id <= txMsgId PROVE x = txMsgId + 1
  <2> SUFFICES ASSUME txMsgId + 1 < x PROVE FALSE
    BY <1>1, <1>6
  <2>1. txMsgId + 1 \in (txMsgId + 1)..(x - 1)
    BY <1>1, <1>6
  <2>2. PICK f \in flows : f.id = txMsgId + 1
    BY <1>5, <2>1
  <2> QED BY <1>1, <1>9, <2>2
<1> QED BY <1>5, <1>6, <1>7, <1>8, <1>9 DEF x

LEMMA TailType ==
  ASSUME NEW S, NEW q \in Seq(S), q # <<>>
  PROVE  /\ Head(q) \in S /\ Head(q) = q[1] /\ 1 \in DOMAIN q
         /\ Tail(q) \in Seq(S)
         /\ \A i \in DOMAIN Tail(q) : i \in Nat /\ i + 1 \in DOMAIN q /\ Tail(q)[i] = q[i + 1]
<1>1. /\ Head(q) \in S /\ Tail(q) \in Seq(S) /\ Len(Tail(q)) = Len(q) - 1
      /\ \A i \in 1..Len(q) - 1 : Tail(q)[i] = q[i + 1]
      /\ Head(q) = q[1]
  BY HeadTailProperties
<1>2. DOMAIN q = 1..Len(q) /\ DOMAIN Tail(q) = 1..Len(Tail(q)) /\ Len(q) \in Nat /\ Len(q) # 0
  BY <1>1, LenProperties, EmptySeq
<1> QED BY <1>1, <1>2

LEMMA AppendType ==
  ASSUME NEW S, NEW q \in Seq(S), NEW e \in S
  PROVE  /\ Append(q, e) \in Seq(S)
         /\ Len(q) \in Nat /\ DOMAIN q = 1..Len(q)
         /\ DOMAIN Append(q, e) = 1..Len(q) + 1
         /\ \A i \in DOMAIN q : Append(q, e)[i] = q[i]
         /\ Append(q, e)[Len(q) + 1] = e
<1>1. /\ Append(q, e) \in Seq(S) /\ Len(Append(q, e)) = Len(q) + 1
      /\ \A i \in 1..Len(q) : Append(q, e)[i] = q[i]
      /\ Append(q, e)[Len(q) + 1] = e
  BY AppendProperties
<1>2. DOMAIN q = 1..Len(q) /\ DOMAIN Append(q, e) = 1..Len(Append(q, e)) /\ Len(q) \in Nat
  BY <1>1, LenProperties
<1> QED BY <1>1, <1>2

LEMMA EmptyType ==
  ASSUME NEW S
  PROVE  <<>> \in Seq(S) /\ DOMAIN <<>> = {}
BY EmptySeq

-----------------------------------------------------------------------------
(* Type correctness. *)

LEMMA InitType == Init => TypeOK
<1> SUFFICES ASSUME Init PROVE TypeOK
  OBVIOUS
<1>1. wire \in Seq(Packets) /\ acks \in Seq(Ids)
  BY EmptyType DEF Init
<1>2. Idle \in Jobs
  BY SizesAssumption DEF Idle, Jobs, Pcs, Forms
<1>3. job \in [Threads -> Jobs]
  BY <1>2 DEF Init
<1>4. stream \in Streams \union {None} /\ (link = "up" <=> stream # None)
  BY DEF Init
<1>5. count \in [Disturbances -> 0..Limit] /\ called \in 0..Messages
  BY SizesAssumption DEF Init
<1> QED BY <1>1, <1>3, <1>4, <1>5 DEF Init, TypeOK

LEMMA HappensType ==
  ASSUME TypeOK, NEW d \in Disturbances, Happens(d)
  PROVE  /\ count' \in [Disturbances -> 0..Limit]
         /\ \A e \in Disturbances : count'[e] = IF e = d THEN count[e] + 1 ELSE count[e]
<1>1. /\ Limit \in Nat /\ \A e \in Disturbances : count[e] \in Nat /\ count[e] <= Limit
      /\ count' = [count EXCEPT ![d] = @ + 1]
      /\ count \in [Disturbances -> 0..Limit]
  BY SizesAssumption DEF TypeOK, Happens
<1>2. count["down"] + count["forget"] + count["clean"] + count["crash"] + count["late"] < Limit
  BY DEF Happens, Happened
<1>3. /\ count["down"] \in Nat /\ count["forget"] \in Nat /\ count["clean"] \in Nat
      /\ count["crash"] \in Nat /\ count["late"] \in Nat
  BY <1>1 DEF Disturbances
<1>4. /\ count["down"] < Limit /\ count["forget"] < Limit /\ count["clean"] < Limit
      /\ count["crash"] < Limit /\ count["late"] < Limit
  BY <1>1, <1>2, <1>3
<1>5. count[d] < Limit
  BY <1>4 DEF Disturbances
<1>6. count[d] + 1 \in 0..Limit
  BY <1>1, <1>5
<1> QED BY <1>1, <1>6

LEMMA IdleType == Idle \in Jobs /\ Idle.pc = "idle" /\ Idle.m = 0 /\ Idle.form = "topic"
  BY SizesAssumption DEF Idle, Jobs, Pcs, Forms

(* A check that has just begun. *)
IsCheck(r, x, y) == /\ r \in Jobs /\ r.pc = "scan" /\ r.m = 0 /\ r.form = "topic"
                    /\ r.todo = x /\ r.size = y

LEMMA CheckIs ==
  ASSUME NEW x \in SUBSET Numbers, NEW y \in Nat
  PROVE  /\ IsCheck([Idle EXCEPT !.pc = "scan", !.todo = x, !.size = y], x, y)
         /\ \A r \in Jobs : r.pc = "scan" /\ r.m = 0 /\ r.form = "topic" =>
              IsCheck([r EXCEPT !.todo = x, !.size = y], x, y)
<1>1. ASSUME NEW r \in Jobs, r.m = 0, r.form = "topic"
      PROVE  IsCheck([r EXCEPT !.pc = "scan", !.todo = x, !.size = y], x, y)
  BY <1>1 DEF IsCheck, Jobs, Pcs
<1>2. ASSUME NEW r \in Jobs, r.m = 0, r.form = "topic", r.pc = "scan"
      PROVE  IsCheck([r EXCEPT !.todo = x, !.size = y], x, y)
  BY <1>2 DEF IsCheck, Jobs, Pcs
<1> QED BY <1>1, <1>2, IdleType

LEMMA ScanType ==
  ASSUME NEW F, F \subseteq Flows, IsFiniteSet(F)
  PROVE  Pending(F) \in SUBSET Numbers /\ Published(F) \in Nat
  BY FS_Subset, FS_CardinalityType DEF Flows, Pending, Published

LEMMA ScanIs ==
  ASSUME TypeOK, Named
  PROVE  IsCheck(Scan, Pending(flows), Published(flows))
<1> DEFINE x == Pending(flows)
           y == Published(flows)
<1>1. Scan = [Idle EXCEPT !.pc = "scan", !.todo = x, !.size = y]
  BY DEF Scan, Pending, Published, InFlight
<1>2. x \in SUBSET Numbers /\ y \in Nat
  BY ScanType DEF TypeOK, Named
<1> HIDE DEF x, y
<1>3. IsCheck(Scan, x, y)
  BY <1>1, <1>2, CheckIs
<1> QED BY <1>3 DEF x, y

LEMMA EncodeType ==
  ASSUME TypeOK, NEW id \in Ids, NEW m \in Numbers, NEW form \in Forms, Encode(id, m, form)
  PROVE  wire' \in Seq(Packets)
<1>1. [id |-> id, m |-> m, form |-> form] \in Packets
  BY DEF Packets
<1> QED BY <1>1, AppendType DEF Encode, TypeOK

LEMMA ChangeType ==
  ASSUME TypeOK, NEW m \in Numbers, NEW f \in Flows, f.due = "never" => version = 5,
         Change(m, f)
  PROVE  flows' \subseteq Flows /\ \A g \in flows' : g.due = "never" => version = 5
BY DEF Change, TypeOK

(* What the steps of a check make of the record of their thread, and of    *)
(* the flow of their message.                                              *)
IsMark(r, o, m) == /\ r \in Jobs /\ r.pc \in {"marknew", "markagain"} /\ r.m = m
                   /\ r.form = o.form /\ r.size = o.size /\ r.id = o.id
                   /\ r.pc = IF FlowOf(m).cmd = "none" THEN "marknew" ELSE "markagain"

LEMMA ResendJob ==
  ASSUME TypeOK, NEW t \in Threads, NEW m \in job[t].todo, Resend(t, m)
  PROVE  /\ job' \in [Threads -> Jobs]
         /\ IsMark(job'[t], job[t], m)
         /\ \A u \in Threads \ {t} : job'[u] = job[u]
<1> DEFINE p == IF FlowOf(m).cmd = "none" THEN "marknew" ELSE "markagain"
<1> DEFINE o == job[t]
           x == job[t].todo \ {m}
<1>1. o \in Jobs /\ x \in SUBSET Numbers /\ m \in Numbers /\ p \in {"marknew", "markagain"}
  BY DEF TypeOK, Jobs
<1> DEFINE r == [o EXCEPT !.pc = p, !.m = m, !.todo = x]
<1>2. job' = [job EXCEPT ![t] = r]
  BY DEF Resend
<1> HIDE DEF p, o, x
<1>3. m \in 0..Messages /\ p \in Pcs
  BY <1>1, SizesAssumption DEF Pcs, Numbers
<1>6. /\ r \in Jobs /\ r.pc = p /\ r.m = m
      /\ r.form = o.form /\ r.size = o.size /\ r.id = o.id
  BY <1>1, <1>3 DEF Jobs
<1> HIDE DEF r
<1>5. job' \in [Threads -> Jobs] /\ job'[t] = r /\ \A u \in Threads \ {t} : job'[u] = job[u]
  BY <1>2, <1>6 DEF TypeOK
<1> QED BY <1>1, <1>5, <1>6 DEF IsMark, p, o

IsMarked(f, m) ==
  Stored(m) => /\ f \in Flows /\ f.m = FlowOf(m).m /\ f.id = FlowOf(m).id
               /\ f.cmd = "publish" /\ (f.due = "never" => version = 5)

LEMMA MarkFlow ==
  ASSUME TypeOK, NEW t \in Threads, Mark(t)
  PROVE  \E f : /\ IsMarked(f, job[t].m)
                /\ (Stored(job[t].m) => Change(job[t].m, f))
                /\ (~ Stored(job[t].m) => flows' = flows)
<1> DEFINE m == job[t].m
           d == IF job[t].pc = "marknew" THEN Deadline ELSE "later"
           f == [FlowOf(m) EXCEPT !.cmd = "publish", !.due = d]
<1>1. Stored(m) => FlowOf(m) \in Flows
  BY FlowIs DEF TypeOK
<1>2. d \in {"never", "later"} /\ (d = "never" => version = 5)
  BY DEF Deadline
<1>3. IF Stored(m) THEN Change(m, f) ELSE flows' = flows
  BY DEF Mark
<1> HIDE DEF d, m
<1>4. IsMarked(f, m)
  BY <1>1, <1>2 DEF IsMarked, Flows
<1> HIDE DEF f
<1> QED BY <1>3, <1>4 DEF m

LEMMA MarkJob ==
  ASSUME TypeOK, NEW t \in Threads, Mark(t)
  PROVE  /\ job' \in [Threads -> Jobs]
         /\ job'[t].pc = "scan" /\ job'[t].m = 0 /\ job'[t].form = job[t].form
         /\ job'[t].size = IF job[t].pc = "marknew" THEN job[t].size + 1 ELSE job[t].size
         /\ \A u \in Threads \ {t} : job'[u] = job[u]
<1> DEFINE n == IF job[t].pc = "marknew" THEN job[t].size + 1 ELSE job[t].size
           o == job[t]
           r == [o EXCEPT !.pc = "scan", !.m = 0, !.size = n]
<1>1. o \in Jobs /\ n \in Nat
  BY DEF TypeOK, Jobs
<1>2. job' = [job EXCEPT ![t] = r]
  BY DEF Mark
<1>3. n = IF job[t].pc = "marknew" THEN job[t].size + 1 ELSE job[t].size
  OBVIOUS
<1> HIDE DEF n, o
<1>6. 0 \in 0..Messages /\ "scan" \in Pcs
  BY SizesAssumption DEF Pcs
<1>4. r \in Jobs /\ r.pc = "scan" /\ r.m = 0 /\ r.form = o.form /\ r.size = n
  BY <1>1, <1>6 DEF Jobs
<1> HIDE DEF r
<1>5. job' \in [Threads -> Jobs] /\ job'[t] = r /\ \A u \in Threads \ {t} : job'[u] = job[u]
  BY <1>2, <1>4 DEF TypeOK
<1> QED BY <1>3, <1>4, <1>5 DEF o

LEMMA LinkUpJob ==
  ASSUME TypeOK, Named, NEW s \in Streams, NEW present \in BOOLEAN, LinkUp(s, present)
  PROVE  /\ job' \in [Threads -> Jobs]
         /\ flows' \subseteq flows
         /\ IsCheck(job'[s], Pending(flows'), Published(flows'))
         /\ \A u \in Threads \ {s} : job'[u] = job[u]
<1> DEFINE x == Pending(flows')
           y == Published(flows')
           r == [Scan EXCEPT !.todo = x, !.size = y]
<1>1. flows' \subseteq flows
  BY DEF LinkUp, Waiting
<1>2. job' = [job EXCEPT ![s] = r]
  BY DEF LinkUp, Pending, Published
<1>3. x \in SUBSET Numbers /\ y \in Nat
  BY <1>1, ScanType, FS_Subset DEF Named, TypeOK
<1> DEFINE o == Scan
<1>4. o \in Jobs /\ o.pc = "scan" /\ o.m = 0 /\ o.form = "topic"
  BY ScanIs DEF IsCheck
<1>5. r = [o EXCEPT !.todo = x, !.size = y]
  OBVIOUS
<1> HIDE DEF x, y, r, o
<1>6. IsCheck(r, x, y)
  BY <1>3, <1>4, <1>5, CheckIs
<1>7. s \in Threads /\ r \in Jobs
  BY <1>6 DEF IsCheck, Threads
<1>8. job' \in [Threads -> Jobs] /\ job'[s] = r /\ \A u \in Threads \ {s} : job'[u] = job[u]
  BY <1>2, <1>7 DEF TypeOK
<1> QED BY <1>1, <1>6, <1>8 DEF x, y

LEMMA NextType == TypeOK /\ Named /\ [Next]_vars => TypeOK'
<1> SUFFICES ASSUME TypeOK, Named, [Next]_vars PROVE TypeOK'
  OBVIOUS
<1> USE DEF TypeOK
<1>1. \A t \in Threads : /\ job[t] \in Jobs /\ job[t].pc \in Pcs /\ job[t].m \in 0..Messages
                         /\ job[t].id \in {0} \union Ids /\ job[t].form \in Forms
                         /\ job[t].todo \subseteq Numbers /\ job[t].size \in Nat
  BY DEF Jobs
<1>2. ASSUME NEW t \in Threads, NEW r \in Jobs, job' = [job EXCEPT ![t] = r]
      PROVE  job' \in [Threads -> Jobs]
  BY <1>2
<1>3. \A m : Stored(m) => /\ FlowOf(m) \in Flows /\ FlowOf(m).m = m /\ m \in Numbers
                          /\ FlowOf(m).id \in Ids
                          /\ (FlowOf(m).due = "never" => version = 5)
  BY FlowIs DEF Flows
<1>4. Deadline \in {"never", "later"} /\ (Deadline = "never" => version = 5)
  BY DEF Deadline
<1>5. Form \in Forms
  BY DEF Form, Forms
<1>6. ASSUME NEW t, TopicToSend(t)
      PROVE  /\ maximum' = maximum /\ registered' \in {"yes", "no"} /\ rushed' \in {"yes", "no"}
  BY <1>6 DEF TopicToSend
<1>7. ASSUME NEW t, Counts(t) PROVE crowded' \in {"yes", "no"}
  BY <1>7 DEF Counts
<1>8. \A c : Overtakes(c) => overtaken' \in {"yes", "no"}
  BY DEF Overtakes
<1>9. \A d \in Disturbances : Happens(d) => count' \in [Disturbances -> 0..Limit]
  BY HappensType
<1>10. "main" \in Threads /\ Streams \subseteq Threads /\ None \notin Streams
  BY StreamsAssumption DEF Threads, None
<1>11. ASSUME NEW t \in Threads, Publish(t) PROVE TypeOK'
  <2>1. called + 1 \in 0..Messages /\ NextMsgId \in Ids
    BY <1>11, NextIdFree, SizesAssumption DEF Publish
  <2> DEFINE n == NextMsgId
             f == Form
             r == [Idle EXCEPT !.pc = "decide", !.m = called + 1, !.id = n, !.form = f]
  <2>2. r \in Jobs
    <3>1. n \in Ids /\ f \in Forms
      BY <2>1, <1>5
    <3> HIDE DEF n, f
    <3> QED BY <2>1, <3>1, IdleType DEF Jobs, Pcs
  <2>3. job' = [job EXCEPT ![t] = r]
    BY <1>11 DEF Publish
  <2> HIDE DEF r
  <2>4. job' \in [Threads -> Jobs]
    BY <1>2, <2>2, <2>3
  <2> QED BY <1>11, <1>6, <2>1, <2>4 DEF Publish, netVars, pastVars
<1>12. ASSUME NEW t \in Threads, Decide(t) PROVE TypeOK'
  <2>1. PICK p \in {"storepub", "storenone"} : job' = [job EXCEPT ![t].pc = p]
    BY <1>12 DEF Decide
  <2>2. [job[t] EXCEPT !.pc = p] \in Jobs
    BY <1>1 DEF Jobs, Pcs
  <2>3. job' \in [Threads -> Jobs]
    BY <1>2, <2>1, <2>2
  <2> QED BY <1>12, <1>7, <2>3 DEF Decide, netVars, aliasVars
<1>13. ASSUME NEW t \in Threads, Store(t) PROVE TypeOK'
  <2> DEFINE now == job[t].pc = "storepub"
             f == [m |-> job[t].m, id |-> job[t].id,
                   cmd |-> IF now THEN "publish" ELSE "none",
                   due |-> IF now THEN Deadline ELSE "now"]
  <2>1. /\ flows' = {g \in flows : g.id # f.id} \union {f}
        /\ job' = [job EXCEPT ![t] = IF now THEN [@ EXCEPT !.pc = "send"] ELSE Idle]
    BY <1>13 DEF Store
  <2>2. job[t].m \in Numbers /\ job[t].id \in Ids
    BY <1>13, <1>1, SizesAssumption DEF Store, Named, Storing, Numbers, Ids
  <2>3. f \in Flows /\ (f.due = "never" => version = 5)
    BY <2>2, <1>4 DEF Flows
  <2>4. [job[t] EXCEPT !.pc = "send"] \in Jobs
    BY <1>1 DEF Jobs, Pcs
  <2>5. job' \in [Threads -> Jobs]
    BY <1>2, <2>1, <2>4, IdleType
  <2> HIDE DEF f
  <2>6. flows' \subseteq Flows /\ \A g \in flows' : g.due = "never" => version = 5
    BY <2>1, <2>3
  <2>7. rushed' \in {"yes", "no"}
    BY <1>13 DEF Store
  <2> QED BY <1>13, <2>5, <2>6, <2>7 DEF Store, netVars, pastVars
<1>14. ASSUME NEW t \in Threads, Send(t) PROVE TypeOK'
  <2>1. job[t].m \in Numbers /\ job[t].id \in Ids /\ job[t].form \in Forms
    BY <1>14, <1>1, SizesAssumption DEF Send, Named, Numbers, Ids
  <2>2. wire' \in Seq(Packets)
    BY <1>14, <2>1, EncodeType DEF Send
  <2>3. job' \in [Threads -> Jobs]
    BY <1>14, <1>2, IdleType DEF Send
  <2> QED BY <1>14, <2>2, <2>3 DEF Send, netVars, aliasVars, pastVars
<1>15. CASE Timer
  <2>1. Scan \in Jobs
    BY ScanIs DEF IsCheck
  <2>2. job' \in [Threads -> Jobs]
    BY <1>15, <1>2, <1>10, <2>1 DEF Timer
  <2> QED BY <1>15, <1>7, <2>2 DEF Timer, netVars, aliasVars
<1>16. ASSUME NEW t \in Threads, NEW m \in job[t].todo, PassOver(t, m) PROVE TypeOK'
  <2>1. [job[t] EXCEPT !.todo = @ \ {m}] \in Jobs
    BY <1>1 DEF Jobs
  <2>2. job' \in [Threads -> Jobs]
    BY <1>16, <1>2, <2>1 DEF PassOver
  <2> QED BY <1>16, <2>2 DEF PassOver, netVars, aliasVars, pastVars
<1>17. ASSUME NEW t \in Threads, NEW m \in job[t].todo, Resend(t, m) PROVE TypeOK'
  <2>1. Stored(m)
    BY <1>17 DEF Resend, Sends
  <2>2. wire' \in Seq(Packets)
    BY <1>17, <2>1, <1>3, <1>5, EncodeType DEF Resend
  <2>3. job' \in [Threads -> Jobs]
    BY <1>17, ResendJob DEF IsMark
  <2> QED BY <1>17, <1>6, <2>2, <2>3 DEF Resend, netVars, pastVars
<1>18. ASSUME NEW t \in Threads, Mark(t) PROVE TypeOK'
  <2>1. \E f : IsMarked(f, job[t].m) /\ (Stored(job[t].m) => Change(job[t].m, f))
        /\ (~ Stored(job[t].m) => flows' = flows)
    BY <1>18, MarkFlow
  <2>2. PICK f : /\ IsMarked(f, job[t].m)
                 /\ (Stored(job[t].m) => Change(job[t].m, f))
                 /\ (~ Stored(job[t].m) => flows' = flows)
    BY <2>1
  <2>3. Stored(job[t].m) => /\ job[t].m \in Numbers /\ f \in Flows
                            /\ (f.due = "never" => version = 5)
    BY <2>2, <1>3 DEF IsMarked
  <2>4. job' \in [Threads -> Jobs]
    BY <1>18, MarkJob
  <2>5. flows' \subseteq Flows /\ \A g \in flows' : g.due = "never" => version = 5
    BY <2>2, <2>3, ChangeType
  <2> QED BY <1>18, <2>4, <2>5 DEF Mark, netVars, aliasVars, pastVars
<1>19. ASSUME NEW t \in Threads, Checked(t) PROVE TypeOK'
  <2>1. job' \in [Threads -> Jobs]
    BY <1>19, <1>2, IdleType DEF Checked
  <2>2. maximum' \in {"unknown", "known"} /\ (maximum' = "known" => version = 5)
    BY <1>19 DEF Checked
  <2> QED BY <1>19, <2>1, <2>2 DEF Checked, netVars, pastVars
<1>20. ASSUME NEW m \in 1..Messages, Expire(m) PROVE TypeOK'
  <2> DEFINE f == [FlowOf(m) EXCEPT !.due = "now"]
  <2>1. f \in Flows /\ f.due # "never" /\ m \in Numbers /\ Change(m, f)
    BY <1>20, <1>3 DEF Expire, Flows
  <2> HIDE DEF f
  <2>2. flows' \subseteq Flows /\ \A g \in flows' : g.due = "never" => version = 5
    BY <2>1, ChangeType
  <2>3. count' \in [Disturbances -> 0..Limit]
    BY <1>20, <1>9 DEF Expire, Disturbances
  <2> QED BY <1>20, <2>2, <2>3 DEF Expire, netVars, aliasVars, pastVars
<1>21. ASSUME NEW s \in Streams, NEW present \in BOOLEAN, LinkUp(s, present) PROVE TypeOK'
  <2>1. flows' \subseteq flows
    BY <1>21 DEF LinkUp, Waiting
  <2>2. IsFiniteSet(flows') /\ flows' \subseteq Flows
    BY <2>1, FS_Subset DEF Named
  <2>6. job' \in [Threads -> Jobs]
    BY <1>21, LinkUpJob
  <2>7. count' \in [Disturbances -> 0..Limit]
    BY <1>21, <1>9 DEF LinkUp, Disturbances
  <2>8. wire' \in Seq(Packets) /\ acks' \in Seq(Ids)
    BY <1>21, EmptyType DEF LinkUp
  <2>9. stream' \in Streams \union {None} /\ (link' = "up" <=> stream' # None)
    BY <1>21, <1>10 DEF LinkUp
  <2> QED BY <1>21, <1>7, <2>1, <2>6, <2>7, <2>8, <2>9 DEF LinkUp
<1>22. CASE Breaks
  <2>1. wire' \in Seq(Packets) /\ acks' \in Seq(Ids)
    BY <1>22, EmptyType DEF Breaks
  <2>2. count' \in [Disturbances -> 0..Limit]
    BY <1>22, <1>9 DEF Breaks, Disturbances
  <2> QED BY <1>22, <2>1, <2>2 DEF Breaks, aliasVars, pastVars
<1>23. CASE LinkDown
  <2>1. wire' \in Seq(Packets) /\ acks' \in Seq(Ids)
    BY <1>23, EmptyType DEF LinkDown
  <2>2. count' \in [Disturbances -> 0..Limit]
    BY <1>23, <1>9 DEF LinkDown, MayClose, Disturbances
  <2>3. flows' \subseteq Flows /\ \A g \in flows' : g.due = "never" => version = 5
    BY <1>23 DEF LinkDown, Waiting, InFlight, Flows
  <2>4. overtaken' \in {"yes", "no"} /\ rushed' \in {"yes", "no"}
    BY <1>23, <1>8 DEF LinkDown
  <2> QED BY <1>23, <2>1, <2>2, <2>3, <2>4 DEF LinkDown, pastVars
<1>24. CASE BrokerReceives
  <2>1. Head(wire) \in Packets /\ Tail(wire) \in Seq(Packets)
    BY <1>24, TailType DEF BrokerReceives
  <2>2. Head(wire).m \in Numbers /\ Append(acks, Head(wire).id) \in Seq(Ids)
    BY <2>1, AppendType DEF Packets
  <2>3. wire' \in Seq(Packets)
    BY <1>24, <2>1, EmptyType DEF BrokerReceives
  <2> QED BY <1>24, <2>2, <2>3 DEF BrokerReceives, aliasVars
<1>25. CASE Puback
  <2>1. acks' \in Seq(Ids)
    BY <1>25, TailType DEF Puback
  <2>2. flows' \subseteq flows /\ done' \subseteq Numbers
    BY <1>25 DEF Puback, Flows
  <2>3. overtaken' \in {"yes", "no"}
    BY <1>25, <1>8 DEF Puback
  <2> QED BY <1>25, <2>1, <2>2, <2>3 DEF Puback, netVars, aliasVars
<1>26. CASE Crash
  <2>1. wire' \in Seq(Packets) /\ acks' \in Seq(Ids)
    BY <1>26, EmptyType DEF Crash
  <2>2. count' \in [Disturbances -> 0..Limit]
    BY <1>26, <1>9 DEF Crash, Disturbances
  <2>3. job' \in [Threads -> Jobs]
    BY <1>26, IdleType DEF Crash
  <2>4. overtaken' \in {"yes", "no"}
    BY <1>26, <1>8 DEF Crash
  <2> QED BY <1>26, <2>1, <2>2, <2>3, <2>4 DEF Crash, pastVars
<1>27. CASE UNCHANGED vars
  BY <1>27 DEF vars, netVars, aliasVars, pastVars
<1>28. ASSUME NEW fresh \in BOOLEAN, CleanConnect(fresh) PROVE TypeOK'
  <2>1. count' \in [Disturbances -> 0..Limit]
    BY <1>28, <1>9 DEF CleanConnect, Disturbances
  <2>2. /\ flows' = {} /\ txMsgId' \in {0, txMsgId} /\ maximum' \in {"unknown", maximum}
        /\ registered' \in {"no", registered}
    BY <1>28 DEF CleanConnect
  <2> QED BY <1>28, <2>1, <2>2 DEF CleanConnect, netVars, pastVars
<1> QED BY <1>11, <1>12, <1>13, <1>14, <1>15, <1>16, <1>17, <1>18, <1>19, <1>20, <1>21, <1>22,
           <1>23, <1>24, <1>25, <1>26, <1>27, <1>28 DEF Next, Step

-----------------------------------------------------------------------------
(* A message and an id are given out once. *)

LEMMA InitNamed == Init => Named
<1> SUFFICES ASSUME Init PROVE Named
  OBVIOUS
<1>1. \A t \in Threads : job[t] = Idle
  BY DEF Init
<1>2. flows = {} /\ done = {} /\ txMsgId = 0 /\ called = 0
  BY DEF Init
<1>3. Idle.pc = "idle" /\ Idle.m = 0
  BY IdleType
<1> QED BY <1>1, <1>2, <1>3, FS_EmptySet DEF Named, Storing

(* What the flows of a step come from. *)
Keeps(F, G) == /\ IsFiniteSet(G)
               /\ \A g \in G : \E f \in F : f.m = g.m /\ f.id = g.id
               /\ \A f, g \in G : f.m = g.m \/ f.id = g.id => f = g

LEMMA SubsetKeeps ==
  ASSUME Named, NEW G, G \subseteq flows
  PROVE  Keeps(flows, G)
BY FS_Subset DEF Named, Keeps

LEMMA ImageFinite ==
  ASSUME NEW F, IsFiniteSet(F)
  PROVE  /\ IsFiniteSet({[f EXCEPT !.due = "now"] : f \in F})
         /\ Cardinality({[f EXCEPT !.due = "now"] : f \in F}) <= Cardinality(F)
<1> DEFINE G == {[f EXCEPT !.due = "now"] : f \in F}
           h == [f \in F |-> [f EXCEPT !.due = "now"]]
<1>1. h \in Surjection(F, G)
  BY DEF Surjection
<1> QED BY <1>1, FS_Surjection

LEMMA ChangeKeeps ==
  ASSUME TypeOK, Named, NEW m, Stored(m), NEW f, f.m = m, f.id = FlowOf(m).id, Change(m, f)
  PROVE  Keeps(flows, flows')
<1>1. flows' = {g \in flows : g.m # m} \union {f} /\ FlowOf(m) \in flows /\ FlowOf(m).m = m
  BY FlowIs DEF Change
<1>2. IsFiniteSet(flows')
  BY <1>1, FS_Subset, FS_AddElement DEF Named
<1>3. \A g \in flows' : \E e \in flows : e.m = g.m /\ e.id = g.id
  BY <1>1
<1>4. \A e, g \in flows' : e.m = g.m \/ e.id = g.id => e = g
  BY <1>1 DEF Named
<1> QED BY <1>2, <1>3, <1>4 DEF Keeps

(* How a step may change the job of its thread without naming anything. *)
Passes(o, r) == \/ r = o
                \/ r.pc \notin Sending /\ (r.m \in {0, o.m} \/ \E f \in flows : f.m = r.m)
                \/ o.pc \in Storing /\ r.pc \in Storing /\ r.m = o.m /\ r.id = o.id

(* A step that gives out nothing and stores nothing new. *)
Kept == /\ UNCHANGED <<called, txMsgId>>
        /\ Keeps(flows, flows')
        /\ \A t \in Threads : Passes(job[t], job'[t])

LEMMA NamedKept ==
  ASSUME TypeOK, Named, Kept,
         \A m \in done' : m \in done \/ \E f \in flows : f.m = m,
         \A g \in flows' : g.m \notin done'
  PROVE  Named'
<1>1. /\ UNCHANGED <<called, txMsgId>> /\ Keeps(flows, flows')
      /\ \A u \in Threads : Passes(job[u], job'[u])
  BY DEF Kept
<1>2. \A g \in flows' : \E f \in flows : f.m = g.m /\ f.id = g.id
  BY <1>1 DEF Keeps
<1>3. \A m \in done' : m <= called
  BY DEF Named
<1>4. \A f \in flows' : f.m <= called /\ f.id <= called /\ f.m \notin done'
  BY <1>2 DEF Named
<1>5. called \in Nat /\ \A u \in Threads : job[u].m \in Nat /\ job[u].m <= called
  BY SizesAssumption DEF TypeOK, Jobs, Named
<1>6. \A u \in Threads : job'[u].m \in {0, job[u].m} \/ \E f \in flows : f.m = job'[u].m
  BY <1>1 DEF Passes
<1>7. \A u \in Threads : job'[u].m <= called
  BY <1>5, <1>6 DEF Named
<1>8. \A u \in Threads : job'[u].pc \in Storing =>
        job[u].pc \in Storing /\ job'[u].m = job[u].m /\ job'[u].id = job[u].id
  BY <1>1 DEF Passes, Sending
<1>9. ASSUME NEW u \in Threads, job'[u].pc \in Storing
      PROVE  /\ job'[u].m # 0 /\ job'[u].m \notin done'
             /\ job'[u].id # 0 /\ job'[u].id <= txMsgId
             /\ \A f \in flows' : f.m # job'[u].m /\ f.id # job'[u].id
             /\ \A v \in Threads \ {u} : job'[v].m # job'[u].m
             /\ \A v \in Threads \ {u} : job'[v].pc \in Storing => job'[v].id # job'[u].id
  <2>1. job[u].pc \in Storing /\ job'[u].m = job[u].m /\ job'[u].id = job[u].id
    BY <1>8, <1>9
  <2>2. /\ job[u].m # 0 /\ job[u].m \notin done
        /\ job[u].id # 0 /\ job[u].id <= txMsgId
        /\ \A f \in flows : f.m # job[u].m /\ f.id # job[u].id
        /\ \A v \in Threads \ {u} : job[v].m # job[u].m
        /\ \A v \in Threads \ {u} : job[v].pc \in Storing => job[v].id # job[u].id
    BY <2>1 DEF Named
  <2>3. job'[u].m \notin done' /\ \A f \in flows' : f.m # job'[u].m /\ f.id # job'[u].id
    BY <1>2, <2>1, <2>2
  <2>4. \A v \in Threads \ {u} : job'[v].m # job'[u].m
    BY <1>6, <2>1, <2>2
  <2>5. \A v \in Threads \ {u} : job'[v].pc \in Storing => job'[v].id # job'[u].id
    BY <1>8, <2>1, <2>2
  <2> QED BY <2>1, <2>2, <2>3, <2>4, <2>5
<1>10. \A u \in Threads : job'[u].pc = "send" => job'[u].m # 0 /\ job'[u].id # 0
  BY <1>1 DEF Passes, Sending, Storing, Named
<1>11. IsFiniteSet(flows') /\ txMsgId <= called /\ UNCHANGED <<called, txMsgId>>
       /\ \A f, g \in flows' : f.m = g.m \/ f.id = g.id => f = g
  BY <1>1 DEF Named, Keeps
<1> QED BY <1>3, <1>4, <1>7, <1>9, <1>10, <1>11 DEF Named

LEMMA PublishJob ==
  ASSUME TypeOK, Named, NEW t \in Threads, Publish(t)
  PROVE  /\ job'[t].pc = "decide" /\ job'[t].m = called + 1 /\ job'[t].id = NextMsgId
         /\ job'[t].form = Form
         /\ \A u \in Threads \ {t} : job'[u] = job[u]
<1> DEFINE n == NextMsgId
           f == Form
           k == called + 1
           r == [Idle EXCEPT !.pc = "decide", !.m = k, !.id = n, !.form = f]
<1>1. job' = [job EXCEPT ![t] = r]
  BY DEF Publish
<1> HIDE DEF n, f, k
<1>2. r.pc = "decide" /\ r.m = k /\ r.id = n /\ r.form = f
  BY IdleType DEF Jobs
<1> HIDE DEF r
<1>3. job'[t] = r /\ \A u \in Threads \ {t} : job'[u] = job[u]
  BY <1>1 DEF TypeOK
<1> QED BY <1>2, <1>3 DEF n, f, k

LEMMA PublishNamed ==
  ASSUME TypeOK, Named, NEW t \in Threads, Publish(t)
  PROVE  Named'
<1>1. /\ job'[t].pc = "decide" /\ job'[t].m = called + 1 /\ job'[t].id = NextMsgId
      /\ \A u \in Threads \ {t} : job'[u] = job[u]
  BY PublishJob
<1>2. /\ called' = called + 1 /\ txMsgId' = NextMsgId
      /\ UNCHANGED <<flows, done>>
  BY DEF Publish, pastVars
<1>3. /\ NextMsgId \in Nat /\ NextMsgId # 0 /\ txMsgId < NextMsgId /\ NextMsgId <= called + 1
      /\ \A f \in flows : f.id # NextMsgId
  BY NextIdFree DEF Publish, Ids
<1>4. /\ called \in Nat /\ txMsgId \in Nat
      /\ \A u \in Threads : job[u].m \in Nat /\ job[u].id \in Nat
      /\ \A f \in flows : f.m \in Nat /\ f.id \in Nat
      /\ \A m \in done : m \in Nat
  BY SizesAssumption DEF TypeOK, Jobs, Flows, Numbers, Ids
<1> DEFINE n == NextMsgId
<1> HIDE DEF n
<1>5. \A u \in Threads \ {t} :
        /\ job'[u].m # called + 1
        /\ job'[u].pc \in Storing => job'[u].id # n /\ job'[u].id <= n
  BY <1>1, <1>3, <1>4 DEF Named, n
<1>6. IsFiniteSet(flows') /\ \A f, g \in flows' : f.m = g.m \/ f.id = g.id => f = g
  BY <1>2 DEF Named
<1>7. /\ txMsgId' <= called'
      /\ \A m \in done' : m <= called'
      /\ \A f \in flows' : f.m <= called' /\ f.id <= called' /\ f.m \notin done'
  BY <1>2, <1>3, <1>4 DEF Named
<1>8. \A u \in Threads : job'[u].m <= called'
  BY <1>1, <1>2, <1>4 DEF Named
<1>9. /\ called + 1 # 0 /\ called + 1 \notin done
      /\ \A f \in flows : f.m # called + 1
  BY <1>4 DEF Named
<1>10. ASSUME NEW u \in Threads, job'[u].pc \in Storing
       PROVE  /\ job'[u].m # 0 /\ job'[u].m \notin done'
              /\ job'[u].id # 0 /\ job'[u].id <= txMsgId'
              /\ \A f \in flows' : f.m # job'[u].m /\ f.id # job'[u].id
              /\ \A v \in Threads \ {u} : job'[v].m # job'[u].m
              /\ \A v \in Threads \ {u} : job'[v].pc \in Storing => job'[v].id # job'[u].id
  <2>1. CASE u = t
    BY <1>1, <1>2, <1>3, <1>5, <1>9, <2>1 DEF n
  <2>2. CASE u # t
    <3>1. /\ job'[u] = job[u] /\ job[u].m # 0 /\ job[u].m \notin done /\ job[u].id # 0
          /\ \A f \in flows : f.m # job[u].m /\ f.id # job[u].id
          /\ \A v \in Threads \ {u} : job[v].m # job[u].m
          /\ \A v \in Threads \ {u} : job[v].pc \in Storing => job[v].id # job[u].id
      BY <1>1, <1>10, <2>2 DEF Named
    <3>2. \A v \in Threads \ {u} : job'[v].m # job'[u].m
      BY <1>1, <1>5, <3>1, <2>2
    <3>3. \A v \in Threads \ {u} : job'[v].pc \in Storing => job'[v].id # job'[u].id
      BY <1>1, <1>5, <1>10, <3>1, <2>2 DEF n
    <3>4. job'[u].id <= txMsgId'
      BY <1>2, <1>5, <1>10, <2>2 DEF n
    <3> QED BY <1>2, <3>1, <3>2, <3>3, <3>4
  <2> QED BY <2>1, <2>2
<1>11. \A u \in Threads : job'[u].pc = "send" => job'[u].m # 0 /\ job'[u].id # 0
  BY <1>1 DEF Named
<1> QED BY <1>6, <1>7, <1>8, <1>10, <1>11 DEF Named

(* What storeMessage does: the id is free, so nothing is overwritten. *)
LEMMA StoreAdds ==
  ASSUME TypeOK, Named, NEW t \in Threads, Store(t)
  PROVE  \E f \in Flows :
           /\ f.m = job[t].m /\ f.id = job[t].id
           /\ f.cmd = IF job[t].pc = "storepub" THEN "publish" ELSE "none"
           /\ flows' = flows \union {f}
<1> DEFINE c == IF job[t].pc = "storepub" THEN "publish" ELSE "none"
           d == IF job[t].pc = "storepub" THEN Deadline ELSE "now"
           f == [m |-> job[t].m, id |-> job[t].id, cmd |-> c, due |-> d]
<1>1. flows' = {g \in flows : g.id # f.id} \union {f}
  BY DEF Store
<1>2. c \in {"publish", "none"} /\ d \in {"now", "later", "never"}
  BY DEF Deadline
<1>3. job[t].m \in Numbers /\ job[t].id \in Ids /\ \A g \in flows : g.id # job[t].id
  BY SizesAssumption DEF Store, Named, Storing, TypeOK, Jobs, Numbers, Ids
<1> HIDE DEF c, d
<1>4. f \in Flows /\ f.m = job[t].m /\ f.id = job[t].id /\ f.cmd = c
  BY <1>2, <1>3 DEF Flows
<1> HIDE DEF f
<1>5. flows' = flows \union {f}
  BY <1>1, <1>3, <1>4
<1> QED BY <1>4, <1>5 DEF c

LEMMA StoreJob ==
  ASSUME TypeOK, NEW t \in Threads, Store(t)
  PROVE  /\ job[t].pc = "storepub" =>
              /\ job'[t].pc = "send" /\ job'[t].m = job[t].m /\ job'[t].id = job[t].id
              /\ job'[t].form = job[t].form
         /\ job[t].pc # "storepub" => job'[t] = Idle
         /\ \A u \in Threads \ {t} : job'[u] = job[u]
<1> DEFINE r == IF job[t].pc = "storepub" THEN [job[t] EXCEPT !.pc = "send"] ELSE Idle
<1>1. job' = [job EXCEPT ![t] = r]
  BY DEF Store
<1>2. /\ job[t].pc = "storepub" => /\ r.pc = "send" /\ r.m = job[t].m /\ r.id = job[t].id
                                   /\ r.form = job[t].form
      /\ job[t].pc # "storepub" => r = Idle
  BY DEF TypeOK, Jobs
<1> HIDE DEF r
<1>3. job'[t] = r /\ \A u \in Threads \ {t} : job'[u] = job[u]
  BY <1>1 DEF TypeOK
<1> QED BY <1>2, <1>3

LEMMA StoreNamed ==
  ASSUME TypeOK, Named, NEW t \in Threads, Store(t)
  PROVE  Named'
<1>1. PICK f \in Flows : /\ f.m = job[t].m /\ f.id = job[t].id
                         /\ flows' = flows \union {f}
  BY StoreAdds
<1>2. /\ job'[t].pc \notin Storing
      /\ job'[t].m = 0 \/ job'[t].m = job[t].m
      /\ job'[t].pc = "send" => job'[t].m = job[t].m /\ job'[t].id = job[t].id
      /\ \A u \in Threads \ {t} : job'[u] = job[u]
  BY StoreJob, IdleType DEF Storing
<1>3. UNCHANGED <<called, txMsgId, done>> /\ job[t].pc \in Storing
  BY DEF Store, pastVars, Storing
<1>4. /\ job[t].m # 0 /\ job[t].m \notin done
      /\ job[t].id # 0 /\ job[t].id <= txMsgId
      /\ \A g \in flows : g.m # job[t].m /\ g.id # job[t].id
      /\ \A u \in Threads \ {t} : job[u].m # job[t].m
      /\ \A u \in Threads \ {t} : job[u].pc \in Storing => job[u].id # job[t].id
  BY <1>3 DEF Named
<1>5. called \in Nat /\ txMsgId \in Nat /\ job[t].m \in Nat /\ job[t].id \in Nat
  BY SizesAssumption DEF TypeOK, Jobs, Ids
<1>6. IsFiniteSet(flows')
  BY <1>1, FS_AddElement DEF Named
<1>7. \A e, g \in flows' : e.m = g.m \/ e.id = g.id => e = g
  BY <1>1, <1>4 DEF Named
<1>8. job[t].id <= called /\ job[t].m <= called
  BY <1>4, <1>5 DEF Named
<1>9. \A g \in flows' : g.m <= called /\ g.id <= called /\ g.m \notin done
  BY <1>1, <1>4, <1>8 DEF Named
<1>10. \A u \in Threads : job'[u].m <= called
  BY <1>2, <1>5, <1>8 DEF Named
<1>11. ASSUME NEW u \in Threads, job'[u].pc \in Storing
       PROVE  /\ job'[u].m # 0 /\ job'[u].m \notin done
              /\ job'[u].id # 0 /\ job'[u].id <= txMsgId
              /\ \A g \in flows' : g.m # job'[u].m /\ g.id # job'[u].id
              /\ \A v \in Threads \ {u} : job'[v].m # job'[u].m
              /\ \A v \in Threads \ {u} : job'[v].pc \in Storing => job'[v].id # job'[u].id
  <2>1. u # t /\ job'[u] = job[u]
    BY <1>2, <1>11
  <2>2. /\ job[u].m # 0 /\ job[u].m \notin done
        /\ job[u].id # 0 /\ job[u].id <= txMsgId
        /\ \A g \in flows : g.m # job[u].m /\ g.id # job[u].id
        /\ \A v \in Threads \ {u} : job[v].m # job[u].m
        /\ \A v \in Threads \ {u} : job[v].pc \in Storing => job[v].id # job[u].id
    BY <1>11, <2>1 DEF Named
  <2>3. \A g \in flows' : g.m # job'[u].m /\ g.id # job'[u].id
    BY <1>1, <1>4, <1>11, <2>1, <2>2
  <2>4. \A v \in Threads \ {u} : job'[v].m # job'[u].m
    BY <1>2, <2>1, <2>2
  <2> QED BY <1>2, <2>1, <2>2, <2>3, <2>4
<1>12. \A u \in Threads : job'[u].pc = "send" => job'[u].m # 0 /\ job'[u].id # 0
  BY <1>2, <1>4 DEF Named
<1>13. txMsgId <= called /\ \A m \in done : m <= called
  BY DEF Named
<1> QED BY <1>3, <1>6, <1>7, <1>9, <1>10, <1>11, <1>12, <1>13 DEF Named

LEMMA CrashNamed ==
  ASSUME TypeOK, Named, Crash
  PROVE  Named'
<1>1. /\ \A t \in Threads : job'[t] = Idle
      /\ txMsgId' = 0 /\ UNCHANGED <<flows, called, done>>
  BY DEF Crash, pastVars
<1>2. Idle.pc = "idle" /\ Idle.m = 0 /\ 0 <= called
  BY IdleType DEF TypeOK
<1> QED BY <1>1, <1>2 DEF Named, Storing

LEMMA CleanNamed ==
  ASSUME TypeOK, Named, NEW fresh \in BOOLEAN, CleanConnect(fresh)
  PROVE  Named'
<1>1. flows' = {} /\ IsFiniteSet(flows') /\ UNCHANGED <<job, called, done>>
  BY FS_EmptySet DEF CleanConnect, pastVars
<1>2. CASE fresh
  <2>1. txMsgId' = 0 /\ \A t \in Threads : job[t] = Idle
    BY <1>2 DEF CleanConnect
  <2>2. Idle.pc = "idle" /\ Idle.m = 0 /\ 0 <= called
    BY IdleType DEF TypeOK
  <2> QED BY <1>1, <2>1, <2>2 DEF Named, Storing
<1>3. CASE ~ fresh
  <2>1. txMsgId' = txMsgId
    BY <1>3 DEF CleanConnect
  <2> QED BY <1>1, <2>1 DEF Named, Storing
<1> QED BY <1>2, <1>3

LEMMA ExpireChange ==
  ASSUME TypeOK, NEW m, Expire(m)
  PROVE  \E f \in Flows : /\ f.m = m /\ f.id = FlowOf(m).id /\ f.cmd = FlowOf(m).cmd
                          /\ Stored(m) /\ Change(m, f)
<1> DEFINE f == [FlowOf(m) EXCEPT !.due = "now"]
<1>1. FlowOf(m) \in Flows /\ FlowOf(m).m = m
  BY FlowIs DEF Expire, TypeOK
<1>2. f \in Flows /\ f.m = m /\ f.id = FlowOf(m).id /\ f.cmd = FlowOf(m).cmd
  BY <1>1 DEF Flows
<1>3. Stored(m) /\ Change(m, f)
  BY DEF Expire
<1> QED BY <1>2, <1>3

LEMMA LinkDownKeeps ==
  ASSUME TypeOK, Named, LinkDown
  PROVE  /\ Keeps(flows, flows')
         /\ {f \in flows' : f.cmd = "publish"} = {[f EXCEPT !.due = "now"] : f \in InFlight}
         /\ \A g \in flows' : \E f \in flows : f.m = g.m /\ f.id = g.id /\ f.cmd = g.cmd
<1>1. flows' = Waiting \union {[f EXCEPT !.due = "now"] : f \in InFlight}
  BY DEF LinkDown
<1>2. ASSUME NEW f \in flows
      PROVE  /\ [f EXCEPT !.due = "now"].m = f.m /\ [f EXCEPT !.due = "now"].id = f.id
             /\ [f EXCEPT !.due = "now"].cmd = f.cmd /\ f.cmd \in {"none", "publish"}
  BY DEF TypeOK, Flows
<1>3. Waiting \subseteq flows /\ InFlight \subseteq flows
  BY DEF Waiting, InFlight
<1>4. IsFiniteSet(flows')
  <2>1. IsFiniteSet(Waiting) /\ IsFiniteSet(InFlight)
    BY <1>3, FS_Subset DEF Named
  <2>2. IsFiniteSet({[f EXCEPT !.due = "now"] : f \in InFlight})
    BY <2>1, ImageFinite
  <2> QED BY <1>1, <2>1, <2>2, FS_Union
<1>5. \A g \in flows' : \E f \in flows : f.m = g.m /\ f.id = g.id /\ f.cmd = g.cmd
  BY <1>1, <1>2, <1>3
<1>6. ASSUME NEW e \in flows', NEW g \in flows', e.m = g.m \/ e.id = g.id
      PROVE  e = g
  <2>1. PICK f \in flows : /\ f.m = e.m /\ f.id = e.id /\ f.cmd = e.cmd
                           /\ (e = f /\ f.cmd = "none") \/ (e = [f EXCEPT !.due = "now"] /\ f.cmd = "publish")
    BY <1>1, <1>2 DEF Waiting, InFlight
  <2>2. PICK h \in flows : /\ h.m = g.m /\ h.id = g.id /\ h.cmd = g.cmd
                           /\ (g = h /\ h.cmd = "none") \/ (g = [h EXCEPT !.due = "now"] /\ h.cmd = "publish")
    BY <1>1, <1>2 DEF Waiting, InFlight
  <2>3. f = h
    BY <1>6, <2>1, <2>2 DEF Named
  <2> QED BY <2>1, <2>2, <2>3
<1>7. {f \in flows' : f.cmd = "publish"} = {[f EXCEPT !.due = "now"] : f \in InFlight}
  BY <1>1, <1>2, <1>3 DEF Waiting, InFlight
<1> QED BY <1>4, <1>5, <1>6, <1>7 DEF Keeps

LEMMA NextKept ==
  ASSUME TypeOK, Named, [Next]_vars
  PROVE  \/ \E t \in Threads : Publish(t) \/ Store(t)
         \/ Crash
         \/ \E fresh \in BOOLEAN : CleanConnect(fresh)
         \/ Kept
<1>1. "main" \in Threads /\ Streams \subseteq Threads
  BY DEF Threads
<1>2. job \in [Threads -> Jobs] /\ \A t \in Threads : Passes(job[t], job[t])
  BY DEF TypeOK, Passes
<1>3. Keeps(flows, flows)
  BY SubsetKeeps
<1>5. ASSUME UNCHANGED <<called, txMsgId, flows>>,
             NEW t \in Threads, Passes(job[t], job'[t]),
             \A u \in Threads \ {t} : job'[u] = job[u]
      PROVE  Kept
  BY <1>2, <1>3, <1>5 DEF Kept
<1>6. ASSUME UNCHANGED <<called, txMsgId>>, Keeps(flows, flows'),
             NEW t \in Threads, Passes(job[t], job'[t]),
             \A u \in Threads \ {t} : job'[u] = job[u]
      PROVE  Kept
  BY <1>2, <1>6 DEF Kept
<1>7. \A o, r \in Jobs : r.pc \notin Sending /\ r.m \in {0, o.m} => Passes(o, r)
  BY DEF Passes
<1>9. ASSUME NEW t \in Threads, Decide(t) PROVE Kept
  <2>1. PICK p \in {"storepub", "storenone"} : job' = [job EXCEPT ![t].pc = p]
    BY <1>9 DEF Decide
  <2>2. /\ job'[t].pc = p /\ job'[t].m = job[t].m /\ job'[t].id = job[t].id
        /\ \A u \in Threads \ {t} : job'[u] = job[u]
    BY <1>2, <2>1 DEF Jobs
  <2>3. Passes(job[t], job'[t])
    BY <1>9, <2>2 DEF Decide, Passes, Storing
  <2> QED BY <1>5, <1>9, <2>2, <2>3 DEF Decide
<1>11. ASSUME NEW t \in Threads, Send(t) \/ Checked(t) PROVE Kept
  <2>1. job' = [job EXCEPT ![t] = Idle]
    BY <1>11 DEF Send, Checked
  <2>2. Passes(job[t], job'[t]) /\ \A u \in Threads \ {t} : job'[u] = job[u]
    BY <1>2, <1>7, <2>1, IdleType DEF Sending, Storing
  <2> QED BY <1>5, <1>11, <2>2 DEF Send, Checked, pastVars
<1>12. CASE Timer
  <2>1. job' = [job EXCEPT !["main"] = Scan]
    BY <1>12 DEF Timer
  <2>2. Passes(job["main"], job'["main"]) /\ \A u \in Threads \ {"main"} : job'[u] = job[u]
    BY <1>1, <1>2, <1>7, <2>1, ScanIs DEF Sending, Storing, IsCheck
  <2> QED BY <1>1, <1>5, <1>12, <2>2 DEF Timer
<1>13. ASSUME NEW t \in Threads, NEW m \in job[t].todo, PassOver(t, m) PROVE Kept
  <2>1. job' = [job EXCEPT ![t].todo = @ \ {m}] /\ job[t].pc = "scan"
    BY <1>13 DEF PassOver
  <2>2. job'[t].pc = "scan" /\ job'[t].m = job[t].m /\ \A u \in Threads \ {t} : job'[u] = job[u]
    BY <1>2, <2>1 DEF Jobs
  <2>3. Passes(job[t], job'[t])
    BY <2>2 DEF Passes, Sending, Storing
  <2> QED BY <1>5, <1>13, <2>2, <2>3 DEF PassOver, pastVars
<1>14. ASSUME NEW t \in Threads, NEW m \in job[t].todo, Resend(t, m) PROVE Kept
  <2>1. IsMark(job'[t], job[t], m) /\ \A u \in Threads \ {t} : job'[u] = job[u]
    BY <1>14, ResendJob
  <2>2. Stored(m)
    BY <1>14 DEF Resend, Sends
  <2>3. Passes(job[t], job'[t])
    BY <2>1, <2>2 DEF Passes, Sending, Storing, IsMark, Stored
  <2> QED BY <1>5, <1>14, <2>1, <2>3 DEF Resend, pastVars
<1>15. ASSUME NEW t \in Threads, Mark(t) PROVE Kept
  <2>1. job'[t].pc = "scan" /\ job'[t].m = 0 /\ \A u \in Threads \ {t} : job'[u] = job[u]
    BY <1>15, MarkJob
  <2>2. Passes(job[t], job'[t])
    BY <2>1 DEF Passes, Sending, Storing
  <2>3. Keeps(flows, flows')
    <3>1. PICK f : /\ IsMarked(f, job[t].m)
                   /\ (Stored(job[t].m) => Change(job[t].m, f))
                   /\ (~ Stored(job[t].m) => flows' = flows)
      BY <1>15, MarkFlow
    <3>2. CASE Stored(job[t].m)
      BY <3>1, <3>2, ChangeKeeps, FlowIs DEF IsMarked
    <3> QED BY <1>3, <3>1, <3>2
  <2> QED BY <1>6, <1>15, <2>1, <2>2, <2>3 DEF Mark, pastVars
<1>16. ASSUME NEW m \in 1..Messages, Expire(m) PROVE Kept
  <2>1. Keeps(flows, flows')
    BY <1>16, ExpireChange, ChangeKeeps
  <2> QED BY <1>1, <1>2, <1>6, <1>16, <2>1 DEF Expire, pastVars
<1>17. ASSUME NEW s \in Streams, NEW present \in BOOLEAN, LinkUp(s, present) PROVE Kept
  <2>1. /\ flows' \subseteq flows
        /\ IsCheck(job'[s], Pending(flows'), Published(flows'))
        /\ \A u \in Threads \ {s} : job'[u] = job[u]
    BY <1>17, LinkUpJob
  <2>2. Passes(job[s], job'[s])
    BY <2>1 DEF Passes, Sending, Storing, IsCheck
  <2>3. Keeps(flows, flows')
    BY <2>1, SubsetKeeps
  <2> QED BY <1>1, <1>6, <1>17, <2>1, <2>2, <2>3 DEF LinkUp
<1>18. CASE LinkDown
  BY <1>1, <1>2, <1>6, <1>18, LinkDownKeeps DEF LinkDown, pastVars
<1>19. CASE Breaks \/ BrokerReceives \/ UNCHANGED vars
  BY <1>1, <1>2, <1>5, <1>19 DEF Breaks, BrokerReceives, vars, pastVars
<1>20. CASE Puback
  <2>1. flows' \subseteq flows
    BY <1>20 DEF Puback
  <2>2. Keeps(flows, flows')
    BY <2>1, SubsetKeeps
  <2> QED BY <1>1, <1>2, <1>6, <1>20, <2>2 DEF Puback
<1> QED BY <1>9, <1>11, <1>12, <1>13, <1>14, <1>15, <1>16, <1>17, <1>18, <1>19, <1>20
        DEF Next, Step

(* Only a PUBACK ends a flow, and it ends at most one. *)
LEMMA NextDone ==
  ASSUME TypeOK, Named, [Next]_vars
  PROVE  \/ UNCHANGED done /\ (Puback => UNCHANGED flows)
         \/ /\ Puback
            /\ \E f \in InFlight : /\ f.id = Head(acks)
                                   /\ flows' = flows \ {f} /\ done' = done \union {f.m}
<1>1. CASE Puback
  <2> DEFINE acked == {f \in flows : f.id = Head(acks)} \intersect InFlight
  <2>1. flows' = flows \ acked /\ done' = done \union {f.m : f \in acked}
    BY <1>1 DEF Puback
  <2>2. CASE acked = {}
    <3>1. UNCHANGED flows /\ UNCHANGED done
      BY <2>1, <2>2
    <3> QED BY <3>1
  <2>3. ASSUME NEW f \in acked PROVE acked = {f}
    BY DEF Named
  <2>4. CASE acked # {}
    <3>1. PICK f \in acked : acked = {f}
      BY <2>3, <2>4
    <3>2. f \in InFlight /\ f.id = Head(acks) /\ flows' = flows \ {f} /\ done' = done \union {f.m}
      BY <2>1, <3>1
    <3> QED BY <1>1, <3>2
  <2> QED BY <2>2, <2>4
<1>2. CASE ~ Puback
  <2>1. ASSUME NEW t \in Threads, Publish(t) \/ Step(t) PROVE UNCHANGED done
    BY <2>1 DEF Publish, Step, Decide, Store, Send, Mark, Checked, PassOver, Resend, pastVars
  <2>2. ASSUME \/ \E s \in Streams, present \in BOOLEAN : LinkUp(s, present)
               \/ \E m \in 1..Messages : Expire(m)
               \/ Timer \/ Breaks \/ LinkDown \/ BrokerReceives \/ Crash \/ UNCHANGED vars
        PROVE  UNCHANGED done
    BY <2>2 DEF LinkUp, Expire, Timer, Breaks, LinkDown, BrokerReceives, Crash, vars, pastVars
  <2>4. ASSUME NEW fresh \in BOOLEAN, CleanConnect(fresh) PROVE UNCHANGED done
    BY <2>4 DEF CleanConnect, pastVars
  <2>3. UNCHANGED done
    BY <1>2, <2>1, <2>2, <2>4 DEF Next
  <2> QED BY <1>2, <2>3
<1> QED BY <1>1, <1>2

LEMMA NextNamed == TypeOK /\ Named /\ [Next]_vars => Named'
<1> SUFFICES ASSUME TypeOK, Named, [Next]_vars PROVE Named'
  OBVIOUS
<1>1. CASE Kept
  <2>1. CASE UNCHANGED done
    BY <1>1, <2>1, NamedKept DEF Kept, Keeps, Named
  <2>2. CASE \E f \in InFlight : flows' = flows \ {f} /\ done' = done \union {f.m}
    <3>1. \A m \in done' : m \in done \/ \E f \in flows : f.m = m
      BY <2>2 DEF InFlight
    <3>2. \A g \in flows' : g.m \notin done'
      BY <2>2 DEF Named, InFlight
    <3> QED BY <1>1, <3>1, <3>2, NamedKept
  <2> QED BY <2>1, <2>2, NextDone
<1> QED BY <1>1, NextKept, PublishNamed, StoreNamed, CrashNamed, CleanNamed

(* Every variable keeps its type: nextMsgId always finds an id, and there  *)
(* are never more ids in use than messages were published.                 *)
THEOREM TypeCorrect == SafeSpec => []TypeOK
  BY InitType, NextType, InitNamed, NextNamed, PTL DEF SafeSpec

-----------------------------------------------------------------------------
(* The refinement of AtLeastOnce. *)

(* Which steps count as a restart, or as the end of a session. *)
Ended == count["forget"] + count["clean"]

LEMMA NextCount ==
  ASSUME TypeOK, [Next]_vars
  PROVE  \/ Crash /\ count'["crash"] = count["crash"] + 1 /\ Ended' = Ended
         \/ /\ ~ Crash
            /\ \/ \E s \in Streams : LinkUp(s, FALSE)
               \/ \E fresh \in BOOLEAN : CleanConnect(fresh)
            /\ count'["crash"] = count["crash"] /\ Ended' = Ended + 1
         \/ ~ Crash /\ count'["crash"] = count["crash"] /\ Ended' = Ended
<1> DEFINE Still == count'["crash"] = count["crash"] /\ Ended' = Ended
<1>0. \A d \in Disturbances : count[d] \in Nat
  BY SizesAssumption DEF TypeOK
<1>1. \A d \in Disturbances : Happens(d) =>
        \A e \in Disturbances : count'[e] = IF e = d THEN count[e] + 1 ELSE count[e]
  BY HappensType
<1>2. Happens("down") \/ Happens("late") => Still
  BY <1>1 DEF Disturbances, Ended
<1>3. Happens("crash") => count'["crash"] = count["crash"] + 1 /\ Ended' = Ended
  BY <1>1 DEF Disturbances, Ended
<1>4. Happens("forget") \/ Happens("clean") =>
        count'["crash"] = count["crash"] /\ Ended' = Ended + 1
  BY <1>0, <1>1 DEF Disturbances, Ended
<1>5. CASE Crash
  BY <1>3, <1>5 DEF Crash
<1>6. ASSUME NEW s \in Streams, NEW present \in BOOLEAN, LinkUp(s, present), ~ Crash
      PROVE  \/ LinkUp(s, FALSE) /\ count'["crash"] = count["crash"]
                                 /\ Ended' = Ended + 1
             \/ Still
  <2>1. CASE present = TRUE
    BY <1>6, <2>1 DEF LinkUp, Ended
  <2>2. CASE present = FALSE
    BY <1>4, <1>6, <2>2 DEF LinkUp
  <2> QED BY <2>1, <2>2
<1>7. ASSUME NEW t \in Threads, Publish(t) \/ Step(t) PROVE Still
  <2>1. UNCHANGED count
    BY <1>7 DEF Publish, Step, Decide, Store, Send, Mark, Checked, PassOver, Resend
  <2> QED BY <2>1 DEF Ended
<1>8. ASSUME NEW m \in 1..Messages, Expire(m) PROVE Still
  BY <1>2, <1>8 DEF Expire, Ended
<1>9. ASSUME Timer \/ BrokerReceives \/ Puback \/ UNCHANGED vars PROVE Still
  <2>1. UNCHANGED count
    BY <1>9 DEF Timer, BrokerReceives, Puback, vars
  <2> QED BY <2>1 DEF Ended
<1>10. ASSUME Breaks \/ LinkDown PROVE Still
  <2>1. Happens("down") \/ UNCHANGED count
    BY <1>10 DEF Breaks, LinkDown, MayClose
  <2> QED BY <1>2, <2>1 DEF Ended
<1>11. ASSUME NEW fresh \in BOOLEAN, CleanConnect(fresh)
       PROVE  count'["crash"] = count["crash"] /\ Ended' = Ended + 1
  BY <1>4, <1>11 DEF CleanConnect
<1> QED BY <1>5, <1>6, <1>7, <1>8, <1>9, <1>10, <1>11 DEF Next, Still

LEMMA NextReceived ==
  ASSUME TypeOK, [Next]_vars
  PROVE  \/ UNCHANGED received
         \/ /\ UNCHANGED <<flows, done, count>>
            /\ \E m \in Numbers : received' = received \union {m}
<1>1. CASE BrokerReceives
  <2>1. Head(wire) \in Packets
    BY <1>1, TailType DEF BrokerReceives, TypeOK
  <2> QED BY <1>1, <2>1 DEF BrokerReceives, Packets
<1>2. CASE ~ BrokerReceives
  <2>1. ASSUME NEW t \in Threads, Publish(t) \/ Step(t) PROVE UNCHANGED received
    BY <2>1 DEF Publish, Step, Decide, Store, Send, Mark, Checked, PassOver, Resend, pastVars
  <2>2. CASE \/ \E s \in Streams, present \in BOOLEAN : LinkUp(s, present)
             \/ \E m \in 1..Messages : Expire(m)
             \/ Timer \/ Breaks \/ LinkDown \/ Puback \/ Crash \/ UNCHANGED vars
    BY <2>2 DEF LinkUp, Expire, Timer, Breaks, LinkDown, Puback, Crash, vars, pastVars
  <2>3. ASSUME NEW fresh \in BOOLEAN, CleanConnect(fresh) PROVE UNCHANGED received
    BY <2>3 DEF CleanConnect, pastVars
  <2> QED BY <1>2, <2>1, <2>2, <2>3 DEF Next
<1> QED BY <1>1, <1>2

LEMMA InitSame == Init => Same
<1> SUFFICES ASSUME Init PROVE Same
  OBVIOUS
<1>1. /\ \A t \in Threads : job[t].pc = "idle"
      /\ flows = {} /\ wire = <<>> /\ acks = <<>> /\ txMsgId = called
  BY IdleType DEF Init
<1>2. txMsgId + 0 = called /\ 0 \in 0..called
  BY DEF Init
<1>3. Numbered(0)
  BY <1>1, <1>2, EmptyType DEF Numbered, Sending, Storing
<1> QED BY <1>1, <1>2, <1>3 DEF Same

LEMMA NextSame ==
  ASSUME TypeOK, Named, Same, [Next]_vars
  PROVE  Same'
<1> SUFFICES ASSUME count'["crash"] = 0
             PROVE  Same'
  BY DEF Same
<1> DEFINE Sames(b) == /\ txMsgId' + b = called'
                       /\ \A f \in flows' : f.id + b = f.m
                       /\ \A t \in Threads :
                            job'[t].pc \in Sending => job'[t].id + b = job'[t].m
<1> DEFINE Nets(b)  == /\ \A i \in DOMAIN wire' : wire'[i].id + b = wire'[i].m
                       /\ \A i \in DOMAIN acks' : acks'[i] + b \in received'
<1>1. ~ Crash /\ count["crash"] = 0
  <2>1. count["crash"] \in Nat
    BY DEF TypeOK, Disturbances
  <2>2. \/ Crash /\ count'["crash"] = count["crash"] + 1
        \/ ~ Crash /\ count'["crash"] = count["crash"]
    BY NextCount, Zenon
  <2> HIDE DEF Sames, Nets
  <2> QED BY <2>1, <2>2
<1>b. PICK b \in 0..called : Numbered(b)
  BY <1>1 DEF Same
<1>2. /\ txMsgId + b = called
      /\ \A f \in flows : f.id + b = f.m
      /\ \A t \in Threads : job[t].pc \in Sending => job[t].id + b = job[t].m
      /\ \A i \in DOMAIN wire : wire[i].id + b = wire[i].m
      /\ \A i \in DOMAIN acks : acks[i] + b \in received
  BY <1>b DEF Numbered
<1>n. /\ txMsgId \in Nat /\ called \in Nat /\ b \in Nat
      /\ \A f \in flows : f.id \in Nat /\ f.m \in Nat
  BY SizesAssumption DEF TypeOK, Ids, Flows, Numbers
<1>l. link = "down" => wire = <<>> /\ acks = <<>>
  BY <1>1 DEF Same
<1>e. link' = "down" => wire' = <<>> /\ acks' = <<>>
  <2>1. ASSUME NEW t \in Threads, Publish(t) \/ Decide(t) \/ Store(t) \/ Mark(t) \/ Checked(t)
        PROVE  UNCHANGED <<link, wire, acks>>
    BY <2>1 DEF Publish, Decide, Store, Mark, Checked, netVars
  <2>2. ASSUME NEW t \in Threads,
               Send(t) \/ \E m \in job[t].todo : PassOver(t, m) \/ Resend(t, m)
        PROVE  UNCHANGED <<link, acks>> /\ (link = "down" => UNCHANGED wire)
    BY <2>2 DEF Send, PassOver, Resend, Encode, netVars
  <2>3. ASSUME \/ \E s \in Streams, present \in BOOLEAN : LinkUp(s, present)
               \/ Breaks \/ LinkDown
        PROVE  wire' = <<>> /\ acks' = <<>>
    BY <2>3 DEF LinkUp, Breaks, LinkDown
  <2>4. ASSUME \/ \E m \in 1..Messages : Expire(m)
               \/ Timer \/ (\E fresh \in BOOLEAN : CleanConnect(fresh)) \/ UNCHANGED vars
        PROVE  UNCHANGED <<link, wire, acks>>
    BY <2>4 DEF Expire, Timer, CleanConnect, vars, netVars
  <2>5. CASE BrokerReceives
    BY <1>l, <2>5 DEF BrokerReceives
  <2>6. CASE Puback
    BY <2>6 DEF Puback, netVars
  <2> QED BY <1>1, <1>l, <2>1, <2>2, <2>3, <2>4, <2>5, <2>6 DEF Next, Step
<1>f. ASSUME CleanConnect(TRUE) PROVE Same'
  <2>1. /\ flows' = {} /\ txMsgId' = 0 /\ link = "down"
        /\ UNCHANGED <<job, wire, acks, called, received>>
        /\ \A t \in Threads : job[t] = Idle
    BY <1>f DEF CleanConnect, pastVars
  <2>2. txMsgId' + called' = called' /\ called \in 0..called' /\ Idle.pc \notin Sending
    BY <1>n, <2>1, IdleType DEF Sending, Storing
  <2>3. wire' = <<>> /\ acks' = <<>>
    BY <1>l, <2>1
  <2>4. Numbered(called)'
    BY <2>1, <2>2, <2>3, EmptyType DEF Numbered
  <2> QED BY <1>e, <2>1, <2>2, <2>4 DEF Same
<1>3. ASSUME ~ CleanConnect(TRUE) PROVE Sames(b)
  <2>1. CASE Kept
    BY <1>2, <2>1 DEF Kept, Keeps, Passes, Sending
  <2>4. CASE CleanConnect(FALSE)
    BY <1>2, <2>4 DEF CleanConnect
  <2>2. ASSUME NEW t \in Threads, Publish(t) PROVE Sames(b)
    <3>1. /\ job'[t].m = called + 1 /\ job'[t].id = NextMsgId
          /\ \A u \in Threads \ {t} : job'[u] = job[u]
      BY <2>2, PublishJob
    <3>2. called' = called + 1 /\ txMsgId' = NextMsgId /\ UNCHANGED flows
      BY <2>2 DEF Publish
    <3>3. NextMsgId = txMsgId + 1
      <4>1. \A f \in flows : f.id <= txMsgId
        BY <1>2, <1>n DEF Named
      <4> QED BY <2>2, <4>1, NextIdFree DEF Publish
    <3>4. NextMsgId + b = called + 1
      BY <1>2, <1>n, <3>3
    <3> QED BY <1>2, <3>1, <3>2, <3>4
  <2>3. ASSUME NEW t \in Threads, Store(t) PROVE Sames(b)
    <3>1. job[t].pc \in Sending /\ job[t].id + b = job[t].m /\ UNCHANGED <<txMsgId, called>>
      BY <1>2, <2>3 DEF Store, Sending, Storing
    <3>2. \A f \in flows' : f.id + b = f.m
      BY <1>2, <2>3, <3>1, StoreAdds
    <3>3. \A u \in Threads : job'[u].pc \in Sending => job'[u].id + b = job'[u].m
      BY <1>2, <2>3, <3>1, StoreJob, IdleType DEF Sending, Storing
    <3> QED BY <1>2, <3>1, <3>2, <3>3
  <2> QED BY <1>1, <1>3, <2>1, <2>2, <2>3, <2>4, NextKept
<1>4. Nets(b)
  <2>1. ASSUME NEW id, NEW m, NEW form, Encode(id, m, form), id + b = m, id \in Ids, m \in Numbers,
               form \in Forms
        PROVE  \A i \in DOMAIN wire' : wire'[i].id + b = wire'[i].m
    <3> DEFINE p == [id |-> id, m |-> m, form |-> form]
    <3>1. wire' = wire \/ wire' = Append(wire, p)
      BY <2>1 DEF Encode
    <3>2. p \in Packets /\ p.id + b = p.m
      BY <2>1 DEF Packets
    <3> HIDE DEF p
    <3>3. wire \in Seq(Packets)
      BY DEF TypeOK
    <3> QED BY <1>2, <3>1, <3>2, <3>3, AppendType
  <2>2. CASE UNCHANGED <<wire, acks, received>>
    BY <1>2, <2>2
  <2>3. CASE wire' = <<>> /\ acks' = <<>>
    BY <2>3, EmptyType
  <2>4. ASSUME NEW t \in Threads, Publish(t) \/ Decide(t) \/ Store(t) \/ Mark(t) \/ Checked(t)
        PROVE  UNCHANGED <<wire, acks, received>>
    BY <2>4 DEF Publish, Decide, Store, Mark, Checked, pastVars
  <2>5. ASSUME NEW t \in Threads, Send(t) PROVE Nets(b)
    <3>1. job[t].id + b = job[t].m /\ job[t].id \in Ids /\ job[t].m \in Numbers /\ job[t].form \in Forms
      BY <1>2, <2>5, SizesAssumption DEF Send, Sending, Named, TypeOK, Jobs, Ids, Numbers
    <3>2. Encode(job[t].id, job[t].m, job[t].form) /\ UNCHANGED <<acks, received>>
      BY <2>5 DEF Send, pastVars
    <3> QED BY <1>2, <2>1, <3>1, <3>2
  <2>6. ASSUME NEW t \in Threads, NEW m \in job[t].todo, PassOver(t, m)
        PROVE  UNCHANGED <<wire, acks, received>>
    BY <2>6 DEF PassOver, pastVars
  <2>7. ASSUME NEW t \in Threads, NEW m \in job[t].todo, Resend(t, m) PROVE Nets(b)
    <3>1. FlowOf(m).id + b = m /\ FlowOf(m).id \in Ids /\ m \in Numbers /\ Form \in Forms
      BY <1>2, <2>7, FlowIs DEF Resend, Sends, TypeOK, Flows, Form, Forms
    <3>2. Encode(FlowOf(m).id, m, Form) /\ UNCHANGED <<acks, received>>
      BY <2>7 DEF Resend, pastVars
    <3> QED BY <1>2, <2>1, <3>1, <3>2
  <2>8. CASE \/ Timer \/ (\E m \in 1..Messages : Expire(m)) \/ UNCHANGED vars
             \/ \E fresh \in BOOLEAN : CleanConnect(fresh)
    BY <2>2, <2>8 DEF Timer, Expire, CleanConnect, vars, pastVars
  <2>9. CASE (\E s \in Streams, present \in BOOLEAN : LinkUp(s, present)) \/ Breaks \/ LinkDown
    BY <2>3, <2>9 DEF LinkUp, Breaks, LinkDown
  <2>10. CASE BrokerReceives
    <3>1. /\ wire \in Seq(Packets) /\ wire # <<>> /\ acks \in Seq(Ids)
      BY <2>10 DEF BrokerReceives, TypeOK
    <3>2. /\ Head(wire) \in Packets /\ Head(wire).id + b = Head(wire).m /\ Tail(wire) \in Seq(Packets)
          /\ \A i \in DOMAIN Tail(wire) : Tail(wire)[i].id + b = Tail(wire)[i].m
      BY <1>2, <3>1, TailType
    <3>3. CASE Unknown(Head(wire))
      <4>1. wire' = <<>> /\ UNCHANGED <<acks, received>>
        BY <2>10, <3>3 DEF BrokerReceives
      <4> QED BY <1>2, <4>1, EmptyType
    <3>4. CASE ~ Unknown(Head(wire))
      <4>1. /\ wire' = Tail(wire) /\ acks' = Append(acks, Head(wire).id)
            /\ received' = received \union {Head(wire).m}
        BY <2>10, <3>4 DEF BrokerReceives
      <4>2. Head(wire).id \in Ids
        BY <3>2 DEF Packets
      <4>3. \A i \in DOMAIN acks' : acks'[i] + b \in received'
        BY <1>2, <3>1, <3>2, <4>1, <4>2, AppendType
      <4> QED BY <3>2, <4>1, <4>3
    <3> QED BY <3>3, <3>4
  <2>11. CASE Puback
    <3>1. acks # <<>> /\ acks' = Tail(acks) /\ UNCHANGED <<wire, received>> /\ acks \in Seq(Ids)
      BY <2>11 DEF Puback, TypeOK
    <3> QED BY <1>2, <3>1, TailType
  <2> QED BY <1>1, <2>2, <2>4, <2>5, <2>6, <2>7, <2>8, <2>9, <2>10, <2>11 DEF Next, Step
<1>5. CASE ~ CleanConnect(TRUE)
  <2>1. called' \in Nat /\ called <= called'
    <3>1. ASSUME NEW t \in Threads, Publish(t) PROVE called' = called + 1
      BY <3>1 DEF Publish
    <3>2. ASSUME NEW t \in Threads, Store(t) PROVE called' = called
      BY <3>2 DEF Store
    <3>3. ASSUME NEW fresh \in BOOLEAN, CleanConnect(fresh) PROVE called' = called
      BY <3>3 DEF CleanConnect
    <3> QED BY <1>1, <1>n, <3>1, <3>2, <3>3, NextKept DEF Kept
  <2>2. b \in 0..called' /\ Numbered(b)'
    BY <1>3, <1>4, <1>5, <1>n, <2>1 DEF Numbered
  <2> QED BY <1>e, <2>2 DEF Same
<1> QED BY <1>f, <1>5

(* A changed flow stands for the same message. *)
LEMMA ChangePending ==
  ASSUME NEW m, Stored(m), NEW f, f.m = m, Change(m, f)
  PROVE  Pending(flows') = Pending(flows)
BY FlowIs DEF Change, Pending

(* Which messages are pending after a step that stores none and ends none. *)
LEMMA NextPending ==
  ASSUME TypeOK, Named, [Next]_vars, ~ Puback,
         ~ \E t \in Threads : Store(t), ~ \E s \in Streams : LinkUp(s, FALSE),
         ~ \E fresh \in BOOLEAN : CleanConnect(fresh)
  PROVE  Pending(flows') = Pending(flows)
<1>1. ASSUME NEW t \in Threads, Publish(t) \/ Decide(t) \/ Send(t) \/ Checked(t)
      PROVE  UNCHANGED flows
  BY <1>1 DEF Publish, Decide, Send, Checked
<1>2. ASSUME NEW t \in Threads, NEW m \in job[t].todo, PassOver(t, m) \/ Resend(t, m)
      PROVE  UNCHANGED flows
  BY <1>2 DEF PassOver, Resend
<1>3. ASSUME NEW t \in Threads, Mark(t) PROVE Pending(flows') = Pending(flows)
  <2>1. PICK f : /\ IsMarked(f, job[t].m)
                 /\ (Stored(job[t].m) => Change(job[t].m, f))
                 /\ (~ Stored(job[t].m) => flows' = flows)
    BY <1>3, MarkFlow
  <2>2. CASE Stored(job[t].m)
    <3>1. f.m = job[t].m
      BY <2>1, <2>2, FlowIs DEF IsMarked
    <3> QED BY <2>1, <2>2, <3>1, ChangePending
  <2> QED BY <2>1, <2>2
<1>4. ASSUME NEW m \in 1..Messages, Expire(m) PROVE Pending(flows') = Pending(flows)
  BY <1>4, ExpireChange, ChangePending
<1>5. ASSUME LinkDown PROVE Pending(flows') = Pending(flows)
  <2>1. flows' = Waiting \union {[f EXCEPT !.due = "now"] : f \in InFlight}
    BY <1>5 DEF LinkDown
  <2>2. \A f \in flows : [f EXCEPT !.due = "now"].m = f.m /\ f.cmd \in {"none", "publish"}
    BY DEF TypeOK, Flows
  <2>3. \A f \in flows : f \in flows' \/ [f EXCEPT !.due = "now"] \in flows'
    BY <2>1, <2>2 DEF Waiting, InFlight
  <2>4. \A g \in flows' : \E f \in flows : f.m = g.m
    BY <1>5, LinkDownKeeps
  <2>5. \A f \in flows : \E g \in flows' : g.m = f.m
    BY <2>2, <2>3
  <2> QED BY <2>4, <2>5 DEF Pending
<1>6. ASSUME NEW s \in Streams, LinkUp(s, TRUE) PROVE UNCHANGED flows
  BY <1>6 DEF LinkUp
<1>7. ASSUME Timer \/ Breaks \/ BrokerReceives \/ Crash \/ UNCHANGED vars PROVE UNCHANGED flows
  BY <1>7 DEF Timer, Breaks, BrokerReceives, Crash, vars
<1> QED BY <1>1, <1>2, <1>3, <1>4, <1>5, <1>6, <1>7 DEF Next, Step

LEMMA StepRefines ==
  ASSUME TypeOK, Named, Same, [Next]_vars
  PROVE  [Promise!Next]_(Promise!vars)
<1> DEFINE P == {f.m : f \in flows}
<1>1. P = Pending(flows) /\ P' = Pending(flows')
  BY DEF Pending
<1>2. count["crash"] \in Nat /\ Messages \in Nat
  BY SizesAssumption DEF TypeOK, Disturbances
<1>e. Ended = count["forget"] + count["clean"] /\ Ended' = count'["forget"] + count'["clean"]
  BY DEF Ended
<1>3. ASSUME NEW t \in Threads, Store(t) PROVE Promise!Next
  <2>1. PICK f \in Flows : f.m = job[t].m /\ flows' = flows \union {f}
    BY <1>3, StoreAdds
  <2>2. /\ \A g \in flows : g.m # job[t].m
        /\ job[t].m \notin done
    BY <1>3 DEF Named, Store, Storing
  <2>3. f.m \in 1..Messages
    BY DEF Flows, Numbers
  <2>4. P' = P \union {f.m} /\ f.m \notin P \union done
    BY <2>1, <2>2
  <2>5. UNCHANGED <<received, done, count>>
    BY <1>3 DEF Store, pastVars
  <2>6. Promise!Accept(f.m)
    BY <2>4, <2>5 DEF Promise!Accept
  <2> QED BY <2>3, <2>6 DEF Promise!Next
<1>4. CASE Crash
  <2>1. P' = P /\ UNCHANGED <<received, done>>
    BY <1>4 DEF Crash, pastVars
  <2>2. count'["crash"] = count["crash"] + 1 /\ Ended' = Ended
    BY <1>4, NextCount
  <2>3. Promise!Restart
    BY <1>e, <2>1, <2>2 DEF Promise!Restart
  <2> QED BY <2>3 DEF Promise!Next
<1>5. ASSUME NEW s \in Streams, LinkUp(s, FALSE), ~ Crash PROVE [Promise!Next]_(Promise!vars)
  <2>1. P' \subseteq P /\ UNCHANGED <<received, done>>
    BY <1>5 DEF LinkUp, Waiting
  <2>2. Happens("forget")
    BY <1>5 DEF LinkUp
  <2>3. /\ count'["crash"] = count["crash"] /\ count'["forget"] = count["forget"] + 1
        /\ count'["clean"] = count["clean"]
    BY <2>2, HappensType DEF Disturbances
  <2>4. count["forget"] \in Nat /\ count["clean"] \in Nat
    BY SizesAssumption DEF TypeOK, Disturbances
  <2>5. count'["forget"] + count'["clean"] = (count["forget"] + count["clean"]) + 1
    BY <2>3, <2>4
  <2>6. Promise!Forget
    BY <2>1, <2>3, <2>5 DEF Promise!Forget
  <2> QED BY <2>6 DEF Promise!Next
<1>8. ASSUME NEW fresh \in BOOLEAN, CleanConnect(fresh) PROVE Promise!Next
  <2>1. P' = {} /\ UNCHANGED <<received, done>>
    BY <1>8 DEF CleanConnect, pastVars
  <2>2. /\ count'["crash"] = count["crash"] /\ count'["clean"] = count["clean"] + 1
        /\ count'["forget"] = count["forget"]
    BY <1>8, HappensType DEF CleanConnect, Disturbances
  <2>3. count["forget"] \in Nat /\ count["clean"] \in Nat
    BY SizesAssumption DEF TypeOK, Disturbances
  <2>4. count'["forget"] + count'["clean"] = (count["forget"] + count["clean"]) + 1
    BY <2>2, <2>3
  <2>5. Promise!Forget
    BY <2>1, <2>2, <2>4 DEF Promise!Forget
  <2> QED BY <2>5 DEF Promise!Next
<1>6. CASE Puback
  <2>1. UNCHANGED <<received, count>> /\ acks # <<>> /\ acks \in Seq(Ids)
    BY <1>6 DEF Puback, TypeOK
  <2>2. CASE UNCHANGED <<done, flows>>
    BY <2>1, <2>2 DEF Promise!vars
  <2>3. CASE \E f \in InFlight : /\ f.id = Head(acks)
                                 /\ flows' = flows \ {f} /\ done' = done \union {f.m}
    <3>1. PICK f \in flows : /\ f.id = Head(acks)
                             /\ flows' = flows \ {f} /\ done' = done \union {f.m}
      BY <2>3 DEF InFlight
    <3>2. \A g \in flows : g.m = f.m => g = f
      BY DEF Named
    <3>3. f.m \in P /\ P' = P \ {f.m}
      BY <3>1, <3>2
    <3>4. f.m \in 1..Messages
      BY DEF TypeOK, Flows, Numbers
    <3>5. f.m \in received \/ count["crash"] > 0
      <4>1. CASE count["crash"] = 0
        <5>1. PICK b \in 0..called : /\ f.id + b = f.m
                                     /\ \A i \in DOMAIN acks : acks[i] + b \in received
          BY <4>1 DEF Same, Numbered
        <5>2. Head(acks) = acks[1] /\ 1 \in DOMAIN acks
          BY <2>1, TailType
        <5> QED BY <3>1, <5>1, <5>2
      <4> QED BY <1>2, <4>1
    <3>6. Promise!Complete(f.m)
      BY <2>1, <3>1, <3>3, <3>5 DEF Promise!Complete
    <3> QED BY <3>4, <3>6 DEF Promise!Next
  <2> QED BY <1>6, <2>2, <2>3, NextDone
<1>7. ASSUME ~ Puback, ~ Crash, ~ \E t \in Threads : Store(t),
             ~ \E s \in Streams : LinkUp(s, FALSE),
             ~ \E fresh \in BOOLEAN : CleanConnect(fresh)
      PROVE  [Promise!Next]_(Promise!vars)
  <2>1. P' = P
    BY <1>1, <1>7, NextPending
  <2>2. UNCHANGED done
    BY <1>7, NextDone
  <2>3. /\ count'["crash"] = count["crash"]
        /\ count'["forget"] + count'["clean"] = count["forget"] + count["clean"]
    BY <1>e, <1>7, NextCount
  <2>4. CASE UNCHANGED received
    BY <2>1, <2>2, <2>3, <2>4 DEF Promise!vars
  <2>5. CASE \E m \in Numbers : received' = received \union {m}
    <3>1. PICK m \in 1..Messages : received' = received \union {m}
      BY <2>5 DEF Numbers
    <3>2. Promise!Receive(m)
      BY <2>1, <2>2, <2>3, <3>1 DEF Promise!Receive
    <3> QED BY <3>2 DEF Promise!Next
  <2> QED BY <2>4, <2>5, NextReceived
<1> QED BY <1>3, <1>4, <1>5, <1>6, <1>7, <1>8

(* The flows keep the promise of a QoS 1 sender with a store: what was     *)
(* stored stays until the broker has got it, unless the session ends:      *)
(* forgotten by the broker, or given up by a clean connect. And an id      *)
(*  that has been given out again does no harm before a restart.  *)
THEOREM RefinesAtLeastOnce == SafeSpec => ImplementsAtLeastOnce
<1>1. Init => Promise!Init
  BY DEF Init, Promise!Init, Disturbances
<1>2. TypeOK /\ Named /\ Same /\ [Next]_vars => [Promise!Next]_(Promise!vars)
  BY StepRefines
<1> QED BY <1>1, <1>2, InitType, NextType, InitNamed, NextNamed, InitSame, NextSame, PTL
        DEF SafeSpec, ImplementsAtLeastOnce, Promise!Spec

-----------------------------------------------------------------------------
(* The window. *)

LEMMA PublishedType ==
  ASSUME Named
  PROVE  /\ Published(flows) \in Nat /\ IsFiniteSet(InFlight)
         /\ Published(flows) = Cardinality(InFlight)
<1>1. InFlight = {f \in flows : f.cmd = "publish"} /\ IsFiniteSet(InFlight)
  BY FS_Subset DEF InFlight, Named
<1> QED BY <1>1, FS_CardinalityType DEF Published

LEMMA PublishedShrinks ==
  ASSUME Named, NEW G, G \subseteq flows
  PROVE  Published(G) <= Published(flows)
<1>1. {f \in G : f.cmd = "publish"} \subseteq InFlight
  BY DEF InFlight
<1> QED BY <1>1, PublishedType, FS_Subset DEF Published

(* One flow is changed: at most one more is in flight, and none if it was. *)
LEMMA PublishedChange ==
  ASSUME TypeOK, Named, NEW m, Stored(m), NEW f, f.m = m, Change(m, f)
  PROVE  /\ Published(flows') <= Published(flows) + 1
         /\ f.cmd = FlowOf(m).cmd \/ FlowOf(m).cmd = "publish" => Published(flows') <= Published(flows)
<1> DEFINE R == {g \in flows : g.m # m /\ g.cmd = "publish"}
           S == {g \in flows' : g.cmd = "publish"}
<1>1. FlowOf(m) \in flows /\ FlowOf(m).m = m /\ flows' = {g \in flows : g.m # m} \union {f}
  BY FlowIs DEF Change
<1>2. R \subseteq InFlight /\ S = IF f.cmd = "publish" THEN R \union {f} ELSE R
  BY <1>1 DEF InFlight
<1>3. IsFiniteSet(InFlight) /\ IsFiniteSet(R) /\ Cardinality(R) <= Cardinality(InFlight)
      /\ Cardinality(R) \in Nat /\ Cardinality(InFlight) \in Nat
  BY <1>2, PublishedType, FS_Subset, FS_CardinalityType
<1>4. f \notin R
  OBVIOUS
<1>5. Cardinality(S) = IF f.cmd = "publish" THEN Cardinality(R) + 1 ELSE Cardinality(R)
  BY <1>2, <1>3, <1>4, FS_AddElement
<1>6. ASSUME FlowOf(m).cmd = "publish" PROVE Cardinality(R) + 1 <= Cardinality(InFlight)
  <2>1. FlowOf(m) \in InFlight /\ R \subseteq InFlight \ {FlowOf(m)}
    BY <1>1, <1>2, <1>6 DEF InFlight
  <2>2. /\ IsFiniteSet(InFlight \ {FlowOf(m)})
        /\ Cardinality(InFlight \ {FlowOf(m)}) = Cardinality(InFlight) - 1
    BY <1>3, <2>1, FS_RemoveElement
  <2>3. Cardinality(R) <= Cardinality(InFlight \ {FlowOf(m)})
    BY <2>1, <2>2, FS_Subset
  <2> QED BY <1>3, <2>2, <2>3
<1>7. Published(flows) = Cardinality(InFlight) /\ Published(flows') = Cardinality(S)
  BY PublishedType DEF Published
<1> HIDE DEF R, S
<1> QED BY <1>3, <1>5, <1>6, <1>7

LEMMA InitWindow == Init => Window
<1> SUFFICES ASSUME Init PROVE Window
  OBVIOUS
<1>1. \A t \in Threads : job[t].pc = "idle"
  BY IdleType DEF Init
<1>2. Published(flows) = 0
  <2>1. {f \in flows : f.cmd = "publish"} = {}
    BY DEF Init
  <2> QED BY <2>1, FS_EmptySet DEF Published
<1> QED BY <1>1, <1>2, SizesAssumption DEF Window, Sees, Counted

(* A step that lets nobody look, and puts nothing in flight. *)
LEMMA WindowCalm ==
  ASSUME Named, Named', Window,
         crowded' = "no" => crowded = "no",
         Published(flows') <= Published(flows),
         \A g \in flows' : \/ \E f \in flows : f.m = g.m /\ f.cmd = g.cmd
                           \/ \A u \in Threads : job'[u].pc \in Counted => job'[u].m # g.m,
         \A u \in Threads : job'[u].pc \in Counted =>
           job'[u].pc = job[u].pc /\ job'[u].m = job[u].m /\ job'[u].size = job[u].size,
         TypeOK
  PROVE  Window'
<1> SUFFICES ASSUME crowded' = "no"
             PROVE  Window'
  BY DEF Window
<1>1. /\ Published(flows) <= WindowSize
      /\ \A t, u \in Threads : job[t].pc \in Counted /\ job[u].pc \in Counted => t = u
      /\ \A t \in Threads : Sees(job[t], flows)
  BY DEF Window
<1>2. Published(flows) \in Nat /\ Published(flows') \in Nat /\ WindowSize \in Nat
  BY PublishedType, SizesAssumption, FS_Subset, FS_CardinalityType DEF Published, Named
<1>3. ASSUME NEW t \in Threads PROVE Sees(job'[t], flows')
  <2>1. CASE job'[t].pc \notin Counted
    BY <2>1 DEF Sees, Counted
  <2>2. CASE job'[t].pc \in Counted
    <3>1. job'[t].pc = job[t].pc /\ job'[t].m = job[t].m /\ job'[t].size = job[t].size
      BY <2>2
    <3>2. Sees(job[t], flows) /\ job[t].size \in Nat
      BY <1>1 DEF TypeOK, Jobs
    <3>3. \A g \in flows' : g.m = job'[t].m => \E f \in flows : f.m = g.m /\ f.cmd = g.cmd
      BY <2>2
    <3>4. job'[t].pc = "markagain" => \A g \in flows' : g.m = job'[t].m => g.cmd = "publish"
      BY <3>1, <3>2, <3>3 DEF Sees
    <3>5. job'[t].pc = "storepub" => Published(flows') < WindowSize
      BY <1>2, <3>1, <3>2 DEF Sees
    <3>6. job'[t].pc \in {"scan", "marknew", "markagain"} => Published(flows') <= job'[t].size
      BY <1>2, <3>1, <3>2 DEF Sees
    <3>7. job'[t].pc = "marknew" => job'[t].size < WindowSize
      BY <3>1, <3>2 DEF Sees
    <3> QED BY <3>4, <3>5, <3>6, <3>7 DEF Sees
  <2> QED BY <2>1, <2>2
<1>4. Published(flows') <= WindowSize
  BY <1>1, <1>2
<1>5. \A t, u \in Threads : job'[t].pc \in Counted /\ job'[u].pc \in Counted => t = u
  BY <1>1
<1> QED BY <1>3, <1>4, <1>5 DEF Window

(* A step of the one thread that looks at the window. *)
LEMMA WindowAlone ==
  ASSUME NEW t \in Threads, \A u \in Threads \ {t} : job'[u] = job[u],
         crowded' = "no" =>
           /\ \A u \in Threads \ {t} : job[u].pc \notin Counted
           /\ Published(flows') <= WindowSize
           /\ Sees(job'[t], flows')
  PROVE  Window'
<1> SUFFICES ASSUME crowded' = "no"
             PROVE  Window'
  BY DEF Window
<1>1. \A u \in Threads \ {t} : job'[u].pc \notin Counted
  OBVIOUS
<1>2. \A u \in Threads \ {t} : Sees(job'[u], flows')
  BY <1>1 DEF Sees, Counted
<1>3. \A u, v \in Threads : job'[u].pc \in Counted /\ job'[v].pc \in Counted => u = v
  BY <1>1
<1> QED BY <1>2, <1>3 DEF Window

(* When t looks and nobody is found out, it is alone. *)
LEMMA CountsAlone ==
  ASSUME Window, NEW t \in Threads, Counts(t), crowded' = "no"
  PROVE  /\ \A u \in Threads \ {t} : job[u].pc \notin Counted
         /\ Published(flows) <= WindowSize
BY DEF Counts, Window, Counted

LEMMA PublishedAdds ==
  ASSUME Named, NEW f
  PROVE  /\ Published(flows \union {f}) <= Published(flows) + 1
         /\ f.cmd # "publish" => Published(flows \union {f}) = Published(flows)
<1> DEFINE S == {g \in flows \union {f} : g.cmd = "publish"}
<1>1. S = IF f.cmd = "publish" THEN InFlight \union {f} ELSE InFlight
  BY DEF InFlight
<1>2. IsFiniteSet(InFlight) /\ Cardinality(InFlight) \in Nat
  BY PublishedType
<1>3. Cardinality(InFlight \union {f}) <= Cardinality(InFlight) + 1
  BY <1>2, FS_AddElement
<1>4. Published(flows) = Cardinality(InFlight) /\ Published(flows \union {f}) = Cardinality(S)
  BY PublishedType DEF Published
<1> HIDE DEF S
<1>5. CASE f.cmd = "publish"
  BY <1>1, <1>3, <1>4, <1>5
<1>6. CASE f.cmd # "publish"
  <2>1. Cardinality(S) <= Cardinality(InFlight) + 1
    BY <1>1, <1>2, <1>6
  <2> QED BY <1>1, <1>4, <1>6, <2>1
<1> QED BY <1>5, <1>6

LEMMA StoreWindow ==
  ASSUME TypeOK, Named, Named', Window, NEW t \in Threads, Store(t)
  PROVE  Window'
<1>1. PICK f \in Flows : /\ f.m = job[t].m
                         /\ f.cmd = IF job[t].pc = "storepub" THEN "publish" ELSE "none"
                         /\ flows' = flows \union {f}
  BY StoreAdds
<1>2. job'[t].pc \notin Counted /\ \A u \in Threads \ {t} : job'[u] = job[u]
  BY StoreJob, IdleType DEF Counted
<1>3. UNCHANGED crowded
  BY DEF Store, pastVars
<1>4. Published(flows) \in Nat /\ Published(flows') \in Nat /\ WindowSize \in Nat
  BY PublishedType, SizesAssumption, FS_Subset, FS_CardinalityType DEF Published, Named
<1>5. CASE job[t].pc = "storepub"
  <2>1. ASSUME crowded = "no"
        PROVE  /\ \A u \in Threads \ {t} : job[u].pc \notin Counted
               /\ Published(flows) < WindowSize
    BY <1>5, <2>1 DEF Window, Sees, Counted
  <2>2. Published(flows') <= Published(flows) + 1
    BY <1>1, PublishedAdds
  <2>3. Sees(job'[t], flows')
    BY <1>2 DEF Sees, Counted
  <2> QED BY <1>2, <1>3, <1>4, <2>1, <2>2, <2>3, WindowAlone
<1>6. CASE job[t].pc # "storepub"
  <2>1. Published(flows') = Published(flows)
    BY <1>1, <1>6, PublishedAdds
  <2>2. \A u \in Threads \ {t} : job[u].m # job[t].m
    BY DEF Store, Storing, Named
  <2>3. \A g \in flows' : \/ \E h \in flows : h.m = g.m /\ h.cmd = g.cmd
                          \/ \A u \in Threads : job'[u].pc \in Counted => job'[u].m # g.m
    BY <1>1, <1>2, <2>2
  <2>4. \A u \in Threads : job'[u].pc \in Counted =>
          job'[u].pc = job[u].pc /\ job'[u].m = job[u].m /\ job'[u].size = job[u].size
    BY <1>2
  <2>5. Published(flows') <= Published(flows)
    BY <1>4, <2>1
  <2> QED BY <1>3, <2>3, <2>4, <2>5, WindowCalm
<1> QED BY <1>5, <1>6

LEMMA ResendWindow ==
  ASSUME TypeOK, Named, Window, NEW t \in Threads, NEW m \in job[t].todo, Resend(t, m)
  PROVE  Window'
<1>1. IsMark(job'[t], job[t], m) /\ \A u \in Threads \ {t} : job'[u] = job[u]
  BY ResendJob
<1>2. /\ job[t].pc = "scan" /\ UNCHANGED <<flows, crowded>>
      /\ Stored(m) /\ (FlowOf(m).cmd = "none" => job[t].size < WindowSize)
  BY DEF Resend, Sends, pastVars
<1>3. \A f \in flows : f.m = m => f = FlowOf(m)
  BY <1>2, FlowIs DEF Named
<1>4. FlowOf(m).cmd \in {"none", "publish"}
  BY <1>2, FlowIs DEF TypeOK, Flows
<1>5. ASSUME crowded = "no"
      PROVE  /\ \A u \in Threads \ {t} : job[u].pc \notin Counted
             /\ Published(flows) <= WindowSize /\ Published(flows) <= job[t].size
  BY <1>2, <1>5 DEF Window, Sees, Counted
<1>6. ASSUME crowded = "no" PROVE Sees(job'[t], flows)
  BY <1>1, <1>2, <1>3, <1>4, <1>5, <1>6 DEF Sees, IsMark
<1> QED BY <1>1, <1>2, <1>5, <1>6, WindowAlone

LEMMA MarkWindow ==
  ASSUME TypeOK, Named, Named', Window, NEW t \in Threads, Mark(t)
  PROVE  Window'
<1>1. /\ job'[t].pc = "scan"
      /\ job'[t].size = IF job[t].pc = "marknew" THEN job[t].size + 1 ELSE job[t].size
      /\ \A u \in Threads \ {t} : job'[u] = job[u]
  BY MarkJob
<1>2. PICK f : /\ IsMarked(f, job[t].m)
               /\ (Stored(job[t].m) => Change(job[t].m, f))
               /\ (~ Stored(job[t].m) => flows' = flows)
  BY MarkFlow
<1>3. UNCHANGED crowded /\ job[t].pc \in {"marknew", "markagain"}
  BY DEF Mark, pastVars
<1>4. /\ Published(flows) \in Nat /\ Published(flows') \in Nat /\ WindowSize \in Nat
      /\ job[t].size \in Nat
  BY PublishedType, SizesAssumption, FS_Subset, FS_CardinalityType
     DEF Published, Named, TypeOK, Jobs
<1>5. ASSUME crowded = "no"
      PROVE  /\ \A u \in Threads \ {t} : job[u].pc \notin Counted
             /\ Published(flows) <= WindowSize /\ Published(flows) <= job[t].size
             /\ job[t].pc = "marknew" => job[t].size < WindowSize
             /\ job[t].pc = "markagain" => \A g \in flows : g.m = job[t].m => g.cmd = "publish"
  BY <1>3, <1>5 DEF Window, Sees, Counted
<1>6. ASSUME Stored(job[t].m)
      PROVE  /\ Published(flows') <= Published(flows) + 1
             /\ FlowOf(job[t].m).cmd = "publish" => Published(flows') <= Published(flows)
  BY <1>2, <1>6, FlowIs, PublishedChange DEF IsMarked
<1>7. ASSUME crowded = "no", job[t].pc = "marknew"
      PROVE  Published(flows') <= job'[t].size /\ Published(flows') <= WindowSize
  <2>1. Published(flows') <= Published(flows) + 1
    BY <1>2, <1>4, <1>6
  <2>2. Published(flows) <= job[t].size /\ job[t].size < WindowSize /\ job'[t].size = job[t].size + 1
    BY <1>1, <1>5, <1>7
  <2> QED BY <1>4, <2>1, <2>2
<1>8. ASSUME crowded = "no", job[t].pc = "markagain"
      PROVE  Published(flows') <= job'[t].size /\ Published(flows') <= WindowSize
  <2>1. Stored(job[t].m) => FlowOf(job[t].m).cmd = "publish"
    BY <1>5, <1>8, FlowIs
  <2>2. Published(flows') <= Published(flows)
    BY <1>2, <1>4, <1>6, <2>1
  <2>3. Published(flows) <= job[t].size /\ Published(flows) <= WindowSize /\ job'[t].size = job[t].size
    BY <1>1, <1>5, <1>8
  <2> QED BY <1>4, <2>2, <2>3
<1>9. ASSUME crowded = "no" PROVE Sees(job'[t], flows') /\ Published(flows') <= WindowSize
  BY <1>1, <1>3, <1>7, <1>8, <1>9 DEF Sees
<1> QED BY <1>1, <1>3, <1>5, <1>9, WindowAlone

LEMMA NextWindow ==
  ASSUME TypeOK, Named, Named', Window, [Next]_vars
  PROVE  Window'
<1>1. job \in [Threads -> Jobs] /\ "main" \in Threads /\ Streams \subseteq Threads
  BY DEF TypeOK, Threads
<1>2. /\ Published(flows) \in Nat /\ Published(flows') \in Nat /\ WindowSize \in Nat
      /\ Published(flows) <= Published(flows)
  BY PublishedType, SizesAssumption, FS_Subset, FS_CardinalityType DEF Published, Named
<1>3. ASSUME UNCHANGED <<flows, crowded>>,
             \A u \in Threads : job'[u].pc \in Counted =>
               job'[u].pc = job[u].pc /\ job'[u].m = job[u].m /\ job'[u].size = job[u].size
      PROVE  Window'
  BY <1>2, <1>3, WindowCalm
<1>4. ASSUME NEW t \in Threads, Publish(t) PROVE Window'
  <2>1. job'[t].pc \notin Counted /\ \A u \in Threads \ {t} : job'[u] = job[u]
    BY <1>4, PublishJob DEF Counted
  <2> QED BY <1>3, <1>4, <2>1 DEF Publish, pastVars
<1>5. ASSUME NEW t \in Threads, Decide(t) PROVE Window'
  <2>1. PICK p \in {"storepub", "storenone"} :
          /\ job' = [job EXCEPT ![t].pc = p]
          /\ p = "storepub" => Cardinality(InFlight) < WindowSize
    BY <1>5 DEF Decide
  <2>2. job'[t].pc = p /\ \A u \in Threads \ {t} : job'[u] = job[u]
    BY <1>1, <2>1 DEF Jobs
  <2>3. UNCHANGED flows /\ Counts(t)
    BY <1>5 DEF Decide
  <2>4. Sees(job'[t], flows')
    BY <2>1, <2>2, <2>3, PublishedType DEF Sees
  <2> QED BY <2>2, <2>3, <2>4, CountsAlone, WindowAlone
<1>6. ASSUME NEW t \in Threads, Send(t) \/ Checked(t) PROVE Window'
  <2>1. job' = [job EXCEPT ![t] = Idle]
    BY <1>6 DEF Send, Checked
  <2>2. job'[t].pc \notin Counted /\ \A u \in Threads \ {t} : job'[u] = job[u]
    BY <1>1, <2>1, IdleType DEF Counted
  <2> QED BY <1>3, <1>6, <2>2 DEF Send, Checked, pastVars
<1>7. ASSUME NEW t \in Threads, NEW m \in job[t].todo, PassOver(t, m) PROVE Window'
  <2>1. job' = [job EXCEPT ![t].todo = @ \ {m}] /\ UNCHANGED <<flows, crowded>>
    BY <1>7 DEF PassOver, pastVars
  <2>2. \A u \in Threads : /\ job'[u].pc = job[u].pc /\ job'[u].m = job[u].m
                           /\ job'[u].size = job[u].size
    BY <1>1, <2>1 DEF Jobs
  <2> QED BY <1>3, <2>1, <2>2
<1>8. CASE Timer
  <2>1. job' = [job EXCEPT !["main"] = Scan] /\ UNCHANGED flows /\ Counts("main")
    BY <1>8 DEF Timer
  <2>2. /\ IsCheck(job'["main"], Pending(flows), Published(flows))
        /\ \A u \in Threads \ {"main"} : job'[u] = job[u]
    BY <1>1, <2>1, ScanIs
  <2>3. Sees(job'["main"], flows')
    BY <1>2, <2>1, <2>2 DEF Sees, IsCheck
  <2> QED BY <1>1, <2>1, <2>2, <2>3, CountsAlone, WindowAlone
<1>9. ASSUME NEW s \in Streams, NEW present \in BOOLEAN, LinkUp(s, present) PROVE Window'
  <2>1. /\ flows' \subseteq flows
        /\ IsCheck(job'[s], Pending(flows'), Published(flows'))
        /\ \A u \in Threads \ {s} : job'[u] = job[u]
    BY <1>9, LinkUpJob
  <2>2. Published(flows') <= Published(flows) /\ Counts(s)
    BY <1>9, <2>1, PublishedShrinks DEF LinkUp
  <2>3. Sees(job'[s], flows')
    BY <1>2, <2>1 DEF Sees, IsCheck
  <2>4. crowded' = "no" => \A u \in Threads \ {s} : job[u].pc \notin Counted
    BY <1>1, <2>2, CountsAlone
  <2>5. crowded' = "no" => Published(flows') <= WindowSize
    BY <1>1, <1>2, <2>2, CountsAlone
  <2> QED BY <1>1, <2>1, <2>3, <2>4, <2>5, WindowAlone
<1>10. ASSUME NEW m \in 1..Messages, Expire(m) PROVE Window'
  <2>1. PICK f \in Flows : /\ f.m = m /\ f.cmd = FlowOf(m).cmd /\ Stored(m) /\ Change(m, f)
    BY <1>10, ExpireChange
  <2>2. Published(flows') <= Published(flows)
    BY <2>1, PublishedChange
  <2>3. \A g \in flows' : \E h \in flows : h.m = g.m /\ h.cmd = g.cmd
    BY <2>1, FlowIs DEF Change
  <2> QED BY <1>10, <2>2, <2>3, WindowCalm DEF Expire, pastVars
<1>11. CASE LinkDown
  <2>1. \A g \in flows' : \E h \in flows : h.m = g.m /\ h.cmd = g.cmd
    BY <1>11, LinkDownKeeps
  <2>2. Published(flows') <= Published(flows)
    BY <1>11, LinkDownKeeps, ImageFinite, PublishedType DEF Published
  <2> QED BY <1>11, <2>1, <2>2, WindowCalm DEF LinkDown, pastVars
<1>12. CASE Puback
  <2>1. flows' \subseteq flows /\ UNCHANGED <<job, crowded>>
    BY <1>12 DEF Puback
  <2>2. Published(flows') <= Published(flows)
    BY <2>1, PublishedShrinks
  <2> QED BY <2>1, <2>2, WindowCalm
<1>13. CASE Crash
  <2>1. \A u \in Threads : job'[u].pc \notin Counted
    BY <1>13, IdleType DEF Crash, Counted
  <2> QED BY <1>3, <1>13, <2>1 DEF Crash, pastVars
<1>14. CASE Breaks \/ BrokerReceives \/ UNCHANGED vars
  <2>1. UNCHANGED <<flows, crowded, job>>
    BY <1>14 DEF Breaks, BrokerReceives, vars, pastVars
  <2> QED BY <1>3, <2>1
<1>15. ASSUME NEW fresh \in BOOLEAN, CleanConnect(fresh) PROVE Window'
  <2>1. flows' \subseteq flows /\ UNCHANGED <<job, crowded>>
    BY <1>15 DEF CleanConnect, pastVars
  <2>2. Published(flows') <= Published(flows)
    BY <2>1, PublishedShrinks
  <2> QED BY <2>1, <2>2, WindowCalm
<1> QED BY <1>4, <1>5, <1>6, <1>7, <1>8, <1>9, <1>10, <1>11, <1>12, <1>13, <1>14, <1>15,
           StoreWindow, ResendWindow, MarkWindow DEF Next, Step

(* No more flows are in flight than the window allows, over reconnects,    *)
(* retransmissions and restarts, unless two threads have looked at the     *)
(* window together.                                                        *)
THEOREM WindowBounds == SafeSpec => []InFlightBounded
<1>1. Named /\ Window => InFlightBounded
  BY PublishedType DEF Window, InFlightBounded
<1> QED BY <1>1, InitType, NextType, InitNamed, NextNamed, InitWindow, NextWindow, PTL
        DEF SafeSpec

-----------------------------------------------------------------------------
(* The alias. *)

LEMMA InitTold == Init => Told
<1> SUFFICES ASSUME Init PROVE Told
  OBVIOUS
<1>1. \A t \in Threads : job[t].form = "topic"
  BY IdleType DEF Init
<1>2. wire = <<>> /\ peer = "gone" /\ registered = "no"
  BY DEF Init
<1> QED BY <1>1, <1>2, EmptyType DEF Told, Ordered

(* A step that sends nothing and takes no topic. *)
LEMMA ToldQuiet ==
  ASSUME TypeOK, Told, UNCHANGED <<version, link, peer, known, wire, registered>>,
         maximum' = "unknown" => maximum = "unknown",
         rushed' = "no" => rushed = "no",
         \A u \in Threads : job'[u].form \in {job[u].form, "topic"},
         rushed' = "no" /\ registered = "yes" => \A u \in Threads : Owes(u) => Owes(u)'
  PROVE  Told'
<1>1. /\ \A u \in Threads : job'[u].form = "empty" => job[u].form = "empty"
      /\ \A u \in Threads : job[u].form = "topic" => job'[u].form = "topic"
  OBVIOUS
<1>2. ASSUME rushed' = "no"
      PROVE  /\ link' = "down" => \A t \in Threads : job'[t].form = "topic"
             /\ Ordered(wire)'
             /\ peer' = "open" =>
                  /\ (\E t \in Threads : job'[t].form = "empty") => Tells(wire)'
                  /\ registered' = "yes" => Tells(wire)' \/ \E t \in Threads : Owes(t)'
  BY <1>1, <1>2 DEF Told, Tells, Ordered
<1> QED BY <1>1, <1>2 DEF Told

(* What encode does to the wire. *)
LEMMA EncodeTold ==
  ASSUME TypeOK, Told, NEW id \in Ids, NEW m \in Numbers, NEW form \in Forms,
         Encode(id, m, form), form = "empty" => version = 5
  PROVE  /\ \A i \in DOMAIN wire' : wire'[i].form = "empty" => version = 5
         /\ peer = "gone" => wire' = wire
         /\ Tells(wire) => Tells(wire')
         /\ peer = "open" /\ form = "topic" => Tells(wire')
         /\ Ordered(wire) /\ (peer = "open" /\ form = "empty" => Tells(wire)) => Ordered(wire')
<1> DEFINE p == [id |-> id, m |-> m, form |-> form]
<1>1. p \in Packets /\ p.form = form
  BY DEF Packets
<1>2. IF link = "up" /\ peer = "open" THEN wire' = Append(wire, p) ELSE wire' = wire
  BY DEF Encode
<1> HIDE DEF p
<1>3. CASE wire' = wire /\ peer = "gone"
  BY <1>3 DEF Told
<1>4. CASE wire' = Append(wire, p) /\ peer = "open"
  <2> DEFINE n == Len(wire)
  <2>1. /\ n \in Nat /\ DOMAIN wire = 1..n /\ DOMAIN wire' = 1..n + 1
        /\ \A i \in DOMAIN wire : wire'[i] = wire[i]
        /\ wire'[n + 1] = p
    BY <1>1, <1>4, AppendType DEF TypeOK
  <2> HIDE DEF n
  <2>2. \A i \in DOMAIN wire' : i \in DOMAIN wire \/ i = n + 1
    BY <2>1
  <2>3. DOMAIN wire \subseteq DOMAIN wire' /\ n + 1 \in DOMAIN wire'
    BY <2>1
  <2>4. \A i \in DOMAIN wire' : wire'[i].form = "empty" => version = 5
    BY <1>1, <2>1, <2>2 DEF Told
  <2>5. Tells(wire) => Tells(wire')
    BY <2>1, <2>3 DEF Tells
  <2>6. form = "topic" => Tells(wire')
    BY <1>1, <2>1, <2>3 DEF Tells
  <2>7. ASSUME Ordered(wire), form = "empty" => Tells(wire) PROVE Ordered(wire')
    <3> SUFFICES ASSUME NEW i \in DOMAIN wire', wire'[i].form = "empty", known # "yes"
                 PROVE  \E j \in 1..(i - 1) : wire'[j].form = "topic"
      BY DEF Ordered
    <3>1. CASE i \in DOMAIN wire
      <4>1. PICK j \in 1..(i - 1) : wire[j].form = "topic"
        BY <2>1, <2>7, <3>1 DEF Ordered
      <4>2. j \in DOMAIN wire
        BY <2>1, <3>1
      <4> QED BY <2>1, <4>1, <4>2
    <3>2. CASE i = n + 1
      <4>1. form = "empty"
        BY <1>1, <2>1, <3>2
      <4>2. PICK j \in DOMAIN wire : wire[j].form = "topic"
        BY <2>7, <4>1 DEF Tells
      <4>3. j \in 1..(i - 1)
        BY <2>1, <3>2
      <4> QED BY <2>1, <4>2, <4>3
    <3> QED BY <2>2, <3>1, <3>2
  <2> QED BY <1>4, <2>4, <2>5, <2>6, <2>7
<1>5. peer \in {"open", "gone"} /\ (peer = "open" => link = "up")
  BY DEF TypeOK, Told
<1> QED BY <1>2, <1>3, <1>4, <1>5

(* What topicToSend gives out. *)
LEMMA FormIs ==
  ASSUME TypeOK, Told, NEW t \in Threads, ~ Owes(t), TopicToSend(t)
  PROVE  /\ Form \in Forms /\ (Form = "empty" => version = 5)
         /\ maximum' = "unknown" => registered' = "no"
         /\ rushed' = "no" => rushed = "no"
         /\ rushed' = "no" /\ peer = "open" /\ Form = "empty" => Tells(wire)
<1>1. Form \in Forms /\ (Form = "empty" => maximum = "known" /\ registered = "yes")
  BY DEF Form, Forms
<1>2. rushed \in {"yes", "no"} /\ (maximum = "known" => version = 5)
  BY DEF TypeOK
<1>3. rushed' = "no" => rushed = "no" /\ (Form = "empty" => \A u \in Threads : ~ Owes(u))
  BY <1>2 DEF TopicToSend
<1>4. maximum' = "unknown" => registered' = "no"
  BY DEF TopicToSend, Told
<1> QED BY <1>1, <1>2, <1>3, <1>4 DEF Told

LEMMA PublishTold ==
  ASSUME TypeOK, Named, Told, NEW t \in Threads, Publish(t)
  PROVE  Told'
<1>1. /\ job'[t].pc = "decide" /\ job'[t].form = Form
      /\ \A u \in Threads \ {t} : job'[u] = job[u]
  BY PublishJob
<1>2. /\ ~ Owes(t) /\ TopicToSend(t) /\ link = "up"
      /\ UNCHANGED <<version, link, peer, known, wire>>
  BY IdleType DEF Publish, Owes, netVars
<1>3. /\ Form \in Forms /\ (Form = "empty" => version = 5)
      /\ maximum' = "unknown" => registered' = "no"
      /\ rushed' = "no" => rushed = "no"
      /\ rushed' = "no" /\ peer = "open" /\ Form = "empty" => Tells(wire)
  BY <1>2, FormIs
<1>4. Form = "topic" => Owes(t)'
  BY <1>1 DEF Owes
<1>5. ASSUME rushed' = "no"
      PROVE  /\ Ordered(wire)'
             /\ peer' = "open" =>
                  /\ (\E u \in Threads : job'[u].form = "empty") => Tells(wire)'
                  /\ registered' = "yes" => Tells(wire)' \/ \E u \in Threads : Owes(u)'
  <2>1. Ordered(wire)'
    BY <1>2, <1>3, <1>5 DEF Told, Ordered
  <2>2. ASSUME peer = "open", NEW u \in Threads, job'[u].form = "empty" PROVE Tells(wire)
    BY <1>1, <1>3, <1>5, <2>2 DEF Told
  <2>3. ASSUME peer = "open" PROVE Tells(wire) \/ \E u \in Threads : Owes(u)'
    BY <1>3, <1>4, <1>5, <2>3 DEF Forms
  <2>4. Tells(wire)' <=> Tells(wire)
    BY <1>2 DEF Tells
  <2> QED BY <1>2, <2>1, <2>2, <2>3, <2>4
<1>6. \A u \in Threads : job'[u].form = "empty" => version' = 5
  BY <1>1, <1>2, <1>3 DEF Told
<1> QED BY <1>2, <1>3, <1>5, <1>6 DEF Told

LEMMA SendTold ==
  ASSUME TypeOK, Named, Told, NEW t \in Threads, Send(t)
  PROVE  Told'
<1>1. job' = [job EXCEPT ![t] = Idle]
  BY DEF Send
<1>2. job'[t] = Idle /\ \A u \in Threads \ {t} : job'[u] = job[u]
  BY <1>1 DEF TypeOK
<1>3. /\ job[t].pc = "send" /\ Encode(job[t].id, job[t].m, job[t].form)
      /\ UNCHANGED <<version, link, peer, known, maximum, registered, rushed>>
  BY DEF Send, netVars, aliasVars
<1>4. /\ job[t].id \in Ids /\ job[t].m \in Numbers /\ job[t].form \in Forms
      /\ job[t].form = "empty" => version = 5
  BY <1>3, SizesAssumption DEF Named, TypeOK, Jobs, Ids, Numbers, Told
<1>5. /\ \A i \in DOMAIN wire' : wire'[i].form = "empty" => version = 5
      /\ peer = "gone" => wire' = wire
      /\ Tells(wire) => Tells(wire')
      /\ peer = "open" /\ job[t].form = "topic" => Tells(wire')
      /\ Ordered(wire) /\ (peer = "open" /\ job[t].form = "empty" => Tells(wire)) => Ordered(wire')
  BY <1>3, <1>4, EncodeTold
<1>6. (Tells(wire)' <=> Tells(wire')) /\ (Ordered(wire)' <=> Ordered(wire'))
  BY <1>3 DEF Tells, Ordered
<1>7. \A u \in Threads : job'[u].form = "empty" => job[u].form = "empty"
  BY <1>2, IdleType
<1>8. \A u \in Threads : job[u].form = "topic" => job'[u].form = "topic"
  BY <1>2, IdleType
<1>9. ASSUME NEW u \in Threads, Owes(u) PROVE Owes(u)' \/ job[t].form = "topic"
  <2>1. CASE u = t
    BY <1>9, <2>1 DEF Owes
  <2>2. CASE u # t
    <3>1. job'[u] = job[u]
      BY <1>2, <2>2
    <3> QED BY <1>9, <3>1 DEF Owes
  <2> QED BY <2>1, <2>2
<1>10. ASSUME rushed = "no"
       PROVE  /\ Ordered(wire')
              /\ peer = "open" =>
                   /\ (\E u \in Threads : job'[u].form = "empty") => Tells(wire')
                   /\ registered = "yes" => Tells(wire') \/ \E u \in Threads : Owes(u)'
  <2>1. Ordered(wire) /\ (peer = "open" /\ job[t].form = "empty" => Tells(wire))
    BY <1>10 DEF Told
  <2>2. peer = "open" => ((\E u \in Threads : job'[u].form = "empty") => Tells(wire'))
    BY <1>5, <1>7, <1>10 DEF Told
  <2>3. peer = "open" /\ registered = "yes" => Tells(wire') \/ \E u \in Threads : Owes(u)'
    BY <1>5, <1>9, <1>10 DEF Told
  <2> QED BY <1>5, <2>1, <2>2, <2>3
<1>11. peer = "gone" => wire' = <<>>
  BY <1>5 DEF Told
<1> QED BY <1>3, <1>5, <1>6, <1>7, <1>8, <1>10, <1>11 DEF Told

LEMMA ResendTold ==
  ASSUME TypeOK, Named, Told, NEW t \in Threads, NEW m \in job[t].todo, Resend(t, m)
  PROVE  Told'
<1>1. IsMark(job'[t], job[t], m) /\ \A u \in Threads \ {t} : job'[u] = job[u]
  BY ResendJob
<1>2. /\ job[t].pc = "scan" /\ Encode(FlowOf(m).id, m, Form) /\ TopicToSend(t) /\ Stored(m)
      /\ UNCHANGED <<version, link, peer, known>>
  BY DEF Resend, Sends, netVars
<1>3. ~ Owes(t)
  BY <1>2 DEF Owes
<1>4. /\ Form \in Forms /\ (Form = "empty" => version = 5)
      /\ maximum' = "unknown" => registered' = "no"
      /\ rushed' = "no" => rushed = "no"
      /\ rushed' = "no" /\ peer = "open" /\ Form = "empty" => Tells(wire)
  BY <1>2, <1>3, FormIs
<1>5. FlowOf(m).id \in Ids /\ m \in Numbers
  BY <1>2, FlowIs DEF TypeOK, Flows
<1>6. /\ \A i \in DOMAIN wire' : wire'[i].form = "empty" => version = 5
      /\ peer = "gone" => wire' = wire
      /\ Tells(wire) => Tells(wire')
      /\ peer = "open" /\ Form = "topic" => Tells(wire')
      /\ Ordered(wire) /\ (peer = "open" /\ Form = "empty" => Tells(wire)) => Ordered(wire')
  BY <1>2, <1>4, <1>5, EncodeTold
<1>7. (Tells(wire)' <=> Tells(wire')) /\ (Ordered(wire)' <=> Ordered(wire'))
  BY <1>2 DEF Tells, Ordered
<1>8. \A u \in Threads : job'[u].form = job[u].form
  BY <1>1 DEF IsMark
<1>9. ASSUME rushed' = "no"
      PROVE  Ordered(wire') /\ (peer = "open" => Tells(wire'))
  BY <1>4, <1>6, <1>9 DEF Told, Forms
<1>10. peer = "gone" => wire' = <<>>
  BY <1>6 DEF Told
<1>11. rushed' = "no" /\ link = "down" => \A u \in Threads : job'[u].form = "topic"
  BY <1>4, <1>8 DEF Told
<1>12. \A u \in Threads : job'[u].form = "empty" => version' = 5
  BY <1>2, <1>8 DEF Told
<1> QED BY <1>2, <1>4, <1>6, <1>7, <1>9, <1>10, <1>11, <1>12 DEF Told

LEMMA StoreTold ==
  ASSUME TypeOK, Named, Told, NEW t \in Threads, Store(t)
  PROVE  Told'
<1>1. /\ job[t].pc = "storepub" => job'[t].pc = "send" /\ job'[t].form = job[t].form
      /\ job[t].pc # "storepub" => job'[t] = Idle
      /\ \A u \in Threads \ {t} : job'[u] = job[u]
  BY StoreJob
<1>2. /\ UNCHANGED <<version, link, peer, known, wire, maximum, registered>>
      /\ rushed' = IF job[t].pc # "storepub" /\ maximum = "known" /\ job[t].form = "topic"
                     THEN "yes" ELSE rushed
  BY DEF Store, netVars
<1>3. \A u \in Threads : job'[u].form \in {job[u].form, "topic"}
  BY <1>1, IdleType
<1>4. maximum \in {"unknown", "known"} /\ (registered = "yes" => maximum # "unknown")
  BY DEF TypeOK, Told
<1>5. rushed' = "no" /\ registered = "yes" => \A u \in Threads : Owes(u) => Owes(u)'
  BY <1>1, <1>2, <1>4 DEF Owes
<1> QED BY <1>2, <1>3, <1>5, ToldQuiet

LEMMA BrokerTold ==
  ASSUME TypeOK, Told, BrokerReceives
  PROVE  Told'
<1>1. /\ wire # <<>> /\ wire \in Seq(Packets)
      /\ UNCHANGED <<version, link, job, maximum, registered, rushed>>
  BY DEF BrokerReceives, aliasVars, TypeOK
<1>2. CASE Unknown(Head(wire))
  <2>1. peer' = "gone" /\ wire' = <<>> /\ UNCHANGED known
    BY <1>2 DEF BrokerReceives
  <2> QED BY <1>1, <2>1, EmptyType DEF Told, Ordered
<1>3. CASE ~ Unknown(Head(wire))
  <2>1. wire' = Tail(wire) /\ UNCHANGED peer /\ (version = 5 => known' = "yes")
    BY <1>3 DEF BrokerReceives
  <2>2. \A i \in DOMAIN Tail(wire) : i + 1 \in DOMAIN wire /\ Tail(wire)[i] = wire[i + 1]
    BY <1>1, TailType
  <2>3. peer # "gone"
    BY <1>1 DEF Told
  <2>4. \A i \in DOMAIN wire' : wire'[i].form = "empty" => version = 5
    BY <2>1, <2>2 DEF Told
  <2>5. registered = "yes" => version = 5
    BY DEF TypeOK, Told
  <2>6. Ordered(wire)'
    BY <2>1, <2>4 DEF Ordered
  <2>7. version = 5 => Tells(wire)'
    BY <2>1 DEF Tells
  <2>8. (\E t \in Threads : job[t].form = "empty") => version = 5
    BY DEF Told
  <2> QED BY <1>1, <2>1, <2>3, <2>4, <2>5, <2>6, <2>7, <2>8 DEF Told
<1> QED BY <1>2, <1>3

LEMMA NextTold ==
  ASSUME TypeOK, Named, Told, [Next]_vars
  PROVE  Told'
<1>1. job \in [Threads -> Jobs] /\ "main" \in Threads /\ Streams \subseteq Threads
  BY DEF TypeOK, Threads
<1>2. \A t \in Threads : job[t].form \in Forms
  BY <1>1 DEF Jobs
<1>3. ASSUME UNCHANGED <<version, netVars, aliasVars, wire>>,
             NEW t \in Threads, job'[t].form \in {job[t].form, "topic"}, Owes(t) => Owes(t)',
             \A u \in Threads \ {t} : job'[u] = job[u]
      PROVE  Told'
  <2>1. \A u \in Threads : Owes(u) => Owes(u)'
    BY <1>3 DEF Owes
  <2>2. \A u \in Threads : job'[u].form \in {job[u].form, "topic"}
    BY <1>3
  <2> QED BY <1>3, <2>1, <2>2, ToldQuiet DEF netVars, aliasVars
<1>4. ASSUME NEW t \in Threads, Decide(t) PROVE Told'
  <2>1. PICK p \in {"storepub", "storenone"} : job' = [job EXCEPT ![t].pc = p]
    BY <1>4 DEF Decide
  <2>2. /\ job'[t].pc = p /\ job'[t].form = job[t].form
        /\ \A u \in Threads \ {t} : job'[u] = job[u]
    BY <1>1, <2>1 DEF Jobs
  <2>3. Owes(t) => Owes(t)'
    BY <2>2 DEF Owes
  <2> QED BY <1>3, <1>4, <2>2, <2>3 DEF Decide
<1>5. ASSUME NEW t \in Threads, Checked(t) PROVE Told'
  <2>1. job' = [job EXCEPT ![t] = Idle] /\ job[t].pc = "scan"
    BY <1>5 DEF Checked
  <2>2. job'[t] = Idle /\ \A u \in Threads \ {t} : job'[u] = job[u]
    BY <1>1, <2>1
  <2>3. \A u \in Threads : Owes(u) => Owes(u)'
    BY <2>1, <2>2 DEF Owes
  <2>4. \A u \in Threads : job'[u].form \in {job[u].form, "topic"}
    BY <2>2, IdleType
  <2>5. /\ UNCHANGED <<version, link, peer, known, wire, registered, rushed>>
        /\ maximum' = "unknown" => maximum = "unknown"
    BY <1>5 DEF Checked, netVars, TypeOK
  <2> QED BY <2>3, <2>4, <2>5, ToldQuiet
<1>6. ASSUME NEW t \in Threads, NEW m \in job[t].todo, PassOver(t, m) PROVE Told'
  <2>1. job' = [job EXCEPT ![t].todo = @ \ {m}] /\ job[t].pc = "scan"
    BY <1>6 DEF PassOver
  <2>2. job'[t].form = job[t].form /\ \A u \in Threads \ {t} : job'[u] = job[u]
    BY <1>1, <2>1 DEF Jobs
  <2> QED BY <1>3, <1>6, <2>1, <2>2 DEF PassOver, Owes
<1>7. ASSUME NEW t \in Threads, Mark(t) PROVE Told'
  <2>1. job'[t].form = job[t].form /\ \A u \in Threads \ {t} : job'[u] = job[u]
    BY <1>7, MarkJob
  <2>2. ~ Owes(t)
    BY <1>7 DEF Mark, Owes
  <2> QED BY <1>3, <1>7, <2>1, <2>2 DEF Mark
<1>8. CASE Timer
  <2>1. job' = [job EXCEPT !["main"] = Scan] /\ job["main"] = Idle
    BY <1>8 DEF Timer
  <2>2. job'["main"].form = "topic" /\ \A u \in Threads \ {"main"} : job'[u] = job[u]
    BY <1>1, <2>1, ScanIs DEF IsCheck
  <2>3. ~ Owes("main")
    BY <2>1, IdleType DEF Owes
  <2> QED BY <1>1, <1>3, <1>8, <2>2, <2>3 DEF Timer
<1>9. CASE (\E m \in 1..Messages : Expire(m)) \/ Puback \/ UNCHANGED vars
  <2>1. UNCHANGED <<version, netVars, aliasVars, wire, job>>
    BY <1>9 DEF Expire, Puback, vars
  <2>2. \A u \in Threads : Owes(u) => Owes(u)'
    BY <2>1 DEF Owes
  <2> QED BY <2>1, <2>2, ToldQuiet DEF netVars, aliasVars
<1>10. ASSUME NEW s \in Streams, NEW present \in BOOLEAN, LinkUp(s, present) PROVE Told'
  <2>1. /\ link = "down" /\ link' = "up" /\ peer' = "open" /\ wire' = <<>> /\ registered' = "no"
        /\ UNCHANGED <<version, maximum, rushed>>
    BY <1>10 DEF LinkUp
  <2>2. job'[s].form = "topic" /\ \A u \in Threads \ {s} : job'[u] = job[u]
    BY <1>10, LinkUpJob DEF IsCheck
  <2>3. \A u \in Threads : job'[u].form = "empty" => version = 5
    BY <2>2 DEF Told
  <2>4. rushed = "no" => \A u \in Threads : job'[u].form = "topic"
    BY <2>1, <2>2 DEF Told
  <2> QED BY <2>1, <2>3, <2>4, EmptyType DEF Told, Ordered
<1>11. CASE Breaks
  <2>1. peer' = "gone" /\ wire' = <<>> /\ UNCHANGED <<version, link, job, maximum, registered, rushed>>
    BY <1>11 DEF Breaks, aliasVars
  <2> QED BY <2>1, EmptyType DEF Told, Ordered
<1>12. CASE LinkDown
  <2>1. /\ peer' = "gone" /\ wire' = <<>> /\ UNCHANGED <<version, job, maximum, registered>>
        /\ rushed' = IF \E t \in Threads : job[t].form = "empty" THEN "yes" ELSE rushed
    BY <1>12 DEF LinkDown
  <2>2. rushed' = "no" => \A t \in Threads : job'[t].form = "topic"
    BY <1>2, <2>1 DEF Forms
  <2> QED BY <2>1, <2>2, EmptyType DEF Told, Ordered
<1>13. CASE Crash
  <2>1. /\ peer' = "gone" /\ wire' = <<>> /\ registered' = "no"
        /\ \A t \in Threads : job'[t].form = "topic"
    BY <1>13, IdleType DEF Crash
  <2> QED BY <2>1, EmptyType DEF Told, Ordered
<1>14. ASSUME NEW fresh \in BOOLEAN, CleanConnect(fresh) PROVE Told'
  <2>1. link = "down" /\ UNCHANGED <<version, netVars, job, rushed, wire>>
    BY <1>14 DEF CleanConnect
  <2>2. /\ registered' \in {"no", registered} /\ (maximum' = "unknown" => registered' = "no")
    BY <1>14 DEF CleanConnect, Told
  <2>3. peer' # "open"
    BY <2>1 DEF Told, netVars
  <2> QED BY <2>1, <2>2, <2>3 DEF Told, Ordered, netVars
<1> QED BY <1>4, <1>5, <1>6, <1>7, <1>8, <1>9, <1>10, <1>11, <1>12, <1>13, <1>14,
           PublishTold, SendTold, ResendTold, StoreTold, BrokerTold DEF Next, Step

(* The broker meets an alias it has not been told only if a message with   *)
(* the topic had to wait for the window, or two threads or two connections *)
(* were publishing at the same time.                                       *)
THEOREM AliasIsTold == SafeSpec => []AliasKnown
<1>1. TypeOK /\ Told => AliasKnown
  <2> SUFFICES ASSUME TypeOK, Told, wire # <<>>, Unknown(Head(wire)), rushed # "yes"
               PROVE  FALSE
    BY DEF AliasKnown
  <2>1. Head(wire) = wire[1] /\ 1 \in DOMAIN wire
    BY TailType DEF TypeOK
  <2>2. wire[1].form = "empty" /\ known # "yes" /\ rushed = "no"
    BY <2>1 DEF Unknown, TypeOK
  <2>3. \E j \in 1..(1 - 1) : wire[j].form = "topic"
    BY <2>1, <2>2 DEF Told, Ordered
  <2> QED BY <2>3
<1> QED BY <1>1, InitType, NextType, InitNamed, NextNamed, InitTold, NextTold, PTL
        DEF SafeSpec
=============================================================================
