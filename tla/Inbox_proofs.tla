------------------------------ MODULE Inbox_proofs ------------------------------
(***************************************************************************)
(* Proofs about Inbox for any messages, any streams, every width of the    *)
(* count and any number of resets, reconnects and kills.                   *)
(***************************************************************************)
EXTENDS Inbox, TLAPS, FiniteSetTheorems, SequenceTheorems

(***************************************************************************)
(* The inductive invariant.                                                *)
(***************************************************************************)

(* A stream is in the middle of a message which the broker has delivered,  *)
(* which it has not been told is here, and which no other stream is in the *)
(* middle of.                                                              *)
OnTheirWay ==
  /\ acked \subseteq received
  /\ \A s \in Streams :
       /\ thread[s].at \in {"idle", "wants", "looked", "inside", "done"}
       /\ thread[s].at # "idle" => thread[s].msg \in received \ acked
  /\ \A s, t \in Streams :
       thread[s].at # "idle" /\ thread[t].at # "idle" /\ thread[s].msg = thread[t].msg => s = t
  /\ thread[Context].at # "idle" => thread[Context].msg \in Messages

(* What has become of a message that was acknowledged.                     *)
Somewhere ==
  acked \subseteq UNION {store, dropped, lost, old, Range(queue), unsaved,
                         IF thread[Context].at = "busy" THEN {thread[Context].msg} ELSE {}}

(* Counted in, and not yet counted out.                                    *)
Done    == {s \in Streams : thread[s].at = "done"}
Working == thread[Context].at \in {"busy", "syncing", "wants", "looked", "inside"}
Pending == Cardinality(Done) + Len(queue) + (IF Working THEN 1 ELSE 0)

(* While one thread at a time is at the count, what it has read is what it *)
(* replaces, and inQueue is the number of pending messages, modulo Width.  *)
Counted ==
  raced = "no" =>
    /\ \A t \in Threads : thread[t].at = "inside" => thread[t].val = inQueue
    /\ \A t, u \in Threads : thread[t].at = "inside" /\ thread[u].at = "inside" => t = u
    /\ \E k \in Nat : Pending = inQueue + k * Width

(* Nothing is unsaved when nothing is pending and the block is over.       *)
Saved ==
  raced = "no" /\ queue = <<>> /\ Done = {} /\ thread[Context].at = "idle" => unsaved = {}

(* What was counted in before all friends were deleted is not on its way.  *)
Forgotten ==
  raced = "no" /\ hasty = "no" =>
    /\ \A m \in old : m \notin unsaved /\ m \notin store /\ m \notin Range(queue)
    /\ thread[Context].at = "busy" => thread[Context].msg \notin old
    /\ \A s \in Streams : thread[s].at # "idle" => thread[s].msg \notin old

(***************************************************************************)
(* Lemmas about the operators.                                             *)
(***************************************************************************)

Numbers == 0..Width - 1
Jobs == [at : Places, key : Numbers, val : Numbers, msg : Messages \union {None}]

(* The count wraps around at Width, in both directions. *)
LEMMA Wraps ==
  ASSUME NEW x \in Numbers
  PROVE  /\ (x + 1) % Width = IF x + 1 = Width THEN 0 ELSE x + 1
         /\ (x - 1) % Width = IF x = 0 THEN Width - 1 ELSE x - 1
         /\ (x + 1) % Width \in Numbers /\ (x - 1) % Width \in Numbers
BY InboxAssumption DEF Numbers

LEMMA TheThreads == Context \in Threads /\ Streams = Threads \ {Context} /\ Streams \subseteq Threads
BY InboxAssumption DEF Threads

(* A thread is somewhere else, with the same message or another one, and   *)
(* the other threads are where they were.                                  *)
Puts(t, r) == /\ thread' \in [Threads -> Jobs] /\ r \in Jobs /\ thread'[t] = r
              /\ \A u \in Threads : u # t => thread'[u] = thread[u]

Moves(t, place) == \E r : Puts(t, r) /\ r.at = place /\ r.msg = thread[t].msg

LEMMA RestIs == AtRest \in Jobs /\ AtRest.at = "idle"
BY InboxAssumption DEF AtRest, Jobs, Places, Numbers

LEMMA PutIs ==
  ASSUME thread \in [Threads -> Jobs], NEW t \in Threads, NEW r \in Jobs,
         thread' = [thread EXCEPT ![t] = r]
  PROVE  Puts(t, r)
BY DEF Puts

Begun(place, m) == [AtRest EXCEPT !.at = place, !.msg = m]

LEMMA BegunIs ==
  ASSUME NEW place \in Places, NEW m \in Messages
  PROVE  Begun(place, m) \in Jobs /\ Begun(place, m).at = place /\ Begun(place, m).msg = m
BY RestIs DEF Begun, Jobs, AtRest

LEMMA GoesIs ==
  ASSUME thread \in [Threads -> Jobs], NEW t \in Threads, NEW place \in Places, Goes(t, place)
  PROVE  Moves(t, place)
<1> DEFINE o == thread[t]
           r == [o EXCEPT !.at = place]
<1>1. o \in Jobs /\ thread' = [thread EXCEPT ![t] = r]
  BY DEF Goes
<1> HIDE DEF o
<1>2. r \in Jobs /\ r.at = place /\ r.msg = o.msg
  BY <1>1 DEF Jobs
<1> HIDE DEF r
<1>3. Puts(t, r)
  BY <1>1, <1>2, PutIs
<1> QED BY <1>2, <1>3 DEF Moves, o

LEMMA LooksIs ==
  ASSUME TypeOK, NEW t \in Threads, Looks(t)
  PROVE  Moves(t, "looked")
<1> DEFINE o == thread[t]
           r == [o EXCEPT !.at = "looked", !.key = inQueue]
<1>1. o \in Jobs /\ inQueue \in Numbers /\ thread \in [Threads -> Jobs]
  BY DEF TypeOK, Jobs, Numbers
<1>2. thread' = [thread EXCEPT ![t] = r]
  BY <1>1 DEF Looks
<1> HIDE DEF o
<1>3. r \in Jobs /\ r.at = "looked" /\ r.msg = o.msg
  BY <1>1 DEF Jobs, Places
<1> HIDE DEF r
<1>4. Puts(t, r)
  BY <1>1, <1>2, <1>3, PutIs
<1> QED BY <1>3, <1>4 DEF Moves, o

LEMMA EntersIs ==
  ASSUME TypeOK, NEW t \in Threads, Enters(t)
  PROVE  Moves(t, "inside") /\ thread'[t].val = inQueue
<1> DEFINE o == thread[t]
           r == [o EXCEPT !.at = "inside", !.val = inQueue]
<1>1. o \in Jobs /\ inQueue \in Numbers /\ thread \in [Threads -> Jobs]
  BY DEF TypeOK, Jobs, Numbers
<1>2. thread' = [thread EXCEPT ![t] = r]
  BY <1>1 DEF Enters
<1> HIDE DEF o
<1>3. r \in Jobs /\ r.at = "inside" /\ r.msg = o.msg /\ r.val = inQueue
  BY <1>1 DEF Jobs, Places
<1> HIDE DEF r
<1>4. Puts(t, r)
  BY <1>1, <1>2, <1>3, PutIs
<1>5. Moves(t, "inside")
  BY <1>3, <1>4 DEF Moves, o
<1> QED BY <1>3, <1>4, <1>5 DEF Puts

(* The block, from its message to the save. *)
LEMMA BlockIs ==
  ASSUME TypeOK
  PROVE  /\ Processes => Moves(Context, "wants") \/ Moves(Context, "syncing")
         /\ Drops     => Moves(Context, "wants") \/ Moves(Context, "syncing")
         /\ CountsOut => Moves(Context, "done")
         /\ Syncs => IF thread[Context].at = "syncing" THEN Moves(Context, "wants")
                                                       ELSE Puts(Context, AtRest)
         /\ Tests => IF inQueue = 0 /\ unsaved # {} THEN Moves(Context, "saving")
                                                    ELSE Puts(Context, AtRest)
<1>1. thread \in [Threads -> Jobs] /\ Context \in Threads
  BY TheThreads DEF TypeOK, Jobs, Numbers
<1>2. {"wants", "syncing", "done", "saving"} \subseteq Places
  BY DEF Places
<1>3. Processes => Moves(Context, "wants") \/ Moves(Context, "syncing")
  BY <1>1, <1>2, GoesIs DEF Processes
<1>4. Drops => Moves(Context, "wants") \/ Moves(Context, "syncing")
  BY <1>1, <1>2, GoesIs DEF Drops
<1>5. CountsOut => Moves(Context, "done")
  BY <1>1, <1>2, GoesIs DEF CountsOut
<1>6. Syncs => IF thread[Context].at = "syncing" THEN Moves(Context, "wants")
                                                 ELSE Puts(Context, AtRest)
  BY <1>1, <1>2, GoesIs, PutIs, RestIs DEF Syncs
<1>7. Tests => IF inQueue = 0 /\ unsaved # {} THEN Moves(Context, "saving")
                                              ELSE Puts(Context, AtRest)
  <2>1. CASE inQueue = 0 /\ unsaved # {}
    <3>1. Tests => Goes(Context, "saving")
      BY <2>1 DEF Tests, Goes
    <3> QED BY <1>1, <1>2, <2>1, <3>1, GoesIs
  <2>2. CASE ~ (inQueue = 0 /\ unsaved # {})
    <3>1. Tests => thread' = [thread EXCEPT ![Context] = AtRest]
      BY <2>2 DEF Tests
    <3> QED BY <1>1, <2>2, <3>1, PutIs, RestIs
  <2> QED BY <2>1, <2>2
<1> QED BY <1>3, <1>4, <1>5, <1>6, <1>7

(* A stream, from the arrival of a message to its acknowledgement. *)
LEMMA StreamIs ==
  ASSUME TypeOK, OnTheirWay, NEW s \in Streams
  PROVE  /\ \A m \in Messages : Arrives(s, m) =>
              \E r : Puts(s, r) /\ r.at = "wants" /\ r.msg = m
         /\ CountsIn(s) => Moves(s, "done")
         /\ HandsOver(s) => Puts(s, AtRest)
<1>1. thread \in [Threads -> Jobs] /\ s \in Threads
  BY TheThreads DEF TypeOK, Jobs, Numbers
<1>2. "wants" \in Places /\ "done" \in Places
  BY DEF Places
<1>3. ASSUME NEW m \in Messages, Arrives(s, m)
      PROVE  \E r : Puts(s, r) /\ r.at = "wants" /\ r.msg = m
  <2>1. thread' = [thread EXCEPT ![s] = Begun("wants", m)]
    BY <1>3 DEF Arrives, Begun
  <2>2. Puts(s, Begun("wants", m))
    BY <1>1, <1>2, <2>1, BegunIs, PutIs
  <2> QED BY <1>2, <2>2, BegunIs
<1>4. CountsIn(s) => Moves(s, "done")
  BY <1>1, <1>2, GoesIs DEF CountsIn
<1>5. HandsOver(s) => Puts(s, AtRest)
  BY <1>1, PutIs, RestIs DEF HandsOver
<1> QED BY <1>3, <1>4, <1>5

(* The oldest block is begun. *)
LEMMA StartsIs ==
  ASSUME TypeOK, Starts
  PROVE  /\ \E r : Puts(Context, r) /\ r.at = "busy" /\ r.msg = Head(queue)
         /\ Head(queue) \in Messages /\ Tail(queue) \in Seq(Messages)
         /\ Range(queue) = Range(Tail(queue)) \union {Head(queue)}
         /\ Len(Tail(queue)) = Len(queue) - 1 /\ Len(queue) # 0
<1>1. thread \in [Threads -> Jobs] /\ Context \in Threads /\ "busy" \in Places
  BY TheThreads DEF TypeOK, Jobs, Numbers, Places
<1>2. queue \in Seq(Messages) /\ queue # <<>>
  BY DEF TypeOK, Starts
<1>3. /\ Head(queue) \in Messages /\ Tail(queue) \in Seq(Messages)
      /\ Len(Tail(queue)) = Len(queue) - 1 /\ Len(queue) # 0 /\ Head(queue) = queue[1]
      /\ \A i \in 1..Len(Tail(queue)) : Tail(queue)[i] = queue[i + 1]
  BY <1>2, HeadTailProperties, EmptySeq
<1>4. Range(queue) = Range(Tail(queue)) \union {Head(queue)}
  <2>1. /\ DOMAIN queue = 1..Len(queue) /\ DOMAIN Tail(queue) = 1..Len(Tail(queue)) /\ Len(queue) \in Nat
    BY <1>2, <1>3, LenProperties
  <2>2. \A i \in 1..Len(queue) : i = 1 \/ (i - 1 \in 1..Len(queue) - 1 /\ (i - 1) + 1 = i)
    BY <2>1
  <2>3. \A i \in 1..Len(queue) - 1 : i + 1 \in 1..Len(queue)
    BY <2>1
  <2>4. 1 \in 1..Len(queue)
    BY <1>3, <2>1
  <2>5. \A x \in Range(queue) : x \in Range(Tail(queue)) \/ x = Head(queue)
    <3>1. ASSUME NEW i \in 1..Len(queue), i # 1 PROVE queue[i] \in Range(Tail(queue))
      <4>1. i - 1 \in 1..Len(Tail(queue)) /\ (i - 1) + 1 = i
        BY <1>3, <2>2, <3>1
      <4>2. Tail(queue)[i - 1] = queue[i]
        BY <1>3, <4>1
      <4> QED BY <2>1, <4>1, <4>2 DEF Range
    <3> QED BY <1>3, <2>1, <3>1 DEF Range
  <2>6. \A x \in Range(Tail(queue)) : x \in Range(queue)
    BY <1>3, <2>1, <2>3 DEF Range
  <2>7. Head(queue) \in Range(queue)
    BY <1>3, <2>1, <2>4 DEF Range
  <2> QED BY <2>5, <2>6, <2>7
<1>5. \E r : Puts(Context, r) /\ r.at = "busy" /\ r.msg = Head(queue)
  <2>1. thread' = [thread EXCEPT ![Context] = Begun("busy", Head(queue))]
    BY DEF Starts, Begun
  <2>2. Puts(Context, Begun("busy", Head(queue)))
    BY <1>1, <1>3, <2>1, BegunIs, PutIs
  <2> QED BY <1>1, <1>3, <2>2, BegunIs
<1> QED BY <1>3, <1>4, <1>5

LEMMA AppendIs ==
  ASSUME NEW S, NEW q \in Seq(S), NEW m \in S
  PROVE  /\ Append(q, m) \in Seq(S) /\ Len(Append(q, m)) = Len(q) + 1 /\ Append(q, m) # <<>>
         /\ Range(Append(q, m)) = Range(q) \union {m}
<1>1. /\ Append(q, m) \in Seq(S) /\ Len(Append(q, m)) = Len(q) + 1 /\ Append(q, m) # <<>>
      /\ \A i \in 1..Len(q) : Append(q, m)[i] = q[i]
      /\ Append(q, m)[Len(q) + 1] = m
  BY AppendProperties, EmptySeq
<1>2. /\ DOMAIN q = 1..Len(q) /\ DOMAIN Append(q, m) = 1..Len(q) + 1 /\ Len(q) \in Nat
  BY <1>1, LenProperties
<1>3. \A i \in 1..Len(q) + 1 : i \in 1..Len(q) \/ i = Len(q) + 1
  BY <1>2
<1>4. Len(q) + 1 \in 1..Len(q) + 1 /\ \A i \in 1..Len(q) : i \in 1..Len(q) + 1
  BY <1>2
<1>5. \A x \in Range(Append(q, m)) : x \in Range(q) \/ x = m
  BY <1>1, <1>2, <1>3 DEF Range
<1>6. \A x \in Range(q) : x \in Range(Append(q, m))
  BY <1>1, <1>2, <1>4 DEF Range
<1>7. m \in Range(Append(q, m))
  BY <1>1, <1>2, <1>4 DEF Range
<1> QED BY <1>1, <1>5, <1>6, <1>7

-----------------------------------------------------------------------------
(* Type correctness. *)

LEMMA InitType == Init => TypeOK
<1> SUFFICES ASSUME Init PROVE TypeOK
  OBVIOUS
<1>1. thread \in [Threads -> Jobs]
  BY RestIs DEF Init
<1>2. inQueue \in Numbers /\ count \in [Disturbances -> Nat]
  BY InboxAssumption DEF Init, Numbers
<1> QED BY <1>1, <1>2, EmptySeq DEF Init, TypeOK, Jobs, Numbers

LEMMA InitOnTheirWay == Init => OnTheirWay
<1> SUFFICES ASSUME Init PROVE OnTheirWay
  OBVIOUS
<1>1. \A t \in Threads : thread[t].at = "idle"
  BY RestIs DEF Init
<1> QED BY <1>1, TheThreads DEF Init, OnTheirWay

(* The parts of TypeOK. *)
ThreadsOK == thread \in [Threads -> Jobs] /\ inQueue \in Numbers /\ queue \in Seq(Messages)
RestOK == /\ \A set \in {unsaved, store, received, acked, dropped, lost, old} : set \subseteq Messages
          /\ open \in Streams \union {None}
          /\ main \in {"running", "reset", "reconnect"}
          /\ raced \in {"no", "yes"} /\ hasty \in {"no", "yes"}
          /\ count \in [Disturbances -> Nat]

LEMMA TypeParts == TypeOK <=> ThreadsOK /\ RestOK
BY DEF TypeOK, ThreadsOK, RestOK, Jobs, Numbers

LEMMA NextThreads == TypeOK /\ OnTheirWay /\ [Next]_vars => ThreadsOK'
<1> SUFFICES ASSUME TypeOK, OnTheirWay, [Next]_vars PROVE ThreadsOK'
  OBVIOUS
<1>1. thread \in [Threads -> Jobs] /\ inQueue \in Numbers /\ queue \in Seq(Messages)
  BY DEF TypeOK, Jobs, Numbers
<1>2. \A t : /\ (\E r : Puts(t, r)) => thread' \in [Threads -> Jobs]
             /\ \A place : Moves(t, place) => thread' \in [Threads -> Jobs]
  BY DEF Puts, Moves
<1>3. ASSUME NEW t \in Threads, Looks(t) \/ Enters(t) PROVE ThreadsOK'
  <2>1. thread' \in [Threads -> Jobs]
    BY <1>2, <1>3, LooksIs, EntersIs
  <2> QED BY <1>1, <1>3, <2>1 DEF ThreadsOK, Looks, Enters
<1>4. ASSUME NEW s \in Streams, NEW m \in Messages, Arrives(s, m) PROVE ThreadsOK'
  <2>1. thread' \in [Threads -> Jobs]
    BY <1>2, <1>4, StreamIs
  <2> QED BY <1>1, <1>4, <2>1 DEF ThreadsOK, Arrives
<1>5. ASSUME NEW s \in Streams, CountsIn(s) PROVE ThreadsOK'
  <2>1. thread' \in [Threads -> Jobs]
    BY <1>2, <1>5, StreamIs
  <2>2. thread[s].val \in Numbers
    BY <1>1, TheThreads DEF Jobs
  <2>3. inQueue' \in Numbers
    BY <1>5, <2>2, Wraps DEF CountsIn
  <2> QED BY <1>1, <1>5, <2>1, <2>3 DEF ThreadsOK, CountsIn
<1>6. ASSUME NEW s \in Streams, HandsOver(s) PROVE ThreadsOK'
  <2>1. thread' \in [Threads -> Jobs]
    BY <1>2, <1>6, StreamIs
  <2>2. thread[s].msg \in Messages
    BY <1>6 DEF OnTheirWay, HandsOver, TypeOK
  <2>3. queue' \in Seq(Messages)
    BY <1>1, <1>6, <2>2, AppendIs DEF HandsOver
  <2> QED BY <1>1, <1>6, <2>1, <2>3 DEF ThreadsOK, HandsOver
<1>7. CASE Starts
  <2>1. thread' \in [Threads -> Jobs] /\ queue' \in Seq(Messages)
    BY <1>2, <1>7, StartsIs DEF Starts
  <2> QED BY <1>1, <1>7, <2>1 DEF ThreadsOK, Starts
<1>8. CASE Processes \/ Drops \/ Syncs \/ Tests
  <2>1. thread' \in [Threads -> Jobs]
    BY <1>2, <1>8, BlockIs
  <2> QED BY <1>1, <1>8, <2>1 DEF ThreadsOK, Processes, Drops, Syncs, Tests
<1>9. CASE CountsOut
  <2>1. thread' \in [Threads -> Jobs]
    BY <1>2, <1>9, BlockIs
  <2>2. thread[Context].val \in Numbers
    BY <1>1, TheThreads DEF Jobs
  <2>3. inQueue' \in Numbers
    BY <1>9, <2>2, Wraps DEF CountsOut
  <2> QED BY <1>1, <1>9, <2>1, <2>3 DEF ThreadsOK, CountsOut
<1>10. CASE \/ \E s \in Streams : Connects(s)
            \/ Waits("reset") \/ Waits("reconnect") \/ DeletesAll \/ Resumes \/ UNCHANGED vars
  BY <1>1, <1>10 DEF ThreadsOK, Connects, Waits, DeletesAll, Resumes, vars
<1>11. CASE Killed
  BY <1>11, RestIs, EmptySeq, InboxAssumption DEF ThreadsOK, Killed, Numbers
<1> QED BY <1>3, <1>4, <1>5, <1>6, <1>7, <1>8, <1>9, <1>10, <1>11, TheThreads
        DEF Next, Stream, Block

LEMMA NextRest == TypeOK /\ OnTheirWay /\ [Next]_vars => RestOK'
<1> SUFFICES ASSUME TypeOK, OnTheirWay, [Next]_vars PROVE RestOK'
  OBVIOUS
<1>1. RestOK
  BY TypeParts
<1>2. \A d \in Disturbances : Happens(d) => count' \in [Disturbances -> Nat]
  BY <1>1 DEF Happens, RestOK
<1>3. ASSUME NEW t \in Threads, Looks(t) \/ Enters(t) PROVE RestOK'
  <2>1. raced' \in {"yes", raced}
    BY <1>3 DEF Looks, Enters
  <2> QED BY <1>1, <1>3, <2>1 DEF RestOK, Looks, Enters, incoming, history
<1>4. ASSUME NEW s \in Streams, NEW m \in Messages, Arrives(s, m) PROVE RestOK'
  BY <1>1, <1>4 DEF RestOK, Arrives
<1>5. ASSUME NEW s \in Streams, CountsIn(s) PROVE RestOK'
  BY <1>1, <1>5 DEF RestOK, CountsIn, incoming, history
<1>6. ASSUME NEW s \in Streams, HandsOver(s) PROVE RestOK'
  <2>1. thread[s].msg \in Messages
    BY <1>6 DEF OnTheirWay, HandsOver, TypeOK
  <2>2. acked' \subseteq Messages /\ received' \subseteq Messages
    BY <1>1, <1>6, <2>1 DEF RestOK, HandsOver
  <2> QED BY <1>1, <1>6, <2>2 DEF RestOK, HandsOver, history
<1>7. CASE Starts \/ CountsOut \/ Tests
  BY <1>1, <1>7 DEF RestOK, Starts, CountsOut, Tests, incoming, history
<1>8. CASE Processes \/ Drops
  <2>1. thread[Context].msg \in Messages
    BY <1>8 DEF OnTheirWay, Processes, Drops
  <2> QED BY <1>1, <1>8, <2>1 DEF RestOK, Processes, Drops, incoming, history
<1>9. CASE Syncs
  BY <1>1, <1>9 DEF RestOK, Syncs, incoming, history
<1>10. CASE Waits("reset") \/ Waits("reconnect")
  <2>1. count' \in [Disturbances -> Nat] /\ open' = None /\ main' \in {"reset", "reconnect"}
    BY <1>2, <1>10 DEF Waits, Disturbances
  <2> QED BY <1>1, <1>10, <2>1 DEF RestOK, Waits
<1>11. CASE DeletesAll
  <2>1. old' \subseteq Messages
    BY <1>1, <1>11 DEF RestOK, DeletesAll, CountedIn
  <2>2. hasty' \in {"no", "yes"}
    BY <1>1, <1>11 DEF RestOK, DeletesAll
  <2> QED BY <1>1, <1>11, <2>1, <2>2 DEF RestOK, DeletesAll, incoming
<1>12. CASE Resumes \/ (\E s \in Streams : Connects(s)) \/ UNCHANGED vars
  BY <1>1, <1>12 DEF RestOK, Resumes, Connects, vars, incoming, history
<1>13. CASE Killed
  <2>1. count' \in [Disturbances -> Nat]
    BY <1>2, <1>13 DEF Killed, Disturbances
  <2> QED BY <1>1, <1>13, <2>1 DEF RestOK, Killed
<1> QED BY <1>3, <1>4, <1>5, <1>6, <1>7, <1>8, <1>9, <1>10, <1>11, <1>12, <1>13, TheThreads
        DEF Next, Stream, Block

StreamPlaces == {"idle", "wants", "looked", "inside", "done"}

(* A thread that goes on with its message, or is done with it. *)
LEMMA WayPut ==
  ASSUME OnTheirWay, UNCHANGED <<received, acked>>, NEW t \in Threads, NEW r, Puts(t, r),
         r.at # "idle" => r.msg = thread[t].msg /\ thread[t].at # "idle",
         t \in Streams => r.at \in StreamPlaces
  PROVE  OnTheirWay'
<1>1. /\ \A u \in Threads : thread'[u].at # "idle" =>
           thread'[u].msg = thread[u].msg /\ thread[u].at # "idle"
      /\ \A s \in Streams : thread'[s].at \in StreamPlaces
  BY TheThreads DEF Puts, OnTheirWay, StreamPlaces
<1> QED BY <1>1, TheThreads DEF OnTheirWay, StreamPlaces

LEMMA WayMoves ==
  ASSUME OnTheirWay, UNCHANGED <<received, acked>>, NEW t \in Threads, NEW place, Moves(t, place),
         thread[t].at # "idle", t \in Streams => place \in StreamPlaces
  PROVE  OnTheirWay'
<1>1. PICK r : Puts(t, r) /\ r.at = place /\ r.msg = thread[t].msg
  BY DEF Moves
<1> QED BY <1>1, WayPut

LEMMA WayKept ==
  ASSUME OnTheirWay, UNCHANGED <<received, acked, thread>>
  PROVE  OnTheirWay'
BY DEF OnTheirWay

LEMMA NextOnTheirWay == TypeOK /\ OnTheirWay /\ [Next]_vars => OnTheirWay'
<1> SUFFICES ASSUME TypeOK, OnTheirWay, [Next]_vars PROVE OnTheirWay'
  OBVIOUS
<1>1. ASSUME NEW t \in Threads, Looks(t) \/ Enters(t) PROVE OnTheirWay'
  <2>1. UNCHANGED <<received, acked>> /\ thread[t].at # "idle"
    BY <1>1 DEF Looks, Enters, incoming
  <2>2. \E place \in {"looked", "inside"} : Moves(t, place)
    BY <1>1, LooksIs, EntersIs
  <2> QED BY <2>1, <2>2, WayMoves DEF StreamPlaces
<1>2. ASSUME NEW s \in Streams, NEW m \in Messages, Arrives(s, m) PROVE OnTheirWay'
  <2>1. PICK r : Puts(s, r) /\ r.at = "wants" /\ r.msg = m
    BY <1>2, StreamIs
  <2>2. received' = received \union {m} /\ m \notin received /\ UNCHANGED acked
    BY <1>2 DEF Arrives
  <2>3. /\ \A u \in Threads : u # s => thread'[u] = thread[u]
        /\ thread'[s].at = "wants" /\ thread'[s].msg = m
    BY <2>1 DEF Puts
  <2>4. Context # s /\ s \in Threads /\ Context \in Threads /\ Streams \subseteq Threads
    BY TheThreads
  <2>5. \A t \in Streams : t # s /\ thread[t].at # "idle" => thread[t].msg # m
    BY <2>2 DEF OnTheirWay
  <2> QED BY <2>2, <2>3, <2>4, <2>5 DEF OnTheirWay
<1>3. ASSUME NEW s \in Streams, CountsIn(s) PROVE OnTheirWay'
  <2>1. UNCHANGED <<received, acked>> /\ thread[s].at # "idle" /\ Moves(s, "done")
    BY <1>3, StreamIs DEF CountsIn, incoming
  <2> QED BY <2>1, WayMoves, TheThreads DEF StreamPlaces
<1>4. ASSUME NEW s \in Streams, HandsOver(s) PROVE OnTheirWay'
  <2> DEFINE m == thread[s].msg
  <2>1. m \in received /\ m \notin acked /\ acked \subseteq received
    BY <1>4 DEF HandsOver, OnTheirWay
  <2>2. /\ received' = received \/ received' = received \ {m}
        /\ acked' \subseteq acked \union {m} /\ acked' \subseteq received'
    BY <1>4, <2>1 DEF HandsOver
  <2>3. /\ \A u \in Threads : u # s => thread'[u] = thread[u]
        /\ thread'[s].at = "idle"
    BY <1>4, StreamIs, RestIs DEF Puts
  <2>4. \A t \in Streams : t # s /\ thread[t].at # "idle" => thread[t].msg # m
    BY <1>4 DEF OnTheirWay, HandsOver
  <2>5. Context # s /\ s \in Threads /\ Context \in Threads /\ Streams \subseteq Threads
    BY TheThreads
  <2> HIDE DEF m
  <2> QED BY <2>2, <2>3, <2>4, <2>5 DEF OnTheirWay
<1>5. CASE Starts
  <2>1. PICK r : Puts(Context, r) /\ r.at = "busy" /\ r.msg = Head(queue) /\ Head(queue) \in Messages
    BY <1>5, StartsIs
  <2>2. UNCHANGED <<received, acked>>
    BY <1>5 DEF Starts, incoming
  <2>3. \A s \in Streams : thread'[s] = thread[s]
    BY <2>1, TheThreads DEF Puts
  <2> QED BY <2>1, <2>2, <2>3 DEF OnTheirWay, Puts
<1>6. CASE Processes \/ Drops \/ CountsOut \/ Syncs \/ Tests
  <2>1. UNCHANGED <<received, acked>> /\ thread[Context].at # "idle"
    BY <1>6 DEF Processes, Drops, CountsOut, Syncs, Tests, incoming
  <2>2. Puts(Context, AtRest) \/ \E place : Moves(Context, place)
    BY <1>6, BlockIs
  <2> QED BY <2>1, <2>2, WayMoves, WayPut, RestIs, TheThreads
<1>7. CASE \/ \E s \in Streams : Connects(s)
           \/ Waits("reset") \/ Waits("reconnect") \/ DeletesAll \/ Resumes \/ UNCHANGED vars
  BY <1>7, WayKept DEF Connects, Waits, DeletesAll, Resumes, vars, incoming
<1>8. CASE Killed
  <2>1. \A t \in Threads : thread'[t].at = "idle"
    BY <1>8, RestIs DEF Killed
  <2>2. received' = received \intersect acked /\ acked' = acked
    BY <1>8 DEF Killed
  <2> QED BY <2>1, <2>2, TheThreads DEF OnTheirWay
<1> QED BY <1>1, <1>2, <1>3, <1>4, <1>5, <1>6, <1>7, <1>8, TheThreads DEF Next, Stream, Block

LEMMA NextType == TypeOK /\ OnTheirWay /\ [Next]_vars => TypeOK' /\ OnTheirWay'
<1> SUFFICES ASSUME TypeOK, OnTheirWay, [Next]_vars PROVE TypeOK' /\ OnTheirWay'
  OBVIOUS
<1>1. ThreadsOK' /\ RestOK'
  BY NextThreads, NextRest
<1>2. TypeOK'
  BY <1>1 DEF TypeOK, ThreadsOK, RestOK, Jobs, Numbers
<1> QED BY <1>2, NextOnTheirWay

(* Every variable keeps its type; the count is a number below Width.       *)
THEOREM TypeCorrect == SafeSpec => []TypeOK
  BY InitType, InitOnTheirWay, NextType, PTL DEF SafeSpec

-----------------------------------------------------------------------------
(* The count. *)

LEMMA InitCounted == Init => Counted /\ IsFiniteSet(Done)
<1> SUFFICES ASSUME Init PROVE Counted /\ IsFiniteSet(Done)
  OBVIOUS
<1>1. \A t \in Threads : thread[t].at = "idle"
  BY RestIs DEF Init
<1>2. Done = {} /\ ~ Working
  BY <1>1, TheThreads DEF Done, Working
<1>3. Cardinality(Done) = 0 /\ IsFiniteSet(Done) /\ Len(queue) = 0 /\ inQueue = 0
  BY <1>2, FS_EmptySet DEF Init
<1>4. Pending = inQueue + 0 * Width
  BY <1>2, <1>3, InboxAssumption DEF Pending
<1> QED BY <1>1, <1>3, <1>4 DEF Counted

LEMMA DoneSame ==
  ASSUME NEW t \in Threads, NEW r, Puts(t, r), t \in Streams => (r.at = "done" <=> thread[t].at = "done")
  PROVE  Done' = Done
BY TheThreads DEF Done, Puts

(* One more is done, or one less. *)
LEMMA DoneIn ==
  ASSUME IsFiniteSet(Done), NEW s \in Streams, NEW r, Puts(s, r), r.at = "done", thread[s].at # "done"
  PROVE  IsFiniteSet(Done') /\ Cardinality(Done') = Cardinality(Done) + 1 /\ Done' # {}
<1>1. Done' = Done \union {s} /\ s \notin Done
  BY TheThreads DEF Done, Puts
<1> QED BY <1>1, FS_AddElement

LEMMA DoneOut ==
  ASSUME IsFiniteSet(Done), NEW s \in Streams, NEW r, Puts(s, r), r.at # "done", thread[s].at = "done"
  PROVE  IsFiniteSet(Done') /\ Cardinality(Done') = Cardinality(Done) - 1
<1>1. Done' = Done \ {s} /\ s \in Done
  BY TheThreads DEF Done, Puts
<1> QED BY <1>1, FS_RemoveElement

LEMMA WorkingSame ==
  ASSUME NEW t \in Threads, NEW r, Puts(t, r),
         t = Context => (r.at \in {"busy", "syncing", "wants", "looked", "inside"} <=> Working)
  PROVE  Working' <=> Working
BY TheThreads DEF Working, Puts

(* One thread moves, and neither reads nor writes the count. *)
LEMMA CountKept ==
  ASSUME Counted, UNCHANGED <<inQueue, raced>>, NEW t \in Threads, NEW r, Puts(t, r),
         r.at # "inside", Pending' = Pending
  PROVE  Counted'
<1>1. \A u \in Threads : thread'[u].at = "inside" => thread'[u] = thread[u]
  BY DEF Puts
<1> QED BY <1>1 DEF Counted

LEMMA PendingSame ==
  ASSUME NEW t \in Threads, NEW r, Puts(t, r), UNCHANGED queue,
         t \in Streams => (r.at = "done" <=> thread[t].at = "done"),
         t = Context => (r.at \in {"busy", "syncing", "wants", "looked", "inside"} <=> Working)
  PROVE  Pending' = Pending /\ Done' = Done
<1>1. Done' = Done /\ (Working' <=> Working)
  BY DoneSame, WorkingSame
<1> QED BY <1>1 DEF Pending

LEMMA PendingIs ==
  ASSUME TypeOK, IsFiniteSet(Done)
  PROVE  /\ Cardinality(Done) \in Nat /\ Len(queue) \in Nat /\ Pending \in Nat
         /\ Pending = 0 => Len(queue) = 0 /\ Done = {} /\ ~ Working
<1>1. Cardinality(Done) \in Nat /\ Len(queue) \in Nat
  BY FS_CardinalityType, LenProperties DEF TypeOK
<1>2. Pending \in Nat /\ (Pending = 0 => Len(queue) = 0 /\ Cardinality(Done) = 0 /\ ~ Working)
  BY <1>1 DEF Pending
<1> QED BY <1>1, <1>2, FS_EmptySet

(* The number of pending messages and the count go up and down together. *)
LEMMA StepsUp ==
  ASSUME NEW x \in Numbers, NEW k \in Nat
  PROVE  \E j \in Nat : x + k * Width + 1 = ((x + 1) % Width) + j * Width
<1>1. Width \in Nat /\ x \in Nat
  BY InboxAssumption DEF Numbers
<1>2. CASE x + 1 = Width
  <2>1. x + k * Width + 1 = 0 + (k + 1) * Width
    BY <1>1, <1>2
  <2> QED BY <1>2, <2>1, Wraps
<1>3. CASE x + 1 # Width
  <2>1. x + k * Width + 1 = (x + 1) + k * Width
    BY <1>1
  <2> QED BY <1>3, <2>1, Wraps
<1> QED BY <1>2, <1>3

LEMMA StepsDown ==
  ASSUME NEW x \in Numbers, NEW k \in Nat, x + k * Width # 0
  PROVE  \E j \in Nat : x + k * Width - 1 = ((x - 1) % Width) + j * Width
<1>1. Width \in Nat /\ x \in Nat
  BY InboxAssumption DEF Numbers
<1>2. CASE x = 0
  <2>1. k # 0
    BY <1>1, <1>2
  <2>2. k - 1 \in Nat /\ x + k * Width - 1 = (Width - 1) + (k - 1) * Width
    BY <1>1, <1>2, <2>1
  <2> QED BY <1>2, <2>2, Wraps
<1>3. CASE x # 0
  <2>1. x + k * Width - 1 = (x - 1) + k * Width
    BY <1>1
  <2> QED BY <1>3, <2>1, Wraps
<1> QED BY <1>2, <1>3

LEMMA EntersCounted ==
  ASSUME TypeOK, Counted, NEW t \in Threads, Enters(t)
  PROVE  Counted' /\ Done' = Done
<1>1. PICK r : Puts(t, r) /\ r.at = "inside"
  BY EntersIs DEF Moves
<1>2. thread[t].at = "looked" /\ UNCHANGED <<inQueue, queue>> /\ thread'[t].val = inQueue
  BY EntersIs DEF Enters
<1>3. Pending' = Pending /\ Done' = Done
  BY <1>1, <1>2, PendingSame DEF Working
<1>4. ASSUME raced' = "no" PROVE raced = "no" /\ \A u \in Threads : thread[u].at # "inside"
  <2>1. raced = "no" /\ \A u \in Threads : thread[u].at = "inside" => thread[u].key = thread[t].key
    BY <1>4 DEF Enters
  <2>2. \A u \in Threads \ {t} : thread[u].at = "inside" => thread[u].key # thread[t].key
    BY DEF Enters, Holds
  <2> QED BY <1>2, <2>1, <2>2
<1>5. \A u \in Threads : u # t => thread'[u] = thread[u]
  BY <1>1 DEF Puts
<1>6. ASSUME raced' = "no" PROVE \A u \in Threads : thread'[u].at = "inside" => u = t
  BY <1>4, <1>5, <1>6
<1>7. raced' = "no" => \E k \in Nat : Pending' = inQueue' + k * Width
  BY <1>2, <1>3, <1>4 DEF Counted
<1> QED BY <1>2, <1>3, <1>6, <1>7 DEF Counted

LEMMA CountsInCounted ==
  ASSUME TypeOK, OnTheirWay, Counted, IsFiniteSet(Done), NEW s \in Streams, CountsIn(s)
  PROVE  Counted' /\ IsFiniteSet(Done')
<1>1. PICK r : Puts(s, r) /\ r.at = "done"
  BY StreamIs DEF Moves
<1>2. /\ thread[s].at = "inside" /\ UNCHANGED <<raced, queue>>
      /\ inQueue' = (thread[s].val + 1) % Width
  BY DEF CountsIn
<1>3. IsFiniteSet(Done') /\ Cardinality(Done') = Cardinality(Done) + 1
  BY <1>1, <1>2, DoneIn
<1>4. Working' <=> Working
  BY <1>1, WorkingSame, TheThreads
<1>5. Pending' = Pending + 1
  BY <1>2, <1>3, <1>4, PendingIs DEF Pending
<1>6. ASSUME raced = "no" PROVE \A u \in Threads : thread'[u].at # "inside"
  <2>1. \A u \in Threads : u # s => thread'[u] = thread[u] /\ thread[u].at # "inside"
    BY <1>1, <1>2, <1>6, TheThreads DEF Counted, Puts
  <2> QED BY <1>1, <2>1 DEF Puts
<1>7. ASSUME raced = "no" PROVE \E k \in Nat : Pending' = inQueue' + k * Width
  <2>1. thread[s].val = inQueue /\ inQueue \in Numbers
    BY <1>2, <1>7, TheThreads DEF Counted, TypeOK, Numbers
  <2>2. PICK k \in Nat : Pending = inQueue + k * Width
    BY <1>7 DEF Counted
  <2> QED BY <1>2, <1>5, <2>1, <2>2, StepsUp
<1> QED BY <1>2, <1>3, <1>6, <1>7 DEF Counted

LEMMA CountsOutCounted ==
  ASSUME TypeOK, Counted, IsFiniteSet(Done), CountsOut
  PROVE  Counted' /\ Done' = Done
<1>1. PICK r : Puts(Context, r) /\ r.at = "done"
  BY BlockIs DEF Moves
<1>2. /\ thread[Context].at = "inside" /\ UNCHANGED <<raced, queue>>
      /\ inQueue' = (thread[Context].val - 1) % Width
  BY DEF CountsOut
<1>3. Done' = Done
  BY <1>1, DoneSame, TheThreads
<1>4. Working /\ ~ Working'
  BY <1>1, <1>2 DEF Working, Puts
<1>5. Pending' = Pending - 1 /\ Pending # 0 /\ Pending \in Nat
  BY <1>2, <1>3, <1>4, PendingIs DEF Pending
<1>6. ASSUME raced = "no" PROVE \A u \in Threads : thread'[u].at # "inside"
  <2>1. \A u \in Threads : u # Context => thread'[u] = thread[u] /\ thread[u].at # "inside"
    BY <1>1, <1>2, <1>6, TheThreads DEF Counted, Puts
  <2> QED BY <1>1, <2>1 DEF Puts
<1>7. ASSUME raced = "no" PROVE \E k \in Nat : Pending' = inQueue' + k * Width
  <2>1. thread[Context].val = inQueue /\ inQueue \in Numbers
    BY <1>2, <1>7, TheThreads DEF Counted, TypeOK, Numbers
  <2>2. PICK k \in Nat : Pending = inQueue + k * Width
    BY <1>7 DEF Counted
  <2>3. inQueue + k * Width # 0
    BY <1>5, <2>2
  <2>4. PICK j \in Nat : inQueue + k * Width - 1 = ((inQueue - 1) % Width) + j * Width
    BY <2>1, <2>3, StepsDown
  <2>5. inQueue' = (inQueue - 1) % Width
    BY <1>2, <2>1
  <2>6. Pending' = inQueue + k * Width - 1
    <3>1. inQueue \in Nat /\ Width \in Nat
      BY <2>1, InboxAssumption DEF Numbers
    <3> QED BY <1>5, <2>2, <3>1
  <2> QED BY <2>4, <2>5, <2>6
<1> QED BY <1>2, <1>3, <1>6, <1>7 DEF Counted

(* The block is handed over, and begun. *)
LEMMA QueueCounted ==
  ASSUME TypeOK, OnTheirWay, Counted, IsFiniteSet(Done),
         Starts \/ \E s \in Streams : HandsOver(s)
  PROVE  Counted' /\ IsFiniteSet(Done')
<1>1. CASE Starts
  <2>1. PICK r : Puts(Context, r) /\ r.at = "busy"
    BY <1>1, StartsIs
  <2>2. thread[Context].at = "idle" /\ UNCHANGED <<inQueue, raced>> /\ queue' = Tail(queue)
    BY <1>1 DEF Starts
  <2>3. Done' = Done
    BY <2>1, DoneSame, TheThreads
  <2>4. ~ Working /\ Working'
    BY <2>1, <2>2 DEF Working, Puts
  <2>5. Len(queue') = Len(queue) - 1
    BY <1>1, <2>2, StartsIs
  <2>6. Pending' = Pending
    BY <2>3, <2>4, <2>5, PendingIs DEF Pending
  <2> QED BY <2>1, <2>2, <2>3, <2>6, CountKept, TheThreads
<1>2. ASSUME NEW s \in Streams, HandsOver(s) PROVE Counted' /\ IsFiniteSet(Done')
  <2>1. Puts(s, AtRest) /\ AtRest.at = "idle"
    BY <1>2, StreamIs, RestIs
  <2>2. thread[s].at = "done" /\ UNCHANGED <<inQueue, raced>> /\ queue' = Append(queue, thread[s].msg)
    BY <1>2 DEF HandsOver
  <2>3. IsFiniteSet(Done') /\ Cardinality(Done') = Cardinality(Done) - 1
    BY <2>1, <2>2, DoneOut
  <2>4. Working' <=> Working
    BY <2>1, WorkingSame, TheThreads
  <2>5. Len(queue') = Len(queue) + 1
    <3>1. thread[s].msg \in Messages /\ queue \in Seq(Messages)
      BY <2>2 DEF OnTheirWay, TypeOK
    <3> QED BY <2>2, <3>1, AppendIs
  <2>6. Pending' = Pending
    BY <2>3, <2>4, <2>5, PendingIs DEF Pending
  <2> QED BY <2>1, <2>2, <2>3, <2>6, CountKept, TheThreads
<1> QED BY <1>1, <1>2

LEMMA NextCounted ==
  TypeOK /\ OnTheirWay /\ Counted /\ IsFiniteSet(Done) /\ [Next]_vars => Counted' /\ IsFiniteSet(Done')
<1> SUFFICES ASSUME TypeOK, OnTheirWay, Counted, IsFiniteSet(Done), [Next]_vars
             PROVE  Counted' /\ IsFiniteSet(Done')
  OBVIOUS
<1>1. ASSUME UNCHANGED <<inQueue, raced, queue>>, NEW t \in Threads, NEW r, Puts(t, r), r.at # "inside",
             t \in Streams => (r.at = "done" <=> thread[t].at = "done"),
             t = Context => (r.at \in {"busy", "syncing", "wants", "looked", "inside"} <=> Working)
      PROVE  Counted' /\ IsFiniteSet(Done')
  <2>1. Pending' = Pending /\ Done' = Done
    BY <1>1, PendingSame
  <2> QED BY <1>1, <2>1, CountKept
<1>2. ASSUME NEW t \in Threads, Looks(t) PROVE Counted' /\ IsFiniteSet(Done')
  <2>1. PICK r : Puts(t, r) /\ r.at = "looked"
    BY <1>2, LooksIs DEF Moves
  <2>2. thread[t].at = "wants" /\ UNCHANGED <<inQueue, raced, queue>>
    BY <1>2 DEF Looks
  <2> QED BY <1>1, <2>1, <2>2 DEF Working
<1>3. ASSUME NEW s \in Streams, NEW m \in Messages, Arrives(s, m) PROVE Counted' /\ IsFiniteSet(Done')
  <2>1. PICK r : Puts(s, r) /\ r.at = "wants"
    BY <1>3, StreamIs
  <2>2. thread[s].at = "idle" /\ UNCHANGED <<inQueue, raced, queue>>
    BY <1>3 DEF Arrives
  <2> QED BY <1>1, <2>1, <2>2, TheThreads
<1>4. CASE Processes \/ Drops
  <2>1. PICK r : Puts(Context, r) /\ r.at \in {"wants", "syncing"}
    BY <1>4, BlockIs DEF Moves
  <2>2. thread[Context].at = "busy" /\ UNCHANGED <<inQueue, raced, queue>>
    BY <1>4 DEF Processes, Drops
  <2> QED BY <1>1, <2>1, <2>2, TheThreads DEF Working
<1>5. CASE Syncs
  <2>1. PICK r : Puts(Context, r) /\ r.at = IF thread[Context].at = "syncing" THEN "wants" ELSE "idle"
    BY <1>5, BlockIs, RestIs DEF Moves
  <2>2. thread[Context].at \in {"syncing", "saving"} /\ UNCHANGED <<inQueue, raced, queue>>
    BY <1>5 DEF Syncs
  <2> QED BY <1>1, <2>1, <2>2, TheThreads DEF Working
<1>6. CASE Tests
  <2>1. PICK r : Puts(Context, r) /\ r.at \in {"saving", "idle"}
    BY <1>6, BlockIs, RestIs DEF Moves
  <2>2. thread[Context].at = "done" /\ UNCHANGED <<inQueue, raced, queue>>
    BY <1>6 DEF Tests
  <2> QED BY <1>1, <2>1, <2>2, TheThreads DEF Working
<1>7. CASE \/ \E s \in Streams : Connects(s)
           \/ Waits("reset") \/ Waits("reconnect") \/ DeletesAll \/ Resumes \/ UNCHANGED vars
  <2>1. UNCHANGED <<inQueue, raced, queue, thread>>
    BY <1>7 DEF Connects, Waits, DeletesAll, Resumes, vars
  <2>2. UNCHANGED <<Done, Pending>>
    BY <2>1 DEF Done, Working, Pending
  <2> QED BY <2>1, <2>2 DEF Counted
<1>8. CASE Killed
  <2>1. /\ \A t \in Threads : thread'[t].at = "idle"
        /\ queue' = <<>> /\ inQueue' = 0
    BY <1>8, RestIs DEF Killed
  <2>2. Done' = {} /\ ~ Working'
    BY <2>1, TheThreads DEF Done, Working
  <2>3. Cardinality(Done') = 0 /\ IsFiniteSet(Done') /\ Len(queue') = 0
    BY <2>1, <2>2, FS_EmptySet
  <2>4. Pending' = inQueue' + 0 * Width
    BY <2>1, <2>2, <2>3, InboxAssumption DEF Pending
  <2> QED BY <2>1, <2>3, <2>4 DEF Counted
<1> QED BY <1>2, <1>3, <1>4, <1>5, <1>6, <1>7, <1>8, EntersCounted, CountsInCounted, CountsOutCounted,
           QueueCounted, TheThreads DEF Next, Stream, Block

-----------------------------------------------------------------------------
(* Acknowledged messages. *)

LEMMA InitKept == Init => Somewhere /\ Saved
BY DEF Init, Somewhere, Saved

LEMMA NextSomewhere == TypeOK /\ OnTheirWay /\ Somewhere /\ [Next]_vars => Somewhere'
<1> SUFFICES ASSUME TypeOK, OnTheirWay, Somewhere, [Next]_vars PROVE Somewhere'
  OBVIOUS
<1> DEFINE In(m) == \/ m \in store \/ m \in dropped \/ m \in lost \/ m \in old \/ m \in Range(queue)
                    \/ m \in unsaved \/ (thread[Context].at = "busy" /\ m = thread[Context].msg)
<1>1. \A m \in acked : In(m)
  BY DEF Somewhere
<1>2. SUFFICES \A m \in acked' : In(m)'
  BY DEF Somewhere
<1>3. ASSUME UNCHANGED <<acked, store, dropped, lost, old, queue, unsaved>>,
             thread[Context].at = "busy" => UNCHANGED thread[Context]
      PROVE  \A m \in acked' : In(m)'
  BY <1>1, <1>3
<1>4. \A s \in Streams : \A r : Puts(s, r) => thread'[Context] = thread[Context]
  BY TheThreads DEF Puts
<1>5. ASSUME NEW t \in Threads, Looks(t) \/ Enters(t) PROVE \A m \in acked' : In(m)'
  <2>1. /\ UNCHANGED <<acked, store, dropped, lost, old, queue, unsaved>>
        /\ thread[t].at \in {"wants", "looked"} /\ \E r : Puts(t, r)
    BY <1>5, LooksIs, EntersIs DEF Looks, Enters, incoming, history, Moves
  <2>2. thread[Context].at = "busy" => UNCHANGED thread[Context]
    BY <2>1, TheThreads DEF Puts
  <2> QED BY <1>3, <2>1, <2>2
<1>6. ASSUME NEW s \in Streams, NEW m \in Messages, Arrives(s, m) PROVE \A n \in acked' : In(n)'
  <2>1. /\ UNCHANGED <<acked, store, dropped, lost, queue, unsaved>> /\ old' = old \ {m}
        /\ m \notin acked
    BY <1>6 DEF Arrives, OnTheirWay
  <2>2. UNCHANGED thread[Context]
    BY <1>4, <1>6, StreamIs
  <2> QED BY <1>1, <2>1, <2>2
<1>7. ASSUME NEW s \in Streams, CountsIn(s) PROVE \A m \in acked' : In(m)'
  <2>1. UNCHANGED thread[Context]
    BY <1>4, <1>7, StreamIs DEF Moves
  <2> QED BY <1>3, <1>7, <2>1 DEF CountsIn, incoming, history
<1>8. ASSUME NEW s \in Streams, HandsOver(s) PROVE \A m \in acked' : In(m)'
  <2>1. UNCHANGED thread[Context] /\ UNCHANGED <<store, dropped, lost, old, unsaved>>
    BY <1>4, <1>8, StreamIs DEF HandsOver, history
  <2>2. acked' \subseteq acked \union {thread[s].msg}
    BY <1>8 DEF HandsOver
  <2>3. Range(queue') = Range(queue) \union {thread[s].msg}
    <3>1. thread[s].msg \in Messages /\ queue \in Seq(Messages)
      BY <1>8 DEF OnTheirWay, TypeOK, HandsOver
    <3> QED BY <1>8, <3>1, AppendIs DEF HandsOver
  <2> QED BY <1>1, <2>1, <2>2, <2>3
<1>9. CASE Starts
  <2>1. PICK r : Puts(Context, r) /\ r.at = "busy" /\ r.msg = Head(queue)
    BY <1>9, StartsIs
  <2>2. /\ Range(queue) = Range(queue') \union {Head(queue)}
        /\ UNCHANGED <<acked, store, dropped, lost, old, unsaved>> /\ thread[Context].at = "idle"
    BY <1>9, StartsIs DEF Starts, incoming, history
  <2>3. thread'[Context].at = "busy" /\ thread'[Context].msg = Head(queue)
    BY <2>1 DEF Puts
  <2> QED BY <1>1, <2>2, <2>3
<1>10. CASE Processes
  <2>1. /\ UNCHANGED <<acked, store, lost, old, queue>> /\ thread[Context].at = "busy"
        /\ unsaved' = unsaved \union {thread[Context].msg}
        /\ dropped' = dropped \ {thread[Context].msg}
    BY <1>10 DEF Processes, incoming, history
  <2> QED BY <1>1, <2>1
<1>11. CASE Drops
  <2>1. /\ UNCHANGED <<acked, store, lost, old, queue>> /\ thread[Context].at = "busy"
        /\ unsaved' = unsaved \ {thread[Context].msg}
        /\ dropped' = dropped \union {thread[Context].msg}
    BY <1>11 DEF Drops, incoming, history
  <2> QED BY <1>1, <2>1
<1>12. CASE Syncs
  <2>1. /\ UNCHANGED <<acked, dropped, lost, old, queue>> /\ thread[Context].at # "busy"
        /\ store' = (store \ dropped) \union unsaved
    BY <1>12 DEF Syncs, incoming, history
  <2> QED BY <1>1, <2>1
<1>13. CASE CountsOut \/ Tests
  BY <1>3, <1>13 DEF CountsOut, Tests, incoming, history
<1>14. CASE DeletesAll
  <2>1. acked' = acked /\ old' = CountedIn
    BY <1>14 DEF DeletesAll, incoming
  <2>2. acked \subseteq CountedIn
    BY DEF OnTheirWay, CountedIn
  <2> QED BY <2>1, <2>2
<1>15. CASE Killed
  <2>1. acked' = acked /\ lost' = lost \union (acked \ store) /\ store' = store
    BY <1>15 DEF Killed
  <2> QED BY <2>1
<1>16. CASE \/ \E s \in Streams : Connects(s)
            \/ Waits("reset") \/ Waits("reconnect") \/ Resumes \/ UNCHANGED vars
  BY <1>3, <1>16 DEF Connects, Waits, Resumes, vars, incoming, history
<1> QED BY <1>5, <1>6, <1>7, <1>8, <1>9, <1>10, <1>11, <1>12, <1>13, <1>14, <1>15, <1>16,
           TheThreads DEF Next, Stream, Block

LEMMA NextSaved ==
  TypeOK /\ OnTheirWay /\ Counted /\ IsFiniteSet(Done) /\ Saved /\ [Next]_vars => Saved'
<1> SUFFICES ASSUME TypeOK, OnTheirWay, Counted, IsFiniteSet(Done), Saved, [Next]_vars,
                    raced' = "no", queue' = <<>>, Done' = {}, thread'[Context].at = "idle"
             PROVE  unsaved' = {}
  BY DEF Saved
<1>1. ASSUME UNCHANGED <<raced, queue, unsaved>>, NEW t \in Threads, NEW r, Puts(t, r),
             t \in Streams => (r.at = "done" <=> thread[t].at = "done"), t = Context => r.at # "idle"
      PROVE  unsaved' = {}
  <2>1. Done = {}
    BY <1>1, DoneSame
  <2>2. t # Context /\ thread'[Context] = thread[Context]
    BY <1>1, TheThreads DEF Puts
  <2> QED BY <1>1, <2>1, <2>2 DEF Saved
<1>2. ASSUME NEW t \in Threads, Looks(t) \/ Enters(t) PROVE unsaved' = {}
  <2>1. PICK r : Puts(t, r) /\ r.at \in {"looked", "inside"}
    BY <1>2, LooksIs, EntersIs DEF Moves
  <2>2. raced = "no" /\ UNCHANGED <<queue, unsaved>> /\ thread[t].at \in {"wants", "looked"}
    BY <1>2 DEF Looks, Enters
  <2> QED BY <1>1, <2>1, <2>2
<1>3. ASSUME NEW s \in Streams, NEW m \in Messages, Arrives(s, m) PROVE unsaved' = {}
  <2>1. PICK r : Puts(s, r) /\ r.at = "wants"
    BY <1>3, StreamIs
  <2>2. thread[s].at = "idle" /\ UNCHANGED <<raced, queue, unsaved>>
    BY <1>3 DEF Arrives
  <2> QED BY <1>1, <2>1, <2>2, TheThreads
<1>4. ASSUME NEW s \in Streams, CountsIn(s) PROVE FALSE
  <2>1. PICK r : Puts(s, r) /\ r.at = "done"
    BY <1>4, StreamIs DEF Moves
  <2> QED BY <1>4, <2>1, DoneIn DEF CountsIn
<1>5. ASSUME NEW s \in Streams, HandsOver(s) PROVE FALSE
  <2>1. thread[s].msg \in Messages /\ queue \in Seq(Messages)
    BY <1>5 DEF OnTheirWay, TypeOK, HandsOver
  <2> QED BY <1>5, <2>1, AppendIs DEF HandsOver
<1>6. ~ Starts /\ ~ Processes /\ ~ Drops /\ ~ CountsOut
  BY StartsIs, BlockIs DEF Moves, Puts
<1>7. CASE Tests
  <2>1. thread[Context].at = "done" /\ UNCHANGED <<inQueue, raced, queue, unsaved>>
    BY <1>7 DEF Tests
  <2>2. PICK r : Puts(Context, r) /\ r.at = IF inQueue = 0 /\ unsaved # {} THEN "saving" ELSE "idle"
    BY <1>7, BlockIs, RestIs DEF Moves
  <2>3. Done = {} /\ ~ Working
    BY <2>1, <2>2, DoneSame, TheThreads DEF Working
  <2>4. Pending = 0
    <3>1. Cardinality(Done) = 0 /\ Len(queue) = 0
      BY <2>1, <2>3, FS_EmptySet
    <3> QED BY <2>3, <3>1 DEF Pending
  <2>5. PICK k \in Nat : 0 = inQueue + k * Width
    BY <2>1, <2>4 DEF Counted
  <2>6. inQueue \in Nat /\ Width \in Nat
    BY InboxAssumption DEF TypeOK
  <2>7. inQueue = 0
    BY <2>5, <2>6
  <2> QED BY <2>1, <2>2, <2>7 DEF Puts
<1>8. CASE Syncs \/ Killed
  BY <1>8 DEF Syncs, Killed
<1>9. CASE \/ \E s \in Streams : Connects(s)
           \/ Waits("reset") \/ Waits("reconnect") \/ DeletesAll \/ Resumes \/ UNCHANGED vars
  <2>1. UNCHANGED <<raced, queue, thread, unsaved>>
    BY <1>9 DEF Connects, Waits, DeletesAll, Resumes, vars
  <2>2. Done' = Done
    BY <2>1 DEF Done
  <2> QED BY <2>1, <2>2 DEF Saved
<1> QED BY <1>2, <1>3, <1>4, <1>5, <1>6, <1>7, <1>8, <1>9, TheThreads DEF Next, Stream, Block

Inductive == TypeOK /\ OnTheirWay /\ Counted /\ IsFiniteSet(Done) /\ Somewhere /\ Saved

LEMMA AlwaysInductive == SafeSpec => []Inductive
<1>1. Init => Inductive
  BY InitType, InitOnTheirWay, InitCounted, InitKept DEF Inductive
<1>2. Inductive /\ [Next]_vars => Inductive'
  BY NextType, NextCounted, NextSomewhere, NextSaved DEF Inductive
<1> QED BY <1>1, <1>2, PTL DEF SafeSpec

(* An acknowledged message is waiting, being processed or saved, or it is  *)
(* known what has become of it: for any number of messages, whatever their *)
(* order, and whether the last of them counted.                            *)
THEOREM AckedIsKept == SafeSpec => []AckedKept
<1>1. Inductive => AckedKept
  <2> SUFFICES ASSUME Inductive PROVE AckedKept
    OBVIOUS
  <2>1. Quiet /\ raced = "no" => unsaved = {}
    <3>1. Quiet => Done = {} /\ thread[Context].at = "idle" /\ queue = <<>>
      BY TheThreads DEF Quiet, Done
    <3> QED BY <3>1 DEF Inductive, Saved
  <2> QED BY <2>1 DEF Inductive, Somewhere, AckedKept
<1> QED BY <1>1, AlwaysInductive, PTL

-----------------------------------------------------------------------------
(* After a reset. *)

(* The 0 that a reset acts on is not the 0 of a count that has wrapped     *)
(* around: 2^64 messages would have to be pending at that moment. Nothing  *)
(* is asked of a count that two threads have spoilt.                       *)
Fits == main = "reset" /\ inQueue = 0 /\ raced = "no" => Pending < Width

LEMMA InitForgotten == Init => Forgotten
<1> SUFFICES ASSUME Init PROVE Forgotten
  OBVIOUS
<1>1. old = {}
  BY DEF Init
<1> QED BY <1>1 DEF Forgotten

(* A count of 0 is the truth: nothing is pending, and if the block has     *)
(* acted on it nothing is unsaved.                                         *)
LEMMA ZeroIsTrue ==
  ASSUME Inductive, Fits, raced = "no", main = "reset", inQueue = 0
  PROVE  queue = <<>> /\ Done = {} /\ ~ Working /\ (thread[Context].at = "idle" => unsaved = {})
<1>1. PICK k \in Nat : Pending = inQueue + k * Width
  BY DEF Inductive, Counted
<1>2. Width \in Nat /\ Width > 1 /\ Pending = k * Width /\ k * Width < Width
  BY <1>1, InboxAssumption DEF Fits
<1>3. k = 0
  BY <1>2
<1>4. Pending = 0
  BY <1>2, <1>3
<1>5. Len(queue) = 0 /\ Done = {} /\ ~ Working
  BY <1>4, PendingIs DEF Inductive
<1>6. queue = <<>>
  BY <1>5, EmptySeq DEF Inductive, TypeOK
<1> QED BY <1>5, <1>6 DEF Inductive, Saved

LEMMA NextForgotten == Inductive /\ Fits /\ Forgotten /\ [Next]_vars => Forgotten'
<1> SUFFICES ASSUME Inductive, Fits, Forgotten, [Next]_vars, raced' = "no", hasty' = "no"
             PROVE  /\ \A m \in old' : m \notin unsaved' /\ m \notin store' /\ m \notin Range(queue')
                    /\ thread'[Context].at = "busy" => thread'[Context].msg \notin old'
                    /\ \A s \in Streams : thread'[s].at # "idle" => thread'[s].msg \notin old'
  BY DEF Forgotten
<1> DEFINE Gone == /\ \A m \in old' : m \notin unsaved' /\ m \notin store' /\ m \notin Range(queue')
                   /\ thread'[Context].at = "busy" => thread'[Context].msg \notin old'
                   /\ \A s \in Streams : thread'[s].at # "idle" => thread'[s].msg \notin old'
<1>a. TypeOK /\ OnTheirWay
  BY DEF Inductive
<1>1. raced = "no" /\ hasty = "no"
  BY DEF Next, Stream, Block, Looks, Enters, CountsIn, HandsOver, Connects, Arrives, Starts, Processes,
         Drops, Syncs, CountsOut, Tests, Waits, DeletesAll, Resumes, Killed, vars, history
<1>2. /\ \A m \in old : m \notin unsaved /\ m \notin store /\ m \notin Range(queue)
      /\ thread[Context].at = "busy" => thread[Context].msg \notin old
      /\ \A s \in Streams : thread[s].at # "idle" => thread[s].msg \notin old
  BY <1>1 DEF Forgotten
<1>3. ASSUME old' \subseteq old, Range(queue') \subseteq Range(queue), unsaved' \subseteq unsaved,
             store' \subseteq store \union unsaved, NEW t \in Threads, NEW r, Puts(t, r),
             t = Context => r.at # "busy",
             t \in Streams /\ r.at # "idle" => r.msg = thread[t].msg /\ thread[t].at # "idle"
      PROVE  Gone
  <2>1. \A u \in Threads : u # t => thread'[u] = thread[u]
    BY <1>3 DEF Puts
  <2>2. thread'[t] = r
    BY <1>3 DEF Puts
  <2>3. thread'[Context].at = "busy" => thread'[Context].msg \notin old'
    BY <1>2, <1>3, <2>1, <2>2, TheThreads
  <2>4. \A s \in Streams : thread'[s].at # "idle" => thread'[s].msg \notin old'
    BY <1>2, <1>3, <2>1, <2>2, TheThreads
  <2> QED BY <1>2, <1>3, <2>3, <2>4
<1>4. ASSUME NEW t \in Threads, Looks(t) \/ Enters(t) PROVE Gone
  <2>1. PICK r : Puts(t, r) /\ r.at \in {"looked", "inside"} /\ r.msg = thread[t].msg
    BY <1>a, <1>4, LooksIs, EntersIs DEF Moves
  <2>2. thread[t].at \in {"wants", "looked"} /\ UNCHANGED <<old, queue, unsaved, store>>
    BY <1>4 DEF Looks, Enters, history
  <2> QED BY <1>3, <2>1, <2>2
<1>5. ASSUME NEW s \in Streams, NEW m \in Messages, Arrives(s, m) PROVE Gone
  <2>1. PICK r : Puts(s, r) /\ r.at = "wants" /\ r.msg = m
    BY <1>a, <1>5, StreamIs
  <2>2. old' = old \ {m} /\ UNCHANGED <<queue, unsaved, store>>
    BY <1>5 DEF Arrives
  <2>3. \A u \in Threads : u # s => thread'[u] = thread[u]
    BY <2>1 DEF Puts
  <2>4. thread'[s] = r /\ thread'[Context] = thread[Context]
    BY <2>1, TheThreads DEF Puts
  <2> QED BY <1>2, <2>1, <2>2, <2>3, <2>4, TheThreads
<1>6. ASSUME NEW s \in Streams, CountsIn(s) PROVE Gone
  <2>1. PICK r : Puts(s, r) /\ r.at = "done" /\ r.msg = thread[s].msg
    BY <1>a, <1>6, StreamIs DEF Moves
  <2>2. thread[s].at = "inside" /\ UNCHANGED <<old, queue, unsaved, store>>
    BY <1>6 DEF CountsIn, history
  <2> QED BY <1>3, <2>1, <2>2, TheThreads
<1>7. ASSUME NEW s \in Streams, HandsOver(s) PROVE Gone
  <2>1. Puts(s, AtRest) /\ AtRest.at = "idle"
    BY <1>a, <1>7, StreamIs, RestIs
  <2>2. UNCHANGED <<old, unsaved, store>> /\ thread[s].at = "done"
    BY <1>7 DEF HandsOver, history
  <2>3. Range(queue') = Range(queue) \union {thread[s].msg}
    <3>1. thread[s].msg \in Messages /\ queue \in Seq(Messages)
      BY <1>a, <2>2 DEF OnTheirWay, TypeOK
    <3> QED BY <1>7, <3>1, AppendIs DEF HandsOver
  <2>4. /\ \A u \in Threads : u # s => thread'[u] = thread[u]
        /\ thread'[s].at = "idle" /\ thread'[Context] = thread[Context]
    BY <2>1, TheThreads DEF Puts
  <2> QED BY <1>2, <2>2, <2>3, <2>4, TheThreads
<1>8. CASE Starts
  <2>1. PICK r : Puts(Context, r) /\ r.msg = Head(queue)
    BY <1>a, <1>8, StartsIs
  <2>2. /\ Range(queue) = Range(queue') \union {Head(queue)} /\ UNCHANGED <<old, unsaved, store>>
    BY <1>a, <1>8, StartsIs DEF Starts, history
  <2>3. /\ \A s \in Streams : thread'[s] = thread[s]
        /\ thread'[Context].msg = Head(queue)
    BY <2>1, TheThreads DEF Puts
  <2> QED BY <1>2, <2>2, <2>3
<1>9. CASE Processes \/ Drops
  <2>1. PICK r : Puts(Context, r) /\ r.at \in {"wants", "syncing"}
    BY <1>a, <1>9, BlockIs DEF Moves
  <2>2. /\ thread[Context].at = "busy" /\ UNCHANGED <<old, store, queue>>
        /\ unsaved' \subseteq unsaved \union {thread[Context].msg}
    BY <1>9 DEF Processes, Drops, history
  <2>3. /\ \A s \in Streams : thread'[s] = thread[s]
        /\ thread'[Context].at # "busy"
    BY <2>1, TheThreads DEF Puts
  <2> QED BY <1>2, <2>2, <2>3
<1>10. CASE Syncs \/ CountsOut \/ Tests
  <2>1. PICK r : Puts(Context, r) /\ r.at # "busy"
    BY <1>a, <1>10, BlockIs, RestIs DEF Moves
  <2>2. /\ UNCHANGED <<old, queue>> /\ unsaved' \subseteq unsaved /\ store' \subseteq store \union unsaved
    BY <1>10 DEF Syncs, CountsOut, Tests, history
  <2> QED BY <1>3, <2>1, <2>2, TheThreads
<1>11. CASE DeletesAll
  <2>1. /\ inQueue = 0 /\ main = "reset"
        /\ store' = {} /\ UNCHANGED <<thread, queue, unsaved>> /\ old' = CountedIn
        /\ thread[Context].at \notin {"done", "saving"}
    BY <1>11 DEF DeletesAll
  <2>2. queue = <<>> /\ Done = {} /\ ~ Working
    BY <1>1, <2>1, ZeroIsTrue
  <2>3. thread[Context].at = "idle"
    <3>1. thread[Context].at \in Places
      BY <1>a, TheThreads DEF TypeOK
    <3> QED BY <2>1, <2>2, <3>1 DEF Working, Places
  <2>4. unsaved = {}
    BY <1>1, <2>1, <2>3, ZeroIsTrue
  <2>5. Range(queue) = {}
    BY <2>2, EmptySeq DEF Range
  <2>6. \A s \in Streams : thread[s].at # "idle" => thread[s].at \in {"wants", "looked", "inside"}
    BY <1>a, <2>2 DEF OnTheirWay, Done
  <2>7. \A s \in Streams : thread[s].at # "idle" => thread[s].msg \notin CountedIn
    BY <2>6 DEF CountedIn
  <2> QED BY <2>1, <2>3, <2>4, <2>5, <2>7
<1>12. CASE Killed
  <2>1. \A t \in Threads : thread'[t].at = "idle"
    BY <1>12, RestIs DEF Killed
  <2>2. Range(queue') = {} /\ unsaved' = {} /\ UNCHANGED <<store, old>>
    BY <1>12, EmptySeq DEF Killed, Range
  <2> QED BY <1>2, <2>1, <2>2, TheThreads
<1>13. CASE \/ \E s \in Streams : Connects(s)
            \/ Waits("reset") \/ Waits("reconnect") \/ Resumes \/ UNCHANGED vars
  BY <1>2, <1>13 DEF Connects, Waits, Resumes, vars, history
<1> QED BY <1>4, <1>5, <1>6, <1>7, <1>8, <1>9, <1>10, <1>11, <1>12, <1>13, TheThreads
        DEF Next, Stream, Block

(* As long as no reset acts on a count that has wrapped around, a reset    *)
(* forgets: what was counted in before all friends were deleted does not   *)
(* come back, unless two threads were at the count or the reset was hasty. *)
THEOREM ResetIsThorough == SafeSpec /\ []Fits => []ResetForgets
<1>1. Forgotten => ResetForgets
  BY DEF Forgotten, ResetForgets
<1> QED BY <1>1, AlwaysInductive, InitForgotten, NextForgotten, PTL DEF SafeSpec
=============================================================================
