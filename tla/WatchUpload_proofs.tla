-------------------------- MODULE WatchUpload_proofs --------------------------
(***************************************************************************)
(* Proofs about WatchUpload, for any number of drain loops, any capacity   *)
(* and batch size, and however often requests fail and the app is killed:  *)
(* the file is a suffix of what was enqueued, and while requests do not    *)
(* meet, no point is lost, sent after its answer or stored out of order.   *)
(***************************************************************************)
EXTENDS WatchUpload, TLAPS, FiniteSetTheorems, SequenceTheorems

(* How many points have left the file; the next one in it is gone + 1. *)
gone == enqueued - Len(queue)

(* The points are the ones at the head of the file, in order. *)
Carries(points) ==
  /\ Len(points) <= Len(queue)
  /\ \A i \in 1..Len(points) : points[i] = gone + i

(* The file ends with the newest point; only points that left are evicted. *)
Numbered ==
  /\ Len(queue) <= enqueued
  /\ QueueIsSuffix
  /\ evicted \subseteq 1..gone

(* A request is on its way under the key of the loop that waits for it, or *)
(* under one that nobody waits for.                                        *)
Keyed ==
  /\ IsFiniteSet(wire) /\ IsFiniteSet(tried)
  /\ \A t \in Tasks : \A r \in wire :
       task[t].pc = "posted" /\ task[t].key = r.key => task[t].sent = r.points

(* The watch hears only of points the server has. *)
Stored ==
  /\ acked \subseteq recorded
  /\ \A t \in Tasks : task[t].pc = "answered" => Range(task[t].sent) \subseteq recorded

(* Undisturbed, at most one loop has posted, and it has posted the head of *)
(* the file; whatever else is on its way is part of that, or known to the  *)
(* server; and what has left the file was acknowledged or evicted.         *)
Alone == \A t, u \in Tasks : InFlight(t) /\ InFlight(u) => t = u
AtHead == \A t \in Tasks : InFlight(t) => Carries(task[t].sent)
WireKnown ==
  \A r \in wire :
    \/ Range(r.points) \subseteq recorded
    \/ /\ Carries(r.points)
       /\ \A t \in Tasks : InFlight(t) => Len(r.points) <= Len(task[t].sent)
Downward == \A p \in recorded : \A q \in gone + 1..p : q \in recorded
Left == acked \subseteq 1..gone /\ 1..gone \subseteq acked \union evicted

Orderly == Undisturbed => Alone /\ AtHead /\ WireKnown /\ Downward /\ Left

IInv ==
  /\ TypeOK
  /\ Numbered
  /\ Keyed
  /\ Stored
  /\ Orderly

-----------------------------------------------------------------------------
(* What the operators on the file return, for any sequence of points.      *)

LEMMA PointsOf ==
  ASSUME NEW S, NEW s \in Seq(S)
  PROVE  /\ Range(s) = {s[i] : i \in 1..Len(s)}
         /\ Range(s) \subseteq S
<1>1. Range(s) \in SUBSET S
  BY RangeOfSeq
<1>2. Range(s) = {s[i] : i \in 1..Len(s)}
  BY RangeEquality
<1> QED BY <1>1, <1>2

LEMMA SavedFacts ==
  ASSUME NEW S, NEW s \in Seq(S)
  PROVE  /\ Saved(s) \in Seq(S)
         /\ Len(Saved(s)) = IF Len(s) > Capacity THEN Capacity ELSE Len(s)
         /\ \A i \in 1..Len(Saved(s)) : Saved(s)[i] = s[Len(s) - Len(Saved(s)) + i]
<1>1. Len(s) \in Nat /\ Capacity \in Nat \ {0} /\ \A i \in 1..Len(s) : s[i] \in S
  BY SizesAssumption
<1>2. CASE Len(s) > Capacity
  <2> DEFINE m == Len(s) - Capacity + 1
  <2>1. m \in Int /\ \A i \in m..Len(s) : s[i] \in S
    BY <1>1, <1>2
  <2>2. /\ SubSeq(s, m, Len(s)) \in Seq(S)
        /\ Len(SubSeq(s, m, Len(s))) = IF m <= Len(s) THEN Len(s) - m + 1 ELSE 0
        /\ \A i \in 1..Len(s) - m + 1 : SubSeq(s, m, Len(s))[i] = s[m + i - 1]
    <3> HIDE DEF m
    <3> QED BY <1>1, <2>1, SubSeqProperties
  <2>3. Saved(s) = SubSeq(s, m, Len(s)) /\ m <= Len(s) /\ Len(s) - m + 1 = Capacity
    BY <1>1, <1>2 DEF Saved
  <2>4. \A i \in Nat : m + i - 1 = Len(s) - Capacity + i
    BY <1>1
  <2>5. Len(Saved(s)) = Capacity
    BY <2>2, <2>3
  <2>6. \A i \in 1..Capacity : Saved(s)[i] = s[Len(s) - Capacity + i]
    BY <1>1, <2>2, <2>3, <2>4
  <2> QED BY <1>1, <1>2, <2>2, <2>3, <2>5, <2>6
<1>3. CASE ~(Len(s) > Capacity)
  <2>1. Saved(s) = s
    BY <1>3 DEF Saved
  <2> QED BY <1>1, <1>3, <2>1
<1> QED BY <1>2, <1>3

LEMMA WithoutFirstFacts ==
  ASSUME NEW S, NEW s \in Seq(S), NEW n \in Nat
  PROVE  /\ WithoutFirst(s, n) \in Seq(S)
         /\ Len(WithoutFirst(s, n)) = IF n >= Len(s) THEN 0 ELSE Len(s) - n
         /\ \A i \in 1..Len(WithoutFirst(s, n)) : WithoutFirst(s, n)[i] = s[n + i]
<1>1. Len(s) \in Nat /\ \A i \in 1..Len(s) : s[i] \in S
  OBVIOUS
<1>2. CASE n >= Len(s)
  BY <1>1, <1>2 DEF WithoutFirst
<1>3. CASE ~(n >= Len(s))
  <2>1. /\ SubSeq(s, n + 1, Len(s)) \in Seq(S)
        /\ Len(SubSeq(s, n + 1, Len(s))) = Len(s) - n
        /\ \A i \in 1..Len(s) - n : SubSeq(s, n + 1, Len(s))[i] = s[n + i]
    BY <1>1, <1>3, SubSeqProperties
  <2> QED BY <1>1, <1>3, <2>1 DEF WithoutFirst
<1> QED BY <1>2, <1>3

(* A request carries the head of the file, and as much of it as it may. *)
LEMMA PayloadFacts ==
  ASSUME queue \in Seq(1..Points), queue # <<>>
  PROVE  /\ Payload \in Seq(1..Points)
         /\ Len(Payload) = IF Len(queue) < BatchSize THEN Len(queue) ELSE BatchSize
         /\ \A i \in 1..Len(Payload) : Payload[i] = queue[i]
<1> DEFINE k == Len(queue)
           n == IF k < BatchSize THEN k ELSE BatchSize
<1>1. k \in Nat \ {0} /\ \A i \in 1..k : queue[i] \in 1..Points
  <2>1. k \in Nat \ {0}
    BY EmptySeq
  <2> QED BY <2>1, ElementOfSeq
<1>2. BatchSize \in Nat \ {0, 1}
  BY SizesAssumption
<1>3. CASE k >= 2
  <2>1. n \in 1..k
    <3> HIDE DEF k
    <3> QED BY <1>1, <1>2, <1>3
  <2>2. Payload = SubSeq(queue, 1, n)
    BY <1>3 DEF Payload, BatchMin
  <2> HIDE DEF n
  <2>3. \A i \in 1..n : queue[i] \in 1..Points
    <3> HIDE DEF k
    <3> QED BY <1>1, <2>1
  <2>4. n \in Int
    <3> HIDE DEF k
    <3> QED BY <1>1, <2>1
  <2>5. /\ SubSeq(queue, 1, n) \in Seq(1..Points)
        /\ Len(SubSeq(queue, 1, n)) = IF 1 <= n THEN n - 1 + 1 ELSE 0
        /\ \A i \in 1..n - 1 + 1 : SubSeq(queue, 1, n)[i] = queue[1 + i - 1]
    BY <2>3, <2>4, SubSeqProperties
  <2>6. n - 1 + 1 = n /\ 1 <= n /\ \A i \in 1..n : 1 + i - 1 = i
    <3> HIDE DEF k
    <3> QED BY <1>1, <2>1
  <2>7. Len(Payload) = n /\ \A i \in 1..n : Payload[i] = queue[i]
    BY <2>2, <2>5, <2>6
  <2> QED BY <2>2, <2>5, <2>7 DEF n
<1>4. CASE ~(k >= 2)
  <2>1. k = 1 /\ n = 1
    <3> HIDE DEF k
    <3> QED BY <1>1, <1>2, <1>4
  <2>2. Payload = <<Head(queue)>>
    BY <1>4 DEF Payload, BatchMin
  <2>3. Payload = <<queue[1]>>
    BY <2>2
  <2>4. queue[1] \in 1..Points
    BY <1>1, <2>1
  <2>5. /\ Payload \in Seq(1..Points) /\ Len(Payload) = 1
        /\ \A i \in 1..1 : Payload[i] = queue[i]
    <3> DEFINE x == queue[1]
    <3> HIDE DEF x
    <3>1. /\ <<x>> \in Seq(1..Points) /\ Len(<<x>>) = 1 /\ <<x>>[1] = x
      BY <2>4 DEF x
    <3>2. \A i \in 1..1 : i = 1
      OBVIOUS
    <3> QED BY <2>3, <3>1, <3>2 DEF x
  <2> QED BY <2>1, <2>5
<1> QED BY <1>3, <1>4

(* There is always a key nobody has seen. *)
LEMMA FreshKeyIsFresh ==
  ASSUME Keyed
  PROVE  FreshKey \in Nat /\ FreshKey \notin Keys
<1> DEFINE T == {task[t].key : t \in Tasks}
           R == {r.key : r \in wire \union tried}
<1>1. IsFiniteSet(T)
  <2> DEFINE f == [t \in Tasks |-> task[t].key]
  <2>1. f \in Surjection(Tasks, T)
    BY DEF Surjection
  <2> QED BY <2>1, FS_Surjection, TasksAssumption
<1>2. IsFiniteSet(R)
  <2> DEFINE f == [r \in wire \union tried |-> r.key]
  <2>1. f \in Surjection(wire \union tried, R)
    BY DEF Surjection
  <2>2. IsFiniteSet(wire \union tried)
    BY FS_Union DEF Keyed
  <2> QED BY <2>1, <2>2, FS_Surjection
<1>3. IsFiniteSet(Keys)
  BY <1>1, <1>2, FS_Union DEF Keys
<1> DEFINE n == Cardinality(Keys)
<1>4. n \in Nat
  BY <1>3, FS_CardinalityType
<1>5. IsFiniteSet(1..n + 1) /\ Cardinality(1..n + 1) = n + 1
  BY <1>4, FS_Interval
<1>6. \E k \in 1..n + 1 : k \notin Keys
  <2>1. SUFFICES ASSUME 1..n + 1 \subseteq Keys PROVE FALSE
    OBVIOUS
  <2>2. n + 1 <= n
    BY <1>3, <1>5, <2>1, FS_Subset
  <2> QED BY <1>4, <2>2
<1> QED BY <1>4, <1>6 DEF FreshKey

-----------------------------------------------------------------------------
(* What the two changes of the file do to it. *)

LEMMA InFile ==
  ASSUME TypeOK, Numbered
  PROVE  /\ Len(queue) \in Nat /\ gone \in Nat /\ enqueued = gone + Len(queue)
         /\ \A i \in 1..Len(queue) : queue[i] = gone + i
         /\ Range(queue) = gone + 1..enqueued
<1>1. /\ queue \in Seq(1..Points) /\ Len(queue) \in Nat /\ DOMAIN queue = 1..Len(queue)
  BY LenProperties DEF TypeOK
<1>2. enqueued \in Nat /\ Len(queue) <= enqueued
  BY BoundsAssumption DEF TypeOK, Numbered
<1>3. \A i \in 1..Len(queue) : queue[i] = enqueued - Len(queue) + i
  BY <1>1 DEF Numbered, QueueIsSuffix
<1>4. Range(queue) = {queue[i] : i \in 1..Len(queue)}
  BY <1>1, PointsOf
<1> DEFINE k == Len(queue)
<1>5. k \in Nat /\ gone = enqueued - k
  BY <1>1 DEF gone
<1>6. \A i \in 1..k : queue[i] = gone + i
  BY <1>3, <1>5
<1>7. gone \in Nat /\ enqueued = gone + k
  <2> HIDE DEF k
  <2> QED BY <1>2, <1>5 DEF k
<1>8. Range(queue) = {gone + i : i \in 1..k}
  BY <1>4, <1>6
<1>9. {gone + i : i \in 1..k} = gone + 1..gone + k
  <2> HIDE DEF k
  <2>1. \A p \in gone + 1..gone + k : p - gone \in 1..k /\ p = gone + (p - gone)
    BY <1>5, <1>7
  <2>2. \A i \in 1..k : gone + i \in gone + 1..gone + k
    BY <1>5, <1>7
  <2> QED BY <2>1, <2>2
<1> QED BY <1>5, <1>6, <1>7, <1>8, <1>9

LEMMA EnqueueFacts ==
  ASSUME TypeOK, Numbered, Enqueue
  PROVE  /\ queue' \in Seq(1..Points) /\ Len(queue') <= Capacity
         /\ Numbered'
         /\ evicted' = evicted \union (gone + 1..gone')
         /\ \/ gone' = gone /\ Len(queue') = Len(queue) + 1 /\ evicted' = evicted
            \/ gone' = gone + 1 /\ evicted' # evicted
<1> DEFINE q == Append(queue, enqueued + 1)
           k == Len(queue)
<1>1. /\ k \in Nat /\ gone \in Nat /\ enqueued = gone + k
      /\ \A i \in 1..k : queue[i] = gone + i
      /\ Range(queue) = gone + 1..enqueued
  BY InFile
<1>2. enqueued' = enqueued + 1 /\ enqueued + 1 \in 1..Points
  BY BoundsAssumption DEF Enqueue, TypeOK
<1>3. /\ q \in Seq(1..Points) /\ Len(q) = k + 1
      /\ \A i \in 1..k : q[i] = queue[i]
      /\ q[k + 1] = enqueued + 1
  BY <1>2, AppendProperties DEF TypeOK
<1>4. \A i \in 1..k + 1 : q[i] = gone + i
  <2> HIDE DEF q, k
  <2> QED BY <1>1, <1>3
<1>5. /\ queue' \in Seq(1..Points)
      /\ Len(queue') = IF k + 1 > Capacity THEN Capacity ELSE k + 1
      /\ \A i \in 1..Len(queue') : queue'[i] = q[k + 1 - Len(queue') + i]
  <2>1. queue' = Saved(q)
    BY DEF Enqueue
  <2>2. /\ Saved(q) \in Seq(1..Points)
        /\ Len(Saved(q)) = IF Len(q) > Capacity THEN Capacity ELSE Len(q)
        /\ \A i \in 1..Len(Saved(q)) : Saved(q)[i] = q[Len(q) - Len(Saved(q)) + i]
    <3> HIDE DEF q, k
    <3> QED BY <1>3, SavedFacts
  <2>3. k \in Nat
    BY <1>1
  <2>4. Len(q) = k + 1
    BY <1>3
  <2> HIDE DEF q, k
  <2>5. queue' \in Seq(1..Points)
    BY <2>1, <2>2
  <2>6. Len(queue') = IF k + 1 > Capacity THEN Capacity ELSE k + 1
    BY <2>1, <2>2, <2>4
  <2>7. \A i \in 1..Len(queue') : queue'[i] = q[k + 1 - Len(queue') + i]
    BY <2>1, <2>2, <2>3, <2>4
  <2> QED BY <2>5, <2>6, <2>7
<1>6. k <= Capacity /\ Capacity \in Nat \ {0}
  BY SizesAssumption DEF TypeOK
<1> DEFINE k2 == Len(queue')
<1>7. /\ k2 \in Nat /\ gone' = enqueued + 1 - k2
      /\ \/ k2 = k + 1 /\ gone' = gone
         \/ k2 = k /\ gone' = gone + 1 /\ k > 0
  <2>1. k2 \in Nat
    BY <1>5, LenProperties
  <2>2. gone' = enqueued + 1 - k2
    <3>1. gone' = enqueued' - k2
      BY DEF gone
    <3> HIDE DEF k, k2
    <3> QED BY <1>1, <1>2, <2>1, <3>1
  <2> HIDE DEF k, k2
  <2> QED BY <1>1, <1>5, <1>6, <2>1, <2>2 DEF k2
<1>8. \A i \in 1..k2 : queue'[i] = gone' + i
  <2>1. \A i \in 1..k2 : k + 1 - k2 + i \in 1..k + 1 /\ gone + (k + 1 - k2 + i) = gone' + i
    <3> HIDE DEF k, k2
    <3> QED BY <1>1, <1>7
  <2> HIDE DEF k, q
  <2> QED BY <1>4, <1>5, <2>1
<1>9. QueueIsSuffix'
  <2>1. DOMAIN queue' = 1..k2
    BY <1>5, LenProperties
  <2>2. \A i \in 1..k2 : queue'[i] = enqueued' - Len(queue') + i
    BY <1>8 DEF gone
  <2> QED BY <2>1, <2>2 DEF QueueIsSuffix
<1>10. Range(queue') = gone' + 1..enqueued'
  <2>1. Range(queue') = {queue'[i] : i \in 1..k2}
    BY <1>5, PointsOf
  <2>2. \A p \in gone' + 1..enqueued' : p - gone' \in 1..k2 /\ p = gone' + (p - gone')
    <3> HIDE DEF k, k2
    <3> QED BY <1>1, <1>2, <1>7
  <2>3. \A i \in 1..k2 : gone' + i \in gone' + 1..enqueued'
    <3> HIDE DEF k, k2
    <3> QED BY <1>1, <1>2, <1>7
  <2> HIDE DEF k2
  <2> QED BY <1>8, <2>1, <2>2, <2>3
<1>11. Range(queue) \ Range(queue') = gone + 1..gone'
  <2>1. \A p : p \in gone + 1..enqueued /\ p \notin gone' + 1..enqueued' <=> p \in gone + 1..gone'
    <3> HIDE DEF k, k2
    <3> QED BY <1>1, <1>2, <1>7
  <2> QED BY <1>1, <1>10, <2>1
<1>12. evicted' = evicted \union (gone + 1..gone')
  BY <1>11 DEF Enqueue
<1>13. evicted \subseteq 1..gone /\ evicted' \subseteq 1..gone'
  <2> HIDE DEF k, k2
  <2> QED BY <1>1, <1>7, <1>12 DEF Numbered
<1>14. Numbered'
  <2>1. Len(queue') <= enqueued'
    <3> HIDE DEF k
    <3> QED BY <1>1, <1>2, <1>7
  <2> QED BY <1>9, <1>13, <2>1 DEF Numbered
<1>15. CASE k2 = k + 1 /\ gone' = gone
  <2>1. gone + 1..gone' = {}
    BY <1>1, <1>15
  <2> QED BY <1>5, <1>6, <1>12, <1>14, <1>15, <2>1
<1>16. CASE k2 = k /\ gone' = gone + 1
  <2>1. gone + 1 \in evicted' /\ gone + 1 \notin evicted
    <3> HIDE DEF k, k2
    <3> QED BY <1>1, <1>12, <1>13, <1>16
  <2>2. evicted' # evicted
    BY <2>1
  <2> QED BY <1>5, <1>6, <1>12, <1>14, <1>16, <2>2
<1> QED BY <1>7, <1>15, <1>16

LEMMA RemoveFacts ==
  ASSUME TypeOK, Numbered, NEW n \in Nat,
         queue' = WithoutFirst(queue, n), UNCHANGED <<enqueued, evicted>>
  PROVE  /\ queue' \in Seq(1..Points) /\ Len(queue') <= Capacity
         /\ Numbered'
         /\ gone' >= gone
         /\ n <= Len(queue) => gone' = gone + n
<1> DEFINE k == Len(queue)
           k2 == Len(queue')
<1>1. /\ k \in Nat /\ gone \in Nat /\ enqueued = gone + k
      /\ \A i \in 1..k : queue[i] = gone + i
  BY InFile
<1>2. /\ queue' \in Seq(1..Points)
      /\ k2 = IF n >= k THEN 0 ELSE k - n
      /\ \A i \in 1..k2 : queue'[i] = queue[n + i]
  BY WithoutFirstFacts DEF TypeOK
<1>3. k <= Capacity /\ Capacity \in Nat
  BY SizesAssumption DEF TypeOK
<1>4. gone' = enqueued - k2
  BY DEF gone
<1>5. /\ k2 \in Nat /\ k2 <= k /\ k2 <= Capacity /\ gone' \in Nat /\ gone' >= gone
      /\ n <= k => gone' = gone + n
  <2> HIDE DEF k, k2
  <2> QED BY <1>1, <1>2, <1>3, <1>4
<1>6. \A i \in 1..k2 : queue'[i] = gone' + i
  <2>1. \A i \in 1..k2 : n + i \in 1..k /\ gone + (n + i) = gone' + i
    <3> HIDE DEF k, k2
    <3> QED BY <1>1, <1>2, <1>4
  <2> HIDE DEF k, k2
  <2> QED BY <1>1, <1>2, <2>1
<1>7. QueueIsSuffix'
  <2>1. DOMAIN queue' = 1..k2
    BY <1>2, LenProperties
  <2>2. \A i \in 1..k2 : queue'[i] = enqueued' - Len(queue') + i
    BY <1>4, <1>6
  <2> QED BY <2>1, <2>2 DEF QueueIsSuffix
<1>8. Len(queue') <= enqueued'
  <2> HIDE DEF k
  <2> QED BY <1>1, <1>5
<1>9. evicted' \subseteq 1..gone'
  <2> HIDE DEF k, k2
  <2> QED BY <1>1, <1>5 DEF Numbered
<1>10. Numbered'
  BY <1>7, <1>8, <1>9 DEF Numbered
<1> QED BY <1>2, <1>5, <1>10

-----------------------------------------------------------------------------
(* Type correctness. *)

LEMMA InitIInv == Init => IInv
<1> SUFFICES ASSUME Init PROVE IInv
  OBVIOUS
<1>1. queue \in Seq(1..Points) /\ Len(queue) = 0 /\ DOMAIN queue = {}
  BY DEF Init
<1>2. Idle \in Loops
  BY SizesAssumption DEF Idle, Loops
<1>3. Capacity \in Nat
  BY SizesAssumption
<1>4. TypeOK
  BY <1>1, <1>2, <1>3, BoundsAssumption DEF Init, TypeOK
<1>5. Numbered
  BY <1>1 DEF Init, Numbered, QueueIsSuffix
<1>6. Keyed
  BY FS_EmptySet DEF Init, Keyed
<1>7. Stored
  BY DEF Init, Stored, Idle
<1>8. gone = 0
  <2>1. enqueued = 0
    BY DEF Init
  <2> QED BY <1>1, <2>1 DEF gone
<1>9. Alone /\ AtHead
  BY DEF Init, Alone, AtHead, InFlight, Idle
<1>10. WireKnown /\ Downward /\ Left
  BY <1>8 DEF Init, WireKnown, Downward, Left
<1> QED BY <1>4, <1>5, <1>6, <1>7, <1>9, <1>10 DEF IInv, Orderly

(* The loops that the actions make. *)
LEMMA LoopTypes ==
  ASSUME TypeOK, NEW t \in Tasks
  PROVE  /\ Idle \in Loops /\ Ended(t) \in Loops
         /\ task[t] \in Loops
         /\ [task[t] EXCEPT !.pc = "loop"] \in Loops
         /\ [task[t] EXCEPT !.pc = "answered"] \in Loops
         /\ \A when \in {"past", "later"} : Scheduled(t, when) \in {"past", "later"}
<1>1. task[t] \in Loops
  BY DEF TypeOK
<1>2. Idle \in Loops
  BY SizesAssumption DEF Idle, Loops
<1>3. Ended(t) \in Loops
  BY <1>2, SizesAssumption DEF Ended, Idle, Loops
<1>4. \A when \in {"past", "later"} : Scheduled(t, when) \in {"past", "later"}
  BY DEF Scheduled, TypeOK
<1>5. /\ [task[t] EXCEPT !.pc = "loop"] \in Loops
      /\ [task[t] EXCEPT !.pc = "answered"] \in Loops
  BY <1>1 DEF Loops
<1> QED BY <1>1, <1>2, <1>3, <1>4, <1>5

LEMMA PostTypes ==
  ASSUME TypeOK, Keyed, NEW t \in Tasks, Post(t)
  PROVE  /\ [task[t] EXCEPT !.pc = "posted", !.sent = Payload, !.key = FreshKey] \in Loops
         /\ [points |-> Payload, key |-> FreshKey] \in Requests
         /\ Len(Payload) <= BatchSize
         /\ Len(Payload) = IF Len(queue) < BatchSize THEN Len(queue) ELSE BatchSize
         /\ \A i \in 1..Len(Payload) : Payload[i] = queue[i]
<1>1. queue \in Seq(1..Points) /\ queue # <<>>
  BY DEF TypeOK, Post
<1> DEFINE k == Len(queue)
<1>2. /\ Payload \in Seq(1..Points)
      /\ Len(Payload) = IF k < BatchSize THEN k ELSE BatchSize
      /\ \A i \in 1..Len(Payload) : Payload[i] = queue[i]
  BY <1>1, PayloadFacts
<1>3. k \in Nat /\ BatchSize \in Nat
  BY <1>1, LenProperties, SizesAssumption
<1>4. Len(Payload) <= BatchSize
  <2> HIDE DEF k
  <2> QED BY <1>2, <1>3
<1>5. FreshKey \in Nat
  BY FreshKeyIsFresh
<1>6. [points |-> Payload, key |-> FreshKey] \in Requests
  BY <1>2, <1>5 DEF Requests
<1>7. [task[t] EXCEPT !.pc = "posted", !.sent = Payload, !.key = FreshKey] \in Loops
  <2>1. task[t] \in Loops
    BY DEF TypeOK
  <2> DEFINE p == Payload
             f == FreshKey
  <2>2. p \in Seq(1..Points) /\ f \in Nat
    BY <1>2, <1>5
  <2> HIDE DEF p, f
  <2>3. [task[t] EXCEPT !.pc = "posted", !.sent = p, !.key = f] \in Loops
    BY <2>1, <2>2 DEF Loops
  <2> QED BY <2>3 DEF p, f
<1> QED BY <1>2, <1>4, <1>6, <1>7

LEMMA TypeStep == TypeOK /\ Numbered /\ Keyed /\ [Next]_vars => TypeOK'
<1> SUFFICES ASSUME TypeOK, Numbered, Keyed, [Next]_vars PROVE TypeOK'
  OBVIOUS
<1>1. CASE Enqueue
  <2>1. queue' \in Seq(1..Points) /\ Len(queue') <= Capacity /\ Numbered'
    BY <1>1, EnqueueFacts
  <2>2. enqueued' \in 0..Points
    BY <1>1, BoundsAssumption DEF Enqueue, TypeOK
  <2>3. evicted' \subseteq 1..Points
    <3>1. Range(queue) \subseteq 1..Points
      BY PointsOf DEF TypeOK
    <3> QED BY <1>1, <3>1 DEF Enqueue, TypeOK
  <2> QED BY <1>1, <2>1, <2>2, <2>3 DEF Enqueue, TypeOK, flags
<1>2. CASE Expires
  BY <1>2 DEF Expires, TypeOK, pastVars
<1>3. CASE Crash
  <2>1. task' \in [Tasks -> Loops]
    <3>1. Idle \in Loops
      BY SizesAssumption DEF Idle, Loops
    <3> QED BY <1>3, <3>1 DEF Crash
  <2>2. faults' \in 0..Faults
    BY <1>3, BoundsAssumption DEF Crash, Faulty, TypeOK
  <2> QED BY <1>3, <2>1, <2>2 DEF Crash, TypeOK, pastVars
<1>4. ASSUME NEW t \in Tasks, AskFlush(t) PROVE TypeOK'
  <2>1. [Idle EXCEPT !.kind = "flush", !.pc = "asked"] \in Loops
    <3>1. Idle \in Loops
      BY LoopTypes
    <3> QED BY <3>1 DEF Loops
  <2>2. task' \in [Tasks -> Loops]
    BY <1>4, <2>1 DEF AskFlush, TypeOK
  <2> QED BY <1>4, <2>2 DEF AskFlush, TypeOK, flags, pastVars
<1>5. ASSUME NEW t \in Tasks, Tick(t) PROVE TypeOK'
  <2>1. [Idle EXCEPT !.kind = "tick", !.pc = "loop"] \in Loops
    <3>1. Idle \in Loops
      BY LoopTypes
    <3> QED BY <3>1 DEF Loops
  <2>2. task' \in [Tasks -> Loops]
    BY <1>5, <2>1 DEF Tick, TypeOK
  <2> QED BY <1>5, <2>2 DEF Tick, TypeOK, flags, pastVars
<1>6. ASSUME NEW t \in Tasks, BeginFlush(t) PROVE TypeOK'
  <2>1. task' \in [Tasks -> Loops]
    BY <1>6, LoopTypes DEF BeginFlush, TypeOK
  <2> QED BY <1>6, <2>1 DEF BeginFlush, TypeOK, pastVars
<1>7. ASSUME NEW t \in Tasks, FindsNothing(t) PROVE TypeOK'
  <2>1. task' \in [Tasks -> Loops] /\ nextAttempt' \in {"past", "later"}
    BY <1>7, LoopTypes DEF FindsNothing, TypeOK
  <2> QED BY <1>7, <2>1 DEF FindsNothing, TypeOK, pastVars
<1>8. ASSUME NEW t \in Tasks, Post(t) PROVE TypeOK'
  <2> DEFINE l == [task[t] EXCEPT !.pc = "posted", !.sent = Payload, !.key = FreshKey]
             r == [points |-> Payload, key |-> FreshKey]
  <2>1. l \in Loops /\ r \in Requests /\ Len(r.points) <= BatchSize
    BY <1>8, PostTypes
  <2>2. task' = [task EXCEPT ![t] = l] /\ wire' = wire \union {r}
    BY <1>8 DEF Post
  <2>3. disturbed' \subseteq {"overlap", "eviction"}
    BY <1>8 DEF Post, TypeOK
  <2> HIDE DEF l, r
  <2>4. /\ task' \in [Tasks -> Loops] /\ wire' \in SUBSET Requests
        /\ \A x \in wire' : Len(x.points) <= BatchSize
    BY <2>1, <2>2 DEF TypeOK
  <2> QED BY <1>8, <2>3, <2>4 DEF Post, TypeOK, flags
<1>9. ASSUME NEW t \in Tasks, Succeeds(t) PROVE TypeOK'
  <2> DEFINE n == Len(task[t].sent)
             m == IF task[t].uploads < TickUploads THEN task[t].uploads + 1 ELSE TickUploads
             l == [task[t] EXCEPT !.pc = "loop", !.sent = <<>>, !.key = 0, !.uploads = m]
  <2>1. /\ task[t].sent \in Seq(1..Points) /\ n \in Nat
        /\ task[t].uploads \in 0..TickUploads
    BY LenProperties DEF TypeOK, Loops
  <2>2. queue' \in Seq(1..Points) /\ Len(queue') <= Capacity
    BY <1>9, <2>1, RemoveFacts DEF Succeeds
  <2>3. m \in 0..TickUploads
    BY <2>1, SizesAssumption
  <2>4. l \in Loops
    <3>1. task[t] \in Loops
      BY DEF TypeOK
    <3>2. <<>> \in Seq(1..Points)
      BY EmptySeq
    <3> DEFINE e == <<>>
    <3> HIDE DEF m, e
    <3>3. [task[t] EXCEPT !.pc = "loop", !.sent = e, !.key = 0, !.uploads = m] \in Loops
      BY <2>3, <3>1, <3>2 DEF Loops, e
    <3> QED BY <3>3 DEF e
  <2>5. task' \in [Tasks -> Loops]
    <3> DEFINE over == task[t].kind = "tick" /\ m = TickUploads
    <3>0. task' = [task EXCEPT ![t] = IF queue' = <<>> \/ over THEN Ended(t) ELSE l]
      BY <1>9 DEF Succeeds
    <3>1. task' = [task EXCEPT ![t] = Ended(t)] \/ task' = [task EXCEPT ![t] = l]
      <4> HIDE DEF l, over
      <4> QED BY <3>0
    <3> HIDE DEF l
    <3> QED BY <2>4, <3>1, LoopTypes DEF TypeOK
  <2>6. nextAttempt' \in {"past", "later"}
    BY <1>9, LoopTypes DEF Succeeds, TypeOK
  <2>7. acked' \subseteq 1..Points
    <3>1. Range(task[t].sent) \subseteq 1..Points
      BY <2>1, PointsOf
    <3> QED BY <1>9, <3>1 DEF Succeeds, TypeOK
  <2> QED BY <1>9, <2>2, <2>5, <2>6, <2>7 DEF Succeeds, TypeOK
<1>10. ASSUME NEW t \in Tasks, Fails(t) PROVE TypeOK'
  <2>1. task' \in [Tasks -> Loops]
    BY <1>10, LoopTypes DEF Fails, TypeOK
  <2>2. tried' \in SUBSET Requests
    <3>1. [points |-> task[t].sent, key |-> task[t].key] \in Requests
      BY DEF TypeOK, Loops, Requests
    <3> QED BY <1>10, <3>1 DEF Fails, TypeOK
  <2>3. faults' \in 0..Faults
    BY <1>10, BoundsAssumption DEF Fails, Faulty, TypeOK
  <2> QED BY <1>10, <2>1, <2>2, <2>3 DEF Fails, TypeOK
<1>11. ASSUME NEW t \in Tasks, ClearFlag(t) PROVE TypeOK'
  <2>1. task' \in [Tasks -> Loops]
    BY <1>11, LoopTypes DEF ClearFlag, TypeOK
  <2> QED BY <1>11, <2>1 DEF ClearFlag, TypeOK, pastVars
<1>12. ASSUME NEW r \in wire, ServerStores(r) PROVE TypeOK'
  <2>1. task' \in [Tasks -> Loops]
    <3>1. \A t \in Tasks : task'[t] \in Loops
      BY <1>12, LoopTypes DEF ServerStores
    <3>2. task' = [t \in Tasks |-> task'[t]]
      BY <1>12 DEF ServerStores
    <3> QED BY <3>1, <3>2
  <2>2. recorded' \subseteq 1..Points
    <3>1. r.points \in Seq(1..Points)
      BY DEF TypeOK, Requests
    <3>2. Range(r.points) \subseteq 1..Points
      BY <3>1, PointsOf
    <3> QED BY <1>12, <3>2 DEF ServerStores, TypeOK
  <2> QED BY <1>12, <2>1, <2>2 DEF ServerStores, TypeOK, flags
<1>13. CASE UNCHANGED vars
  BY <1>13 DEF vars, flags, pastVars, TypeOK
<1> QED
  BY <1>1, <1>2, <1>3, <1>4, <1>5, <1>6, <1>7, <1>8, <1>9, <1>10, <1>11, <1>12, <1>13
  DEF Next, Loop

-----------------------------------------------------------------------------
(* The steps that neither post nor store nor change the file: a loop may   *)
(* stop waiting, and that is all the rest of the invariant sees of them.   *)

Quiet ==
  /\ UNCHANGED <<queue, enqueued, recorded, acked, evicted, wire, disturbed>>
  /\ IsFiniteSet(tried')
  /\ \A t \in Tasks :
       task'[t].pc \in {"posted", "answered"} =>
         /\ task'[t].pc = task[t].pc
         /\ task'[t].sent = task[t].sent /\ task'[t].key = task[t].key

LEMMA QuietActions ==
  ASSUME TypeOK, Keyed,
         \/ Expires \/ Crash \/ UNCHANGED vars
         \/ \E t \in Tasks : \/ AskFlush(t) \/ Tick(t) \/ BeginFlush(t)
                             \/ FindsNothing(t) \/ Fails(t) \/ ClearFlag(t)
  PROVE  Quiet
<1>1. task \in [Tasks -> Loops] /\ IsFiniteSet(tried)
  BY DEF TypeOK, Keyed
<1>2. CASE Expires
  BY <1>1, <1>2 DEF Expires, Quiet, pastVars
<1>3. CASE Crash
  BY <1>1, <1>3 DEF Crash, Quiet, pastVars, Idle
<1>4. CASE UNCHANGED vars
  BY <1>1, <1>4 DEF vars, Quiet, pastVars, flags
<1>5. ASSUME NEW t \in Tasks, AskFlush(t) PROVE Quiet
  BY <1>1, <1>5 DEF AskFlush, Quiet, pastVars, Idle
<1>6. ASSUME NEW t \in Tasks, Tick(t) PROVE Quiet
  BY <1>1, <1>6 DEF Tick, Quiet, pastVars, Idle
<1>7. ASSUME NEW t \in Tasks, BeginFlush(t) PROVE Quiet
  <2>1. task' = [task EXCEPT ![t] = [task[t] EXCEPT !.pc = "loop"]]
    BY <1>7 DEF BeginFlush
  <2>2. task[t] \in Loops /\ task'[t].pc = "loop"
    BY <1>1, <2>1 DEF Loops
  <2>3. \A u \in Tasks \ {t} : task'[u] = task[u]
    BY <1>1, <2>1
  <2> QED BY <1>1, <1>7, <2>2, <2>3 DEF BeginFlush, Quiet, pastVars
<1>8. \A t \in Tasks : Ended(t).pc \in {"idle", "clearing"}
  BY DEF Ended, Idle
<1>9. ASSUME NEW t \in Tasks, FindsNothing(t) PROVE Quiet
  <2>1. task'[t] = Ended(t) /\ \A u \in Tasks \ {t} : task'[u] = task[u]
    BY <1>1, <1>9 DEF FindsNothing
  <2> QED BY <1>1, <1>8, <1>9, <2>1 DEF FindsNothing, Quiet, pastVars
<1>10. ASSUME NEW t \in Tasks, Fails(t) PROVE Quiet
  <2>1. task'[t] = Ended(t) /\ \A u \in Tasks \ {t} : task'[u] = task[u]
    BY <1>1, <1>10 DEF Fails
  <2>2. IsFiniteSet(tried')
    <3>1. IsFiniteSet(tried \union {[points |-> task[t].sent, key |-> task[t].key]})
      BY <1>1, FS_AddElement
    <3> QED BY <1>1, <1>10, <3>1 DEF Fails
  <2> QED BY <1>8, <1>10, <2>1, <2>2 DEF Fails, Quiet
<1>11. ASSUME NEW t \in Tasks, ClearFlag(t) PROVE Quiet
  BY <1>1, <1>11 DEF ClearFlag, Quiet, pastVars, Idle
<1> QED BY <1>2, <1>3, <1>4, <1>5, <1>6, <1>7, <1>9, <1>10, <1>11

LEMMA QuietStep ==
  ASSUME IInv, Quiet
  PROVE  Numbered' /\ Keyed' /\ Stored' /\ Orderly'
<1>1. \A t \in Tasks : InFlight(t)' => InFlight(t) /\ task'[t].sent = task[t].sent
  BY DEF Quiet, InFlight
<1>2. gone' = gone /\ \A s : Carries(s)' <=> Carries(s)
  BY DEF Quiet, gone, Carries
<1>3. Numbered'
  BY <1>2 DEF IInv, Numbered, QueueIsSuffix, Quiet
<1>4. Keyed'
  BY DEF IInv, Keyed, Quiet
<1>5. Stored'
  BY DEF IInv, Stored, Quiet
<1>6. ASSUME Undisturbed' PROVE Alone' /\ AtHead' /\ WireKnown' /\ Downward' /\ Left'
  <2>1. Alone /\ AtHead /\ WireKnown /\ Downward /\ Left
    BY <1>6 DEF IInv, Orderly, Undisturbed, Quiet
  <2>2. Alone'
    BY <1>1, <2>1 DEF Alone
  <2>3. AtHead'
    BY <1>1, <1>2, <2>1 DEF AtHead, Quiet, Carries, gone
  <2>4. WireKnown'
    BY <1>1, <1>2, <2>1 DEF WireKnown, Quiet, Carries, gone
  <2>5. Downward' /\ Left'
    BY <1>2, <2>1 DEF Downward, Left, Quiet
  <2> QED BY <2>2, <2>3, <2>4, <2>5
<1> QED BY <1>3, <1>4, <1>5, <1>6 DEF Orderly

-----------------------------------------------------------------------------
(* The four steps that matter. *)

LEMMA CarriesRange ==
  ASSUME TypeOK, Numbered, NEW s \in Seq(1..Points), Carries(s)
  PROVE  Range(s) = gone + 1..gone + Len(s)
<1> DEFINE k == Len(s)
<1>1. k \in Nat /\ gone \in Nat
  BY InFile, LenProperties
<1>2. Range(s) = {s[i] : i \in 1..k}
  BY PointsOf
<1>3. \A i \in 1..k : s[i] = gone + i
  BY DEF Carries
<1>4. \A p \in gone + 1..gone + k : p - gone \in 1..k /\ p = gone + (p - gone)
  <2> HIDE DEF k
  <2> QED BY <1>1
<1>5. \A i \in 1..k : gone + i \in gone + 1..gone + k
  <2> HIDE DEF k
  <2> QED BY <1>1
<1> HIDE DEF k
<1>6. Range(s) \subseteq gone + 1..gone + k
  BY <1>2, <1>3, <1>5
<1>7. gone + 1..gone + k \subseteq Range(s)
  BY <1>2, <1>3, <1>4
<1> QED BY <1>6, <1>7 DEF k

LEMMA EnqueueStep ==
  ASSUME IInv, Enqueue
  PROVE  Numbered' /\ Keyed' /\ Stored' /\ Orderly'
<1>1. TypeOK /\ Numbered
  BY DEF IInv
<1>2. /\ Numbered'
      /\ queue' \in Seq(1..Points)
      /\ evicted' = evicted \union (gone + 1..gone')
      /\ \/ gone' = gone /\ Len(queue') = Len(queue) + 1 /\ evicted' = evicted
         \/ gone' = gone + 1 /\ evicted' # evicted
  BY <1>1, EnqueueFacts
<1>3. Keyed' /\ Stored'
  BY DEF IInv, Enqueue, Keyed, Stored
<1>4. Len(queue) \in Nat /\ gone \in Nat /\ Len(queue') \in Nat
  BY <1>1, <1>2, InFile, LenProperties
<1>5. ASSUME Undisturbed' PROVE Alone' /\ AtHead' /\ WireKnown' /\ Downward' /\ Left'
  <2>1. Alone /\ AtHead /\ WireKnown /\ Downward /\ Left
    <3>1. Undisturbed
      BY <1>5 DEF Enqueue, Undisturbed
    <3> QED BY <3>1 DEF IInv, Orderly
  <2>2. \A t \in Tasks : InFlight(t)' <=> InFlight(t)
    BY DEF Enqueue, InFlight
  <2>3. Alone'
    BY <2>1, <2>2 DEF Alone
  <2>4. CASE gone' = gone /\ Len(queue') = Len(queue) + 1 /\ evicted' = evicted
    <3>1. ASSUME NEW s \in Seq(1..Points), Carries(s) PROVE Carries(s)'
      <4>1. Len(s) \in Nat /\ Len(s) <= Len(queue) /\ \A i \in 1..Len(s) : s[i] = gone + i
        BY <3>1, LenProperties DEF Carries
      <4>2. Len(s) <= Len(queue')
        BY <1>4, <2>4, <4>1
      <4> QED BY <2>4, <4>1, <4>2 DEF Carries
    <3>2. AtHead'
      <4> SUFFICES ASSUME NEW t \in Tasks, InFlight(t) PROVE Carries(task[t].sent)'
        BY <2>2 DEF AtHead, Enqueue
      <4>1. task[t].sent \in Seq(1..Points)
        BY <1>1 DEF TypeOK, Loops
      <4>2. Carries(task[t].sent)
        BY <2>1 DEF AtHead
      <4>3. task'[t].sent = task[t].sent
        BY DEF Enqueue
      <4> DEFINE s == task[t].sent
      <4>4. Len(s) <= Len(queue') /\ \A i \in 1..Len(s) : s[i] = gone' + i
        <5> HIDE DEF s
        <5> QED BY <3>1, <4>1, <4>2 DEF Carries, s
      <4> QED BY <4>3, <4>4 DEF Carries
    <3>3. WireKnown'
      <4> SUFFICES ASSUME NEW r \in wire
                   PROVE  \/ Range(r.points) \subseteq recorded
                          \/ /\ Len(r.points) <= Len(queue')
                             /\ \A i \in 1..Len(r.points) : r.points[i] = gone' + i
                             /\ \A t \in Tasks : InFlight(t) => Len(r.points) <= Len(task[t].sent)
        BY <2>2 DEF WireKnown, Enqueue, Carries
      <4>1. r.points \in Seq(1..Points)
        BY <1>1 DEF TypeOK, Requests
      <4>2. CASE Range(r.points) \subseteq recorded
        BY <4>2
      <4>3. CASE ~(Range(r.points) \subseteq recorded)
        <5>1. /\ Carries(r.points)
              /\ \A t \in Tasks : InFlight(t) => Len(r.points) <= Len(task[t].sent)
          BY <2>1, <4>3 DEF WireKnown
        <5> DEFINE s == r.points
        <5>2. Len(s) <= Len(queue') /\ \A i \in 1..Len(s) : s[i] = gone' + i
          <6> HIDE DEF s
          <6> QED BY <3>1, <4>1, <5>1 DEF Carries, s
        <5> QED BY <5>1, <5>2
      <4> QED BY <4>2, <4>3
    <3>4. Downward' /\ Left'
      BY <2>1, <2>4 DEF Downward, Left, Enqueue
    <3> QED BY <2>3, <3>2, <3>3, <3>4
  <2>5. CASE gone' = gone + 1 /\ evicted' # evicted
    <3>1. wire = {} /\ \A t \in Tasks : ~InFlight(t)
      BY <1>5, <2>5 DEF Enqueue, Undisturbed
    <3>2. AtHead' /\ WireKnown'
      BY <2>2, <3>1 DEF AtHead, WireKnown, Enqueue
    <3>3. Downward'
      <4> SUFFICES ASSUME NEW p \in recorded, NEW q \in gone' + 1..p PROVE q \in recorded
        BY DEF Downward, Enqueue
      <4>1. p \in Int
        BY <1>1 DEF TypeOK
      <4>2. q \in gone + 1..p
        BY <1>4, <2>5, <4>1
      <4> QED BY <2>1, <4>2 DEF Downward
    <3>4. Left'
      <4>1. acked' = acked /\ acked \subseteq 1..gone /\ 1..gone \subseteq acked \union evicted
        BY <2>1 DEF Left, Enqueue
      <4>2. gone + 1 \in evicted' /\ evicted \subseteq evicted'
        BY <1>2, <1>4, <2>5
      <4>3. 1..gone' = (1..gone) \union {gone + 1}
        BY <1>4, <2>5
      <4> QED BY <4>1, <4>2, <4>3 DEF Left
    <3> QED BY <2>3, <3>2, <3>3, <3>4
  <2> QED BY <1>2, <2>4, <2>5
<1> QED BY <1>2, <1>3, <1>5 DEF Orderly

LEMMA PostStep ==
  ASSUME IInv, NEW t \in Tasks, Post(t)
  PROVE  Numbered' /\ Keyed' /\ Stored' /\ Orderly'
<1> DEFINE key == FreshKey
           n == [points |-> Payload, key |-> key]
<1>1. TypeOK /\ Numbered /\ Keyed /\ Stored
  BY DEF IInv
<1>2. /\ Len(Payload) <= BatchSize
      /\ Len(Payload) = IF Len(queue) < BatchSize THEN Len(queue) ELSE BatchSize
      /\ \A i \in 1..Len(Payload) : Payload[i] = queue[i]
      /\ n \in Requests
  BY <1>1, PostTypes
<1>3. /\ task'[t].pc = "posted" /\ task'[t].sent = Payload /\ task'[t].key = key
      /\ \A u \in Tasks \ {t} : task'[u] = task[u]
      /\ task[t].pc = "loop"
      /\ wire' = wire \union {n}
      /\ UNCHANGED <<queue, enqueued, recorded, acked, evicted, tried>>
  <2>1. /\ task' = [task EXCEPT ![t] = [task[t] EXCEPT !.pc = "posted", !.sent = Payload,
                                                       !.key = key]]
        /\ task[t].pc = "loop" /\ wire' = wire \union {n}
        /\ UNCHANGED <<queue, enqueued, recorded, acked, evicted, tried>>
    BY DEF Post
  <2>2. task[t] \in Loops /\ task \in [Tasks -> Loops]
    BY <1>1 DEF TypeOK
  <2> DEFINE p == Payload
  <2> HIDE DEF key, n, p
  <2>3. task' = [task EXCEPT ![t] = [task[t] EXCEPT !.pc = "posted", !.sent = p, !.key = key]]
    BY <2>1 DEF p
  <2>4. task'[t].pc = "posted" /\ task'[t].sent = p /\ task'[t].key = key
    BY <2>2, <2>3 DEF Loops
  <2>5. \A u \in Tasks \ {t} : task'[u] = task[u]
    BY <2>2, <2>3
  <2> QED BY <2>1, <2>4, <2>5 DEF p
<1>4. gone' = gone
  BY <1>3 DEF gone
<1>5. Numbered'
  BY <1>1, <1>3, <1>4 DEF Numbered, QueueIsSuffix
<1>6. Keyed'
  <2>1. IsFiniteSet(wire') /\ IsFiniteSet(tried')
    <3>1. IsFiniteSet(wire \union {n})
      BY <1>1, FS_AddElement DEF Keyed
    <3> QED BY <1>1, <1>3, <3>1 DEF Keyed
  <2>2. /\ \A u \in Tasks : task[u].key # key
        /\ \A r \in wire : r.key # key
    <3>1. key \notin Keys
      BY <1>1, FreshKeyIsFresh
    <3> HIDE DEF key
    <3> QED BY <3>1 DEF Keys
  <2>3. ASSUME NEW u \in Tasks, NEW r \in wire', task'[u].pc = "posted", task'[u].key = r.key
        PROVE  task'[u].sent = r.points
    <3>1. CASE u = t /\ r = n
      BY <1>3, <3>1
    <3>2. CASE u = t /\ r # n
      <4>1. r \in wire
        BY <1>3, <3>2
      <4> HIDE DEF key
      <4> QED BY <1>3, <2>2, <2>3, <3>2, <4>1
    <3>3. CASE u # t /\ r = n
      <4>1. r.key = key
        BY <3>3
      <4> HIDE DEF key, n
      <4> QED BY <1>3, <2>2, <2>3, <3>3, <4>1
    <3>4. CASE u # t /\ r # n
      <4>1. r \in wire /\ task'[u] = task[u]
        BY <1>3, <3>4
      <4> QED BY <1>1, <2>3, <4>1 DEF Keyed
    <3> QED BY <3>1, <3>2, <3>3, <3>4
  <2> QED BY <2>1, <2>3 DEF Keyed
<1>7. Stored'
  BY <1>1, <1>3 DEF Stored
<1>8. ASSUME Undisturbed' PROVE Alone' /\ AtHead' /\ WireKnown' /\ Downward' /\ Left'
  <2>1. \A u \in Tasks \ {t} : ~InFlight(u)
    BY <1>8 DEF Post, Undisturbed
  <2>2. Alone /\ AtHead /\ WireKnown /\ Downward /\ Left
    <3>1. Undisturbed
      BY <1>8 DEF Post, Undisturbed
    <3> QED BY <3>1 DEF IInv, Orderly
  <2>3. \A u \in Tasks : InFlight(u)' => u = t
    BY <1>3, <2>1 DEF InFlight
  <2>4. Alone'
    BY <2>3 DEF Alone
  <2> DEFINE k == Len(queue)
  <2>5. /\ k \in Nat /\ BatchSize \in Nat /\ gone \in Nat
        /\ \A i \in 1..k : queue[i] = gone + i
    BY <1>1, InFile, SizesAssumption
  <2>6. Len(Payload) <= k /\ \A i \in 1..Len(Payload) : Payload[i] = gone + i
    <3> DEFINE m == Len(Payload)
    <3>1. m \in Nat /\ m <= k /\ 1..m \subseteq 1..k
      <4>1. m = IF k < BatchSize THEN k ELSE BatchSize
        BY <1>2
      <4> HIDE DEF m, k
      <4> QED BY <2>5, <4>1
    <3> HIDE DEF m, k
    <3> QED BY <1>2, <2>5, <3>1 DEF m
  <2>7. AtHead'
    BY <1>3, <1>4, <2>3, <2>6 DEF AtHead, Carries
  <2>8. WireKnown'
    <3> SUFFICES ASSUME NEW r \in wire \union {n}
                 PROVE  \/ Range(r.points) \subseteq recorded
                        \/ /\ Len(r.points) <= Len(queue)
                           /\ \A i \in 1..Len(r.points) : r.points[i] = gone + i
                           /\ Len(r.points) <= Len(Payload)
      BY <1>3, <1>4, <2>3 DEF WireKnown, Carries
    <3>1. CASE r = n
      <4>1. r.points = Payload
        BY <3>1
      <4>2. Len(Payload) <= Len(Payload)
        BY <1>2, <2>5
      <4> QED BY <2>6, <4>1, <4>2
    <3>2. CASE r \in wire /\ ~(Range(r.points) \subseteq recorded)
      <4>1. Carries(r.points)
        BY <2>2, <3>2 DEF WireKnown
      <4>2. r.points \in Seq(1..Points) /\ Len(r.points) <= BatchSize
        BY <1>1, <3>2 DEF TypeOK, Requests
      <4>3. Len(r.points) \in Nat
        BY <4>2, LenProperties
      <4>4. Len(r.points) <= Len(Payload)
        <5> DEFINE m == Len(r.points)
                   l == Len(Payload)
        <5>1. m <= k /\ m <= BatchSize /\ m \in Nat /\ l = IF k < BatchSize THEN k ELSE BatchSize
          BY <1>2, <4>1, <4>2, <4>3 DEF Carries
        <5> HIDE DEF m, l, k
        <5>2. m <= l
          BY <2>5, <5>1
        <5> QED BY <5>2 DEF m, l
      <4> QED BY <4>1, <4>4 DEF Carries
    <3> QED BY <3>1, <3>2
  <2>9. Downward' /\ Left'
    BY <1>3, <1>4, <2>2 DEF Downward, Left
  <2> QED BY <2>4, <2>7, <2>8, <2>9
<1> QED BY <1>5, <1>6, <1>7, <1>8 DEF Orderly

(* What a request brings the server. *)
LEMMA StoreFacts ==
  ASSUME IInv, NEW r \in wire, ServerStores(r)
  PROVE  /\ Range(r.points) \subseteq recorded' /\ recorded \subseteq recorded'
         /\ recorded' = recorded \union Range(r.points)
         /\ Undisturbed => \/ Range(r.points) \subseteq recorded
                           \/ Range(r.points) = gone + 1..gone + Len(r.points)
         /\ gone \in Nat /\ Len(r.points) \in Nat
<1>1. TypeOK /\ Numbered
  BY DEF IInv
<1>2. recorded' = recorded \union Range(r.points)
  BY DEF ServerStores
<1>3. r.points \in Seq(1..Points) /\ Len(r.points) \in Nat /\ gone \in Nat
  BY <1>1, InFile, LenProperties DEF TypeOK, Requests
<1>4. ASSUME Undisturbed, ~(Range(r.points) \subseteq recorded)
      PROVE  Range(r.points) = gone + 1..gone + Len(r.points)
  <2>1. Carries(r.points)
    BY <1>4 DEF IInv, Orderly, WireKnown
  <2> DEFINE s == r.points
  <2>2. s \in Seq(1..Points) /\ Carries(s)
    BY <1>3, <2>1
  <2> HIDE DEF s
  <2>3. Range(s) = gone + 1..gone + Len(s)
    BY <1>1, <2>2, CarriesRange
  <2> QED BY <2>3 DEF s
<1> QED BY <1>2, <1>3, <1>4

LEMMA StoreStep ==
  ASSUME IInv, NEW r \in wire, ServerStores(r)
  PROVE  Numbered' /\ Keyed' /\ Stored' /\ Orderly'
<1>1. TypeOK /\ Numbered /\ Keyed /\ Stored
  BY DEF IInv
<1>2. /\ Range(r.points) \subseteq recorded' /\ recorded \subseteq recorded'
      /\ recorded' = recorded \union Range(r.points)
      /\ Undisturbed => \/ Range(r.points) \subseteq recorded
                        \/ Range(r.points) = gone + 1..gone + Len(r.points)
      /\ gone \in Nat /\ Len(r.points) \in Nat
  BY StoreFacts
<1>3. \A t \in Tasks :
        /\ task'[t].sent = task[t].sent /\ task'[t].key = task[t].key
        /\ task'[t].pc = "posted" => task[t].pc = "posted"
        /\ task'[t].pc = "answered" =>
             task[t].pc = "answered" \/ (task[t].pc = "posted" /\ task[t].key = r.key)
        /\ InFlight(t)' <=> InFlight(t)
  <2> TAKE t \in Tasks
  <2>1. task[t] \in Loops
    BY <1>1 DEF TypeOK
  <2>2. task'[t] = IF task[t].pc = "posted" /\ task[t].key = r.key
                     THEN [task[t] EXCEPT !.pc = "answered"] ELSE task[t]
    BY DEF ServerStores
  <2> QED BY <2>1, <2>2 DEF Loops, InFlight
<1>4. UNCHANGED <<queue, enqueued, acked, evicted, tried, disturbed>> /\ wire' = wire \ {r}
  BY DEF ServerStores
<1>5. gone' = gone
  BY <1>4 DEF gone
<1>6. Numbered'
  BY <1>1, <1>4, <1>5 DEF Numbered, QueueIsSuffix
<1>7. Keyed'
  <2>1. IsFiniteSet(wire')
    BY <1>1, <1>4, FS_RemoveElement DEF Keyed
  <2> QED BY <1>1, <1>3, <1>4, <2>1 DEF Keyed
<1>8. Stored'
  <2>1. ASSUME NEW t \in Tasks, task'[t].pc = "answered"
        PROVE  Range(task'[t].sent) \subseteq recorded'
    <3>1. CASE task[t].pc = "answered"
      BY <1>1, <1>2, <1>3, <3>1 DEF Stored
    <3>2. CASE task[t].pc = "posted" /\ task[t].key = r.key
      BY <1>1, <1>2, <1>3, <3>2 DEF Keyed
    <3> QED BY <1>3, <2>1, <3>1, <3>2
  <2> QED BY <1>1, <1>2, <1>4, <2>1 DEF Stored
<1>9. ASSUME Undisturbed' PROVE Alone' /\ AtHead' /\ WireKnown' /\ Downward' /\ Left'
  <2>1. Undisturbed /\ Alone /\ AtHead /\ WireKnown /\ Downward /\ Left
    BY <1>4, <1>9 DEF IInv, Orderly, Undisturbed
  <2>2. Alone' /\ AtHead'
    BY <1>3, <1>4, <1>5, <2>1 DEF Alone, AtHead, Carries
  <2>3. WireKnown'
    BY <1>2, <1>3, <1>4, <1>5, <2>1 DEF WireKnown, Carries
  <2>4. Left'
    BY <1>4, <1>5, <2>1 DEF Left
  <2>5. Downward'
    <3> SUFFICES ASSUME NEW p \in recorded', NEW q \in gone + 1..p PROVE q \in recorded'
      BY <1>5 DEF Downward
    <3>1. CASE p \in recorded
      BY <1>2, <2>1, <3>1 DEF Downward
    <3>2. CASE p \notin recorded
      <4> DEFINE k == Len(r.points)
      <4>1. p \in gone + 1..gone + k /\ gone + 1..gone + k \subseteq recorded'
        BY <1>2, <2>1, <3>2
      <4>2. k \in Nat
        BY <1>2
      <4> HIDE DEF k
      <4>3. q \in gone + 1..gone + k
        BY <1>2, <4>1, <4>2
      <4> QED BY <4>1, <4>3
    <3> QED BY <3>1, <3>2
  <2> QED BY <2>2, <2>3, <2>4, <2>5
<1> QED BY <1>6, <1>7, <1>8, <1>9 DEF Orderly

LEMMA SucceedsStep ==
  ASSUME IInv, NEW t \in Tasks, Succeeds(t)
  PROVE  Numbered' /\ Keyed' /\ Stored' /\ Orderly'
<1> DEFINE s == task[t].sent
           n == Len(s)
<1>1. TypeOK /\ Numbered /\ Keyed /\ Stored
  BY DEF IInv
<1>2. s \in Seq(1..Points) /\ n \in Nat
  BY <1>1, LenProperties DEF TypeOK, Loops
<1>3. /\ queue' = WithoutFirst(queue, n)
      /\ acked' = acked \union Range(s)
      /\ task[t].pc = "answered"
      /\ UNCHANGED <<wire, enqueued, recorded, evicted, tried, disturbed>>
  BY DEF Succeeds
<1>4. task'[t].pc \notin {"posted", "answered"} /\ \A u \in Tasks \ {t} : task'[u] = task[u]
  <2> DEFINE m == IF task[t].uploads < TickUploads THEN task[t].uploads + 1 ELSE TickUploads
             over == task[t].kind = "tick" /\ m = TickUploads
             l == [task[t] EXCEPT !.pc = "loop", !.sent = <<>>, !.key = 0, !.uploads = m]
  <2>1. task' = [task EXCEPT ![t] = IF queue' = <<>> \/ over THEN Ended(t) ELSE l]
    BY DEF Succeeds
  <2>2. task[t] \in Loops /\ task \in [Tasks -> Loops]
    BY <1>1 DEF TypeOK
  <2>3. l.pc = "loop"
    <3> HIDE DEF m
    <3> QED BY <2>2 DEF Loops
  <2>4. Ended(t).pc \in {"idle", "clearing"}
    BY DEF Ended, Idle
  <2> HIDE DEF l, over
  <2>5. task'[t] = Ended(t) \/ task'[t] = l
    BY <2>1, <2>2
  <2>6. \A u \in Tasks \ {t} : task'[u] = task[u]
    BY <2>1, <2>2
  <2> QED BY <2>3, <2>4, <2>5, <2>6
<1>5. /\ Numbered'
      /\ gone' >= gone
      /\ n <= Len(queue) => gone' = gone + n
  <2> HIDE DEF s, n
  <2> QED BY <1>1, <1>2, <1>3, RemoveFacts
<1>6. Keyed'
  BY <1>1, <1>3, <1>4 DEF Keyed
<1>7. Stored'
  <2>1. Range(s) \subseteq recorded
    BY <1>1, <1>3 DEF Stored
  <2> QED BY <1>1, <1>3, <1>4, <2>1 DEF Stored
<1>8. ASSUME Undisturbed' PROVE Alone' /\ AtHead' /\ WireKnown' /\ Downward' /\ Left'
  <2>1. Alone /\ AtHead /\ WireKnown /\ Downward /\ Left
    BY <1>3, <1>8 DEF IInv, Orderly, Undisturbed
  <2>2. InFlight(t) /\ \A u \in Tasks : InFlight(u) => u = t
    BY <1>3, <2>1 DEF Alone, InFlight
  <2>3. \A u \in Tasks : ~InFlight(u)'
    BY <1>4, <2>2 DEF InFlight
  <2>4. Alone' /\ AtHead'
    BY <2>3 DEF Alone, AtHead
  <2>5. Carries(s)
    BY <2>1, <2>2 DEF AtHead
  <2>6. gone \in Nat /\ gone' = gone + n /\ Range(s) = gone + 1..gone'
    <3>1. gone' = gone + n
      BY <1>5, <2>5 DEF Carries
    <3>2. gone \in Nat
      BY <1>1, InFile
    <3>3. Range(s) = gone + 1..gone + n
      <4> HIDE DEF s
      <4> QED BY <1>1, <1>2, <2>5, CarriesRange
    <3> QED BY <3>1, <3>2, <3>3
  <2>7. Range(s) \subseteq recorded
    BY <1>1, <1>3 DEF Stored
  <2>8. WireKnown'
    <3> SUFFICES ASSUME NEW r \in wire PROVE Range(r.points) \subseteq recorded
      BY <1>3 DEF WireKnown
    <3>1. CASE ~(Range(r.points) \subseteq recorded)
      <4> DEFINE x == r.points
      <4>1. Carries(x) /\ Len(x) <= n
        BY <2>1, <2>2, <3>1 DEF WireKnown
      <4>2. x \in Seq(1..Points) /\ Len(x) \in Nat
        BY <1>1, LenProperties DEF TypeOK, Requests
      <4> HIDE DEF x, s, n
      <4>3. Range(x) = gone + 1..gone + Len(x)
        BY <1>1, <4>1, <4>2, CarriesRange
      <4>4. Range(x) \subseteq Range(s)
        BY <1>2, <2>6, <4>1, <4>2, <4>3
      <4>5. Range(x) \subseteq recorded
        BY <2>7, <4>4
      <4> QED BY <4>5 DEF x
    <3> QED BY <3>1
  <2>9. Downward'
    <3> SUFFICES ASSUME NEW p \in recorded, NEW q \in gone' + 1..p PROVE q \in recorded
      BY <1>3 DEF Downward
    <3>1. p \in Int
      BY <1>1 DEF TypeOK
    <3>2. q \in gone + 1..p
      <4> HIDE DEF n
      <4> QED BY <1>2, <2>6, <3>1
    <3> QED BY <2>1, <3>2 DEF Downward
  <2>10. Left'
    <3>1. acked \subseteq 1..gone /\ 1..gone \subseteq acked \union evicted
      BY <2>1 DEF Left
    <3>2. 1..gone' = (1..gone) \union (gone + 1..gone')
      <4> HIDE DEF n
      <4> QED BY <1>2, <2>6
    <3>3. acked' = acked \union (gone + 1..gone') /\ evicted' = evicted
      BY <1>3, <2>6
    <3> QED BY <3>1, <3>2, <3>3 DEF Left
  <2> QED BY <2>4, <2>8, <2>9, <2>10
<1> QED BY <1>5, <1>6, <1>7, <1>8 DEF Orderly

-----------------------------------------------------------------------------
LEMMA NextIInv == IInv /\ [Next]_vars => IInv'
<1> SUFFICES ASSUME IInv, [Next]_vars PROVE IInv'
  OBVIOUS
<1>1. TypeOK /\ Numbered /\ Keyed
  BY DEF IInv
<1>2. TypeOK'
  BY <1>1, TypeStep
<1>3. CASE Enqueue
  BY <1>2, <1>3, EnqueueStep DEF IInv
<1>4. ASSUME NEW t \in Tasks, Post(t) PROVE IInv'
  BY <1>2, <1>4, PostStep DEF IInv
<1>5. ASSUME NEW t \in Tasks, Succeeds(t) PROVE IInv'
  BY <1>2, <1>5, SucceedsStep DEF IInv
<1>6. ASSUME NEW r \in wire, ServerStores(r) PROVE IInv'
  BY <1>2, <1>6, StoreStep DEF IInv
<1>7. CASE \/ Expires \/ Crash \/ UNCHANGED vars
           \/ \E t \in Tasks : \/ AskFlush(t) \/ Tick(t) \/ BeginFlush(t)
                               \/ FindsNothing(t) \/ Fails(t) \/ ClearFlag(t)
  <2>1. Quiet
    BY <1>1, <1>7, QuietActions
  <2> QED BY <1>2, <2>1, QuietStep DEF IInv
<1> QED BY <1>3, <1>4, <1>5, <1>6, <1>7 DEF Next, Loop

LEMMA AlwaysIInv == SafeSpec => []IInv
<1> QED BY InitIInv, NextIInv, PTL DEF SafeSpec

(* Every variable keeps its type: the file never holds more than Capacity  *)
(* points, a request never more than BatchSize.                            *)
THEOREM TypeCorrect == SafeSpec => []TypeOK
<1>1. IInv => TypeOK
  BY DEF IInv
<1> QED BY <1>1, AlwaysIInv, PTL

(* However the loops overlap and whatever fails, the file is what was      *)
(* enqueued last, in order and without a gap: removeFirst takes points off *)
(* the front, even when they are not the ones that were posted.            *)
THEOREM NoGaps == SafeSpec => []QueueIsSuffix
<1>1. IInv => QueueIsSuffix
  BY DEF IInv, Numbered
<1> QED BY <1>1, AlwaysIInv, PTL

(* While requests do not meet, each point is still in the file, or stored  *)
(* by the server with the watch knowing, or pushed out by the capacity.    *)
THEOREM NothingLost == SafeSpec => []KeepsPoints
<1>1. IInv => KeepsPoints
  <2> SUFFICES ASSUME IInv, Undisturbed, NEW p \in 1..enqueued
               PROVE  p \in Range(queue) \union (acked \intersect recorded) \union evicted
    BY DEF KeepsPoints
  <2>1. /\ gone \in Nat /\ enqueued \in Nat
        /\ Range(queue) = gone + 1..enqueued
    BY InFile, BoundsAssumption DEF IInv, TypeOK
  <2>2. acked \subseteq recorded /\ 1..gone \subseteq acked \union evicted
    BY DEF IInv, Stored, Orderly, Left
  <2>3. p \in 1..gone \/ p \in gone + 1..enqueued
    BY <2>1
  <2> QED BY <2>1, <2>2, <2>3
<1> QED BY <1>1, AlwaysIInv, PTL

(* While requests do not meet, a point the watch knows to be stored is not *)
(* in the file, from where it would be sent again.                         *)
THEOREM AnsweredLeaves == SafeSpec => []AckedLeaves
<1>1. IInv => AckedLeaves
  <2> SUFFICES ASSUME IInv, Undisturbed PROVE acked \intersect Range(queue) = {}
    BY DEF AckedLeaves
  <2>1. gone \in Nat /\ enqueued \in Nat /\ Range(queue) = gone + 1..enqueued
    BY InFile, BoundsAssumption DEF IInv, TypeOK
  <2>2. acked \subseteq 1..gone
    BY DEF IInv, Orderly, Left
  <2> QED BY <2>1, <2>2
<1> QED BY <1>1, AlwaysIInv, PTL

(* While requests do not meet, what is new to the server is newer than all *)
(* it has, late requests the watch has given up included.                  *)
THEOREM InOrder == SafeSpec => RecordedInOrder
<1> DEFINE New == Undisturbed => \A p \in recorded' \ recorded : \A q \in recorded : q < p
<1>1. IInv /\ [Next]_vars => [New]_vars
  <2> SUFFICES ASSUME IInv, Next, Undisturbed,
                      NEW p \in recorded', p \notin recorded, NEW q \in recorded
               PROVE  q < p
    BY DEF vars
  <2>1. PICK r \in wire : ServerStores(r)
    BY DEF Next, Loop, Enqueue, Expires, Crash, AskFlush, Tick, BeginFlush, FindsNothing, Post,
           Succeeds, ClearFlag, Fails, pastVars
  <2> DEFINE k == Len(r.points)
  <2>2. gone \in Nat /\ k \in Nat /\ p \in gone + 1..gone + k
    BY <2>1, StoreFacts
  <2>3. q \in Int
    BY DEF IInv, TypeOK
  <2> HIDE DEF k
  <2>4. CASE q >= p
    <3>1. p \in gone + 1..q
      BY <2>2, <2>3, <2>4
    <3>2. p \in recorded
      BY <3>1 DEF IInv, Orderly, Downward
    <3> QED BY <3>2
  <2> QED BY <2>2, <2>3, <2>4
<1> QED BY <1>1, AlwaysIInv, PTL DEF SafeSpec, RecordedInOrder
=============================================================================
