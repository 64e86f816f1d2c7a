---------------------------- MODULE MqttShim_proofs ----------------------------
(***************************************************************************)
(* Proofs about MqttShim for any number of messages, every capacity, batch *)
(* and window, and every limit of the disturbances: type correctness, and  *)
(* that no message is lost between sendData, the shim and the session.     *)
(* MqttShimOrder_proofs has the order of the drains.                       *)
(***************************************************************************)
EXTENDS MqttShim, SequenceTheorems, FiniteSetTheorems, TLAPS

(* Removing an element keeps a sequence one and loses nothing else. *)
LEMMA WithoutType ==
  ASSUME NEW S, NEW q \in Seq(S), NEW m
  PROVE  /\ Without(q, m) \in Seq(S)
         /\ Len(Without(q, m)) <= Len(q)
         /\ Range(q) \subseteq Range(Without(q, m)) \union {m}
<1>1. CASE m \in Range(q)
  <2> DEFINE k == CHOOSE i \in DOMAIN q : q[i] = m
             n == Len(q)
             a == SubSeq(q, 1, k - 1)
             b == SubSeq(q, k + 1, n)
  <2>1. k \in 1..n /\ q[k] = m /\ n \in Nat
    BY <1>1, LenProperties DEF Range
  <2>2. /\ a \in Seq(S) /\ Len(a) = k - 1
        /\ \A i \in 1..k - 1 : a[i] = q[i]
    BY <2>1
  <2>3. /\ b \in Seq(S) /\ Len(b) = n - k
        /\ \A i \in 1..n - k : b[i] = q[k + i]
    BY <2>1
  <2> HIDE DEF k, n, a, b
  <2>4. /\ a \o b \in Seq(S)
        /\ Len(a \o b) = Len(a) + Len(b)
        /\ \A i \in 1..Len(a) + Len(b) :
             (a \o b)[i] = IF i <= Len(a) THEN a[i] ELSE b[i - Len(a)]
    BY <2>2, <2>3, ConcatProperties
  <2>n. Len(a \o b) = n - 1
    BY <2>1, <2>2, <2>3, <2>4
  <2>d. DOMAIN (a \o b) = 1..n - 1
    BY <2>4, <2>n, LenProperties, Zenon
  <2>5. ASSUME NEW i \in 1..n, i # k PROVE q[i] \in Range(a \o b)
    <3>1. CASE i < k
      <4>1. i \in 1..n - 1 /\ (a \o b)[i] = q[i]
        BY <2>1, <2>2, <2>3, <2>4, <3>1
      <4> QED BY <4>1, <2>d DEF Range
    <3>2. CASE i > k
      <4>1. i - 1 \in 1..n - 1 /\ (a \o b)[i - 1] = q[i]
        <5>1. i - 1 \in 1..Len(a) + Len(b) /\ i - 1 > Len(a) /\ i - 1 - Len(a) = i - k
          BY <2>1, <2>2, <2>3, <3>2
        <5>2. i - k \in 1..n - k /\ k + (i - k) = i
          BY <2>1, <3>2
        <5>3. (a \o b)[i - 1] = b[i - 1 - Len(a)]
          BY <5>1, <2>1, <2>2, <2>4
        <5> QED BY <2>1, <2>2, <2>3, <5>1, <5>2, <5>3
      <4> QED BY <4>1, <2>d DEF Range
    <3> QED BY <2>1, <2>5, <3>1, <3>2
  <2>6. Without(q, m) = a \o b
    BY <1>1 DEF Without, RemoveAt, a, b, k, n
  <2>7. \A x \in Range(q) : x \in Range(a \o b) \/ x = m
    BY <2>1, <2>5, LenProperties DEF Range, n
  <2> QED BY <2>1, <2>4, <2>n, <2>6, <2>7 DEF n
<1>2. CASE m \notin Range(q)
  BY <1>2, LenProperties DEF Without
<1> QED BY <1>1, <1>2

(* A sequence is the two halves it is cut into. *)
LEMMA Halves ==
  ASSUME NEW S, NEW q \in Seq(S), NEW k \in 0..Len(q)
  PROVE  /\ SubSeq(q, 1, k) \in Seq(S) /\ Len(SubSeq(q, 1, k)) = k
         /\ SubSeq(q, k + 1, Len(q)) \in Seq(S)
         /\ Len(SubSeq(q, k + 1, Len(q))) = Len(q) - k
         /\ Range(q) \subseteq Range(SubSeq(q, 1, k)) \union Range(SubSeq(q, k + 1, Len(q)))
         /\ Range(SubSeq(q, 1, k)) \subseteq S
<1> DEFINE n == Len(q)
           a == SubSeq(q, 1, k)
           b == SubSeq(q, k + 1, n)
<1>1. n \in Nat /\ k \in Nat /\ k <= n /\ \A i \in 1..n : q[i] \in S
  BY LenProperties, ElementOfSeq
<1>2. a \in Seq(S) /\ Len(a) = k /\ \A i \in 1..k : a[i] = q[i]
  BY <1>1
<1>3. b \in Seq(S) /\ Len(b) = n - k /\ \A i \in 1..n - k : b[i] = q[k + i]
  BY <1>1
<1> HIDE DEF a, b
<1>4. ASSUME NEW i \in 1..n PROVE q[i] \in Range(a) \union Range(b)
  <2>1. CASE i <= k
    BY <1>1, <1>2, <2>1, LenProperties DEF Range
  <2>2. CASE i > k
    <3>1. i - k \in 1..n - k /\ b[i - k] = q[i]
      BY <1>1, <1>3, <2>2
    <3> QED BY <1>3, <3>1, LenProperties DEF Range
  <2> QED BY <1>1, <2>1, <2>2
<1>5. Range(a) \subseteq S
  BY <1>2, <1>1, LenProperties DEF Range
<1> QED BY <1>2, <1>3, <1>4, <1>5, LenProperties DEF Range, a, b


-----------------------------------------------------------------------------
(* Type correctness. A sender that is busy has a message. *)

Busy == sender # "idle" => called # 0

(* The thread a block of a drain belongs to waits for that block.          *)
Awaits == [fetch |-> "fetching", delete |-> "deleting", count |-> "counting"]
Matched(q, d) == \A i \in 1..Len(q) : q[i][1] # "insert" => d[q[i][2]].pc = Awaits[q[i][1]]

TypeInv == TypeOK /\ Busy

LEMMA InitType == Init => TypeInv
<1> SUFFICES ASSUME Init PROVE TypeInv
  OBVIOUS
<1>1. Off \in [pc : Pcs, batch : Seq(Numbers)] /\ Off.pc = "off" /\ Len(Off.batch) = 0
  BY DEF Off, Pcs
<1>2. drain \in [Threads -> [pc : Pcs, batch : Seq(Numbers)]]
      /\ \A t \in Threads : drain[t] = Off
  BY <1>1 DEF Init
<1>3. Cardinality(sent) = 0
  BY FS_EmptySet DEF Init
<1> QED
  BY <1>1, <1>2, <1>3, SizesAssumption, BoundsAssumption
     DEF Init, TypeInv, TypeOK, Busy

(* What a block is, what the queue of blocks becomes, and a batch that is  *)
(* read from the rows.                                                     *)
LEMMA BlockTypes ==
  ASSUME TypeOK
  PROVE  /\ \A m \in Numbers : Append(moc, <<"insert", m>>) \in Seq(Blocks)
         /\ \A kind \in {"fetch", "delete", "count"}, t \in Threads :
              Append(moc, <<kind, t>>) \in Seq(Blocks)
         /\ moc # <<>> =>
              /\ Tail(moc) \in Seq(Blocks)
              /\ Head(moc)[1] = "insert" => Head(moc)[2] \in Numbers
              /\ Head(moc)[1] \in {"fetch", "delete", "count"} => Head(moc)[2] \in Threads
<1>1. moc \in Seq(Blocks)
  BY DEF TypeOK
<1>2. \A m \in Numbers : <<"insert", m>> \in Blocks
  BY DEF Blocks
<1>3. \A kind \in {"fetch", "delete", "count"}, t \in Threads : <<kind, t>> \in Blocks
  BY DEF Blocks
<1>4. \A b \in Blocks : /\ b[1] = "insert" => b[2] \in Numbers
                        /\ b[1] \in {"fetch", "delete", "count"} => b[2] \in Threads
  BY DEF Blocks
<1>5. moc # <<>> => Tail(moc) \in Seq(Blocks) /\ Head(moc) \in Blocks
  BY <1>1, HeadTailProperties
<1> QED BY <1>1, <1>2, <1>3, <1>4, <1>5, AppendProperties

(* The blocks of the stream that has been closed. *)
Renamed(q) == [i \in DOMAIN q |-> IF q[i][1] # "insert" /\ q[i][2] = "url"
                                     THEN <<q[i][1], "old">> ELSE q[i]]

LEMMA RenamedType ==
  ASSUME NEW q \in Seq(Blocks)
  PROVE  /\ Renamed(q) \in Seq(Blocks) /\ Len(Renamed(q)) = Len(q)
         /\ DOMAIN Renamed(q) = 1..Len(q)
         /\ \A i \in 1..Len(q) :
              Renamed(q)[i] = IF q[i][1] # "insert" /\ q[i][2] = "url"
                                THEN <<q[i][1], "old">> ELSE q[i]
<1>1. DOMAIN q = 1..Len(q) /\ Len(q) \in Nat /\ \A i \in 1..Len(q) : q[i] \in Blocks
  BY LenProperties, ElementOfSeq
<1>2. \A b \in Blocks : b[1] # "insert" => <<b[1], "old">> \in Blocks
  BY DEF Blocks, Threads
<1>3. Renamed(q) \in [1..Len(q) -> Blocks]
  BY <1>1, <1>2 DEF Renamed
<1>4. Renamed(q) \in Seq(Blocks) /\ Len(Renamed(q)) = Len(q)
  BY <1>1, <1>3, SeqDef, LenProperties
<1> QED BY <1>1, <1>4 DEF Renamed

LEMMA SentFinite == TypeOK => IsFiniteSet(sent)
<1> SUFFICES ASSUME TypeOK PROVE IsFiniteSet(sent)
  OBVIOUS
<1>1. sent \in SUBSET Numbers
  BY DEF TypeOK
<1>2. IsFiniteSet(Numbers)
  BY BoundsAssumption, FS_Interval DEF Numbers
<1> QED BY <1>1, <1>2, FS_Subset

(* A new flow keeps the window: the flows in flight are a finite set.      *)
LEMMA PublishesType ==
  ASSUME TypeOK, NEW m \in Numbers, Publishes(m)
  PROVE  /\ stored' \subseteq Numbers /\ sent' \subseteq Numbers
         /\ Cardinality(sent') <= WindowSize
         /\ stored \union sent \union {m} \subseteq stored' \union sent'
<1>1. IsFiniteSet(sent)
  BY SentFinite
<1>2. Cardinality(sent \union {m}) \in {Cardinality(sent), Cardinality(sent) + 1}
      /\ Cardinality(sent) \in Nat
  BY <1>1, FS_AddElement, FS_CardinalityType
<1>3. CASE link = "up" /\ stored = {} /\ Cardinality(sent) < WindowSize
  <2>1. sent' = sent \union {m} /\ stored' = stored
    BY <1>3 DEF Publishes
  <2>2. Cardinality(sent') <= WindowSize
    BY <1>2, <1>3, <2>1, SizesAssumption
  <2>3. stored \subseteq Numbers /\ sent \subseteq Numbers
    BY DEF TypeOK
  <2> QED BY <2>1, <2>2, <2>3
<1>4. CASE ~ (link = "up" /\ stored = {} /\ Cardinality(sent) < WindowSize)
  <2>1. stored' = stored \union {m} /\ sent' = sent
    BY <1>4 DEF Publishes
  <2> QED BY <2>1 DEF TypeOK
<1> QED BY <1>3, <1>4

LEMMA NextType == TypeInv /\ Matched(moc, drain) /\ [Next]_vars => TypeInv'
<1> SUFFICES ASSUME TypeInv, Matched(moc, drain), [Next]_vars PROVE TypeInv'
  OBVIOUS
<1>0. ASSUME NEW d \in Disturbances, Happens(d)
      PROVE  /\ count' \in [Disturbances -> Nat]
             /\ \A e \in Disturbances : count'[e] <= Limit[e]
  <2>1. count \in [Disturbances -> Nat] /\ Limit \in [Disturbances -> Nat]
        /\ \A e \in Disturbances : count[e] <= Limit[e]
    BY BoundsAssumption DEF TypeInv, TypeOK
  <2>2. count[d] < Limit[d] /\ count' = [count EXCEPT ![d] = @ + 1]
    BY <1>0 DEF Happens
  <2> QED BY <2>1, <2>2
<1> USE DEF TypeInv, TypeOK, Busy
<1>c. called # 0 => called \in Numbers
  BY BoundsAssumption DEF Numbers
<1>w. ASSUME NEW t \in Threads, NEW pc \in Pcs \ {"publish", "deleting"},
             NEW kind \in {"fetch", "delete", "count"}, Waits(t, pc, kind)
      PROVE  /\ moc' \in Seq(Blocks)
             /\ drain' \in [Threads -> [pc : Pcs, batch : Seq(Numbers)]]
             /\ \A u \in Threads :
                  /\ Len(drain'[u].batch) <= BatchSize
                  /\ drain'[u].pc \in {"publish", "deleting"} => drain'[u].batch # <<>>
  BY <1>w, BlockTypes DEF Waits
<1>1. CASE SendData
  BY <1>1, BoundsAssumption DEF SendData, flows, pastVars
<1>2. CASE SendPublishes
  <2>1. called \in Numbers /\ Publishes(called)
    BY <1>2, <1>c DEF SendPublishes
  <2> QED BY <1>2, <2>1, PublishesType DEF SendPublishes, pastVars
<1>3. CASE SendPersists
  <2>1. moc' \in Seq(Blocks)
    BY <1>3, <1>c, BlockTypes DEF SendPersists
  <2> QED BY <1>3, <2>1 DEF SendPersists, flows, pastVars
<1>4. CASE RunInsert
  <2>1. moc' \in Seq(Blocks) /\ Head(moc)[2] \in Numbers
    BY <1>4, BlockTypes DEF RunInsert, Runs
  <2> DEFINE all == Append(rows, Head(moc)[2])
             excess == IF Len(all) > Capacity THEN Len(all) - Kept ELSE 0
  <2>2. all \in Seq(Numbers) /\ Len(all) = Len(rows) + 1 /\ Len(rows) \in Nat
    BY <2>1, AppendProperties, LenProperties
  <2>3. excess \in 0..Len(all) /\ Len(all) - excess <= Capacity
    <3> HIDE DEF TypeInv, TypeOK, all
    <3>1. Len(all) \in Nat
      BY <2>2
    <3> QED BY <3>1, SizesAssumption
  <2>4. rows' = SubSeq(all, excess + 1, Len(all))
        /\ trimmed' = trimmed \union Range(SubSeq(all, 1, excess))
    BY <1>4 DEF RunInsert
  <2> HIDE DEF all, excess
  <2>5. rows' \in Seq(Numbers) /\ Len(rows') <= Capacity /\ trimmed' \subseteq Numbers
    BY <2>2, <2>3, <2>4, Halves
  <2> QED BY <1>4, <2>1, <2>5 DEF RunInsert, flows, Runs
<1>5. CASE Perform
  <2>1. CASE link = "up"
    <3>1. Waits("conn", "fetching", "fetch")
      BY <1>5, <2>1 DEF Perform
    <3>2. "conn" \in Threads /\ "fetching" \in Pcs \ {"publish", "deleting"}
      BY DEF Threads, Pcs
    <3>3. /\ moc' \in Seq(Blocks)
          /\ drain' \in [Threads -> [pc : Pcs, batch : Seq(Numbers)]]
          /\ \A u \in Threads :
               /\ Len(drain'[u].batch) <= BatchSize
               /\ drain'[u].pc \in {"publish", "deleting"} => drain'[u].batch # <<>>
      BY <3>1, <3>2, <1>w
    <3>4. scheduled' \in Nat
      BY <1>5 DEF Perform
    <3> QED BY <1>5, <3>3, <3>4 DEF Perform, flows, pastVars
  <2>2. CASE link # "up"
    BY <1>5, <2>2 DEF Perform, flows, pastVars
  <2> QED BY <2>1, <2>2
<1>6. CASE RunFetch
  <2>1. moc' \in Seq(Blocks) /\ Head(moc)[2] \in Threads
    BY <1>6, BlockTypes DEF RunFetch, Runs
  <2> DEFINE t == Head(moc)[2]
             n == IF Len(rows) <= BatchSize THEN Len(rows) ELSE BatchSize
             batch == IF Len(rows) <= BatchSize THEN rows ELSE SubSeq(rows, 1, BatchSize)
             next == IF rows = <<>> THEN Off ELSE [pc |-> "check", batch |-> batch]
  <2>2. batch \in Seq(Numbers) /\ Len(batch) <= BatchSize
    BY SizesAssumption, LenProperties, Halves
  <2>3. Off.pc = "off" /\ Off.batch \in Seq(Numbers) /\ Len(Off.batch) = 0
        /\ Off \in [pc : Pcs, batch : Seq(Numbers)]
    BY DEF Off, Pcs
  <2>4. next \in [pc : Pcs, batch : Seq(Numbers)] /\ next.pc \in {"off", "check"}
        /\ Len(next.batch) <= BatchSize
    BY <2>2, <2>3, SizesAssumption DEF Pcs
  <2>5. drain' = [drain EXCEPT ![t] = next]
    BY <1>6 DEF RunFetch
  <2> HIDE DEF t, next
  <2>6. /\ drain' \in [Threads -> [pc : Pcs, batch : Seq(Numbers)]]
        /\ \A u \in Threads :
             /\ Len(drain'[u].batch) <= BatchSize
             /\ drain'[u].pc \in {"publish", "deleting"} => drain'[u].batch # <<>>
    BY <2>4, <2>5
  <2> QED BY <1>6, <2>1, <2>6 DEF RunFetch, flows, pastVars
<1>7. ASSUME NEW t \in Threads, Check(t) PROVE TypeInv'
  <2>1. CASE drain[t].batch # <<>> /\ link = "up"
    <3>1. drain' = [drain EXCEPT ![t].pc = "publish"] /\ moc' = moc
      BY <1>7, <2>1 DEF Check
    <3>2. /\ drain' \in [Threads -> [pc : Pcs, batch : Seq(Numbers)]]
          /\ \A u \in Threads : drain'[u].batch = drain[u].batch
                               /\ u # t => drain'[u] = drain[u]
      BY <3>1 DEF Pcs
    <3> QED BY <1>7, <2>1, <3>1, <3>2 DEF Check, flows, pastVars
  <2>2. CASE ~ (drain[t].batch # <<>> /\ link = "up")
    <3>1. Waits(t, "counting", "count")
      BY <1>7, <2>2 DEF Check
    <3>2. "counting" \in Pcs \ {"publish", "deleting"}
      BY DEF Pcs
    <3> QED BY <1>7, <3>1, <3>2, <1>w DEF Check, flows, pastVars
  <2> QED BY <2>1, <2>2
<1>8. ASSUME NEW t \in Threads, PublishItem(t) PROVE TypeInv'
  <2>1. drain[t].batch # <<>> /\ drain[t].batch \in Seq(Numbers)
        /\ Head(drain[t].batch) \in Numbers
    BY <1>8, HeadTailProperties DEF PublishItem
  <2>2. Publishes(Head(drain[t].batch))
    BY <1>8 DEF PublishItem
  <2>3. drained' \in Seq(Numbers)
    BY <1>8, <2>1, AppendProperties DEF PublishItem
  <2>4. drain' = [drain EXCEPT ![t].pc = "deleting"] /\ moc' \in Seq(Blocks)
    BY <1>8, BlockTypes DEF PublishItem, Waits
  <2>5. /\ drain' \in [Threads -> [pc : Pcs, batch : Seq(Numbers)]]
        /\ \A u \in Threads : drain'[u].batch = drain[u].batch
                             /\ u # t => drain'[u] = drain[u]
    BY <2>4 DEF Pcs
  <2> QED BY <1>8, <2>1, <2>2, <2>3, <2>4, <2>5, PublishesType DEF PublishItem, pastVars
<1>9. CASE RunDelete
  <2>1. moc' \in Seq(Blocks) /\ Head(moc)[2] \in Threads
    BY <1>9, BlockTypes DEF RunDelete, Runs
  <2> DEFINE t == Head(moc)[2]
             next == [pc |-> "check", batch |-> Tail(drain[t].batch)]
  <2>2. rows' \in Seq(Numbers) /\ Len(rows') <= Capacity
    BY <1>9, SizesAssumption, WithoutType, LenProperties DEF RunDelete
  <2>3. drain[t].pc = "deleting"
    <3>1. Head(moc) = moc[1] /\ 1 \in 1..Len(moc) /\ Head(moc)[1] = "delete"
      BY <1>9, HeadTailProperties, LenProperties, EmptySeq DEF RunDelete, Runs
    <3> QED BY <3>1 DEF Matched, Awaits
  <2>4. drain[t].batch \in Seq(Numbers) /\ drain[t].batch # <<>>
    BY <2>1, <2>3
  <2>5. Tail(drain[t].batch) \in Seq(Numbers) /\ Len(Tail(drain[t].batch)) <= BatchSize
    <3>1. Len(Tail(drain[t].batch)) = Len(drain[t].batch) - 1 /\ Len(drain[t].batch) \in Nat
          /\ Tail(drain[t].batch) \in Seq(Numbers)
      BY <2>4, HeadTailProperties, LenProperties
    <3> QED BY <3>1, <2>1, SizesAssumption
  <2>6. next \in [pc : Pcs, batch : Seq(Numbers)] /\ next.pc = "check"
        /\ Len(next.batch) <= BatchSize
    BY <2>5 DEF Pcs
  <2>7. drain' = [drain EXCEPT ![t] = next]
    BY <1>9 DEF RunDelete
  <2> HIDE DEF t, next
  <2> QED BY <1>9, <2>1, <2>2, <2>6, <2>7 DEF RunDelete, flows, pastVars, t
<1>10. CASE RunCount
  <2>1. moc' \in Seq(Blocks) /\ Head(moc)[2] \in Threads
    BY <1>10, BlockTypes DEF RunCount, Runs
  <2>2. Off.pc = "off" /\ Off.batch \in Seq(Numbers) /\ Len(Off.batch) = 0
        /\ Off \in [pc : Pcs, batch : Seq(Numbers)]
    BY DEF Off, Pcs
  <2> QED BY <1>10, <2>1, <2>2, SizesAssumption DEF RunCount, flows, pastVars
<1>11. ASSUME NEW present \in BOOLEAN, LinkUp(present) PROVE TypeInv'
  <2>1. Waits("url", "fetching", "fetch")
    BY <1>11 DEF LinkUp
  <2>2. "url" \in Threads /\ "fetching" \in Pcs \ {"publish", "deleting"}
    BY DEF Threads, Pcs
  <2>3. /\ moc' \in Seq(Blocks)
        /\ drain' \in [Threads -> [pc : Pcs, batch : Seq(Numbers)]]
        /\ \A u \in Threads :
             /\ Len(drain'[u].batch) <= BatchSize
             /\ drain'[u].pc \in {"publish", "deleting"} => drain'[u].batch # <<>>
    BY <2>1, <2>2, <1>w
  <2>4. /\ sent' \subseteq Numbers /\ exposed' \subseteq Numbers
        /\ Cardinality(sent') <= WindowSize
        /\ count' \in [Disturbances -> Nat] /\ \A d \in Disturbances : count'[d] <= Limit[d]
    <3>1. CASE present
      BY <1>11, <3>1 DEF LinkUp
    <3>2. CASE ~ present
      <4>1. Happens("forget") /\ sent' = {} /\ exposed' = exposed \union sent
        BY <1>11, <3>2 DEF LinkUp
      <4>2. count' \in [Disturbances -> Nat] /\ \A d \in Disturbances : count'[d] <= Limit[d]
        BY <4>1, <1>0 DEF Disturbances
      <4>3. Cardinality(sent') <= WindowSize
        BY <4>1, FS_EmptySet, SizesAssumption
      <4>4. exposed' \subseteq Numbers
        BY <4>1
      <4> QED BY <4>1, <4>2, <4>3, <4>4
    <3> QED BY <3>1, <3>2
  <2>5. late' \subseteq Numbers /\ disturbed' \subseteq {"overlap", "crash"} /\ link' = "up"
    BY <1>11 DEF LinkUp
  <2>6. UNCHANGED <<called, sender, rows, scheduled, stored, drained, delivered, trimmed>>
    BY <1>11 DEF LinkUp
  <2> QED BY <2>3, <2>4, <2>5, <2>6
<1>12. CASE LinkDown
  <2>1. count' \in [Disturbances -> Nat] /\ \A d \in Disturbances : count'[d] <= Limit[d]
    BY <1>12, <1>0 DEF LinkDown, Disturbances
  <2>2. CASE Active("url")
    <3>1. Off.pc = "off" /\ Off.batch \in Seq(Numbers) /\ Len(Off.batch) = 0
          /\ Off \in [pc : Pcs, batch : Seq(Numbers)]
      BY DEF Off, Pcs
    <3>2. /\ drain' = [drain EXCEPT !["old"] = drain["url"], !["url"] = Off]
          /\ moc' = Renamed(moc)
      BY <1>12, <2>2 DEF LinkDown, Renamed
    <3>3. moc' \in Seq(Blocks)
      BY <3>2, RenamedType
    <3>4. /\ drain' \in [Threads -> [pc : Pcs, batch : Seq(Numbers)]]
          /\ \A u \in Threads :
               /\ Len(drain'[u].batch) <= BatchSize
               /\ drain'[u].pc \in {"publish", "deleting"} => drain'[u].batch # <<>>
      <4>1. Len(Off.batch) <= BatchSize
        BY <3>1, SizesAssumption
      <4>2. \A u \in Threads : drain'[u] \in {drain[u], drain["url"], Off}
        BY <3>2 DEF Threads
      <4>3. drain' \in [Threads -> [pc : Pcs, batch : Seq(Numbers)]]
        BY <3>1, <3>2 DEF Threads
      <4>4. "url" \in Threads
        BY DEF Threads
      <4> QED BY <3>1, <4>1, <4>2, <4>3, <4>4
    <3> QED BY <1>12, <2>1, <3>3, <3>4 DEF LinkDown, flows, pastVars
  <2>3. CASE ~ Active("url")
    BY <1>12, <2>1, <2>3 DEF LinkDown, flows, pastVars
  <2> QED BY <2>2, <2>3
<1>13. CASE Transmit
  <2>1. PICK m \in stored : stored' = stored \ {m} /\ sent' = sent \union {m}
    BY <1>13 DEF Transmit
  <2>2. IsFiniteSet(sent) /\ Cardinality(sent) \in Nat
        /\ Cardinality(sent \union {m}) \in {Cardinality(sent), Cardinality(sent) + 1}
    BY SentFinite, FS_AddElement, FS_CardinalityType
  <2>3. Cardinality(sent') <= WindowSize
    <3>1. Cardinality(sent) < WindowSize /\ sent' = sent \union {m}
      BY <1>13, <2>1 DEF Transmit
    <3> HIDE DEF TypeInv, TypeOK
    <3> QED BY <2>2, <3>1, SizesAssumption
  <2>4. stored' \subseteq Numbers /\ sent' \subseteq Numbers
    BY <2>1
  <2> QED BY <1>13, <2>3, <2>4 DEF Transmit, pastVars
<1>14. ASSUME NEW m \in sent, Puback(m) PROVE TypeInv'
  <2>1. sent' = sent \ {m} /\ delivered' = delivered \union {m}
    BY <1>14 DEF Puback
  <2>2. IsFiniteSet(sent) /\ sent' \in SUBSET sent /\ Cardinality(sent) \in Nat
    BY <2>1, SentFinite, FS_CardinalityType
  <2>3. Cardinality(sent') <= Cardinality(sent) /\ Cardinality(sent') \in Nat
    BY <2>2, FS_Subset, FS_CardinalityType
  <2>4. Cardinality(sent') <= WindowSize
    BY <2>2, <2>3, SizesAssumption
  <2>5. sent' \subseteq Numbers /\ delivered' \subseteq Numbers
    BY <2>1
  <2> QED BY <1>14, <2>4, <2>5 DEF Puback, pastVars
<1>15. CASE Crash
  <2>1. count' \in [Disturbances -> Nat] /\ \A d \in Disturbances : count'[d] <= Limit[d]
    BY <1>15, <1>0 DEF Crash, Disturbances
  <2>2. Inserting \subseteq Numbers /\ InSender \subseteq Numbers
    <3>1. \A i \in DOMAIN moc : moc[i] \in Blocks
      BY ElementOfSeq, LenProperties
    <3>2. Inserting \subseteq Numbers
      BY <3>1 DEF Inserting, Blocks
    <3> QED BY <3>2, <1>c DEF InSender
  <2>3. Off.pc = "off" /\ Off.batch \in Seq(Numbers) /\ Len(Off.batch) = 0
        /\ Off \in [pc : Pcs, batch : Seq(Numbers)]
    BY DEF Off, Pcs
  <2>4. /\ drain' \in [Threads -> [pc : Pcs, batch : Seq(Numbers)]]
        /\ \A u \in Threads :
             /\ Len(drain'[u].batch) <= BatchSize
             /\ drain'[u].pc \in {"publish", "deleting"} => drain'[u].batch # <<>>
    BY <1>15, <2>3, SizesAssumption DEF Crash
  <2>5. moc' \in Seq(Blocks) /\ scheduled' \in Nat /\ link' = "down" /\ sender' = "idle"
    BY <1>15 DEF Crash
  <2>6. exposed' \subseteq Numbers /\ disturbed' \subseteq {"overlap", "crash"}
    BY <1>15, <2>2 DEF Crash
  <2>7. UNCHANGED <<called, rows, flows, drained, delivered, trimmed, late>>
    BY <1>15 DEF Crash
  <2> QED BY <2>1, <2>4, <2>5, <2>6, <2>7 DEF flows
<1>16. CASE UNCHANGED vars
  BY <1>16 DEF vars, flows, pastVars
<1>17. CASE CleanConnect
  <2>1. count' \in [Disturbances -> Nat] /\ \A d \in Disturbances : count'[d] <= Limit[d]
    BY <1>17, <1>0 DEF CleanConnect, Disturbances
  <2>2. stored' = {} /\ sent' = {} /\ exposed' \subseteq Numbers /\ Cardinality(sent') = 0
    BY <1>17, FS_EmptySet DEF CleanConnect
  <2> QED BY <1>17, <2>1, <2>2, SizesAssumption DEF CleanConnect
<1> QED
  BY <1>1, <1>2, <1>3, <1>4, <1>5, <1>6, <1>7, <1>8, <1>9, <1>10, <1>11, <1>12,
     <1>13, <1>14, <1>15, <1>16, <1>17 DEF Next, App, Drain

-----------------------------------------------------------------------------
(* No loss. A row is deleted by a block of its own, submitted after the    *)
(* message has become a flow: so the block must belong to the drain that   *)
(* is deleting, each thread must have one block at most, and the message a *)
(* drain is deleting must have reached the session.                        *)

Single(q) == \A i, j \in 1..Len(q) :
               (q[i][1] # "insert" /\ q[j][1] # "insert" /\ q[i][2] = q[j][2]) => i = j

Parked == link = "down" => drain["url"].pc = "off"

Reached == stored \union sent \union delivered \union exposed

DeletesReached ==
  \A t \in Threads : drain[t].pc = "deleting" => Head(drain[t].batch) \in Reached

BlocksInv == Matched(moc, drain) /\ Single(moc) /\ Parked

IInv == TypeInv /\ BlocksInv /\ DeletesReached /\ NoLoss

(* The first block leaves, and its thread goes on. *)
LEMMA TailBlocks ==
  ASSUME NEW q \in Seq(Blocks), q # <<>>, NEW d, Matched(q, d), Single(q)
  PROVE  /\ Matched(Tail(q), d) /\ Single(Tail(q))
         /\ Head(q)[1] # "insert" =>
              /\ d[Head(q)[2]].pc = Awaits[Head(q)[1]]
              /\ \A i \in 1..Len(Tail(q)) :
                   Tail(q)[i][1] # "insert" => Tail(q)[i][2] # Head(q)[2]
<1>1. /\ Len(Tail(q)) = Len(q) - 1 /\ Len(q) \in Nat /\ Len(q) # 0
      /\ \A i \in 1..Len(Tail(q)) : Tail(q)[i] = q[i + 1]
      /\ Head(q) = q[1]
  BY HeadTailProperties, LenProperties, EmptySeq
<1>2. 1 \in 1..Len(q) /\ \A i \in 1..Len(Tail(q)) : i + 1 \in 1..Len(q) /\ i + 1 # 1 /\ i \in Nat
  BY <1>1
<1>3. Matched(Tail(q), d)
  BY <1>1, <1>2 DEF Matched
<1>4. Single(Tail(q))
  BY <1>1, <1>2 DEF Single
<1>5. Head(q)[1] # "insert" => d[Head(q)[2]].pc = Awaits[Head(q)[1]]
  BY <1>1, <1>2 DEF Matched
<1>6. ASSUME Head(q)[1] # "insert", NEW i \in 1..Len(Tail(q)), Tail(q)[i][1] # "insert"
      PROVE  Tail(q)[i][2] # Head(q)[2]
  BY <1>1, <1>2, <1>6 DEF Single
<1> QED BY <1>3, <1>4, <1>5, <1>6

(* A thread that is not waiting submits a block and waits for it.          *)
LEMMA AppendBlocks ==
  ASSUME NEW q \in Seq(Blocks), NEW d, Matched(q, d), Single(q),
         NEW t \in Threads, d[t].pc \notin {"fetching", "deleting", "counting"},
         NEW kind \in {"fetch", "delete", "count"}, NEW e,
         e[t].pc = Awaits[kind], \A u \in Threads \ {t} : e[u] = d[u]
  PROVE  Matched(Append(q, <<kind, t>>), e) /\ Single(Append(q, <<kind, t>>))
<1> DEFINE n == Len(q)
           a == Append(q, <<kind, t>>)
<1>1. \A i \in 1..n : q[i] \in Blocks
  BY ElementOfSeq
<1>2. \A i \in 1..n : q[i][1] # "insert" =>
        /\ q[i][1] \in {"fetch", "delete", "count"}
        /\ q[i][2] \in Threads
  BY <1>1 DEF Blocks
<1>3. \A i \in 1..n : q[i][1] # "insert" => q[i][2] # t
  BY <1>2 DEF Matched, Awaits
<1>4. n \in Nat /\ Len(a) = n + 1 /\ a[n + 1] = <<kind, t>> /\ \A i \in 1..n : a[i] = q[i]
  BY LenProperties, AppendProperties, <1>2 DEF Blocks
<1> HIDE DEF n, a
<1>5. \A i \in 1..Len(a) : i \in 1..n \/ i = n + 1
  BY <1>4
<1>6. Matched(a, e)
  <2>1. \A i \in 1..n : q[i][1] # "insert" => e[q[i][2]] = d[q[i][2]]
    BY <1>2, <1>3
  <2>2. \A i \in 1..n : q[i][1] # "insert" => d[q[i][2]].pc = Awaits[q[i][1]]
    BY DEF Matched, n
  <2> QED BY <1>4, <1>5, <2>1, <2>2 DEF Matched
<1>7. Single(a)
  <2>1. \A i, j \in 1..n :
          (q[i][1] # "insert" /\ q[j][1] # "insert" /\ q[i][2] = q[j][2]) => i = j
    BY DEF Single, n
  <2> QED BY <1>3, <1>4, <1>5, <2>1 DEF Single
<1> QED BY <1>6, <1>7 DEF a

LEMMA NextBlocks == TypeInv /\ BlocksInv /\ [Next]_vars => BlocksInv'
<1> SUFFICES ASSUME TypeInv, BlocksInv, [Next]_vars PROVE BlocksInv'
  OBVIOUS
<1>t. /\ moc \in Seq(Blocks) /\ drain \in [Threads -> [pc : Pcs, batch : Seq(Numbers)]]
      /\ Matched(moc, drain) /\ Single(moc) /\ Parked
      /\ link \in {"up", "down"}
  BY DEF TypeInv, TypeOK, BlocksInv
<1>s. UNCHANGED <<moc, drain>> /\ (link' = link \/ link' = "up") => BlocksInv'
  BY <1>t DEF BlocksInv, Parked, Matched, Single
<1>r. ASSUME NEW kind \in {"fetch", "delete", "count"}, Runs(kind), NEW next,
             drain' = [drain EXCEPT ![Head(moc)[2]] = next], link' = link
      PROVE  BlocksInv'
  <2> DEFINE t == Head(moc)[2]
  <2>1. moc # <<>> /\ moc' = Tail(moc) /\ Head(moc)[1] = kind /\ kind # "insert"
    BY <1>r DEF Runs
  <2>2. t \in Threads /\ moc' \in Seq(Blocks)
    BY <1>r, <2>1, BlockTypes DEF TypeInv
  <2>3. /\ Matched(moc', drain) /\ Single(moc') /\ drain[t].pc = Awaits[kind]
        /\ \A i \in 1..Len(moc') : moc'[i][1] # "insert" => moc'[i][2] # t
    BY <1>t, <2>1, TailBlocks
  <2>4. \A i \in 1..Len(moc') : moc'[i][1] # "insert" => moc'[i][2] \in Threads
    BY <2>2, ElementOfSeq DEF Blocks
  <2>5. \A u \in Threads \ {t} : drain'[u] = drain[u]
    BY <1>t, <1>r
  <2> HIDE DEF t
  <2>6. Matched(moc', drain')
    BY <2>3, <2>4, <2>5 DEF Matched
  <2>7. Parked'
    <3>1. Awaits[kind] # "off"
      BY <1>r DEF Awaits
    <3>2. CASE t = "url"
      BY <1>t, <1>r, <2>3, <3>1, <3>2 DEF Parked
    <3>3. CASE t # "url"
      <4>1. drain'["url"] = drain["url"]
        BY <2>5, <3>3 DEF Threads
      <4> QED BY <1>t, <1>r, <4>1 DEF Parked
    <3> QED BY <3>2, <3>3
  <2> QED BY <2>3, <2>6, <2>7 DEF BlocksInv
<1>w. ASSUME NEW t \in Threads, NEW kind \in {"fetch", "delete", "count"},
             Waits(t, Awaits[kind], kind),
             drain[t].pc \notin {"fetching", "deleting", "counting"}
      PROVE  /\ Matched(moc', drain') /\ Single(moc')
             /\ \A u \in Threads \ {t} : drain'[u] = drain[u]
  <2>1. moc' = Append(moc, <<kind, t>>) /\ drain' = [drain EXCEPT ![t].pc = Awaits[kind]]
    BY <1>w DEF Waits
  <2>2. drain'[t].pc = Awaits[kind] /\ \A u \in Threads \ {t} : drain'[u] = drain[u]
    BY <1>t, <2>1
  <2> QED BY <1>t, <1>w, <2>1, <2>2, AppendBlocks
<1>1. CASE SendData
  BY <1>1, <1>s DEF SendData
<1>2. CASE SendPublishes
  BY <1>2, <1>s DEF SendPublishes
<1>3. CASE SendPersists
  <2>1. called \in Numbers
    BY <1>3, BoundsAssumption DEF SendPersists, TypeInv, TypeOK, Busy, Numbers
  <2>2. moc' = Append(moc, <<"insert", called>>) /\ UNCHANGED <<drain, link>>
    BY <1>3 DEF SendPersists
  <2>3. /\ Len(moc') = Len(moc) + 1 /\ Len(moc) \in Nat
        /\ \A i \in 1..Len(moc) : moc'[i] = moc[i]
        /\ moc'[Len(moc) + 1] = <<"insert", called>>
    <3>1. <<"insert", called>> \in Blocks
      BY <2>1 DEF Blocks
    <3> QED BY <1>t, <2>2, <3>1, AppendProperties, LenProperties
  <2>4. \A i \in 1..Len(moc') : moc'[i][1] # "insert" => i \in 1..Len(moc)
    <3>1. \A i \in 1..Len(moc') : i \in 1..Len(moc) \/ i = Len(moc) + 1
      BY <2>3
    <3> QED BY <2>3, <3>1
  <2>5. Matched(moc', drain') /\ Single(moc')
    BY <1>t, <2>2, <2>3, <2>4 DEF Matched, Single
  <2> QED BY <1>t, <2>2, <2>5 DEF BlocksInv, Parked
<1>4. CASE RunInsert
  <2>1. moc # <<>> /\ moc' = Tail(moc) /\ UNCHANGED <<drain, link>>
    BY <1>4 DEF RunInsert, Runs
  <2>2. Matched(moc', drain') /\ Single(moc')
    BY <1>t, <2>1, TailBlocks
  <2> QED BY <1>t, <2>1, <2>2 DEF BlocksInv, Parked
<1>5. CASE Perform
  <2>1. CASE link = "up"
    <3>1. "conn" \in Threads /\ drain["conn"].pc = "off" /\ link' = "up"
          /\ Waits("conn", Awaits["fetch"], "fetch")
      BY <1>5, <2>1 DEF Perform, Active, Threads, Awaits
    <3> QED BY <1>w, <3>1 DEF BlocksInv, Parked
  <2>2. CASE link # "up"
    BY <1>5, <1>s, <2>2 DEF Perform
  <2> QED BY <2>1, <2>2
<1>6. CASE RunFetch
  <2>1. Runs("fetch") /\ link' = link
    BY <1>6 DEF RunFetch
  <2>2. PICK next : drain' = [drain EXCEPT ![Head(moc)[2]] = next]
    BY <1>6 DEF RunFetch
  <2> QED BY <1>r, <2>1, <2>2
<1>7. ASSUME NEW t \in Threads, Check(t) PROVE BlocksInv'
  <2>1. CASE drain[t].batch # <<>> /\ link = "up"
    <3>1. drain' = [drain EXCEPT ![t].pc = "publish"] /\ moc' = moc /\ drain[t].pc = "check"
          /\ link' = "up"
      BY <1>7, <2>1 DEF Check
    <3>2. \A u \in Threads : drain[u].pc # "check" => drain'[u].pc = drain[u].pc
      BY <1>t, <3>1
    <3>3. \A i \in 1..Len(moc) : moc[i][1] # "insert" =>
            moc[i][2] \in Threads /\ Awaits[moc[i][1]] # "check"
      BY <1>t, ElementOfSeq DEF Blocks, Awaits
    <3>4. Matched(moc', drain')
      BY <1>t, <3>1, <3>2, <3>3 DEF Matched
    <3> QED BY <1>t, <3>1, <3>4 DEF BlocksInv, Parked
  <2>2. CASE ~ (drain[t].batch # <<>> /\ link = "up")
    <3>1. Waits(t, Awaits["count"], "count") /\ drain[t].pc = "check" /\ link' = link
      BY <1>7, <2>2 DEF Check, Awaits
    <3>2. Parked'
      BY <1>t, <1>w, <3>1 DEF Parked, Threads
    <3> QED BY <1>w, <3>1, <3>2 DEF BlocksInv
  <2> QED BY <2>1, <2>2
<1>8. ASSUME NEW t \in Threads, PublishItem(t) PROVE BlocksInv'
  <2>1. Waits(t, Awaits["delete"], "delete") /\ drain[t].pc = "publish" /\ link' = link
    BY <1>8 DEF PublishItem, Awaits
  <2>2. Parked'
    BY <1>t, <1>w, <2>1 DEF Parked, Threads
  <2> QED BY <1>w, <2>1, <2>2 DEF BlocksInv
<1>9. CASE RunDelete
  <2>1. Runs("delete") /\ link' = link
    BY <1>9 DEF RunDelete
  <2>2. PICK next : drain' = [drain EXCEPT ![Head(moc)[2]] = next]
    BY <1>9 DEF RunDelete
  <2> QED BY <1>r, <2>1, <2>2
<1>10. CASE RunCount
  <2>1. Runs("count") /\ link' = link /\ drain' = [drain EXCEPT ![Head(moc)[2]] = Off]
    BY <1>10 DEF RunCount
  <2> QED BY <1>r, <2>1
<1>11. ASSUME NEW present \in BOOLEAN, LinkUp(present) PROVE BlocksInv'
  <2>1. Waits("url", Awaits["fetch"], "fetch") /\ link = "down" /\ link' = "up"
    BY <1>11 DEF LinkUp, Awaits
  <2>2. "url" \in Threads /\ drain["url"].pc = "off"
    BY <1>t, <2>1 DEF Parked, Threads
  <2> QED BY <1>w, <2>1, <2>2 DEF BlocksInv, Parked
<1>12. CASE LinkDown
  <2>1. CASE Active("url")
    <3>1. /\ drain' = [drain EXCEPT !["old"] = drain["url"], !["url"] = Off]
          /\ moc' = Renamed(moc)
          /\ drain["old"].pc = "off"
      BY <1>12, <2>1 DEF LinkDown, Renamed, Active
    <3>2. drain'["old"] = drain["url"] /\ drain'["conn"] = drain["conn"]
          /\ drain'["url"].pc = "off"
      BY <1>t, <3>1 DEF Threads, Off
    <3>3. \A i \in 1..Len(moc) : moc[i][1] # "insert" =>
            /\ moc[i][2] \in {"url", "conn"} /\ moc[i][1] \in {"fetch", "delete", "count"}
            /\ drain[moc[i][2]].pc = Awaits[moc[i][1]]
      <4>1. \A i \in 1..Len(moc) : moc[i][1] # "insert" =>
              moc[i][2] \in Threads /\ moc[i][1] \in {"fetch", "delete", "count"}
        BY <1>t, ElementOfSeq DEF Blocks
      <4>2. \A i \in 1..Len(moc) : moc[i][1] # "insert" => drain[moc[i][2]].pc = Awaits[moc[i][1]]
        BY <1>t DEF Matched
      <4> QED BY <3>1, <4>1, <4>2 DEF Threads, Awaits
    <3>4. /\ Len(moc') = Len(moc)
          /\ \A i \in 1..Len(moc) :
               /\ moc'[i][1] = moc[i][1]
               /\ moc[i][1] # "insert" =>
                    moc'[i][2] = IF moc[i][2] = "url" THEN "old" ELSE moc[i][2]
      <4>1. /\ Len(moc') = Len(moc)
            /\ \A i \in 1..Len(moc) :
                 moc'[i] = IF moc[i][1] # "insert" /\ moc[i][2] = "url"
                             THEN <<moc[i][1], "old">> ELSE moc[i]
        BY <1>t, <3>1, RenamedType
      <4>2. ASSUME NEW i \in 1..Len(moc)
            PROVE  /\ moc'[i][1] = moc[i][1]
                   /\ moc[i][1] # "insert" =>
                        moc'[i][2] = IF moc[i][2] = "url" THEN "old" ELSE moc[i][2]
        <5>1. CASE moc[i][1] # "insert" /\ moc[i][2] = "url"
          <6>1. moc'[i] = <<moc[i][1], "old">>
            BY <4>1, <5>1
          <6> QED BY <5>1, <6>1
        <5>2. CASE ~ (moc[i][1] # "insert" /\ moc[i][2] = "url")
          <6>1. moc'[i] = moc[i]
            BY <4>1, <5>2
          <6> QED BY <5>2, <6>1
        <5> QED BY <5>1, <5>2
      <4> QED BY <4>1, <4>2
    <3>5. Matched(moc', drain')
      BY <3>2, <3>3, <3>4 DEF Matched
    <3>6. Single(moc')
      BY <1>t, <3>3, <3>4 DEF Single
    <3> QED BY <3>2, <3>5, <3>6 DEF BlocksInv, Parked
  <2>2. CASE ~ Active("url")
    BY <1>12, <1>t, <2>2 DEF LinkDown, BlocksInv, Parked, Active, Matched, Single
  <2> QED BY <2>1, <2>2
<1>13. CASE Transmit
  BY <1>13, <1>s DEF Transmit
<1>14. ASSUME NEW m \in sent, Puback(m) PROVE BlocksInv'
  BY <1>14, <1>s DEF Puback
<1>15. CASE Crash
  <2>1. moc' = <<>> /\ drain' = [t \in Threads |-> Off]
    BY <1>15 DEF Crash
  <2>2. Len(moc') = 0 /\ drain'["url"].pc = "off"
    BY <2>1 DEF Off, Threads
  <2> QED BY <2>2 DEF BlocksInv, Matched, Single, Parked
<1>16. CASE UNCHANGED vars
  BY <1>16, <1>s DEF vars
<1>17. CASE CleanConnect
  BY <1>17, <1>s DEF CleanConnect
<1> QED
  BY <1>1, <1>2, <1>3, <1>4, <1>5, <1>6, <1>7, <1>8, <1>9, <1>10, <1>11, <1>12,
     <1>13, <1>14, <1>15, <1>16, <1>17 DEF Next, App, Drain

(* What has reached the session stays accounted for, and a drain deletes   *)
(* only what it has published.                                             *)
LEMMA NextReached ==
  TypeInv /\ DeletesReached /\ [Next]_vars => DeletesReached' /\ Reached \subseteq Reached'
<1> SUFFICES ASSUME TypeInv, DeletesReached, [Next]_vars
             PROVE  DeletesReached' /\ Reached \subseteq Reached'
  OBVIOUS
<1>t. drain \in [Threads -> [pc : Pcs, batch : Seq(Numbers)]]
  BY DEF TypeInv, TypeOK
<1>s. ASSUME Reached \subseteq Reached',
             \A t \in Threads : drain'[t].pc = "deleting" => drain'[t] = drain[t]
      PROVE  DeletesReached' /\ Reached \subseteq Reached'
  BY <1>s DEF DeletesReached
<1>o. Off.pc = "off"
  BY DEF Off
<1>w. ASSUME NEW t \in Threads, NEW pc \in {"fetching", "counting"}, NEW kind, Waits(t, pc, kind)
      PROVE  \A u \in Threads : drain'[u].pc = "deleting" => drain'[u] = drain[u]
  BY <1>t, <1>w DEF Waits
<1>1. CASE SendData
  BY <1>1, <1>s DEF SendData, Reached, flows, pastVars
<1>2. CASE SendPublishes
  <2>1. Reached \subseteq Reached'
    BY <1>2 DEF SendPublishes, Publishes, Reached, pastVars
  <2> QED BY <1>2, <1>s, <2>1 DEF SendPublishes
<1>3. CASE SendPersists
  BY <1>3, <1>s DEF SendPersists, Reached, flows, pastVars
<1>4. CASE RunInsert
  BY <1>4, <1>s DEF RunInsert, Reached, flows
<1>5. CASE Perform
  <2>1. Reached \subseteq Reached'
    BY <1>5 DEF Perform, Reached, flows, pastVars
  <2>2. UNCHANGED drain \/ Waits("conn", "fetching", "fetch")
    BY <1>5 DEF Perform
  <2> QED BY <1>s, <1>w, <2>1, <2>2 DEF Threads
<1>6. CASE RunFetch
  <2>1. Reached \subseteq Reached'
    BY <1>6 DEF RunFetch, Reached, flows, pastVars
  <2>2. PICK next : next.pc # "deleting" /\ drain' = [drain EXCEPT ![Head(moc)[2]] = next]
    BY <1>6, <1>o DEF RunFetch
  <2> QED BY <1>s, <1>t, <2>1, <2>2
<1>7. ASSUME NEW t \in Threads, Check(t) PROVE DeletesReached' /\ Reached \subseteq Reached'
  <2>1. Reached \subseteq Reached'
    BY <1>7 DEF Check, Reached, flows, pastVars
  <2>2. drain' = [drain EXCEPT ![t].pc = "publish"] \/ Waits(t, "counting", "count")
    BY <1>7 DEF Check
  <2> QED BY <1>s, <1>t, <1>w, <2>1, <2>2
<1>8. ASSUME NEW t \in Threads, PublishItem(t) PROVE DeletesReached' /\ Reached \subseteq Reached'
  <2>1. Reached \subseteq Reached' /\ Head(drain[t].batch) \in Reached'
    BY <1>8 DEF PublishItem, Publishes, Reached, pastVars
  <2>2. drain'[t].batch = drain[t].batch /\ \A u \in Threads \ {t} : drain'[u] = drain[u]
    BY <1>8, <1>t DEF PublishItem, Waits
  <2> QED BY <2>1, <2>2 DEF DeletesReached
<1>9. CASE RunDelete
  <2>1. Reached \subseteq Reached'
    BY <1>9 DEF RunDelete, Reached, flows, pastVars
  <2>2. PICK next : next.pc # "deleting" /\ drain' = [drain EXCEPT ![Head(moc)[2]] = next]
    BY <1>9 DEF RunDelete
  <2> QED BY <1>s, <1>t, <2>1, <2>2
<1>10. CASE RunCount
  <2>1. Reached \subseteq Reached'
    BY <1>10 DEF RunCount, Reached, flows, pastVars
  <2>2. PICK next : next.pc # "deleting" /\ drain' = [drain EXCEPT ![Head(moc)[2]] = next]
    BY <1>10, <1>o DEF RunCount
  <2> QED BY <1>s, <1>t, <2>1, <2>2
<1>11. ASSUME NEW present \in BOOLEAN, LinkUp(present)
       PROVE  DeletesReached' /\ Reached \subseteq Reached'
  <2>1. Reached \subseteq Reached'
    BY <1>11 DEF LinkUp, Reached
  <2>2. Waits("url", "fetching", "fetch")
    BY <1>11 DEF LinkUp
  <2> QED BY <1>s, <1>w, <2>1, <2>2 DEF Threads
<1>12. CASE LinkDown
  <2>1. Reached \subseteq Reached'
    BY <1>12 DEF LinkDown, Reached, flows, pastVars
  <2>2. CASE Active("url")
    <3>1. drain' = [drain EXCEPT !["old"] = drain["url"], !["url"] = Off]
      BY <1>12, <2>2 DEF LinkDown
    <3>2. drain'["old"] = drain["url"] /\ drain'["conn"] = drain["conn"] /\ drain'["url"] = Off
      BY <1>t, <3>1 DEF Threads
    <3> QED BY <1>o, <2>1, <3>2 DEF DeletesReached, Threads
  <2>3. CASE ~ Active("url")
    BY <1>12, <1>s, <2>1, <2>3 DEF LinkDown
  <2> QED BY <2>2, <2>3
<1>13. CASE Transmit
  <2>1. Reached \subseteq Reached'
    BY <1>13 DEF Transmit, Reached, pastVars
  <2> QED BY <1>13, <1>s, <2>1 DEF Transmit
<1>14. ASSUME NEW m \in sent, Puback(m) PROVE DeletesReached' /\ Reached \subseteq Reached'
  <2>1. Reached \subseteq Reached'
    BY <1>14 DEF Puback, Reached
  <2> QED BY <1>14, <1>s, <2>1 DEF Puback
<1>15. CASE Crash
  <2>1. Reached \subseteq Reached'
    BY <1>15 DEF Crash, Reached, flows
  <2>2. \A t \in Threads : drain'[t].pc = "off"
    BY <1>15, <1>o DEF Crash
  <2> QED BY <1>s, <2>1, <2>2
<1>16. CASE UNCHANGED vars
  BY <1>16, <1>s DEF vars, flows, pastVars, Reached
<1>17. CASE CleanConnect
  <2>1. Reached \subseteq Reached'
    BY <1>17 DEF CleanConnect, Reached
  <2> QED BY <1>17, <1>s, <2>1 DEF CleanConnect
<1> QED
  BY <1>1, <1>2, <1>3, <1>4, <1>5, <1>6, <1>7, <1>8, <1>9, <1>10, <1>11, <1>12,
     <1>13, <1>14, <1>15, <1>16, <1>17 DEF Next, App, Drain

(* The messages in the insert blocks of a queue, and how they change.      *)
Inserts(q) == {q[i][2] : i \in {j \in DOMAIN q : q[j][1] = "insert"}}

LEMMA InsertsChange ==
  ASSUME NEW q \in Seq(Blocks)
  PROVE  /\ \A b \in Blocks : /\ Inserts(q) \subseteq Inserts(Append(q, b))
                              /\ b[1] = "insert" => b[2] \in Inserts(Append(q, b))
         /\ q # <<>> => \A m \in Inserts(q) :
                          m \in Inserts(Tail(q)) \/ (Head(q)[1] = "insert" /\ Head(q)[2] = m)
         /\ Inserts(q) \subseteq Inserts(Renamed(q))
<1>1. Len(q) \in Nat /\ DOMAIN q = 1..Len(q)
  BY LenProperties
<1>2. ASSUME NEW b \in Blocks
      PROVE  /\ Inserts(q) \subseteq Inserts(Append(q, b))
             /\ b[1] = "insert" => b[2] \in Inserts(Append(q, b))
  <2>1. /\ DOMAIN Append(q, b) = 1..Len(q) + 1
        /\ \A i \in 1..Len(q) : Append(q, b)[i] = q[i]
        /\ Append(q, b)[Len(q) + 1] = b
    BY AppendProperties, LenProperties
  <2>2. \A i \in 1..Len(q) : i \in 1..Len(q) + 1
    BY <1>1
  <2>3. Len(q) + 1 \in 1..Len(q) + 1
    BY <1>1
  <2> QED BY <1>1, <2>1, <2>2, <2>3, Zenon DEF Inserts
<1>3. ASSUME q # <<>>, NEW m \in Inserts(q)
      PROVE  m \in Inserts(Tail(q)) \/ (Head(q)[1] = "insert" /\ Head(q)[2] = m)
  <2>1. PICK i \in 1..Len(q) : q[i][1] = "insert" /\ q[i][2] = m
    BY <1>1 DEF Inserts
  <2>2. CASE i = 1
    BY <1>3, <2>1, <2>2, HeadTailProperties
  <2>3. CASE i # 1
    <3>1. /\ Len(Tail(q)) = Len(q) - 1 /\ Tail(q) \in Seq(Blocks)
          /\ \A j \in 1..Len(Tail(q)) : Tail(q)[j] = q[j + 1]
      BY <1>3, HeadTailProperties
    <3>2. i - 1 \in 1..Len(Tail(q)) /\ (i - 1) + 1 = i
      BY <1>1, <2>1, <2>3, <3>1
    <3>3. Tail(q)[i - 1] = q[i]
      BY <3>1, <3>2
    <3>4. i - 1 \in DOMAIN Tail(q)
      BY <3>1, <3>2, LenProperties
    <3> QED BY <2>1, <3>3, <3>4 DEF Inserts
  <2> QED BY <2>2, <2>3
<1>4. Inserts(q) \subseteq Inserts(Renamed(q))
  <2>1. /\ DOMAIN Renamed(q) = DOMAIN q
        /\ \A i \in DOMAIN q : q[i][1] = "insert" => Renamed(q)[i] = q[i]
    BY <1>1, RenamedType
  <2> QED BY <2>1 DEF Inserts
<1> QED BY <1>2, <1>3, <1>4

(* Where a message may be, but for the session and what it has done.       *)
Way == InSender \union Inserting \union Range(rows) \union trimmed

LEMMA NextNoLoss == IInv /\ [Next]_vars => NoLoss'
<1> SUFFICES ASSUME IInv, [Next]_vars PROVE NoLoss'
  OBVIOUS
<1> DEFINE Stays == \A m \in Way : m \in Way' \/ m \in Reached'
<1>r. Reached \subseteq Reached'
  BY NextReached DEF IInv
<1>n. \A m \in 1..called : m \in Way \/ m \in Reached
  BY DEF IInv, NoLoss, Way, Reached
<1>s. ASSUME Stays, called' = called PROVE NoLoss'
  <2>1. \A m \in 1..called : m \in Way' \/ m \in Reached'
    BY <1>s, <1>r, <1>n
  <2> QED BY <1>s, <2>1 DEF NoLoss, Way, Reached
<1>t. TypeInv /\ TypeOK /\ Matched(moc, drain) /\ Single(moc) /\ DeletesReached
  BY DEF IInv, TypeInv, BlocksInv
<1>q. moc \in Seq(Blocks) /\ rows \in Seq(Numbers) /\ called \in Nat
  BY <1>t, BoundsAssumption DEF TypeOK
<1>i. Inserting = Inserts(moc) /\ Inserting' = Inserts(moc')
  BY DEF Inserting, Inserts
<1>w. ASSUME NEW t \in Threads, NEW pc, NEW kind \in {"fetch", "delete", "count"},
             Waits(t, pc, kind)
      PROVE  Inserting \subseteq Inserting'
  <2>1. <<kind, t>> \in Blocks /\ moc' = Append(moc, <<kind, t>>)
    BY <1>w DEF Blocks, Waits
  <2> QED BY <1>q, <1>i, <2>1, InsertsChange
<1>b. ASSUME NEW kind \in {"fetch", "delete", "count"}, Runs(kind)
      PROVE  Inserting \subseteq Inserting'
  <2>1. moc # <<>> /\ moc' = Tail(moc) /\ Head(moc)[1] # "insert"
    BY <1>b DEF Runs
  <2> QED BY <1>q, <1>i, <2>1, InsertsChange
<1>u. ASSUME Inserting \subseteq Inserting', UNCHANGED <<sender, rows, trimmed, called>>
      PROVE  NoLoss'
  BY <1>u, <1>s DEF Way, InSender
<1>1. CASE SendData
  <2>1. /\ sender = "idle" /\ sender' # "idle" /\ called' = called + 1
        /\ UNCHANGED <<moc, rows, trimmed>>
    BY <1>1 DEF SendData, pastVars
  <2>2. called' \in InSender' /\ InSender = {} /\ Inserting' = Inserting
    BY <1>i, <2>1 DEF InSender
  <2>3. Stays /\ called' \in Way'
    BY <2>1, <2>2 DEF Way
  <2>4. \A m \in 1..called' : m \in 1..called \/ m = called'
    BY <1>q, <2>1
  <2>5. \A m \in 1..called' : m \in Way' \/ m \in Reached'
    BY <1>n, <1>r, <2>3, <2>4
  <2> QED BY <2>5 DEF NoLoss, Way, Reached
<1>2. CASE SendPublishes
  <2>1. called \in Reached' /\ InSender \subseteq {called}
    BY <1>2 DEF SendPublishes, Publishes, Reached, InSender
  <2>2. UNCHANGED <<moc, rows, trimmed, called>>
    BY <1>2 DEF SendPublishes, pastVars
  <2> QED BY <1>i, <1>s, <2>1, <2>2 DEF Way
<1>3. CASE SendPersists
  <2>1. <<"insert", called>> \in Blocks
    BY <1>3, <1>t, BoundsAssumption DEF SendPersists, TypeInv, TypeOK, Busy, Blocks, Numbers
  <2>2. moc' = Append(moc, <<"insert", called>>) /\ UNCHANGED <<rows, trimmed, called>>
    BY <1>3 DEF SendPersists, pastVars
  <2>3. Inserting \subseteq Inserting' /\ called \in Inserting'
    BY <1>q, <1>i, <2>1, <2>2, InsertsChange
  <2> QED BY <1>s, <2>2, <2>3 DEF Way, InSender
<1>4. CASE RunInsert
  <2> DEFINE new == Head(moc)[2]
             all == Append(rows, new)
             excess == IF Len(all) > Capacity THEN Len(all) - Kept ELSE 0
  <2>1. moc # <<>> /\ Head(moc)[1] = "insert" /\ moc' = Tail(moc)
        /\ UNCHANGED <<sender, called>>
    BY <1>4 DEF RunInsert, Runs
  <2>2. all \in Seq(Numbers) /\ Range(rows) \union {new} \subseteq Range(all)
        /\ Len(all) \in Nat
    <3>1. new \in Numbers
      BY <1>t, <2>1, BlockTypes
    <3>2. /\ all \in Seq(Numbers) /\ Len(all) = Len(rows) + 1 /\ Len(rows) \in Nat
          /\ \A i \in 1..Len(rows) : all[i] = rows[i]
          /\ all[Len(rows) + 1] = new
      BY <1>q, <3>1, AppendProperties, LenProperties
    <3>3. \A i \in 1..Len(rows) : i \in 1..Len(all)
      BY <3>2
    <3>4. Len(rows) + 1 \in 1..Len(all)
      BY <3>2
    <3>5. DOMAIN rows = 1..Len(rows) /\ DOMAIN all = 1..Len(all)
      BY <1>q, <3>2, LenProperties
    <3>6. \A x \in Range(rows) \union {new} : x \in Range(all)
      BY <3>2, <3>3, <3>4, <3>5 DEF Range
    <3> QED BY <3>2, <3>6
  <2>3. excess \in 0..Len(all)
    BY <2>2, SizesAssumption
  <2>4. rows' = SubSeq(all, excess + 1, Len(all))
        /\ trimmed' = trimmed \union Range(SubSeq(all, 1, excess))
    BY <1>4 DEF RunInsert
  <2> HIDE DEF all, excess
  <2>5. Range(rows) \union {new} \subseteq Range(rows') \union trimmed'
    BY <2>2, <2>3, <2>4, Halves
  <2>6. \A m \in Inserting : m \in Inserting' \/ m = new
    BY <1>q, <1>i, <2>1, InsertsChange
  <2>7. Stays
    BY <2>1, <2>4, <2>5, <2>6 DEF Way, InSender
  <2> QED BY <1>s, <2>1, <2>7
<1>5. CASE Perform
  <2>1. UNCHANGED <<sender, rows, trimmed, called>>
    BY <1>5 DEF Perform, pastVars
  <2>2. UNCHANGED moc \/ Waits("conn", "fetching", "fetch")
    BY <1>5 DEF Perform
  <2> QED BY <1>i, <1>u, <1>w, <2>1, <2>2 DEF Threads
<1>6. CASE RunFetch
  BY <1>6, <1>b, <1>u DEF RunFetch, pastVars
<1>7. ASSUME NEW t \in Threads, Check(t) PROVE NoLoss'
  <2>1. UNCHANGED <<sender, rows, trimmed, called>>
    BY <1>7 DEF Check, pastVars
  <2>2. UNCHANGED moc \/ Waits(t, "counting", "count")
    BY <1>7 DEF Check
  <2> QED BY <1>i, <1>u, <1>w, <2>1, <2>2
<1>8. ASSUME NEW t \in Threads, PublishItem(t) PROVE NoLoss'
  BY <1>8, <1>u, <1>w DEF PublishItem, pastVars
<1>9. CASE RunDelete
  <2> DEFINE t == Head(moc)[2]
             m == Head(drain[t].batch)
  <2>1. /\ moc # <<>> /\ Head(moc)[1] = "delete" /\ Runs("delete")
        /\ rows' = Without(rows, m)
        /\ UNCHANGED <<sender, trimmed, called>>
    BY <1>9 DEF RunDelete, Runs, pastVars
  <2>2. t \in Threads /\ drain[t].pc = "deleting"
    <3>1. t \in Threads
      BY <1>t, <2>1, BlockTypes
    <3>2. drain[t].pc = Awaits["delete"]
      BY <1>q, <1>t, <2>1, TailBlocks
    <3> QED BY <3>1, <3>2 DEF Awaits
  <2>3. m \in Reached'
    BY <1>r, <1>t, <2>2 DEF DeletesReached
  <2> HIDE DEF m
  <2>4. Range(rows) \subseteq Range(rows') \union {m}
    BY <1>q, <2>1, WithoutType
  <2>5. Inserting \subseteq Inserting'
    BY <1>b, <2>1
  <2>6. Stays
    BY <2>1, <2>3, <2>4, <2>5 DEF Way, InSender
  <2> QED BY <1>s, <2>1, <2>6
<1>10. CASE RunCount
  BY <1>10, <1>b, <1>u DEF RunCount, pastVars
<1>11. ASSUME NEW present \in BOOLEAN, LinkUp(present) PROVE NoLoss'
  BY <1>11, <1>u, <1>w DEF LinkUp, Threads
<1>12. CASE LinkDown
  <2>1. UNCHANGED <<sender, rows, trimmed, called>>
    BY <1>12 DEF LinkDown, pastVars
  <2>2. moc' = moc \/ moc' = Renamed(moc)
    BY <1>12 DEF LinkDown, Renamed
  <2>3. Inserting \subseteq Inserting'
    BY <1>q, <1>i, <2>2, InsertsChange
  <2> QED BY <1>u, <2>1, <2>3
<1>13. CASE Transmit
  BY <1>13, <1>i, <1>u DEF Transmit, pastVars
<1>14. ASSUME NEW m \in sent, Puback(m) PROVE NoLoss'
  BY <1>14, <1>i, <1>u DEF Puback
<1>15. CASE Crash
  <2>1. Inserting \union InSender \subseteq Reached'
    BY <1>15 DEF Crash, Reached
  <2>2. UNCHANGED <<rows, trimmed, called>>
    BY <1>15 DEF Crash
  <2> QED BY <1>s, <2>1, <2>2 DEF Way
<1>16. CASE UNCHANGED vars
  BY <1>16, <1>i, <1>u DEF vars, pastVars
<1>17. CASE CleanConnect
  BY <1>17, <1>i, <1>u DEF CleanConnect
<1> QED
  BY <1>1, <1>2, <1>3, <1>4, <1>5, <1>6, <1>7, <1>8, <1>9, <1>10, <1>11, <1>12,
     <1>13, <1>14, <1>15, <1>16, <1>17 DEF Next, App, Drain

LEMMA Inductive == SafeSpec => []IInv
<1>1. Init => IInv
  <2> SUFFICES ASSUME Init PROVE IInv
    OBVIOUS
  <2>1. TypeInv
    BY InitType
  <2>2. Len(moc) = 0 /\ \A t \in Threads : drain[t].pc = "off"
    BY DEF Init, Off
  <2>3. BlocksInv
    BY <2>2 DEF BlocksInv, Matched, Single, Parked, Threads
  <2>4. DeletesReached
    BY <2>2 DEF DeletesReached
  <2>5. NoLoss
    BY DEF Init, NoLoss
  <2> QED BY <2>1, <2>3, <2>4, <2>5 DEF IInv
<1>2. IInv /\ [Next]_vars => IInv'
  BY NextType, NextBlocks, NextReached, NextNoLoss DEF IInv, BlocksInv
<1> QED BY <1>1, <1>2, PTL DEF SafeSpec

(* Every variable of the shim keeps its type: the rows stay within the     *)
(* capacity, a batch within its size, the flows in flight in the window.   *)
THEOREM TypeCorrect == SafeSpec => []TypeOK
<1>1. IInv => TypeOK
  BY DEF IInv, TypeInv
<1> QED BY <1>1, Inductive, PTL

(* Whatever the link, the broker and the process do, no message sendData   *)
(* was called with is lost between the shim and the session.               *)
THEOREM NothingIsLost == SafeSpec => []NoLoss
<1>1. IInv => NoLoss
  BY DEF IInv
<1> QED BY <1>1, Inductive, PTL
=============================================================================
