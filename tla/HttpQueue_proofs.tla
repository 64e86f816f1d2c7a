-------------------------- MODULE HttpQueue_proofs --------------------------
(***************************************************************************)
(* Proofs about HttpQueue for every set of messages, every capacity and    *)
(* every limit of the disturbances:                                        *)
(*   TypeCorrect                every variable keeps its type              *)
(*   OrderlyQueueKeepsMessages  an orderly queue loses nothing unanswered  *)
(*   AlwaysLeadsOn              something always leads to state_starting   *)
(*   AnswersInOrder             answers come in the order of storing       *)
(*   RefinesOutbox              the queue is an outbox, liveness aside     *)
(*   NeverResent                what was answered is not posted again      *)
(*   WireIsBounded              the requests on the wire are bounded       *)
(***************************************************************************)
EXTENDS HttpQueue, TLAPS, SequenceTheorems, FiniteSetTheorems

(* Appending to, and taking the tail of, a sequence keeps it one. *)
LEMMA TailType ==
  ASSUME NEW S, NEW q \in Seq(S), q # <<>>
  PROVE  /\ Head(q) \in S
         /\ Tail(q) \in Seq(S)
         /\ Len(Tail(q)) = Len(q) - 1
         /\ \A i \in 1..Len(q) - 1 : Tail(q)[i] = q[i + 1]
  BY HeadTailProperties

LEMMA AppendType ==
  ASSUME NEW S, NEW q \in Seq(S), NEW e \in S
  PROVE  /\ Append(q, e) \in Seq(S)
         /\ Len(Append(q, e)) = Len(q) + 1
         /\ \A i \in 1..Len(q) : Append(q, e)[i] = q[i]
         /\ Append(q, e)[Len(q) + 1] = e
  BY AppendProperties

LEMMA FrontType ==
  ASSUME NEW S, NEW q \in Seq(S), q # <<>>
  PROVE  /\ Front(q) \in Seq(S)
         /\ Len(Front(q)) = Len(q) - 1
         /\ \A i \in 1..Len(q) - 1 : Front(q)[i] = q[i]
         /\ Last(q) \in S
         /\ Last(q) = q[Len(q)]
<1>1. Len(q) \in Nat /\ Len(q) # 0
  BY EmptySeq, LenProperties
<1>2. \A i \in 1..Len(q) : q[i] \in S
  BY ElementOfSeq
<1>3. Last(q) \in S /\ Last(q) = q[Len(q)]
  BY <1>1, <1>2 DEF Last
<1>4. /\ SubSeq(q, 1, Len(q) - 1) \in Seq(S)
      /\ Len(SubSeq(q, 1, Len(q) - 1)) = Len(q) - 1
      /\ \A i \in 1..Len(q) - 1 : SubSeq(q, 1, Len(q) - 1)[i] = q[i]
  BY <1>1, <1>2
<1> QED BY <1>3, <1>4 DEF Front

LEMMA InsertAtType ==
  ASSUME NEW S, NEW q \in Seq(S), NEW i \in 1..Len(q), NEW e \in S
  PROVE  InsertAt(q, i, e) \in Seq(S)
<1>1. SubSeq(q, 1, i - 1) \in Seq(S)
  BY SubSeqProperties
<1>2. SubSeq(q, i, Len(q)) \in Seq(S)
  BY SubSeqProperties
<1>3. <<e>> \in Seq(S)
  OBVIOUS
<1> QED BY <1>1, <1>2, <1>3, ConcatProperties DEF InsertAt

-----------------------------------------------------------------------------
(* Type correctness. *)

LEMMA BlockTypes ==
  /\ \A m \in Messages : Insert(m) \in Blocks /\ Insert(m).op = "insert"
  /\ Pass \in Blocks /\ Pass.op = "loop"
  /\ \A o \in {"delivered", "rejected"} : Delete(o) \in Blocks /\ Delete(o).op = o
  /\ \A b \in Blocks : b.op = "insert" => b.msg \in Messages
  BY NoneAssumption DEF Insert, Pass, Delete, Blocks

LEMMA InitType == Init => TypeOK
  BY DEF Init, TypeOK, States, NothingFetched, Disturbances

LEMMA NextType == TypeOK /\ [Next]_vars => TypeOK'
<1> SUFFICES ASSUME TypeOK, [Next]_vars PROVE TypeOK'
  OBVIOUS
<1> USE DEF TypeOK
<1>0. ASSUME NEW d \in Disturbances, Happens(d)
      PROVE  count' \in [Disturbances -> Nat]
  BY <1>0 DEF Happens
<1>t. StartReconnectTimer => timer' \in {"none", "armed"} /\ strayTimers' \in Nat
  BY DEF StartReconnectTimer
<1>m. moc # <<>> => Head(moc) \in Blocks /\ Tail(moc) \in Seq(Blocks)
  BY TailType
<1>r. rows # <<>> => /\ Head(rows) \in Messages /\ Tail(rows) \in Seq(Messages)
                     /\ Last(rows) \in Messages /\ Front(rows) \in Seq(Messages)
  BY TailType, FrontType
<1>f. ASSUME NEW m \in Messages, Completes(m)
      PROVE  flight' \in [Messages -> Nat]
  BY <1>f DEF Completes
<1>1. ASSUME NEW m \in Messages, SendData(m) PROVE TypeOK'
  BY <1>1, BlockTypes, AppendType DEF SendData, loopVars, wireVars, timerVars, pastVars
<1>2. CASE RunInsert
  <2>1. Head(moc).msg \in Messages /\ moc # <<>>
    BY <1>2, <1>m, BlockTypes DEF RunInsert
  <2>2. rows' \in Seq(Messages) /\ log' \in Seq(Messages)
    <3>1. CASE rows' = Append(rows, Head(moc).msg)
      BY <1>2, <2>1, <3>1, AppendType DEF RunInsert
    <3>2. CASE \E i \in 1..Len(rows) : rows' = InsertAt(rows, i, Head(moc).msg)
      <4>1. rows' \in Seq(Messages)
        BY <2>1, <3>2, InsertAtType
      <4> QED BY <1>2, <2>1, <4>1, AppendType DEF RunInsert
    <3> QED BY <1>2, <3>1, <3>2 DEF RunInsert
  <2>3. count' \in [Disturbances -> Nat]
    BY <1>2, <1>0 DEF RunInsert, Disturbances
  <2> QED BY <1>2, <1>m, <2>1, <2>2, <2>3 DEF RunInsert, loopVars, wireVars, timerVars
<1>3. CASE LoopWaits
  BY <1>3, BlockTypes, AppendType DEF LoopWaits, wireVars, timerVars, pastVars
<1>4. CASE LoopFetches
  <2>1. CASE rows = <<>>
    BY <1>4, <2>1, <1>m DEF LoopFetches, wireVars, timerVars, pastVars
  <2>2. CASE rows # <<>>
    <3>1. fetched' \in [first : Messages \union {None}, size : Nat]
          /\ fetched'.first \in Messages
      BY <1>4, <2>2, <1>r, LenProperties DEF LoopFetches
    <3> QED BY <1>4, <2>2, <3>1 DEF LoopFetches, wireVars, timerVars, pastVars
  <2> QED BY <2>1, <2>2
<1>5. CASE LoopSends
  <2>1. state' \in States /\ flight' \in [Messages -> Nat]
    <3>1. CASE state = "starting"
      BY <1>5, <3>1 DEF LoopSends, States
    <3>2. CASE state # "starting"
      BY <1>5, <3>2 DEF LoopSends
    <3> QED BY <3>1, <3>2
  <2>2. rows' \in Seq(Messages) /\ dropped' \subseteq Messages
    BY <1>5, <1>r DEF LoopSends
  <2>3. moc' \in Seq(Blocks)
    <3>1. CASE moc = <<>>
      BY <3>1, <1>5 DEF LoopSends
    <3>2. CASE moc # <<>>
      BY <3>2, <1>5, <1>m DEF LoopSends
    <3> QED BY <3>1, <3>2
  <2> QED BY <1>5, <2>1, <2>2, <2>3 DEF LoopSends, NothingFetched, timerVars
<1>6. ASSUME NEW m \in Messages, Delivered(m) PROVE TypeOK'
  BY <1>6, <1>f, BlockTypes, AppendType DEF Delivered, States, loopVars, timerVars, pastVars
<1>7. ASSUME NEW m \in Messages, Rejected(m) PROVE TypeOK'
  BY <1>7, <1>f, <1>t, BlockTypes, AppendType DEF Rejected, States, loopVars, pastVars
<1>8. ASSUME NEW m \in Messages, Failed(m) PROVE TypeOK'
  BY <1>8, <1>f, <1>t DEF Failed, States, queueVars, loopVars, pastVars
<1>9. CASE RunDelete
  BY <1>9, <1>m, <1>r DEF RunDelete, States, loopVars, wireVars, timerVars
<1>10. CASE Reconnect
  <2>1. count' \in [Disturbances -> Nat]
    BY <1>10, <1>0 DEF Reconnect, Disturbances
  <2>2. timer' \in {"none", "armed"} /\ strayTimers' \in Nat
    BY <1>10 DEF Reconnect
  <2> QED BY <1>10, <2>1, <2>2 DEF Reconnect, States, queueVars, loopVars, wireVars, pastVars
<1>11. CASE ConnectHTTP
  BY <1>11, <1>0 DEF ConnectHTTP, States, Disturbances, queueVars, loopVars, wireVars, timerVars, pastVars
<1>12. CASE Reset
  <2>1. Range(rows) \subseteq Messages
    BY ElementOfSeq, LenProperties DEF Range
  <2> QED BY <1>12, <1>0, <2>1 DEF Reset, Disturbances, loopVars, wireVars, timerVars
<1>13. CASE Crash
  <2>1. count' \in [Disturbances -> Nat]
    BY <1>13, <1>0 DEF Crash, Disturbances
  <2> QED BY <1>13, <2>1 DEF Crash, States, NothingFetched, pastVars
<1>14. CASE UNCHANGED vars
  BY <1>14 DEF vars, queueVars, loopVars, wireVars, timerVars, pastVars
<1> QED BY <1>1, <1>2, <1>3, <1>4, <1>5, <1>6, <1>7, <1>8, <1>9, <1>10, <1>11,
           <1>12, <1>13, <1>14 DEF Next

(* Every variable keeps its type, for every instance of the constants. *)
THEOREM TypeCorrect == SafeSpec => []TypeOK
  BY InitType, NextType, PTL DEF SafeSpec

-----------------------------------------------------------------------------
(* No unanswered loss. The property itself is not inductive: that the row  *)
(* a delete removes is the answered one depends on what the state of the   *)
(* connection says about the wire, the timers and the pending deletes.     *)

IsDelete(b) == b.op \in {"delivered", "rejected"}

NoDelete(q)  == \A i \in DOMAIN q : ~ IsDelete(q[i])
OneDelete(q) == \A i, j \in DOMAIN q : IsDelete(q[i]) /\ IsDelete(q[j]) => i = j
Silent       == \A m \in Messages : flight[m] = 0

(* The pending delete, if any, will find the row that was answered. *)
DeleteIsDue(q) == /\ OneDelete(q)
                  /\ ~ NoDelete(q) => rows # <<>> /\ Head(rows) \in answered

(* While the state is connecting the one request carries the first row.    *)
OnTheWire == /\ rows # <<>>
             /\ flight[Head(rows)] = 1
             /\ \A m \in Messages \ {Head(rows)} : flight[m] = 0

Wire ==
  /\ state = "connecting" => OnTheWire
  /\ state # "connecting" => Silent

Pending ==
  /\ state \in {"starting", "connecting"} => NoDelete(moc)
  /\ state = "connected" => \E i \in DOMAIN moc : moc[i].op = "delivered"
  /\ state = "error" => \A i \in DOMAIN moc : moc[i].op # "delivered"
  /\ DeleteIsDue(moc)

Timers ==
  /\ strayTimers = 0
  /\ state # "error" => timer = "none"

(* A pass that has fetched holds the block queue and the first row. *)
Held ==
  loop = "fetched" => /\ moc # <<>> /\ Head(moc) = Pass
                      /\ rows # <<>> /\ fetched.first = Head(rows)
                      /\ fetched.size = Len(rows)

Kept == Range(log) \subseteq Range(rows) \union answered \union dropped

OrderlyInv == Wire /\ Pending /\ Timers /\ Held /\ Kept

IInv == TypeOK /\ (Orderly => OrderlyInv)

-----------------------------------------------------------------------------
(* How the pending deletes change with the block queue. *)

LEMMA DomainOfSeq == ASSUME NEW S, NEW q \in Seq(S) PROVE DOMAIN q = 1..Len(q)
  BY LenProperties

LEMMA Positions ==
  ASSUME NEW n \in Nat
  PROVE  /\ \A i \in 1..n : i # n => i \in 1..n - 1
         /\ \A i \in 1..n + 1 : i # n + 1 => i \in 1..n
  OBVIOUS

LEMMA TailDeletes ==
  ASSUME NEW q \in Seq(Blocks), q # <<>>
  PROVE  /\ NoDelete(q) => NoDelete(Tail(q))
         /\ NoDelete(Tail(q)) /\ ~ IsDelete(Head(q)) => NoDelete(q)
         /\ OneDelete(q) => OneDelete(Tail(q))
         /\ OneDelete(q) /\ IsDelete(Head(q)) => NoDelete(Tail(q))
         /\ (\A i \in DOMAIN q : q[i].op # "delivered")
              => \A i \in DOMAIN Tail(q) : Tail(q)[i].op # "delivered"
         /\ (\E i \in DOMAIN q : q[i].op = "delivered") /\ Head(q).op # "delivered"
              => \E i \in DOMAIN Tail(q) : Tail(q)[i].op = "delivered"
<1>1. /\ Len(q) \in Nat \ {0} /\ DOMAIN q = 1..Len(q) /\ Head(q) = q[1]
      /\ DOMAIN Tail(q) = 1..Len(q) - 1
      /\ \A i \in 1..Len(q) - 1 : Tail(q)[i] = q[i + 1]
  BY TailType, LenProperties, EmptySeq
<1>2. \A i \in DOMAIN q : i # 1 => i - 1 \in DOMAIN Tail(q) /\ Tail(q)[i - 1] = q[i]
  BY <1>1
<1>3. \A i \in DOMAIN Tail(q) : i + 1 \in DOMAIN q /\ Tail(q)[i] = q[i + 1]
  BY <1>1
<1>4. NoDelete(q) => NoDelete(Tail(q))
  BY <1>3 DEF NoDelete
<1>5. NoDelete(Tail(q)) /\ ~ IsDelete(Head(q)) => NoDelete(q)
  BY <1>1, <1>2 DEF NoDelete
<1>6. OneDelete(q) => OneDelete(Tail(q))
  BY <1>1, <1>3 DEF OneDelete
<1>7. OneDelete(q) /\ IsDelete(Head(q)) => NoDelete(Tail(q))
  BY <1>1, <1>3 DEF OneDelete, NoDelete
<1>8. (\A i \in DOMAIN q : q[i].op # "delivered")
        => \A i \in DOMAIN Tail(q) : Tail(q)[i].op # "delivered"
  BY <1>3
<1>9. ASSUME NEW i \in DOMAIN q, q[i].op = "delivered", Head(q).op # "delivered"
      PROVE  \E j \in DOMAIN Tail(q) : Tail(q)[j].op = "delivered"
  <2>1. i # 1
    BY <1>1, <1>9
  <2>2. i - 1 \in DOMAIN Tail(q) /\ Tail(q)[i - 1] = q[i]
    BY <1>2, <2>1
  <2> QED BY <1>9, <2>2
<1> QED BY <1>4, <1>5, <1>6, <1>7, <1>8, <1>9

LEMMA AppendDeletes ==
  ASSUME NEW q \in Seq(Blocks), NEW b \in Blocks
  PROVE  /\ NoDelete(Append(q, b)) <=> NoDelete(q) /\ ~ IsDelete(b)
         /\ OneDelete(q) /\ ~ IsDelete(b) => OneDelete(Append(q, b))
         /\ NoDelete(q) => OneDelete(Append(q, b))
         /\ (\A i \in DOMAIN q : q[i].op # "delivered") /\ b.op # "delivered"
              => \A i \in DOMAIN Append(q, b) : Append(q, b)[i].op # "delivered"
         /\ (\E i \in DOMAIN q : q[i].op = "delivered") \/ b.op = "delivered"
              => \E i \in DOMAIN Append(q, b) : Append(q, b)[i].op = "delivered"
<1> DEFINE n == Len(q) + 1
<1>1. /\ Len(q) \in Nat /\ DOMAIN q = 1..Len(q) /\ DOMAIN Append(q, b) = 1..n
      /\ Append(q, b)[n] = b
      /\ \A i \in 1..Len(q) : Append(q, b)[i] = q[i]
  BY AppendType, LenProperties
<1>2. ASSUME NEW i \in DOMAIN Append(q, b), i # n
      PROVE  i \in DOMAIN q /\ Append(q, b)[i] = q[i]
  <2>1. i \in 1..Len(q) + 1 /\ Len(q) \in Nat
    BY <1>1, Zenon
  <2>2. i \in 1..Len(q)
    BY <1>2, <2>1, Positions, Zenon
  <2> QED BY <1>1, <2>2, Zenon
<1>3. \A i \in DOMAIN q : i \in DOMAIN Append(q, b) /\ Append(q, b)[i] = q[i]
  BY <1>1
<1>4. n \in DOMAIN Append(q, b) /\ Append(q, b)[n] = b
  BY <1>1
<1> HIDE DEF n
<1>5. NoDelete(Append(q, b)) <=> NoDelete(q) /\ ~ IsDelete(b)
  BY <1>2, <1>3, <1>4 DEF NoDelete
<1>6. OneDelete(q) /\ ~ IsDelete(b) => OneDelete(Append(q, b))
  BY <1>2, <1>4 DEF OneDelete
<1>7. NoDelete(q) => OneDelete(Append(q, b))
  BY <1>2, <1>4 DEF OneDelete, NoDelete
<1> QED BY <1>2, <1>3, <1>4, <1>5, <1>6, <1>7

(* What a sequence contains after a change at one of its ends. *)
LEMMA RangeChanges ==
  ASSUME NEW S, NEW q \in Seq(S)
  PROVE  /\ \A e \in S : Range(Append(q, e)) = Range(q) \union {e}
         /\ q # <<>> => Range(q) \subseteq Range(Tail(q)) \union {Head(q)}
         /\ q # <<>> => Range(q) \subseteq Range(Front(q)) \union {Last(q)}
<1>1. DOMAIN q = 1..Len(q) /\ Len(q) \in Nat
  BY LenProperties
<1>2. ASSUME NEW e \in S
      PROVE  Range(Append(q, e)) = Range(q) \union {e}
  <2>1. /\ DOMAIN Append(q, e) = 1..Len(q) + 1
        /\ \A i \in 1..Len(q) : Append(q, e)[i] = q[i]
        /\ Append(q, e)[Len(q) + 1] = e
    BY AppendType, LenProperties
  <2>2. ASSUME NEW x \in Range(Append(q, e)) PROVE x \in Range(q) \union {e}
    BY <1>1, <2>1 DEF Range
  <2>3. ASSUME NEW x \in Range(q) PROVE x \in Range(Append(q, e))
    BY <1>1, <2>1 DEF Range
  <2>4. e \in Range(Append(q, e))
    BY <1>1, <2>1 DEF Range
  <2> QED BY <2>2, <2>3, <2>4
<1>3. ASSUME q # <<>>, NEW x \in Range(q)
      PROVE  x \in Range(Tail(q)) \union {Head(q)}
  <2>1. /\ DOMAIN Tail(q) = 1..Len(q) - 1 /\ Head(q) = q[1]
        /\ \A i \in 1..Len(q) - 1 : Tail(q)[i] = q[i + 1]
    BY <1>3, TailType, LenProperties, EmptySeq
  <2>2. PICK i \in 1..Len(q) : x = q[i]
    BY <1>1 DEF Range
  <2>3. CASE i = 1
    BY <2>1, <2>2, <2>3
  <2>4. CASE i # 1
    <3>1. i - 1 \in DOMAIN Tail(q) /\ Tail(q)[i - 1] = x
      BY <1>1, <2>1, <2>2, <2>4
    <3> QED BY <3>1 DEF Range
  <2> QED BY <2>3, <2>4
<1>4. ASSUME q # <<>>, NEW x \in Range(q)
      PROVE  x \in Range(Front(q)) \union {Last(q)}
  <2>1. /\ DOMAIN Front(q) = 1..Len(q) - 1 /\ Last(q) = q[Len(q)]
        /\ \A i \in 1..Len(q) - 1 : Front(q)[i] = q[i]
    BY <1>4, FrontType, LenProperties
  <2>2. PICK i \in 1..Len(q) : x = q[i]
    BY <1>1 DEF Range
  <2>3. CASE i = Len(q)
    BY <2>1, <2>2, <2>3
  <2>4. CASE i # Len(q)
    <3>1. i \in 1..Len(q) - 1
      BY <1>1, <2>2, <2>4, Positions, Zenon
    <3>2. i \in DOMAIN Front(q) /\ Front(q)[i] = x
      BY <2>1, <2>2, <3>1
    <3> QED BY <3>2 DEF Range
  <2> QED BY <2>3, <2>4
<1> QED BY <1>2, <1>3, <1>4

-----------------------------------------------------------------------------
(* The invariant holds initially and every step preserves it. *)

LEMMA InitInv == Init => IInv
<1> SUFFICES ASSUME Init PROVE TypeOK /\ OrderlyInv
  BY DEF IInv
<1>1. TypeOK
  BY InitType
<1>2. DOMAIN moc = {} /\ Range(log) = {}
  BY DEF Init, Range
<1>3. Wire /\ Timers /\ Held
  BY DEF Init, Wire, Timers, Held, Silent
<1>4. Pending /\ Kept
  BY <1>2 DEF Init, Pending, DeleteIsDue, OneDelete, NoDelete, Kept
<1> QED BY <1>1, <1>3, <1>4 DEF OrderlyInv

(* Disturbances are only ever counted up. *)
LEMMA OrderlyBefore ==
  ASSUME TypeOK, [Next]_vars, Orderly'
  PROVE  Orderly /\ \A d \in Disturbances \ {"crash"} : ~ Happens(d)
<1>1. ASSUME NEW d \in Disturbances, Happens(d)
      PROVE  \A c \in Disturbances : count'[c] = IF c = d THEN count[c] + 1 ELSE count[c]
  BY <1>1 DEF Happens, TypeOK
<1>2. \A c \in Disturbances : count[c] \in Nat
  BY DEF TypeOK
<1>3. ASSUME NEW d \in Disturbances \ {"crash"}, Happens(d) PROVE FALSE
  BY <1>1, <1>2, <1>3 DEF Orderly
<1>4. \/ UNCHANGED count
      \/ \E d \in Disturbances : Happens(d)
  BY DEF Next, SendData, RunInsert, LoopWaits, LoopFetches, LoopSends, Delivered,
         Rejected, Failed, RunDelete, Reconnect, ConnectHTTP, Reset, Crash, vars,
         Disturbances
<1>5. Orderly
  <2>1. CASE UNCHANGED count
    BY <2>1 DEF Orderly
  <2>2. CASE \E d \in Disturbances : Happens(d)
    BY <2>2, <1>1, <1>2, <1>3 DEF Orderly
  <2> QED BY <1>4, <2>1, <2>2
<1> QED BY <1>3, <1>5

LEMMA SendDataInv ==
  ASSUME TypeOK, OrderlyInv, NEW m \in Messages, SendData(m)
  PROVE  OrderlyInv'
<1> USE DEF OrderlyInv
<1>1. Insert(m) \in Blocks /\ ~ IsDelete(Insert(m)) /\ Insert(m).op # "delivered"
  BY BlockTypes DEF IsDelete
<1>2. moc \in Seq(Blocks) /\ moc' = Append(moc, Insert(m))
  BY DEF SendData, TypeOK
<1>3. UNCHANGED <<state, rows, loop, fetched, flight, answered, timer, strayTimers, log, dropped>>
  BY DEF SendData, loopVars, wireVars, timerVars, pastVars
<1>4. Wire' /\ Timers' /\ Kept'
  BY <1>3 DEF Wire, Timers, Kept, Silent, OnTheWire
<1>5. Pending'
  BY <1>1, <1>2, <1>3, AppendDeletes DEF Pending, DeleteIsDue
<1>6. Held'
  BY <1>1, <1>2, <1>3, HeadTailAppend, AppendType DEF Held
<1> QED BY <1>4, <1>5, <1>6

LEMMA LoopWaitsInv ==
  ASSUME TypeOK, OrderlyInv, LoopWaits
  PROVE  OrderlyInv'
<1> USE DEF OrderlyInv
<1>1. Pass \in Blocks /\ ~ IsDelete(Pass) /\ Pass.op # "delivered"
  BY BlockTypes DEF IsDelete
<1>2. moc \in Seq(Blocks) /\ moc' = Append(moc, Pass)
  BY DEF LoopWaits, TypeOK
<1>3. UNCHANGED <<state, rows, flight, answered, timer, strayTimers, log, dropped>>
  BY DEF LoopWaits, wireVars, timerVars, pastVars
<1>4. Wire' /\ Timers' /\ Kept'
  BY <1>3 DEF Wire, Timers, Kept, Silent, OnTheWire
<1>5. Pending'
  BY <1>1, <1>2, <1>3, AppendDeletes DEF Pending, DeleteIsDue
<1>6. Held'
  BY DEF Held, LoopWaits
<1> QED BY <1>4, <1>5, <1>6

LEMMA RunInsertInv ==
  ASSUME TypeOK, OrderlyInv, RunInsert, ~ Happens("clockback")
  PROVE  OrderlyInv'
<1> USE DEF OrderlyInv
<1> DEFINE m == Head(moc).msg
<1>1. moc \in Seq(Blocks) /\ moc # <<>> /\ moc' = Tail(moc) /\ Head(moc).op = "insert"
      /\ Head(moc) \in Blocks
  BY TailType DEF RunInsert, TypeOK
<1>2. m \in Messages /\ rows \in Seq(Messages) /\ log \in Seq(Messages)
      /\ rows' = Append(rows, m) /\ log' = Append(log, m)
  BY <1>1, BlockTypes DEF RunInsert, TypeOK
<1>3. UNCHANGED <<state, loop, fetched, flight, answered, timer, strayTimers, dropped>>
  BY DEF RunInsert, loopVars, wireVars, timerVars
<1> HIDE DEF m
<1>4. rows # <<>> => rows' # <<>> /\ Head(rows') = Head(rows)
  BY <1>2, HeadTailAppend, AppendType
<1>5. ~ IsDelete(Head(moc)) /\ Head(moc).op # "delivered"
  BY <1>1 DEF IsDelete
<1>6. Wire' /\ Timers'
  BY <1>3, <1>4 DEF Wire, Timers, Silent, OnTheWire
<1>7. Pending'
  BY <1>1, <1>3, <1>4, <1>5, TailDeletes DEF Pending, DeleteIsDue
<1>8. Held'
  BY <1>1, <1>3, BlockTypes DEF Held
<1>9. Kept'
  BY <1>2, <1>3, RangeChanges DEF Kept
<1> QED BY <1>6, <1>7, <1>8, <1>9

LEMMA LoopFetchesInv ==
  ASSUME TypeOK, OrderlyInv, LoopFetches
  PROVE  OrderlyInv'
<1> USE DEF OrderlyInv
<1>1. UNCHANGED <<state, rows, flight, answered, timer, strayTimers, log, dropped>>
  BY DEF LoopFetches, wireVars, timerVars, pastVars
<1>2. moc \in Seq(Blocks) /\ moc # <<>> /\ ~ IsDelete(Head(moc))
      /\ Head(moc).op # "delivered" /\ Head(moc) = Pass
  BY BlockTypes DEF LoopFetches, TypeOK, IsDelete
<1>3. Wire' /\ Timers' /\ Kept'
  BY <1>1 DEF Wire, Timers, Kept, Silent, OnTheWire
<1>4. CASE rows = <<>>
  <2>1. moc' = Tail(moc) /\ loop' = "idle"
    BY <1>4 DEF LoopFetches
  <2>2. Pending'
    BY <1>1, <1>2, <2>1, TailDeletes DEF Pending, DeleteIsDue
  <2> QED BY <1>3, <2>1, <2>2 DEF Held
<1>5. CASE rows # <<>>
  <2>1. UNCHANGED moc /\ fetched'.first = Head(rows) /\ fetched'.size = Len(rows)
    BY <1>5 DEF LoopFetches
  <2>2. Pending'
    BY <1>1, <2>1 DEF Pending, DeleteIsDue, NoDelete, OneDelete
  <2> QED BY <1>1, <1>2, <1>3, <1>5, <2>1, <2>2 DEF Held
<1> QED BY <1>4, <1>5

LEMMA LoopSendsInv ==
  ASSUME TypeOK, OrderlyInv, LoopSends
  PROVE  OrderlyInv'
<1> USE DEF OrderlyInv
<1>1. moc \in Seq(Blocks) /\ moc # <<>> /\ Head(moc) = Pass /\ moc' = Tail(moc)
      /\ ~ IsDelete(Head(moc)) /\ Head(moc).op # "delivered"
  BY BlockTypes DEF LoopSends, TypeOK, IsDelete, Held
<1>2. rows \in Seq(Messages) /\ rows # <<>> /\ fetched.first = Head(rows)
      /\ fetched.size = Len(rows) /\ Head(rows) \in Messages
  BY TailType DEF LoopSends, TypeOK, Held
<1>3. UNCHANGED <<answered, timer, strayTimers, log>> /\ loop' = "idle"
  BY DEF LoopSends, timerVars
<1>4. rows' # <<>> /\ Head(rows') = Head(rows)
      /\ Range(rows) \union dropped \subseteq Range(rows') \union dropped'
  <2>1. CASE fetched.size > Capacity
    <3>1. rows' = Front(rows) /\ dropped' = dropped \union {Last(rows)}
      BY <1>2, <2>1 DEF LoopSends
    <3>2. Len(rows) \in Nat /\ Capacity \in Nat \ {0} /\ Len(rows) > Capacity
      BY <1>2, <2>1, CapacityAssumption, LenProperties
    <3>3. /\ Front(rows) \in Seq(Messages)
          /\ Len(Front(rows)) = Len(rows) - 1
          /\ \A i \in 1..Len(rows) - 1 : Front(rows)[i] = rows[i]
      BY <1>2, FrontType
    <3>4. Len(Front(rows)) # 0 /\ 1 \in 1..Len(rows) - 1
      BY <3>2, <3>3
    <3>5. Front(rows) # <<>> /\ Head(Front(rows)) = Head(rows)
      BY <1>2, <3>3, <3>4, EmptySeq
    <3>6. Range(rows) \subseteq Range(Front(rows)) \union {Last(rows)}
      BY <1>2, RangeChanges
    <3> QED BY <3>1, <3>5, <3>6
  <2>2. CASE ~ (fetched.size > Capacity)
    BY <1>2, <2>2 DEF LoopSends
  <2> QED BY <2>1, <2>2
<1>5. Wire' /\ Timers'
  <2>1. CASE state = "starting"
    <3>1. state' = "connecting" /\ flight' = [flight EXCEPT ![Head(rows)] = @ + 1]
      BY <1>2, <2>1 DEF LoopSends
    <3>2. \A m \in Messages : flight[m] = 0
      BY <2>1 DEF Wire, Silent
    <3>3. flight'[Head(rows)] = 1 /\ \A m \in Messages \ {Head(rows)} : flight'[m] = 0
      BY <1>2, <3>1, <3>2 DEF TypeOK
    <3> QED BY <1>3, <1>4, <2>1, <3>1, <3>3 DEF Wire, Timers, OnTheWire
  <2>2. CASE state # "starting"
    <3>1. UNCHANGED <<state, flight>>
      BY <2>2 DEF LoopSends
    <3> QED BY <1>3, <1>4, <3>1 DEF Wire, Timers, OnTheWire, Silent
  <2> QED BY <2>1, <2>2
<1>6. Pending'
  <2>1. \/ state' = state
        \/ state = "starting" /\ state' = "connecting"
    BY DEF LoopSends
  <2>2. /\ NoDelete(moc) => NoDelete(moc')
        /\ NoDelete(moc') => NoDelete(moc)
        /\ OneDelete(moc) => OneDelete(moc')
        /\ (\A i \in DOMAIN moc : moc[i].op # "delivered")
             => \A i \in DOMAIN moc' : moc'[i].op # "delivered"
        /\ (\E i \in DOMAIN moc : moc[i].op = "delivered")
             => \E i \in DOMAIN moc' : moc'[i].op = "delivered"
    BY <1>1, TailDeletes
  <2>3. DeleteIsDue(moc)'
    BY <1>3, <1>4, <2>2 DEF Pending, DeleteIsDue
  <2>4. CASE state' = state
    BY <2>2, <2>3, <2>4 DEF Pending
  <2>5. CASE state = "starting" /\ state' = "connecting"
    BY <2>2, <2>3, <2>5 DEF Pending
  <2> QED BY <2>1, <2>4, <2>5
<1>7. Held' /\ Kept'
  BY <1>3, <1>4 DEF Held, Kept
<1> QED BY <1>5, <1>6, <1>7

(* A completion belongs to the first row: the state is connecting. *)
LEMMA CompletionOfFirst ==
  ASSUME TypeOK, OrderlyInv, NEW m \in Messages, Completes(m)
  PROVE  /\ state = "connecting" /\ rows # <<>> /\ m = Head(rows)
         /\ Silent' /\ NoDelete(moc) /\ timer = "none" /\ strayTimers = 0
<1>1. flight[m] > 0 /\ flight' = [flight EXCEPT ![m] = @ - 1] /\ flight \in [Messages -> Nat]
  BY DEF Completes, TypeOK
<1>2. state = "connecting"
  BY <1>1 DEF OrderlyInv, Wire, Silent
<1>3. OnTheWire /\ m = Head(rows)
  BY <1>1, <1>2 DEF OrderlyInv, Wire, OnTheWire
<1>4. \A n \in Messages : flight'[n] = 0
  BY <1>1, <1>3 DEF OnTheWire
<1> QED BY <1>2, <1>3, <1>4 DEF OrderlyInv, Pending, Timers, OnTheWire, Silent

LEMMA DeliveredInv ==
  ASSUME TypeOK, OrderlyInv, NEW m \in Messages, Delivered(m)
  PROVE  OrderlyInv'
<1> DEFINE b == Delete("delivered")
<1>1. /\ Completes(m) /\ state' = "connected" /\ moc' = Append(moc, b)
      /\ answered' = answered \union {m}
      /\ UNCHANGED <<rows, loop, fetched, timer, strayTimers, log, dropped>>
  BY DEF Delivered, loopVars, timerVars, pastVars
<1>2. moc \in Seq(Blocks) /\ b \in Blocks /\ b.op = "delivered"
  BY BlockTypes DEF TypeOK
<1>3. /\ rows # <<>> /\ m = Head(rows)
      /\ Silent' /\ NoDelete(moc) /\ timer = "none" /\ strayTimers = 0
  BY <1>1, CompletionOfFirst
<1> HIDE DEF b
<1>4. Wire' /\ Timers' /\ Kept'
  BY <1>1, <1>3 DEF OrderlyInv, Wire, Timers, Kept
<1>5. Pending'
  BY <1>1, <1>2, <1>3, AppendDeletes DEF Pending, DeleteIsDue
<1>6. Held'
  BY <1>1, <1>2, HeadTailAppend, AppendType DEF OrderlyInv, Held
<1> QED BY <1>4, <1>5, <1>6 DEF OrderlyInv

LEMMA RejectedInv ==
  ASSUME TypeOK, OrderlyInv, NEW m \in Messages, Rejected(m)
  PROVE  OrderlyInv'
<1> DEFINE b == Delete("rejected")
<1>1. /\ Completes(m) /\ state' = "error" /\ moc' = Append(moc, b)
      /\ answered' = answered \union {m} /\ StartReconnectTimer
      /\ UNCHANGED <<rows, loop, fetched, log, dropped>>
  BY DEF Rejected, loopVars, pastVars
<1>2. moc \in Seq(Blocks) /\ b \in Blocks /\ b.op = "rejected"
  BY BlockTypes DEF TypeOK
<1>3. /\ state = "connecting" /\ rows # <<>> /\ m = Head(rows)
      /\ Silent' /\ NoDelete(moc) /\ timer = "none" /\ strayTimers = 0
  BY <1>1, CompletionOfFirst
<1> HIDE DEF b
<1>4. Wire' /\ Timers' /\ Kept'
  BY <1>1, <1>3 DEF OrderlyInv, Wire, Timers, Kept, StartReconnectTimer
<1>5. \A i \in DOMAIN moc : moc[i].op # "delivered"
  BY <1>3 DEF NoDelete, IsDelete
<1>6. Pending'
  BY <1>1, <1>2, <1>3, <1>5, AppendDeletes DEF Pending, DeleteIsDue
<1>7. Held'
  BY <1>1, <1>2, HeadTailAppend, AppendType DEF OrderlyInv, Held
<1> QED BY <1>4, <1>6, <1>7 DEF OrderlyInv

LEMMA FailedInv ==
  ASSUME TypeOK, OrderlyInv, NEW m \in Messages, Failed(m)
  PROVE  OrderlyInv'
<1>1. /\ Completes(m) /\ state' = "error" /\ StartReconnectTimer
      /\ UNCHANGED <<rows, moc, loop, fetched, answered, log, dropped>>
  BY DEF Failed, queueVars, loopVars, pastVars
<1>2. /\ rows # <<>> /\ Silent' /\ NoDelete(moc) /\ timer = "none" /\ strayTimers = 0
  BY <1>1, CompletionOfFirst
<1>3. Wire' /\ Timers' /\ Kept' /\ Held'
  BY <1>1, <1>2 DEF OrderlyInv, Wire, Timers, Kept, Held, StartReconnectTimer
<1>4. Pending'
  BY <1>1, <1>2 DEF OrderlyInv, Pending, DeleteIsDue, NoDelete, OneDelete, IsDelete
<1> QED BY <1>3, <1>4 DEF OrderlyInv

LEMMA RunDeleteInv ==
  ASSUME TypeOK, OrderlyInv, RunDelete
  PROVE  OrderlyInv'
<1>1. moc \in Seq(Blocks) /\ moc # <<>> /\ moc' = Tail(moc) /\ IsDelete(Head(moc))
      /\ Head(moc).op # "loop"
  BY DEF RunDelete, TypeOK, IsDelete
<1>2. UNCHANGED <<loop, fetched, flight, answered, timer, strayTimers, log, dropped>>
  BY DEF RunDelete, loopVars, wireVars, timerVars
<1>3. ~ NoDelete(moc) /\ OneDelete(moc) /\ rows # <<>> /\ Head(rows) \in answered
  <2>1. 1 \in DOMAIN moc /\ moc[1] = Head(moc)
    BY <1>1, EmptySeq, LenProperties
  <2>2. ~ NoDelete(moc)
    BY <1>1, <2>1 DEF NoDelete
  <2> QED BY <2>2 DEF OrderlyInv, Pending, DeleteIsDue
<1>4. rows \in Seq(Messages) /\ rows' = Tail(rows)
  BY <1>3 DEF RunDelete, TypeOK
<1>5. NoDelete(moc') /\ OneDelete(moc')
  BY <1>1, <1>3, TailDeletes DEF NoDelete, OneDelete
<1>6. \/ state = "connected" /\ state' = "starting"
      \/ state = "error" /\ state' = "error"
  <2>1. state \in {"connected", "error"}
    BY <1>3 DEF OrderlyInv, Pending, TypeOK, States
  <2>2. 1 \in DOMAIN moc /\ moc[1] = Head(moc)
    BY <1>1, EmptySeq, LenProperties
  <2>3. CASE Head(moc).op = "delivered"
    BY <2>1, <2>2, <2>3 DEF RunDelete, OrderlyInv, Pending
  <2>4. CASE Head(moc).op # "delivered"
    <3>1. state # "connected"
      <4> SUFFICES ASSUME state = "connected" PROVE FALSE
        OBVIOUS
      <4>1. PICK i \in DOMAIN moc : moc[i].op = "delivered"
        BY DEF OrderlyInv, Pending
      <4>2. i = 1
        BY <1>1, <1>3, <2>2, <4>1 DEF OneDelete, IsDelete
      <4> QED BY <2>2, <2>4, <4>1, <4>2
    <3> QED BY <2>1, <2>4, <3>1 DEF RunDelete
  <2> QED BY <2>3, <2>4
<1>7. Wire' /\ Timers'
  BY <1>2, <1>6 DEF OrderlyInv, Wire, Timers, Silent
<1>8. Pending'
  BY <1>5, <1>6 DEF Pending, DeleteIsDue, NoDelete, IsDelete
<1>9. Held'
  BY <1>1, <1>2, BlockTypes DEF OrderlyInv, Held
<1>10. Kept'
  BY <1>2, <1>3, <1>4, RangeChanges DEF OrderlyInv, Kept
<1> QED BY <1>7, <1>8, <1>9, <1>10 DEF OrderlyInv

LEMMA ReconnectInv ==
  ASSUME TypeOK, OrderlyInv, Reconnect, ~ Happens("stall")
  PROVE  OrderlyInv'
<1>1. /\ state' = "starting" /\ timer' = "none" /\ Deletes = {}
      /\ UNCHANGED <<rows, moc, loop, fetched, flight, answered, log, dropped>>
  BY DEF Reconnect, queueVars, loopVars, wireVars, pastVars
<1>2. timer = "armed" /\ strayTimers = 0 /\ strayTimers' = 0
  BY DEF Reconnect, OrderlyInv, Timers
<1>3. state = "error" /\ NoDelete(moc)
  BY <1>1, <1>2 DEF OrderlyInv, Timers, Deletes, NoDelete, IsDelete
<1>4. Wire' /\ Timers' /\ Kept' /\ Held'
  BY <1>1, <1>2, <1>3 DEF OrderlyInv, Wire, Timers, Kept, Held, Silent
<1>5. Pending'
  BY <1>1, <1>3 DEF OrderlyInv, Pending, DeleteIsDue, NoDelete, OneDelete
<1> QED BY <1>4, <1>5 DEF OrderlyInv

LEMMA CrashInv ==
  ASSUME TypeOK, OrderlyInv, Crash
  PROVE  OrderlyInv'
<1>1. /\ state' = "starting" /\ moc' = <<>> /\ loop' = "idle"
      /\ timer' = "none" /\ strayTimers' = 0
      /\ flight' = [m \in Messages |-> 0]
      /\ UNCHANGED <<rows, answered, log, dropped>>
  BY DEF Crash, pastVars
<1>2. DOMAIN moc' = {}
  BY <1>1
<1>3. Wire' /\ Timers' /\ Kept' /\ Held'
  BY <1>1 DEF OrderlyInv, Wire, Timers, Kept, Held, Silent
<1>4. Pending'
  BY <1>1, <1>2 DEF Pending, DeleteIsDue, NoDelete, OneDelete
<1> QED BY <1>3, <1>4 DEF OrderlyInv

LEMMA NextInv == IInv /\ [Next]_vars => IInv'
<1> SUFFICES ASSUME TypeOK, Orderly => OrderlyInv, [Next]_vars, Orderly'
             PROVE  OrderlyInv'
  BY NextType DEF IInv
<1>1. Orderly /\ \A d \in Disturbances \ {"crash"} : ~ Happens(d)
  BY OrderlyBefore
<1>2. ~ ConnectHTTP /\ ~ Reset
  BY <1>1 DEF ConnectHTTP, Reset, Disturbances
<1>3. ~ Happens("clockback") /\ ~ Happens("stall")
  BY <1>1 DEF Disturbances
<1>4. OrderlyInv
  BY <1>1
<1>5. CASE UNCHANGED vars
  BY <1>4, <1>5 DEF OrderlyInv, Wire, Pending, Timers, Held, Kept, Silent, OnTheWire,
       NoDelete, OneDelete, DeleteIsDue, vars, queueVars, loopVars, wireVars,
       timerVars, pastVars
<1>6. CASE Next
  BY <1>2, <1>3, <1>4, <1>6, SendDataInv, RunInsertInv, LoopWaitsInv, LoopFetchesInv,
     LoopSendsInv, DeliveredInv, RejectedInv, FailedInv, RunDeleteInv, ReconnectInv,
     CrashInv DEF Next
<1> QED BY <1>5, <1>6

(* An orderly queue loses no stored message before the server has answered *)
(* it: for every set of messages, every capacity and any number of crashes *)
(* the row the block of a completion deletes is the row that was posted.   *)
THEOREM OrderlyQueueKeepsMessages == SafeSpec => []NoUnansweredLoss
<1>1. IInv => NoUnansweredLoss
  BY DEF IInv, OrderlyInv, Kept, NoUnansweredLoss
<1> QED BY <1>1, InitInv, NextInv, PTL DEF SafeSpec

-----------------------------------------------------------------------------
(* Never wedged, whatever happens. A pass that has fetched still has its   *)
(* own block at the head of the block queue, so what it takes off is never *)
(* the block that sets the state back.                                     *)

HoldsQueue == loop = "fetched" => moc # <<>> /\ Head(moc) = Pass

(* The block that sets the state back is pending. *)
ComesBack(q) == \E i \in DOMAIN q : q[i].op = "delivered"

LEMMA InitHolds == Init => HoldsQueue /\ NeverWedged
  BY DEF Init, HoldsQueue, NeverWedged

LEMMA WedgedMeans ==
  NeverWedged <=> \/ state = "starting"
                  \/ \E m \in Messages : flight[m] > 0
                  \/ timer = "armed" \/ strayTimers > 0
                  \/ ComesBack(moc)
  BY DEF NeverWedged, Deletes, ComesBack

LEMMA NextHolds == TypeOK /\ HoldsQueue /\ [Next]_vars => HoldsQueue'
<1> SUFFICES ASSUME TypeOK, HoldsQueue, [Next]_vars PROVE HoldsQueue'
  OBVIOUS
<1>1. moc \in Seq(Blocks)
  BY DEF TypeOK
<1>2. ASSUME UNCHANGED loop, NEW b \in Blocks, moc' = Append(moc, b) PROVE HoldsQueue'
  BY <1>1, <1>2, HeadTailAppend, AppendType DEF HoldsQueue
<1>3. \A m \in Messages : Insert(m) \in Blocks
  BY BlockTypes
<1>4. Pass \in Blocks /\ \A o \in {"delivered", "rejected"} : Delete(o) \in Blocks
  BY BlockTypes
<1>5. ASSUME NEW m \in Messages, SendData(m) PROVE HoldsQueue'
  BY <1>2, <1>3, <1>5 DEF SendData, loopVars
<1>6. CASE RunInsert \/ RunDelete
  BY <1>6, BlockTypes DEF RunInsert, RunDelete, HoldsQueue, loopVars
<1>7. CASE LoopWaits \/ LoopSends \/ Crash
  BY <1>7 DEF LoopWaits, LoopSends, Crash, HoldsQueue
<1>8. CASE LoopFetches
  BY <1>8 DEF LoopFetches, HoldsQueue
<1>9. ASSUME NEW m \in Messages, Delivered(m) \/ Rejected(m) PROVE HoldsQueue'
  BY <1>2, <1>4, <1>9 DEF Delivered, Rejected, loopVars
<1>10. ASSUME NEW m \in Messages, Failed(m) PROVE HoldsQueue'
  BY <1>10 DEF Failed, queueVars, loopVars, HoldsQueue
<1>11. CASE Reconnect \/ ConnectHTTP \/ Reset \/ UNCHANGED vars
  BY <1>11 DEF Reconnect, ConnectHTTP, Reset, vars, queueVars, loopVars, HoldsQueue
<1> QED BY <1>5, <1>6, <1>7, <1>8, <1>9, <1>10, <1>11 DEF Next

LEMMA NextWedged == TypeOK /\ HoldsQueue /\ NeverWedged /\ [Next]_vars => NeverWedged'
<1> SUFFICES ASSUME TypeOK, HoldsQueue, NeverWedged, [Next]_vars PROVE NeverWedged'
  OBVIOUS
<1> DEFINE Led == \/ state' = "starting"
                  \/ \E m \in Messages : flight'[m] > 0
                  \/ timer' = "armed" \/ strayTimers' > 0
                  \/ ComesBack(moc')
<1>1. moc \in Seq(Blocks) /\ (moc # <<>> => Tail(moc) \in Seq(Blocks))
  BY TailType DEF TypeOK
<1>2. SUFFICES Led
  BY DEF NeverWedged, Deletes, ComesBack
<1>3. \/ state = "starting"
      \/ \E m \in Messages : flight[m] > 0
      \/ timer = "armed" \/ strayTimers > 0
      \/ ComesBack(moc)
  BY WedgedMeans
<1>4. ASSUME NEW b \in Blocks
      PROVE  /\ ComesBack(moc) => ComesBack(Append(moc, b))
             /\ b.op = "delivered" => ComesBack(Append(moc, b))
  BY <1>1, AppendDeletes DEF ComesBack
<1>5. moc # <<>> /\ Head(moc).op # "delivered" /\ ComesBack(moc) => ComesBack(Tail(moc))
  BY <1>1, TailDeletes DEF ComesBack
<1>6. ASSUME NEW m \in Messages, SendData(m) PROVE Led
  BY <1>3, <1>4, <1>6, BlockTypes DEF SendData, wireVars, timerVars
<1>7. CASE RunInsert
  BY <1>3, <1>5, <1>7 DEF RunInsert, wireVars, timerVars
<1>8. CASE LoopWaits
  BY <1>3, <1>4, <1>8, BlockTypes DEF LoopWaits, wireVars, timerVars
<1>9. CASE LoopFetches
  BY <1>3, <1>5, <1>9, BlockTypes DEF LoopFetches, wireVars, timerVars
<1>10. CASE LoopSends
  <2>1. moc # <<>> /\ Head(moc).op # "delivered" /\ moc' = Tail(moc)
    BY <1>10, BlockTypes DEF LoopSends, HoldsQueue
  <2>2. CASE state = "starting"
    <3>1. fetched.first \in Messages /\ flight' = [flight EXCEPT ![fetched.first] = @ + 1]
      BY <1>10, <2>2 DEF LoopSends, TypeOK
    <3>2. flight'[fetched.first] > 0
      BY <3>1 DEF TypeOK
    <3> QED BY <3>1, <3>2
  <2>3. CASE state # "starting"
    BY <1>3, <1>5, <1>10, <2>1, <2>3 DEF LoopSends, timerVars
  <2> QED BY <2>2, <2>3
<1>11. ASSUME NEW m \in Messages, Delivered(m) PROVE Led
  BY <1>4, <1>11, BlockTypes DEF Delivered
<1>12. ASSUME NEW m \in Messages, Rejected(m) \/ Failed(m) PROVE Led
  BY <1>12 DEF Rejected, Failed, StartReconnectTimer
<1>13. CASE RunDelete
  BY <1>3, <1>5, <1>13 DEF RunDelete, wireVars, timerVars
<1>14. CASE Reconnect \/ ConnectHTTP \/ Crash
  BY <1>14 DEF Reconnect, ConnectHTTP, Crash
<1>15. CASE Reset \/ UNCHANGED vars
  BY <1>3, <1>15 DEF Reset, vars, queueVars, wireVars, timerVars
<1> QED BY <1>6, <1>7, <1>8, <1>9, <1>10, <1>11, <1>12, <1>13, <1>14, <1>15 DEF Next

(* Whatever happens, however often, and in whatever order timers fire,     *)
(* completions arrive and blocks run: something will set the state back to *)
(* state_starting.                                                         *)
THEOREM AlwaysLeadsOn == SafeSpec => []NeverWedged
  BY InitType, NextType, InitHolds, NextHolds, NextWedged, PTL DEF SafeSpec

-----------------------------------------------------------------------------
(* Order. A message is stored once; while the clock runs forward, the rows *)
(* are in the order of the log and whatever is fetched, on the wire or     *)
(* answered has been stored.                                               *)

(* The pending inserts are of distinct messages out of S, none of L. *)
Fresh(q, L, S) ==
  /\ \A i \in DOMAIN q : q[i].op = "insert" => q[i].msg \in S \ L
  /\ \A i, j \in DOMAIN q :
       q[i].op = "insert" /\ q[j].op = "insert" /\ q[i].msg = q[j].msg => i = j

Distinct ==
  /\ Range(log) \subseteq submitted
  /\ \A i, j \in DOMAIN log : log[i] = log[j] => i = j
  /\ Fresh(moc, Range(log), submitted)

Forward == count["clockback"] = 0

Logged ==
  /\ Range(rows) \subseteq Range(log)
  /\ loop = "fetched" => fetched.first \in Range(log)
  /\ \A m \in Messages : flight[m] > 0 => m \in Range(log)
  /\ answered \subseteq Range(log)

Sorted(q) ==
  \A i, j \in DOMAIN q : \A a, b \in DOMAIN log :
    log[a] = q[i] /\ log[b] = q[j] /\ i < j => a < b

OrderInv == Distinct /\ (Forward => Logged /\ Sorted(rows))

LEMMA FreshAppend ==
  ASSUME NEW q \in Seq(Blocks), NEW b \in Blocks, NEW L, NEW S, Fresh(q, L, S)
  PROVE  /\ b.op # "insert" => Fresh(Append(q, b), L, S)
         /\ \A m \in Messages : b = Insert(m) /\ m \notin S /\ m \notin L
                                  => Fresh(Append(q, b), L, S \union {m})
<1> DEFINE n == Len(q) + 1
<1>1. /\ Len(q) \in Nat /\ DOMAIN q = 1..Len(q) /\ DOMAIN Append(q, b) = 1..n
      /\ Append(q, b)[n] = b
      /\ \A i \in 1..Len(q) : Append(q, b)[i] = q[i]
  BY AppendType, LenProperties
<1>2. ASSUME NEW i \in DOMAIN Append(q, b)
      PROVE  \/ i = n /\ Append(q, b)[i] = b
             \/ i \in DOMAIN q /\ Append(q, b)[i] = q[i]
  <2>1. CASE i = n
    <3> HIDE DEF n
    <3> QED BY <1>1, <2>1
  <2>2. CASE i # n
    <3>1. i \in 1..Len(q) + 1 /\ Len(q) \in Nat
      BY <1>1, Zenon
    <3>2. i \in 1..Len(q)
      BY <2>2, <3>1, Positions, Zenon
    <3> QED BY <1>1, <3>2, Zenon
  <2> QED BY <2>1, <2>2
<1> HIDE DEF n
<1>3. b.op # "insert" => Fresh(Append(q, b), L, S)
  BY <1>2 DEF Fresh
<1>4. ASSUME NEW m \in Messages, b = Insert(m), m \notin S, m \notin L
      PROVE  Fresh(Append(q, b), L, S \union {m})
  <2>1. b.msg = m
    BY <1>4 DEF Insert
  <2> QED BY <1>2, <1>4, <2>1 DEF Fresh
<1> QED BY <1>3, <1>4

LEMMA FreshTail ==
  ASSUME NEW q \in Seq(Blocks), q # <<>>, NEW L, NEW S, Fresh(q, L, S)
  PROVE  /\ Fresh(Tail(q), L, S)
         /\ Head(q).op = "insert" => /\ Head(q).msg \in S \ L
                                     /\ Fresh(Tail(q), L \union {Head(q).msg}, S)
<1>1. /\ Len(q) \in Nat \ {0} /\ DOMAIN q = 1..Len(q) /\ Head(q) = q[1]
      /\ DOMAIN Tail(q) = 1..Len(q) - 1
      /\ \A i \in 1..Len(q) - 1 : Tail(q)[i] = q[i + 1]
  BY TailType, LenProperties, EmptySeq
<1>2. \A i \in DOMAIN Tail(q) : i + 1 \in DOMAIN q /\ i + 1 # 1 /\ Tail(q)[i] = q[i + 1]
  BY <1>1
<1>3. 1 \in DOMAIN q
  BY <1>1
<1>4. \A i, j \in DOMAIN Tail(q) : i + 1 = j + 1 => i = j
  BY <1>1
<1>5. Fresh(Tail(q), L, S)
  BY <1>2, <1>4 DEF Fresh
<1>6. ASSUME Head(q).op = "insert"
      PROVE  Head(q).msg \in S \ L /\ Fresh(Tail(q), L \union {Head(q).msg}, S)
  <2>1. Head(q).msg \in S \ L
    BY <1>1, <1>3, <1>6 DEF Fresh
  <2>2. \A i \in DOMAIN Tail(q) : Tail(q)[i].op = "insert" => Tail(q)[i].msg # Head(q).msg
    BY <1>1, <1>2, <1>3, <1>6 DEF Fresh
  <2> QED BY <1>5, <2>1, <2>2 DEF Fresh
<1> QED BY <1>5, <1>6

(* A new message, stored last. *)
LEMMA LogGrows ==
  ASSUME TypeOK, NEW m \in Messages, m \notin Range(log), log' = Append(log, m)
  PROVE  /\ Range(log') = Range(log) \union {m}
         /\ DOMAIN log' = 1..Len(log) + 1 /\ DOMAIN log = 1..Len(log) /\ Len(log) \in Nat
         /\ log'[Len(log) + 1] = m
         /\ \A i \in DOMAIN log : log'[i] = log[i] /\ log[i] # m
<1>1. log \in Seq(Messages)
  BY DEF TypeOK
<1>2. Range(log') = Range(log) \union {m}
  BY <1>1, RangeChanges
<1>3. /\ DOMAIN log' = 1..Len(log) + 1 /\ DOMAIN log = 1..Len(log) /\ Len(log) \in Nat
      /\ log'[Len(log) + 1] = m
      /\ \A i \in DOMAIN log : log'[i] = log[i]
  BY <1>1, AppendType, LenProperties
<1>4. \A i \in DOMAIN log : log[i] # m
  BY DEF Range
<1> QED BY <1>2, <1>3, <1>4

LEMMA NextDistinct == TypeOK /\ Distinct /\ [Next]_vars => Distinct'
<1> SUFFICES ASSUME TypeOK, Distinct, [Next]_vars PROVE Distinct'
  OBVIOUS
<1>1. moc \in Seq(Blocks)
  BY DEF TypeOK
<1> DEFINE L == Range(log)
<1>2. ASSUME UNCHANGED <<log, submitted>>, Fresh(moc', L, submitted) PROVE Distinct'
  BY <1>2 DEF Distinct
<1>3. Fresh(moc, L, submitted)
  BY DEF Distinct
<1>4. ASSUME NEW m \in Messages, SendData(m) PROVE Distinct'
  <2>1. moc' = Append(moc, Insert(m)) /\ submitted' = submitted \union {m}
        /\ m \notin submitted /\ UNCHANGED log
    BY <1>4 DEF SendData, pastVars
  <2>2. m \notin L
    BY <2>1 DEF Distinct
  <2>3. Fresh(moc', L, submitted')
    <3> HIDE DEF L
    <3> QED BY <1>1, <1>3, <2>1, <2>2, BlockTypes, FreshAppend
  <2> QED BY <2>1, <2>3 DEF Distinct
<1>5. CASE RunInsert
  <2> DEFINE m == Head(moc).msg
  <2>1. moc # <<>> /\ Head(moc) \in Blocks /\ Head(moc).op = "insert" /\ moc' = Tail(moc)
        /\ log' = Append(log, m) /\ UNCHANGED submitted
    BY <1>1, <1>5, TailType DEF RunInsert
  <2>2. m \in Messages
    BY <2>1, BlockTypes
  <2>3. m \in submitted \ L /\ Fresh(moc', L \union {m}, submitted)
    <3> HIDE DEF L
    <3> QED BY <1>1, <1>3, <2>1, FreshTail
  <2> HIDE DEF m
  <2>4. /\ Range(log') = Range(log) \union {m}
        /\ DOMAIN log' = 1..Len(log) + 1 /\ DOMAIN log = 1..Len(log) /\ Len(log) \in Nat
        /\ log'[Len(log) + 1] = m
        /\ \A i \in DOMAIN log : log'[i] = log[i] /\ log[i] # m
    BY <2>1, <2>2, <2>3, LogGrows
  <2>5. \A i \in DOMAIN log' : i \in DOMAIN log \/ i = Len(log) + 1
    BY <2>4
  <2>6. \A i, j \in DOMAIN log' : log'[i] = log'[j] => i = j
    BY <2>4, <2>5 DEF Distinct
  <2> QED BY <2>1, <2>3, <2>4, <2>6 DEF Distinct
<1>6. CASE LoopWaits
  BY <1>1, <1>2, <1>3, <1>6, BlockTypes, FreshAppend DEF LoopWaits, pastVars
<1>7. CASE LoopFetches \/ LoopSends \/ RunDelete
  <2>1. moc' = moc \/ moc' = Tail(moc)
    BY <1>7 DEF LoopFetches, LoopSends, RunDelete
  <2>2. Fresh(moc', L, submitted)
    <3>1. CASE moc # <<>>
      BY <1>1, <1>3, <2>1, <3>1, FreshTail
    <3>2. CASE moc = <<>>
      <4>1. DOMAIN moc' = {}
        BY <2>1, <3>2
      <4> QED BY <4>1 DEF Fresh
    <3> QED BY <3>1, <3>2
  <2>3. UNCHANGED <<log, submitted>>
    BY <1>7 DEF LoopFetches, LoopSends, RunDelete, pastVars
  <2> QED BY <1>2, <2>2, <2>3
<1>8. ASSUME NEW m \in Messages, Delivered(m) \/ Rejected(m) PROVE Distinct'
  <2>1. PICK o \in {"delivered", "rejected"} : moc' = Append(moc, Delete(o))
    BY <1>8 DEF Delivered, Rejected
  <2>2. Fresh(moc', L, submitted)
    BY <1>1, <1>3, <2>1, BlockTypes, FreshAppend
  <2> QED BY <1>2, <1>8, <2>2 DEF Delivered, Rejected, pastVars
<1>9. CASE Crash
  <2>1. DOMAIN moc' = {}
    BY <1>9 DEF Crash
  <2>2. Fresh(moc', L, submitted)
    BY <2>1 DEF Fresh
  <2> QED BY <1>2, <1>9, <2>2 DEF Crash, pastVars
<1>10. CASE \/ \E m \in Messages : Failed(m)
            \/ Reconnect \/ ConnectHTTP \/ Reset \/ UNCHANGED vars
  BY <1>2, <1>3, <1>10 DEF Failed, Reconnect, ConnectHTTP, Reset, vars, queueVars, pastVars
<1> QED BY <1>4, <1>5, <1>6, <1>7, <1>8, <1>9, <1>10 DEF Next

(* What a row that comes or goes does to the order. *)
LEMMA SortedChanges ==
  ASSUME TypeOK, Sorted(rows)
  PROVE  /\ rows # <<>> => Sorted(Tail(rows)) /\ Range(Tail(rows)) \subseteq Range(rows)
         /\ rows # <<>> => Sorted(Front(rows)) /\ Range(Front(rows)) \subseteq Range(rows)
         /\ Sorted(<<>>)
<1>1. rows \in Seq(Messages) /\ DOMAIN rows = 1..Len(rows) /\ Len(rows) \in Nat
  BY LenProperties DEF TypeOK
<1>2. ASSUME rows # <<>>
      PROVE  Sorted(Tail(rows)) /\ Range(Tail(rows)) \subseteq Range(rows)
  <2>1. /\ DOMAIN Tail(rows) = 1..Len(rows) - 1
        /\ \A i \in 1..Len(rows) - 1 : Tail(rows)[i] = rows[i + 1]
    BY <1>1, <1>2, TailType, LenProperties
  <2>2. \A i \in DOMAIN Tail(rows) : i \in Int /\ i + 1 \in DOMAIN rows /\ Tail(rows)[i] = rows[i + 1]
    BY <1>1, <2>1
  <2>3. \A i, j \in DOMAIN Tail(rows) : i < j => i + 1 < j + 1
    BY <2>2
  <2>4. Sorted(Tail(rows))
    BY <2>2, <2>3 DEF Sorted
  <2> QED BY <2>2, <2>4 DEF Range
<1>3. ASSUME rows # <<>>
      PROVE  Sorted(Front(rows)) /\ Range(Front(rows)) \subseteq Range(rows)
  <2>1. /\ DOMAIN Front(rows) = 1..Len(rows) - 1
        /\ \A i \in 1..Len(rows) - 1 : Front(rows)[i] = rows[i]
    BY <1>1, <1>3, FrontType, LenProperties
  <2>2. \A i \in DOMAIN Front(rows) : i \in DOMAIN rows /\ Front(rows)[i] = rows[i]
    BY <1>1, <2>1
  <2>3. Sorted(Front(rows))
    BY <2>2 DEF Sorted
  <2> QED BY <2>2, <2>3 DEF Range
<1>4. Sorted(<<>>)
  BY DEF Sorted
<1> QED BY <1>2, <1>3, <1>4

LEMMA RunInsertOrder ==
  ASSUME TypeOK, Distinct, Logged, Sorted(rows), RunInsert, ~ Happens("clockback")
  PROVE  Logged' /\ Sorted(rows)'
<1> DEFINE m == Head(moc).msg
<1>1. /\ moc \in Seq(Blocks) /\ moc # <<>> /\ Head(moc) \in Blocks /\ Head(moc).op = "insert"
      /\ rows' = Append(rows, m) /\ log' = Append(log, m)
      /\ UNCHANGED <<loop, fetched, flight, answered>>
  BY TailType DEF RunInsert, TypeOK, loopVars, wireVars
<1>2. m \in Messages /\ m \notin Range(log)
  BY <1>1, BlockTypes, FreshTail DEF Distinct
<1> HIDE DEF m
<1>3. /\ Range(log') = Range(log) \union {m}
      /\ DOMAIN log' = 1..Len(log) + 1 /\ DOMAIN log = 1..Len(log) /\ Len(log) \in Nat
      /\ log'[Len(log) + 1] = m
      /\ \A i \in DOMAIN log : log'[i] = log[i] /\ log[i] # m
  BY <1>1, <1>2, LogGrows
<1>4. /\ rows \in Seq(Messages) /\ DOMAIN rows = 1..Len(rows) /\ Len(rows) \in Nat
      /\ DOMAIN rows' = 1..Len(rows) + 1
      /\ rows'[Len(rows) + 1] = m
      /\ \A i \in DOMAIN rows : rows'[i] = rows[i]
      /\ Range(rows') = Range(rows) \union {m}
  BY <1>1, <1>2, AppendType, LenProperties, RangeChanges DEF TypeOK
<1>5. Logged'
  BY <1>1, <1>3, <1>4 DEF Logged
<1>6. ASSUME NEW i \in DOMAIN rows', NEW j \in DOMAIN rows',
             NEW a \in DOMAIN log', NEW b \in DOMAIN log',
             log'[a] = rows'[i], log'[b] = rows'[j], i < j
      PROVE  a < b
  <2>1. i \in DOMAIN rows /\ rows[i] \in Range(log) /\ rows'[i] = rows[i]
    <3>1. i \in 1..Len(rows)
      BY <1>4, <1>6
    <3> QED BY <1>4, <3>1 DEF Logged, Range
  <2>2. a \in DOMAIN log /\ log[a] = rows[i]
    <3>1. a \in DOMAIN log \/ a = Len(log) + 1
      BY <1>3
    <3>2. a # Len(log) + 1
      BY <1>2, <1>3, <1>6, <2>1
    <3> QED BY <1>3, <1>6, <2>1, <3>1, <3>2
  <2>3. CASE j \in DOMAIN rows
    <3>1. b \in DOMAIN log \/ b = Len(log) + 1
      BY <1>3
    <3>2. rows[j] \in Range(log) /\ rows'[j] = rows[j]
      BY <1>4, <2>3 DEF Logged, Range
    <3>3. b \in DOMAIN log /\ log[b] = rows[j]
      BY <1>2, <1>3, <1>6, <3>1, <3>2
    <3> QED BY <1>6, <2>1, <2>2, <2>3, <3>3 DEF Sorted
  <2>4. CASE j \notin DOMAIN rows
    <3>1. j = Len(rows) + 1
      BY <1>4, <2>4
    <3>2. log'[b] = m
      BY <1>4, <1>6, <3>1
    <3>3. b = Len(log) + 1
      <4>1. b \in DOMAIN log \/ b = Len(log) + 1
        BY <1>3
      <4> QED BY <1>3, <3>2, <4>1
    <3> QED BY <1>3, <2>2, <3>3
  <2> QED BY <2>3, <2>4
<1> QED BY <1>5, <1>6 DEF Sorted

LEMMA NextOrder ==
  TypeOK /\ OrderInv /\ [Next]_vars => OrderInv'
<1> SUFFICES ASSUME TypeOK, Distinct, Forward => Logged /\ Sorted(rows), [Next]_vars, Forward'
             PROVE  Logged' /\ Sorted(rows)'
  BY NextDistinct DEF OrderInv
<1>1. Forward /\ ~ Happens("clockback")
  <2>1. count \in [Disturbances -> Nat] /\ "clockback" \in Disturbances
    BY DEF TypeOK, Disturbances
  <2>2. \A d \in Disturbances : Happens(d) => count'["clockback"] >= count["clockback"]
    BY <2>1 DEF Happens
  <2>3. Happens("clockback") => count'["clockback"] = count["clockback"] + 1
    BY <2>1 DEF Happens
  <2>4. UNCHANGED count \/ \E d \in Disturbances : Happens(d)
    BY DEF Next, SendData, RunInsert, LoopWaits, LoopFetches, LoopSends, Delivered,
           Rejected, Failed, RunDelete, Reconnect, ConnectHTTP, Reset, Crash, vars,
           Disturbances
  <2>5. count["clockback"] \in Nat /\ count'["clockback"] = 0
    BY <2>1 DEF Forward
  <2>6. count["clockback"] = 0
    BY <2>2, <2>4, <2>5
  <2>7. ~ Happens("clockback")
    BY <2>3, <2>5
  <2> QED BY <2>6, <2>7 DEF Forward
<1>2. Logged /\ Sorted(rows)
  BY <1>1
<1>3. CASE RunInsert
  BY <1>1, <1>2, <1>3, RunInsertOrder
<1>4. CASE LoopFetches
  <2>1. UNCHANGED <<rows, log, flight, answered>>
    BY <1>4 DEF LoopFetches, wireVars, pastVars
  <2>2. rows # <<>> => Head(rows) \in Range(rows)
    BY TailType, EmptySeq, LenProperties DEF TypeOK, Range
  <2> QED BY <1>2, <1>4, <2>1, <2>2 DEF LoopFetches, Logged, Sorted
<1>5. CASE LoopSends
  <2>1. rows' = rows \/ (rows # <<>> /\ rows' = Front(rows))
    BY <1>5 DEF LoopSends
  <2>2. UNCHANGED <<log, answered>> /\ loop' = "idle"
    BY <1>5 DEF LoopSends, pastVars
  <2>3. \A m \in Messages : flight'[m] > 0 => flight[m] > 0 \/ m = fetched.first
    BY <1>5 DEF LoopSends, TypeOK
  <2>4. fetched.first \in Range(log)
    BY <1>2, <1>5 DEF LoopSends, Logged
  <2>5. Range(rows') \subseteq Range(rows) /\ Sorted(rows')
    BY <1>2, <2>1, SortedChanges
  <2>6. Logged'
    BY <1>2, <2>2, <2>3, <2>4, <2>5 DEF Logged
  <2> QED BY <2>2, <2>5, <2>6 DEF Sorted
<1>6. ASSUME NEW m \in Messages, Delivered(m) \/ Rejected(m) \/ Failed(m)
      PROVE  Logged' /\ Sorted(rows)'
  <2>1. UNCHANGED <<rows, log, loop, fetched>> /\ Completes(m)
        /\ (answered' = answered \union {m} \/ answered' = answered)
    BY <1>6 DEF Delivered, Rejected, Failed, queueVars, loopVars, pastVars
  <2>2. m \in Range(log) /\ \A n \in Messages : flight'[n] > 0 => flight[n] > 0
    BY <1>2, <2>1 DEF Completes, Logged, TypeOK
  <2> QED BY <1>2, <2>1, <2>2 DEF Logged, Sorted
<1>7. CASE RunDelete
  <2>1. UNCHANGED <<log, loop, fetched, flight, answered>>
        /\ (rows' = rows \/ (rows # <<>> /\ rows' = Tail(rows)))
    BY <1>7 DEF RunDelete, loopVars, wireVars
  <2>2. Range(rows') \subseteq Range(rows) /\ Sorted(rows')
    BY <1>2, <2>1, SortedChanges
  <2> QED BY <1>2, <2>1, <2>2 DEF Logged, Sorted
<1>8. CASE Reset
  <2>1. rows' = <<>> /\ UNCHANGED <<log, loop, fetched, flight, answered>>
    BY <1>8 DEF Reset, loopVars, wireVars
  <2>2. Range(rows') = {}
    BY <2>1 DEF Range
  <2> QED BY <1>2, <2>1, <2>2, SortedChanges DEF Logged, Sorted
<1>9. CASE Crash
  BY <1>2, <1>9 DEF Crash, pastVars, Logged, Sorted
<1>10. CASE \/ \E m \in Messages : SendData(m)
            \/ LoopWaits \/ Reconnect \/ ConnectHTTP \/ UNCHANGED vars
  <2>1. UNCHANGED <<rows, log, fetched, flight, answered>>
        /\ (loop' = "fetched" => loop = "fetched")
    BY <1>10 DEF SendData, LoopWaits, Reconnect, ConnectHTTP, vars, queueVars, loopVars,
                 wireVars, pastVars
  <2> QED BY <1>2, <2>1 DEF Logged, Sorted
<1> QED BY <1>3, <1>4, <1>5, <1>6, <1>7, <1>8, <1>9, <1>10 DEF Next

LEMMA InitOrder == Init => OrderInv
<1> SUFFICES ASSUME Init PROVE OrderInv
  OBVIOUS
<1>1. DOMAIN rows = {} /\ DOMAIN log = {} /\ DOMAIN moc = {} /\ Range(rows) = {} /\ Range(log) = {}
  BY DEF Init, Range
<1> QED BY <1>1 DEF Init, OrderInv, Distinct, Fresh, Logged, Sorted

-----------------------------------------------------------------------------
(* The order of the answers: the row that is answered is the first, and    *)
(* what was stored before it is not in the rows any more.                  *)

LEMMA AnswerOrder ==
  ASSUME TypeOK, OrderlyInv, Distinct, Logged, Sorted(rows), AnsweredInOrder, Orderly,
         NEW m \in Messages, Completes(m), answered' = answered \union {m},
         UNCHANGED <<log, dropped>>
  PROVE  AnsweredInOrder'
<1>1. rows # <<>> /\ m = Head(rows)
  BY CompletionOfFirst
<1>2. /\ rows \in Seq(Messages) /\ DOMAIN rows = 1..Len(rows) /\ Len(rows) \in Nat \ {0}
      /\ Head(rows) = rows[1]
      /\ DOMAIN log = 1..Len(log) /\ Len(log) \in Nat
  BY <1>1, EmptySeq, LenProperties DEF TypeOK
<1>3. SUFFICES ASSUME NEW j \in DOMAIN log, log[j] \in answered', NEW i \in 1..j
               PROVE  log[i] \in answered' \union dropped
  BY DEF AnsweredInOrder
<1>4. CASE log[j] \in answered
  BY <1>3, <1>4 DEF AnsweredInOrder
<1>5. CASE log[j] = m
  <2>1. i \in DOMAIN log /\ j \in Nat /\ i \in Nat /\ i <= j
    BY <1>2
  <2>2. CASE log[i] \in Range(rows)
    <3>1. PICK k \in DOMAIN rows : rows[k] = log[i]
      BY <2>2 DEF Range
    <3>2. CASE k = 1
      BY <1>1, <1>2, <3>1, <3>2
    <3>3. CASE k # 1
      <4>1. 1 \in DOMAIN rows /\ 1 < k
        BY <1>2, <3>3
      <4>2. log[j] = rows[1]
        BY <1>1, <1>2, <1>5
      <4>3. j < i
        BY <2>1, <3>1, <4>1, <4>2 DEF Sorted
      <4> QED BY <2>1, <4>3
    <3> QED BY <3>2, <3>3
  <2>3. CASE log[i] \notin Range(rows)
    <3>1. log[i] \in Range(log)
      BY <2>1 DEF Range
    <3> QED BY <2>3, <3>1 DEF OrderlyInv, Kept
  <2> QED BY <2>2, <2>3
<1> QED BY <1>3, <1>4, <1>5

LEMMA NextAnswers ==
  IInv /\ OrderInv /\ AnsweredInOrder /\ [Next]_vars => AnsweredInOrder'
<1> SUFFICES ASSUME IInv, OrderInv, AnsweredInOrder, [Next]_vars, Orderly'
             PROVE  AnsweredInOrder'
  BY DEF AnsweredInOrder, Orderly
<1>1. Orderly /\ TypeOK /\ OrderlyInv
  BY OrderlyBefore DEF IInv
<1>2. Distinct /\ Logged /\ Sorted(rows)
  BY <1>1 DEF OrderInv, Forward, Orderly, Disturbances
<1>3. CASE RunInsert
  <2> DEFINE m == Head(moc).msg
  <2>1. /\ moc \in Seq(Blocks) /\ moc # <<>> /\ Head(moc) \in Blocks
        /\ Head(moc).op = "insert"
        /\ log' = Append(log, m) /\ UNCHANGED <<answered, dropped>>
    BY <1>1, <1>3, TailType DEF RunInsert, TypeOK, wireVars
  <2>2. m \in Messages /\ m \notin Range(log)
    BY <1>2, <2>1, BlockTypes, FreshTail DEF Distinct
  <2> HIDE DEF m
  <2>3. /\ DOMAIN log' = 1..Len(log) + 1 /\ DOMAIN log = 1..Len(log) /\ Len(log) \in Nat
        /\ log'[Len(log) + 1] = m
        /\ \A i \in DOMAIN log : log'[i] = log[i] /\ log[i] # m
    BY <1>1, <2>1, <2>2, LogGrows
  <2>4. m \notin answered
    BY <1>2, <2>2 DEF Logged
  <2> SUFFICES ASSUME NEW j \in DOMAIN log', log'[j] \in answered, NEW i \in 1..j
               PROVE  log'[i] \in answered \union dropped
    BY <2>1 DEF AnsweredInOrder
  <2>5. j \in DOMAIN log /\ log[j] \in answered
    <3>1. j \in DOMAIN log \/ j = Len(log) + 1
      BY <2>3
    <3> QED BY <2>3, <2>4, <3>1
  <2>6. log[i] \in answered \union dropped
    BY <1>1, <2>5 DEF AnsweredInOrder
  <2>7. i \in DOMAIN log
    BY <2>3, <2>5
  <2> QED BY <2>3, <2>6, <2>7
<1>4. ASSUME NEW m \in Messages, Delivered(m) \/ Rejected(m) PROVE AnsweredInOrder'
  BY <1>1, <1>2, <1>4, AnswerOrder DEF Delivered, Rejected, pastVars
<1>5. CASE UNCHANGED <<log, answered>> /\ dropped \subseteq dropped'
  BY <1>1, <1>5 DEF AnsweredInOrder
<1>6. CASE \/ \E m \in Messages : SendData(m) \/ Failed(m)
           \/ LoopWaits \/ LoopFetches \/ LoopSends \/ RunDelete
           \/ Reconnect \/ ConnectHTTP \/ Reset \/ Crash \/ UNCHANGED vars
  <2>1. UNCHANGED <<log, answered>> /\ dropped \subseteq dropped'
    BY <1>6 DEF SendData, Failed, LoopWaits, LoopFetches, LoopSends, RunDelete, Reconnect,
                ConnectHTTP, Reset, Crash, vars, wireVars, pastVars
  <2> QED BY <1>5, <2>1
<1> QED BY <1>3, <1>4, <1>6 DEF Next

LEMMA InitAnswers == Init => AnsweredInOrder
<1> SUFFICES ASSUME Init PROVE AnsweredInOrder
  OBVIOUS
<1>1. DOMAIN log = {}
  BY DEF Init
<1> QED BY <1>1 DEF AnsweredInOrder

(* For every set of messages, every capacity and any number of crashes, an *)
(* orderly queue is answered in the order in which the messages were       *)
(* stored, overflow aside.                                                 *)
THEOREM AnswersInOrder == SafeSpec => []AnsweredInOrder
<1>1. IInv => TypeOK
  BY DEF IInv
<1> QED BY <1>1, InitInv, NextInv, InitOrder, NextOrder, InitAnswers, NextAnswers, PTL
        DEF SafeSpec

-----------------------------------------------------------------------------
(* The refinement of Outbox, but for its progress. *)

LEMMA StepRefines ==
  ASSUME TypeOK, OrderlyInv, Orderly, Orderly', [Next]_vars
  PROVE  [Promise!Next]_(Promise!vars)
<1>1. \A d \in Disturbances \ {"crash"} : ~ Happens(d)
  BY OrderlyBefore
<1>2. ~ ConnectHTTP /\ ~ Reset /\ ~ Happens("clockback")
  BY <1>1 DEF ConnectHTTP, Reset, Disturbances
<1>3. CASE RunInsert
  <2>1. moc # <<>> /\ Head(moc) \in Blocks /\ Head(moc).op = "insert"
    BY <1>3, TailType DEF RunInsert, TypeOK
  <2>2. Head(moc).msg \in Messages
    BY <2>1, BlockTypes
  <2>3. Promise!Store(Head(moc).msg)
    BY <1>2, <1>3 DEF RunInsert, Promise!Store, wireVars
  <2> QED BY <2>2, <2>3 DEF Promise!Next
<1>4. CASE LoopSends
  <2>1. rows # <<>> /\ fetched.size = Len(rows) /\ UNCHANGED answered
    BY <1>4 DEF LoopSends, OrderlyInv, Held
  <2>2. CASE fetched.size > Capacity
    BY <1>4, <2>1, <2>2 DEF LoopSends, Promise!DropNewest, Promise!Next, Front, Promise!Front
  <2>3. CASE ~ (fetched.size > Capacity)
    BY <1>4, <2>1, <2>3 DEF LoopSends, Promise!vars
  <2> QED BY <2>2, <2>3
<1>5. ASSUME NEW m \in Messages, Delivered(m) \/ Rejected(m)
      PROVE  [Promise!Next]_(Promise!vars)
  <2>1. Completes(m) /\ answered' = answered \union {m} /\ UNCHANGED rows
    BY <1>5 DEF Delivered, Rejected
  <2>2. rows # <<>> /\ m = Head(rows)
    BY <2>1, CompletionOfFirst
  <2>3. CASE m \in answered
    BY <2>1, <2>3 DEF Promise!vars
  <2>4. CASE m \notin answered
    BY <2>1, <2>2, <2>4 DEF Promise!AnswerHead, Promise!Next
  <2> QED BY <2>3, <2>4
<1>6. CASE RunDelete
  <2>1. moc # <<>> /\ IsDelete(Head(moc)) /\ moc \in Seq(Blocks)
    BY <1>6 DEF RunDelete, IsDelete, TypeOK
  <2>2. 1 \in DOMAIN moc /\ moc[1] = Head(moc)
    BY <2>1, EmptySeq, LenProperties
  <2>3. rows # <<>> /\ Head(rows) \in answered
    BY <2>1, <2>2 DEF OrderlyInv, Pending, DeleteIsDue, NoDelete
  <2> QED BY <1>6, <2>3 DEF RunDelete, Promise!RemoveHead, Promise!Next, wireVars
<1>7. CASE \/ \E m \in Messages : SendData(m) \/ Failed(m)
           \/ LoopWaits \/ LoopFetches \/ Reconnect \/ Crash \/ UNCHANGED vars
  BY <1>7 DEF SendData, Failed, LoopWaits, LoopFetches, Reconnect, Crash, vars, queueVars,
              wireVars, Promise!vars
<1> QED BY <1>2, <1>3, <1>4, <1>5, <1>6, <1>7 DEF Next

(* When nothing but crashes may disturb it, the HTTP queue keeps what      *)
(* Outbox promises: a message leaves only from the front and only answered,*)
(* or from the back of a queue over its capacity.                          *)
THEOREM RefinesOutbox ==
  ASSUME \A d \in Disturbances \ {"crash"} : Limit[d] = 0
  PROVE  SafeSpec => Promise!SafeSpec
<1>1. Init => Promise!Init /\ Orderly
  BY DEF Init, Promise!Init, Orderly, Disturbances
<1>2. TypeOK /\ Orderly /\ [Next]_vars => Orderly'
  <2> SUFFICES ASSUME TypeOK, Orderly, [Next]_vars PROVE Orderly'
    OBVIOUS
  <2>1. UNCHANGED count \/ \E d \in Disturbances : Happens(d)
    BY DEF Next, SendData, RunInsert, LoopWaits, LoopFetches, LoopSends, Delivered,
           Rejected, Failed, RunDelete, Reconnect, ConnectHTTP, Reset, Crash, vars,
           Disturbances
  <2>2. \A d \in Disturbances \ {"crash"} : ~ Happens(d)
    BY DEF Happens, Orderly
  <2>3. Happens("crash") => \A d \in Disturbances \ {"crash"} : count'[d] = count[d]
    BY DEF Happens, TypeOK
  <2> QED BY <2>1, <2>2, <2>3 DEF Orderly
<1>3. IInv /\ Orderly /\ Orderly' /\ [Next]_vars => [Promise!Next]_(Promise!vars)
  BY StepRefines DEF IInv
<1>4. IInv => TypeOK
  BY DEF IInv
<1> QED BY <1>1, <1>2, <1>3, <1>4, InitInv, NextInv, PTL DEF SafeSpec, Promise!SafeSpec

-----------------------------------------------------------------------------
(* No answered message goes out again, resets of the queue included. A     *)
(* reset may take the row a pass has fetched, a request carries or a       *)
(* delete is pending for, so the rows no longer tell what is on its way;   *)
(* but an answered message that is still a row is the first one, and its   *)
(* delete is pending, which bars the state a pass would post it in.        *)

Calm == \A d \in Disturbances \ {"reset"} : count[d] = 0

First(m) == m \in Range(rows) => m = Head(rows)

OneRequest(m) ==
  /\ flight[m] = 1 /\ m \notin answered /\ First(m)
  /\ \A n \in Messages \ {m} : flight[n] = 0

CalmWire ==
  /\ state = "connecting" => \E m \in Messages : OneRequest(m)
  /\ state # "connecting" => Silent

CalmDeletes ==
  /\ state \in {"starting", "connecting"} => NoDelete(moc)
  /\ state = "connected" => ComesBack(moc)
  /\ state = "error" => ~ ComesBack(moc)
  /\ OneDelete(moc)

CalmPass ==
  loop = "fetched" => /\ First(fetched.first)
                      /\ fetched.first \in answered => ~ NoDelete(moc)

CalmRows == \A m \in answered \intersect Range(rows) : m = Head(rows) /\ ~ NoDelete(moc)

CalmInv == CalmWire /\ CalmDeletes /\ Timers /\ CalmPass /\ CalmRows

LEMMA CalmBefore ==
  ASSUME TypeOK, [Next]_vars, Calm'
  PROVE  Calm /\ \A d \in Disturbances \ {"reset"} : ~ Happens(d)
<1>1. ASSUME NEW d \in Disturbances, Happens(d)
      PROVE  \A c \in Disturbances : count'[c] = IF c = d THEN count[c] + 1 ELSE count[c]
  BY <1>1 DEF Happens, TypeOK
<1>2. \A c \in Disturbances : count[c] \in Nat
  BY DEF TypeOK
<1>3. ASSUME NEW d \in Disturbances \ {"reset"}, Happens(d) PROVE FALSE
  BY <1>1, <1>2, <1>3 DEF Calm
<1>4. UNCHANGED count \/ \E d \in Disturbances : Happens(d)
  BY DEF Next, SendData, RunInsert, LoopWaits, LoopFetches, LoopSends, Delivered,
         Rejected, Failed, RunDelete, Reconnect, ConnectHTTP, Reset, Crash, vars,
         Disturbances
<1>5. CASE UNCHANGED count
  BY <1>3, <1>5 DEF Calm
<1>6. CASE \E d \in Disturbances : Happens(d)
  BY <1>1, <1>2, <1>3, <1>6 DEF Calm
<1> QED BY <1>3, <1>4, <1>5, <1>6

(* The rows are distinct, so the first one occurs once. *)
LEMMA FirstRow ==
  ASSUME TypeOK, Logged, Sorted(rows), rows # <<>>
  PROVE  /\ Head(rows) \notin Range(Tail(rows))
         /\ Head(rows) \in Range(Front(rows)) => Head(Front(rows)) = Head(rows)
         /\ Range(Tail(rows)) \subseteq Range(rows)
         /\ Range(Front(rows)) \subseteq Range(rows)
<1>1. /\ rows \in Seq(Messages) /\ DOMAIN rows = 1..Len(rows) /\ Len(rows) \in Nat \ {0}
      /\ Head(rows) = rows[1]
      /\ DOMAIN Tail(rows) = 1..Len(rows) - 1
      /\ \A i \in 1..Len(rows) - 1 : Tail(rows)[i] = rows[i + 1]
  BY EmptySeq, TailType, LenProperties DEF TypeOK
<1>2. Range(Tail(rows)) \subseteq Range(rows) /\ Range(Front(rows)) \subseteq Range(rows)
  BY SortedChanges
<1>3. Head(rows) \notin Range(Tail(rows))
  <2> SUFFICES ASSUME NEW i \in 1..Len(rows) - 1, Tail(rows)[i] = rows[1] PROVE FALSE
    BY <1>1 DEF Range
  <2>1. i + 1 \in DOMAIN rows /\ 1 \in DOMAIN rows /\ 1 < i + 1 /\ rows[i + 1] = rows[1]
    BY <1>1
  <2>2. PICK a \in DOMAIN log : log[a] = rows[1]
    BY <2>1 DEF Logged, Range
  <2>3. a < a /\ a \in Int
    <3>1. a < a
      BY <2>1, <2>2 DEF Sorted
    <3>2. log \in Seq(Messages)
      BY DEF TypeOK
    <3>3. DOMAIN log = 1..Len(log)
      BY <3>2, LenProperties
    <3> QED BY <3>1, <3>3
  <2> QED BY <2>3
<1>4. ASSUME Head(rows) \in Range(Front(rows)) PROVE Head(Front(rows)) = Head(rows)
  <2>1. /\ Front(rows) \in Seq(Messages) /\ Len(Front(rows)) = Len(rows) - 1
        /\ DOMAIN Front(rows) = 1..Len(rows) - 1
        /\ \A i \in 1..Len(rows) - 1 : Front(rows)[i] = rows[i]
    BY <1>1, FrontType, LenProperties
  <2>2. 1 \in 1..Len(rows) - 1
    BY <1>1, <1>4, <2>1 DEF Range
  <2>3. Front(rows) # <<>>
    BY <2>1, <2>2, EmptySeq
  <2> QED BY <1>1, <2>1, <2>2, <2>3
<1> QED BY <1>2, <1>3, <1>4

LEMMA CalmInsert ==
  ASSUME TypeOK, Distinct, Logged, HoldsQueue, CalmInv, RunInsert, ~ Happens("clockback")
  PROVE  CalmInv'
<1> DEFINE e == Head(moc).msg
<1>1. /\ moc \in Seq(Blocks) /\ moc # <<>> /\ moc' = Tail(moc)
      /\ Head(moc) \in Blocks /\ Head(moc).op = "insert"
      /\ rows' = Append(rows, e)
      /\ UNCHANGED <<state, loop, fetched, flight, answered, timer, strayTimers>>
  BY TailType DEF RunInsert, TypeOK, loopVars, wireVars, timerVars
<1>2. e \in Messages /\ e \notin Range(log) /\ loop # "fetched"
  BY <1>1, BlockTypes, FreshTail DEF Distinct, HoldsQueue
<1> HIDE DEF e
<1>3. /\ Range(rows') = Range(rows) \union {e}
      /\ rows # <<>> => Head(rows') = Head(rows)
  BY <1>1, <1>2, RangeChanges, HeadTailAppend DEF TypeOK
<1>4. \A m : m \in Range(rows) => rows # <<>>
  BY DEF Range
<1>5. \A m \in Range(log) : First(m) => First(m)'
  BY <1>2, <1>3, <1>4 DEF First
<1>6. /\ NoDelete(moc) <=> NoDelete(moc')
      /\ ComesBack(moc) => ComesBack(moc')
      /\ ~ ComesBack(moc) => ~ ComesBack(moc')
      /\ OneDelete(moc) => OneDelete(moc')
  BY <1>1, TailDeletes DEF IsDelete, ComesBack
<1>7. CalmWire'
  <2>1. ASSUME NEW m \in Messages, OneRequest(m) PROVE OneRequest(m)'
    <3>1. m \in Range(log)
      BY <2>1 DEF OneRequest, Logged
    <3> QED BY <1>1, <1>5, <2>1, <3>1 DEF OneRequest
  <2> QED BY <1>1, <2>1 DEF CalmInv, CalmWire, Silent
<1>8. CalmDeletes' /\ Timers'
  BY <1>1, <1>6 DEF CalmInv, CalmDeletes, Timers
<1>9. CalmPass'
  BY <1>1, <1>2 DEF CalmPass
<1>10. CalmRows'
  BY <1>1, <1>2, <1>3, <1>4, <1>6 DEF CalmInv, CalmRows, Logged
<1> QED BY <1>7, <1>8, <1>9, <1>10 DEF CalmInv

LEMMA CalmFetches ==
  ASSUME TypeOK, CalmInv, LoopFetches
  PROVE  CalmInv'
<1>1. /\ moc \in Seq(Blocks) /\ moc # <<>> /\ Head(moc) = Pass
      /\ ~ IsDelete(Head(moc)) /\ Head(moc).op # "delivered"
      /\ UNCHANGED <<state, rows, flight, answered, timer, strayTimers>>
  BY BlockTypes DEF LoopFetches, TypeOK, wireVars, timerVars, IsDelete
<1>2. moc' = moc \/ moc' = Tail(moc)
  BY DEF LoopFetches
<1>3. /\ NoDelete(moc) <=> NoDelete(moc')
      /\ ComesBack(moc) => ComesBack(moc')
      /\ ~ ComesBack(moc) => ~ ComesBack(moc')
      /\ OneDelete(moc) => OneDelete(moc')
  BY <1>1, <1>2, TailDeletes DEF ComesBack
<1>4. CalmWire' /\ CalmDeletes' /\ Timers' /\ CalmRows'
  BY <1>1, <1>3 DEF CalmInv, CalmWire, CalmDeletes, CalmRows, Timers, Silent, OneRequest, First
<1>5. CalmPass'
  <2>1. CASE rows = <<>>
    BY <2>1 DEF LoopFetches, CalmPass
  <2>2. CASE rows # <<>>
    <3>1. fetched'.first = Head(rows) /\ Head(rows) \in Range(rows) /\ moc' = moc
      BY <2>2, EmptySeq, LenProperties DEF LoopFetches, TypeOK, Range
    <3> QED BY <1>1, <3>1 DEF CalmInv, CalmRows, CalmPass, First
  <2> QED BY <2>1, <2>2
<1> QED BY <1>4, <1>5 DEF CalmInv

LEMMA CalmSends ==
  ASSUME TypeOK, Logged, Sorted(rows), HoldsQueue, CalmInv, LoopSends
  PROVE  CalmInv'
<1>1. /\ moc \in Seq(Blocks) /\ moc # <<>> /\ Head(moc) = Pass /\ moc' = Tail(moc)
      /\ ~ IsDelete(Head(moc)) /\ Head(moc).op # "delivered"
      /\ UNCHANGED <<answered, timer, strayTimers>> /\ loop' = "idle"
  BY BlockTypes DEF LoopSends, TypeOK, timerVars, IsDelete, HoldsQueue
<1>2. /\ NoDelete(moc) <=> NoDelete(moc')
      /\ ComesBack(moc) => ComesBack(moc')
      /\ ~ ComesBack(moc) => ~ ComesBack(moc')
      /\ OneDelete(moc) => OneDelete(moc')
  BY <1>1, TailDeletes DEF ComesBack
<1>3. rows' = rows \/ (rows # <<>> /\ rows' = Front(rows))
  BY DEF LoopSends
<1>4. Range(rows') \subseteq Range(rows) /\ \A m : First(m) => First(m)'
  BY <1>3, FirstRow DEF First
<1>5. CASE state = "starting"
  <2>1. PICK m \in Messages :
          /\ state' = "connecting" /\ flight' = [flight EXCEPT ![m] = @ + 1]
          /\ First(m) /\ m \notin answered
    BY <1>5 DEF LoopSends, TypeOK, CalmInv, CalmPass, CalmDeletes
  <2>2. \A n \in Messages : flight[n] = 0
    BY <1>5 DEF CalmInv, CalmWire, Silent
  <2>3. flight'[m] = 1 /\ \A n \in Messages \ {m} : flight'[n] = 0
    BY <2>1, <2>2 DEF TypeOK
  <2>4. OneRequest(m)'
    BY <1>1, <1>4, <2>1, <2>3 DEF OneRequest
  <2>5. CalmWire' /\ Timers'
    BY <1>1, <1>5, <2>1, <2>4 DEF CalmWire, Timers, CalmInv
  <2>6. CalmDeletes' /\ CalmPass'
    BY <1>1, <1>2, <1>5, <2>1 DEF CalmDeletes, CalmPass, CalmInv
  <2>7. CalmRows'
    BY <1>1, <1>2, <1>4, <1>5 DEF CalmRows, CalmInv, CalmDeletes
  <2> QED BY <2>5, <2>6, <2>7 DEF CalmInv
<1>6. CASE state # "starting"
  <2>1. UNCHANGED <<state, flight>>
    BY <1>6 DEF LoopSends
  <2>2. CalmWire' /\ Timers'
    BY <1>1, <1>4, <2>1 DEF CalmWire, Timers, CalmInv, OneRequest, Silent
  <2>3. CalmDeletes' /\ CalmPass'
    BY <1>1, <1>2, <2>1 DEF CalmDeletes, CalmPass, CalmInv
  <2>4. CalmRows'
    BY <1>1, <1>2, <1>4 DEF CalmRows, CalmInv, First
  <2> QED BY <2>2, <2>3, <2>4 DEF CalmInv
<1> QED BY <1>5, <1>6

LEMMA CalmCompletes ==
  ASSUME TypeOK, HoldsQueue, CalmInv, NEW m \in Messages, Delivered(m) \/ Rejected(m) \/ Failed(m)
  PROVE  CalmInv'
<1>1. Completes(m) /\ UNCHANGED <<rows, loop, fetched>> /\ moc \in Seq(Blocks)
  BY DEF Delivered, Rejected, Failed, loopVars, queueVars, TypeOK
<1>2. flight[m] > 0 /\ flight' = [flight EXCEPT ![m] = @ - 1] /\ flight \in [Messages -> Nat]
  BY <1>1 DEF Completes, TypeOK
<1>3. state = "connecting" /\ NoDelete(moc)
  <2>1. state = "connecting"
    BY <1>2 DEF CalmInv, CalmWire, Silent
  <2> QED BY <2>1 DEF CalmInv, CalmDeletes
<1>4. OneRequest(m) /\ timer = "none" /\ strayTimers = 0
  <2>1. PICK n \in Messages : OneRequest(n)
    BY <1>3 DEF CalmInv, CalmWire
  <2>2. n = m
    BY <1>2, <2>1 DEF OneRequest
  <2> QED BY <1>3, <2>1, <2>2 DEF CalmInv, Timers
<1>5. Silent'
  BY <1>2, <1>4 DEF OneRequest, Silent
<1>6. CASE Delivered(m) \/ Rejected(m)
  <2>1. PICK o \in {"delivered", "rejected"} :
          /\ moc' = Append(moc, Delete(o)) /\ answered' = answered \union {m}
          /\ o = "delivered" => state' = "connected" /\ UNCHANGED timerVars
          /\ o = "rejected" => state' = "error" /\ StartReconnectTimer
    BY <1>6 DEF Delivered, Rejected
  <2> DEFINE b == Delete(o)
  <2>2. b \in Blocks /\ b.op = o
    BY BlockTypes
  <2>3. moc' = Append(moc, b)
    BY <2>1
  <2> HIDE DEF b
  <2>4. /\ ~ NoDelete(moc') /\ OneDelete(moc')
        /\ o = "delivered" => ComesBack(moc')
        /\ o = "rejected" => ~ ComesBack(moc')
    <3>1. ~ ComesBack(moc)
      BY <1>3 DEF ComesBack, NoDelete, IsDelete
    <3> QED BY <1>1, <1>3, <2>2, <2>3, <3>1, AppendDeletes DEF IsDelete, ComesBack
  <2>5. state' \in {"connected", "error"} /\ CalmWire'
    BY <1>5, <2>1 DEF CalmWire
  <2>6. Timers'
    BY <1>4, <2>1 DEF Timers, StartReconnectTimer, timerVars
  <2>7. CalmDeletes'
    BY <2>1, <2>4 DEF CalmDeletes
  <2>8. CalmPass'
    BY <1>1, <2>4 DEF CalmPass, CalmInv, First
  <2>9. CalmRows'
    BY <1>1, <1>3, <1>4, <2>1, <2>4 DEF CalmRows, CalmInv, OneRequest, First
  <2> QED BY <2>5, <2>6, <2>7, <2>8, <2>9 DEF CalmInv
<1>7. CASE Failed(m)
  <2>1. state' = "error" /\ StartReconnectTimer /\ UNCHANGED <<moc, answered>>
    BY <1>7 DEF Failed, queueVars
  <2>2. CalmWire' /\ Timers'
    BY <1>4, <1>5, <2>1 DEF CalmWire, Timers, StartReconnectTimer
  <2>3. CalmDeletes'
    BY <1>3, <2>1 DEF CalmDeletes, CalmInv, ComesBack, NoDelete, IsDelete
  <2>4. CalmPass' /\ CalmRows'
    BY <1>1, <2>1 DEF CalmPass, CalmRows, CalmInv, First
  <2> QED BY <2>2, <2>3, <2>4 DEF CalmInv
<1> QED BY <1>6, <1>7

LEMMA CalmDeleted ==
  ASSUME TypeOK, Logged, Sorted(rows), HoldsQueue, CalmInv, RunDelete
  PROVE  CalmInv'
<1>1. /\ moc \in Seq(Blocks) /\ moc # <<>> /\ moc' = Tail(moc) /\ IsDelete(Head(moc))
      /\ UNCHANGED <<loop, fetched, flight, answered, timer, strayTimers>>
  BY DEF RunDelete, TypeOK, IsDelete, loopVars, wireVars, timerVars
<1>2. 1 \in DOMAIN moc /\ moc[1] = Head(moc)
  BY <1>1, EmptySeq, LenProperties
<1>3. ~ NoDelete(moc) /\ OneDelete(moc) /\ loop # "fetched"
  BY <1>1, <1>2, BlockTypes DEF NoDelete, CalmInv, CalmDeletes, HoldsQueue, IsDelete
<1>4. NoDelete(moc') /\ OneDelete(moc') /\ ~ ComesBack(moc')
  BY <1>1, <1>3, TailDeletes DEF NoDelete, OneDelete, ComesBack, IsDelete
<1>5. \/ state = "connected" /\ state' = "starting"
      \/ state = "error" /\ state' = "error"
  <2>1. state \in {"connected", "error"}
    BY <1>3 DEF CalmInv, CalmDeletes, TypeOK, States
  <2>2. CASE state = "connected"
    <3>1. PICK i \in DOMAIN moc : moc[i].op = "delivered"
      BY <2>2 DEF CalmInv, CalmDeletes, ComesBack
    <3>2. i = 1
      BY <1>1, <1>2, <1>3, <3>1 DEF OneDelete, IsDelete
    <3> QED BY <1>2, <2>2, <3>1, <3>2 DEF RunDelete
  <2>3. CASE state = "error"
    <3>1. Head(moc).op # "delivered"
      BY <1>2, <2>3 DEF CalmInv, CalmDeletes, ComesBack
    <3> QED BY <2>3, <3>1 DEF RunDelete
  <2> QED BY <2>1, <2>2, <2>3
<1>6. CalmWire' /\ Timers'
  BY <1>1, <1>5 DEF CalmInv, CalmWire, Timers, Silent
<1>7. CalmDeletes' /\ CalmPass'
  BY <1>1, <1>3, <1>4, <1>5 DEF CalmDeletes, CalmPass
<1>8. CalmRows'
  <2>1. CASE rows = <<>>
    <3>1. rows' = rows /\ Range(rows) = {}
      BY <2>1 DEF RunDelete, Range
    <3> QED BY <3>1 DEF CalmRows
  <2>2. CASE rows # <<>>
    <3>1. rows' = Tail(rows)
      BY <2>2 DEF RunDelete
    <3>2. answered \intersect Range(rows') = {}
      BY <2>2, <3>1, FirstRow DEF CalmInv, CalmRows
    <3> QED BY <1>1, <3>2 DEF CalmRows
  <2> QED BY <2>1, <2>2
<1> QED BY <1>6, <1>7, <1>8 DEF CalmInv

LEMMA NextCalm ==
  TypeOK /\ HoldsQueue /\ OrderInv /\ (Calm => CalmInv) /\ [Next]_vars => (Calm => CalmInv)'
<1> SUFFICES ASSUME TypeOK, HoldsQueue, OrderInv, Calm => CalmInv, [Next]_vars, Calm'
             PROVE  CalmInv'
  OBVIOUS
<1>1. Calm /\ \A d \in Disturbances \ {"reset"} : ~ Happens(d)
  BY CalmBefore
<1>2. /\ CalmInv /\ Distinct /\ Logged /\ Sorted(rows)
      /\ ~ Happens("clockback") /\ ~ Happens("stall") /\ ~ ConnectHTTP /\ ~ Crash
  BY <1>1 DEF Calm, OrderInv, Forward, Disturbances, ConnectHTTP, Crash
<1>3. moc \in Seq(Blocks)
  BY DEF TypeOK
<1>4. ASSUME NEW b \in Blocks, ~ IsDelete(b), moc' = Append(moc, b), loop' # "fetched" \/ UNCHANGED loop,
             UNCHANGED <<state, rows, fetched, flight, answered, timer, strayTimers>>
      PROVE  CalmInv'
  <2>1. /\ NoDelete(moc) <=> NoDelete(moc')
        /\ ComesBack(moc) <=> ComesBack(moc')
        /\ OneDelete(moc) => OneDelete(moc')
    BY <1>3, <1>4, AppendDeletes DEF ComesBack, IsDelete
  <2> QED BY <1>2, <1>4, <2>1 DEF CalmInv, CalmWire, CalmDeletes, CalmPass, CalmRows, Timers,
             Silent, OneRequest, First
<1>5. ASSUME NEW m \in Messages, SendData(m) PROVE CalmInv'
  <2>1. Insert(m) \in Blocks /\ ~ IsDelete(Insert(m))
    BY BlockTypes DEF IsDelete
  <2> QED BY <1>4, <1>5, <2>1 DEF SendData, loopVars, wireVars, timerVars
<1>6. CASE LoopWaits
  <2>1. Pass \in Blocks /\ ~ IsDelete(Pass)
    BY BlockTypes DEF IsDelete
  <2> QED BY <1>4, <1>6, <2>1 DEF LoopWaits, wireVars, timerVars
<1>7. CASE Reconnect
  <2>1. /\ state' = "starting" /\ timer' = "none" /\ Deletes = {}
        /\ UNCHANGED <<rows, moc, loop, fetched, flight, answered>>
    BY <1>2, <1>7 DEF Reconnect, queueVars, loopVars, wireVars
  <2>2. timer = "armed" /\ strayTimers = 0 /\ strayTimers' = 0
    BY <1>2, <1>7 DEF Reconnect, CalmInv, Timers
  <2>3. state = "error" /\ NoDelete(moc)
    BY <1>2, <2>1, <2>2 DEF CalmInv, Timers, Deletes, NoDelete, IsDelete
  <2> QED BY <1>2, <2>1, <2>2, <2>3 DEF CalmInv, CalmWire, CalmDeletes, CalmPass, CalmRows,
             Timers, Silent, First
<1>8. CASE Reset
  <2>1. rows' = <<>> /\ UNCHANGED <<state, moc, loop, fetched, flight, answered, timer, strayTimers>>
    BY <1>8 DEF Reset, loopVars, wireVars, timerVars
  <2>2. Range(rows') = {}
    BY <2>1 DEF Range
  <2> QED BY <1>2, <2>1, <2>2 DEF CalmInv, CalmWire, CalmDeletes, CalmPass, CalmRows, Timers,
             Silent, OneRequest, First
<1>9. CASE UNCHANGED vars
  BY <1>2, <1>9 DEF vars, queueVars, loopVars, wireVars, timerVars, CalmInv, CalmWire,
     CalmDeletes, CalmPass, CalmRows, Timers, Silent, OneRequest, First
<1> QED BY <1>2, <1>5, <1>6, <1>7, <1>8, <1>9, CalmInsert, CalmFetches, CalmSends,
           CalmCompletes, CalmDeleted DEF Next

LEMMA InitCalm == Init => (Calm => CalmInv)
<1> SUFFICES ASSUME Init PROVE CalmInv
  OBVIOUS
<1>1. DOMAIN moc = {} /\ Range(rows) = {}
  BY DEF Init, Range
<1> QED BY <1>1 DEF Init, CalmInv, CalmWire, CalmDeletes, CalmPass, CalmRows, Timers, Silent,
           NoDelete, OneDelete

(* While the process lives, connectHTTP is not called again, the clock runs*)
(* forward and no timer overtakes a block, an answered message never goes  *)
(* out again, even when the queue is reset at any moment.                  *)
THEOREM NeverResent == SafeSpec => AnsweredNotResent
<1> DEFINE NotAgain == (\A d \in Disturbances \ {"reset"} : count[d] = 0)
                         => \A m \in answered : flight'[m] <= flight[m]
<1>1. TypeOK /\ (Calm => CalmInv) /\ [Next]_vars => [NotAgain]_vars
  <2> SUFFICES ASSUME TypeOK, CalmInv, Calm, Next, NEW m \in answered
               PROVE  flight'[m] <= flight[m]
    BY DEF Calm, vars
  <2>1. m \in Messages /\ flight \in [Messages -> Nat]
    BY DEF TypeOK
  <2>2. CASE LoopSends
    <3>1. CASE state = "starting"
      <4>1. fetched.first \notin answered
        BY <2>2, <3>1 DEF LoopSends, CalmInv, CalmPass, CalmDeletes
      <4>2. flight'[m] = flight[m]
        BY <2>1, <2>2, <3>1, <4>1 DEF LoopSends
      <4> QED BY <2>1, <4>2
    <3>2. CASE state # "starting"
      BY <2>1, <2>2, <3>2 DEF LoopSends
    <3> QED BY <3>1, <3>2
  <2>3. ASSUME NEW n \in Messages, Completes(n) PROVE flight'[m] <= flight[m]
    BY <2>1, <2>3 DEF Completes
  <2>4. CASE UNCHANGED flight
    BY <2>1, <2>4
  <2>5. CASE Crash
    BY <2>1, <2>5 DEF Crash
  <2> QED BY <2>2, <2>3, <2>4, <2>5 DEF Next, SendData, RunInsert, LoopWaits, LoopFetches,
             Delivered, Rejected, Failed, RunDelete, Reconnect, ConnectHTTP, Reset, wireVars
<1> QED BY <1>1, InitType, NextType, InitHolds, NextHolds, InitOrder, NextOrder, InitCalm,
           NextCalm, PTL DEF SafeSpec, AnsweredNotResent

-----------------------------------------------------------------------------
(* RequestsBounded. What may put one more request on the wire is counted   *)
(* with the requests: state_starting itself, a pending block of a 2xx, an  *)
(* armed timer. Each of them is made from one of the others, and only      *)
(* connectHTTP makes one from nothing.                                     *)

One(b) == IF b THEN 1 ELSE 0
WireOf(f) == UNION {{m} \X (1..f[m]) : m \in Messages}
Backs(q) == {i \in DOMAIN q : q[i].op = "delivered"}

Budget == One(state = "starting") + Cardinality(Requests) + Cardinality(Backs(moc))
            + One(timer = "armed") + strayTimers

BoundInv == IsFiniteSet(Requests) /\ Budget <= 1 + count["reconfigure"]

LEMMA OnWire ==
  ASSUME NEW f \in [Messages -> Nat]
  PROVE  \A r : r \in WireOf(f) <=> \E m \in Messages, k \in Nat :
                                     r = <<m, k>> /\ 1 <= k /\ k <= f[m]
<1>1. ASSUME NEW r, r \in WireOf(f)
      PROVE  \E m \in Messages, k \in Nat : r = <<m, k>> /\ 1 <= k /\ k <= f[m]
  <2>1. PICK m \in Messages : r \in {m} \X (1..f[m])
    BY <1>1 DEF WireOf
  <2>2. PICK k \in 1..f[m] : r = <<m, k>>
    BY <2>1
  <2> QED BY <2>2
<1>2. ASSUME NEW m \in Messages, NEW k \in Nat, 1 <= k, k <= f[m]
      PROVE  <<m, k>> \in WireOf(f)
  <2>1. k \in 1..f[m]
    BY <1>2
  <2>2. <<m, k>> \in {m} \X (1..f[m])
    BY <2>1
  <2> QED BY <2>2 DEF WireOf
<1> QED BY <1>1, <1>2

LEMMA Posted ==
  ASSUME NEW f \in [Messages -> Nat], IsFiniteSet(WireOf(f)), NEW m \in Messages,
         NEW g, g = [f EXCEPT ![m] = @ + 1]
  PROVE  IsFiniteSet(WireOf(g)) /\ Cardinality(WireOf(g)) = Cardinality(WireOf(f)) + 1
<1>1. g \in [Messages -> Nat] /\ g[m] = f[m] + 1 /\ \A n \in Messages \ {m} : g[n] = f[n]
  OBVIOUS
<1>2. WireOf(g) \subseteq WireOf(f) \union {<<m, f[m] + 1>>}
  <2> SUFFICES ASSUME NEW r \in WireOf(g) PROVE r \in WireOf(f) \union {<<m, f[m] + 1>>}
    OBVIOUS
  <2>1. PICK n \in Messages, k \in Nat : r = <<n, k>> /\ 1 <= k /\ k <= g[n]
    BY <1>1, OnWire
  <2>2. k <= f[n] \/ (n = m /\ k = f[m] + 1)
    BY <1>1, <2>1
  <2> QED BY <2>1, <2>2, OnWire
<1>3. WireOf(f) \union {<<m, f[m] + 1>>} \subseteq WireOf(g)
  <2>1. <<m, f[m] + 1>> \in WireOf(g)
    <3>1. f[m] + 1 \in Nat /\ 1 <= f[m] + 1 /\ f[m] + 1 <= g[m]
      BY <1>1
    <3>2. \E n \in Messages, k \in Nat : <<m, f[m] + 1>> = <<n, k>> /\ 1 <= k /\ k <= g[n]
      BY <3>1
    <3> QED BY <1>1, <3>2, OnWire
  <2>2. ASSUME NEW r \in WireOf(f) PROVE r \in WireOf(g)
    <3>1. PICK n \in Messages, k \in Nat : r = <<n, k>> /\ 1 <= k /\ k <= f[n]
      BY <2>2, OnWire
    <3>2. k <= g[n]
      BY <1>1, <3>1
    <3> QED BY <1>1, <3>1, <3>2, OnWire
  <2> QED BY <2>1, <2>2
<1>4. <<m, f[m] + 1>> \notin WireOf(f)
  <2> SUFFICES ASSUME <<m, f[m] + 1>> \in WireOf(f) PROVE FALSE
    OBVIOUS
  <2>1. PICK n \in Messages, k \in Nat : <<m, f[m] + 1>> = <<n, k>> /\ k <= f[n]
    BY OnWire
  <2> QED BY <2>1
<1>5. WireOf(g) = WireOf(f) \union {<<m, f[m] + 1>>}
  BY <1>2, <1>3
<1>6. IsFiniteSet(WireOf(f))
  OBVIOUS
<1> HIDE DEF WireOf
<1>7. \A S, x : IsFiniteSet(S) /\ x \notin S =>
        IsFiniteSet(S \union {x}) /\ Cardinality(S \union {x}) = Cardinality(S) + 1
  BY FS_AddElement
<1> QED BY <1>4, <1>5, <1>6, <1>7

LEMMA Answered ==
  ASSUME NEW f \in [Messages -> Nat], IsFiniteSet(WireOf(f)), NEW m \in Messages, f[m] > 0,
         NEW g, g = [f EXCEPT ![m] = @ - 1]
  PROVE  IsFiniteSet(WireOf(g)) /\ Cardinality(WireOf(g)) = Cardinality(WireOf(f)) - 1
<1>1. g \in [Messages -> Nat] /\ f = [g EXCEPT ![m] = @ + 1]
  <2>1. f[m] \in Nat /\ f[m] - 1 \in Nat /\ (f[m] - 1) + 1 = f[m]
    OBVIOUS
  <2>2. g \in [Messages -> Nat] /\ g[m] + 1 = f[m]
    BY <2>1
  <2>3. [g EXCEPT ![m] = f[m]] = f
    OBVIOUS
  <2> QED BY <2>2, <2>3
<1>2. WireOf(g) \subseteq WireOf(f)
  <2> SUFFICES ASSUME NEW r \in WireOf(g) PROVE r \in WireOf(f)
    OBVIOUS
  <2>1. PICK n \in Messages, k \in Nat : r = <<n, k>> /\ 1 <= k /\ k <= g[n]
    BY <1>1, OnWire
  <2>2. k <= f[n]
    BY <1>1, <2>1
  <2> QED BY <2>1, <2>2, OnWire
<1>3. IsFiniteSet(WireOf(g))
  BY <1>2, FS_Subset
<1>4. Cardinality(WireOf(f)) = Cardinality(WireOf(g)) + 1
  BY <1>1, <1>3, Posted
<1> QED BY <1>3, <1>4, FS_CardinalityType

LEMMA BacksFinite ==
  ASSUME NEW q \in Seq(Blocks)
  PROVE  IsFiniteSet(Backs(q)) /\ Cardinality(Backs(q)) \in Nat
<1>1. Backs(q) \subseteq 1..Len(q) /\ Len(q) \in Nat
  BY DomainOfSeq, LenProperties DEF Backs
<1>2. IsFiniteSet(1..Len(q))
  BY <1>1, FS_Interval
<1>3. IsFiniteSet(Backs(q))
  BY <1>1, <1>2, FS_Subset
<1> QED BY <1>3, FS_CardinalityType

LEMMA BacksAppend ==
  ASSUME NEW q \in Seq(Blocks), NEW b \in Blocks
  PROVE  Cardinality(Backs(Append(q, b))) = Cardinality(Backs(q)) + One(b.op = "delivered")
<1>1. /\ Append(q, b) \in Seq(Blocks) /\ Len(q) \in Nat
      /\ Len(Append(q, b)) = Len(q) + 1
      /\ \A i \in 1..Len(q) : Append(q, b)[i] = q[i]
      /\ Append(q, b)[Len(q) + 1] = b
  BY AppendType, LenProperties
<1>2. DOMAIN q = 1..Len(q) /\ DOMAIN Append(q, b) = 1..Len(q) + 1
  BY <1>1, DomainOfSeq
<1>3. Len(q) + 1 \notin Backs(q) /\ IsFiniteSet(Backs(q))
  BY <1>1, <1>2, BacksFinite DEF Backs
<1>4. CASE b.op = "delivered"
  <2>1. Backs(Append(q, b)) = Backs(q) \union {Len(q) + 1}
    BY <1>1, <1>2, <1>4 DEF Backs
  <2> QED BY <1>3, <1>4, <2>1, FS_AddElement DEF One
<1>5. CASE b.op # "delivered"
  <2>1. Backs(Append(q, b)) = Backs(q)
    BY <1>1, <1>2, <1>5 DEF Backs
  <2> QED BY <1>5, <2>1, BacksFinite DEF One
<1> QED BY <1>4, <1>5

LEMMA BacksTail ==
  ASSUME NEW q \in Seq(Blocks), q # <<>>
  PROVE  Cardinality(Backs(Tail(q))) <= Cardinality(Backs(q)) - One(Head(q).op = "delivered")
<1>1. /\ Tail(q) \in Seq(Blocks) /\ Len(q) \in Nat /\ Len(q) > 0
      /\ Len(Tail(q)) = Len(q) - 1
      /\ \A i \in 1..Len(q) - 1 : Tail(q)[i] = q[i + 1]
      /\ Head(q) = q[1]
  BY TailType, LenProperties, EmptySeq, HeadTailProperties
<1>2. DOMAIN q = 1..Len(q) /\ DOMAIN Tail(q) = 1..Len(q) - 1
  BY <1>1, DomainOfSeq
<1> DEFINE T == Backs(q) \ {1}
           f == [i \in Backs(Tail(q)) |-> i + 1]
<1>3. f \in Injection(Backs(Tail(q)), T)
  <2>1. \A i \in Backs(Tail(q)) : i \in Nat /\ i + 1 \in T
    BY <1>1, <1>2 DEF Backs
  <2> QED BY <2>1 DEF Injection, IsInjective
<1>4. IsFiniteSet(T) /\ Cardinality(T) = IF 1 \in Backs(q) THEN Cardinality(Backs(q)) - 1
                                                            ELSE Cardinality(Backs(q))
  BY BacksFinite, FS_RemoveElement
<1>5. Cardinality(Backs(Tail(q))) <= Cardinality(T)
  BY <1>3, <1>4, FS_Injection
<1>6. 1 \in Backs(q) <=> Head(q).op = "delivered"
  BY <1>1, <1>2 DEF Backs
<1> QED BY <1>1, <1>4, <1>5, <1>6, BacksFinite DEF One

LEMMA Trades ==
  ASSUME NEW a \in Nat, NEW c \in Nat, NEW b \in Nat, NEW t \in Nat, NEW n \in Nat,
         NEW d \in Nat, a + c + b + t + n <= 1 + d
  PROVE  /\ \A e \in Int, u \in Nat, k \in Nat :
              e = c - 1 /\ u + k = t + n + 1 => 0 + e + b + u + k <= 1 + d
         /\ \A e \in {0, 1}, k \in Nat : k <= b - 1 => e + c + k + t + n <= 1 + d
  OBVIOUS

LEMMA InitBound == Init => BoundInv
<1> SUFFICES ASSUME Init PROVE BoundInv
  OBVIOUS
<1>1. Requests = {}
  BY DEF Init, Requests
<1>2. Backs(moc) = {}
  BY DEF Init, Backs
<1>3. /\ IsFiniteSet(Requests) /\ Cardinality(Requests) = 0
      /\ Cardinality(Backs(moc)) = 0
  BY <1>1, <1>2, FS_EmptySet
<1>4. One(state = "starting") = 1 /\ One(timer = "armed") = 0
  BY DEF Init, One
<1>5. strayTimers = 0 /\ count["reconfigure"] = 0
  BY DEF Init, Disturbances
<1> QED BY <1>3, <1>4, <1>5 DEF BoundInv, Budget

LEMMA NextBound == TypeOK /\ HoldsQueue /\ BoundInv /\ [Next]_vars => BoundInv'
<1> SUFFICES ASSUME TypeOK, HoldsQueue, BoundInv, [Next]_vars PROVE BoundInv'
  OBVIOUS
<1> DEFINE c == Cardinality(Requests)
           b == Cardinality(Backs(moc))
           d == count["reconfigure"]
<1>1. /\ moc \in Seq(Blocks) /\ (moc # <<>> => Tail(moc) \in Seq(Blocks))
      /\ flight \in [Messages -> Nat] /\ strayTimers \in Nat /\ d \in Nat
      /\ IsFiniteSet(Requests) /\ c \in Nat /\ b \in Nat
  BY TailType, BacksFinite, FS_CardinalityType DEF TypeOK, BoundInv, Disturbances
<1>2. One(state = "starting") + c + b + One(timer = "armed") + strayTimers <= 1 + d
  BY DEF BoundInv, Budget
<1>3. Requests = WireOf(flight) /\ Requests' = WireOf(flight')
  BY DEF Requests, WireOf
<1>4. UNCHANGED flight => IsFiniteSet(Requests') /\ c' = c
  BY <1>1, <1>3
<1>5. ASSUME NEW m \in Messages, Completes(m)
      PROVE  IsFiniteSet(Requests') /\ c' = c - 1
  BY <1>1, <1>3, <1>5, Answered DEF Completes
<1>6. ASSUME NEW x \in Blocks, moc' = Append(moc, x)
      PROVE  b' = b + One(x.op = "delivered")
  BY <1>1, <1>6, BacksAppend
<1>7. ASSUME moc # <<>>, moc' = Tail(moc)
      PROVE  b' \in Nat /\ b' <= b - One(Head(moc).op = "delivered")
  BY <1>1, <1>7, BacksTail, BacksFinite
<1>8. ASSUME NEW e \in Disturbances, Happens(e)
      PROVE  count'["reconfigure"] = IF e = "reconfigure" THEN d + 1 ELSE d
  BY <1>8 DEF Happens, TypeOK, Disturbances
<1>9. UNCHANGED count => d' = d
  OBVIOUS
<1>10. UNCHANGED moc => b' = b
  OBVIOUS
<1>11. StartReconnectTimer =>
         One(timer' = "armed") + strayTimers' = One(timer = "armed") + strayTimers + 1
  BY <1>1 DEF StartReconnectTimer, One
<1> SUFFICES /\ IsFiniteSet(Requests')
             /\ One(state' = "starting") + c' + b' + One(timer' = "armed") + strayTimers' <= 1 + d'
  BY DEF BoundInv, Budget
<1> HIDE DEF c, b, d
<1> DEFINE Bounded == /\ IsFiniteSet(Requests')
                      /\ One(state' = "starting") + c' + b' + One(timer' = "armed") + strayTimers'
                           <= 1 + d'
<1>12. /\ One(state = "starting") \in {0, 1} /\ One(state' = "starting") \in {0, 1}
       /\ One(timer = "armed") \in {0, 1}
       /\ (state = "starting" => One(state = "starting") = 1)
       /\ (state' # "starting" => One(state' = "starting") = 0)
       /\ (UNCHANGED state => One(state' = "starting") = One(state = "starting"))
       /\ (timer' # "armed" => One(timer' = "armed") = 0)
       /\ (timer = "armed" => One(timer = "armed") = 1)
       /\ (UNCHANGED timer => One(timer' = "armed") = One(timer = "armed"))
       /\ \A x : /\ (x.op = "delivered" => One(x.op = "delivered") = 1)
                /\ (x.op # "delivered" => One(x.op = "delivered") = 0)
  BY DEF One
<1>13. ASSUME UNCHANGED <<state, flight, timer, strayTimers, count>>, b' \in Nat, b' <= b
       PROVE  Bounded
  BY <1>1, <1>2, <1>4, <1>9, <1>12, <1>13
<1>14. ASSUME NEW m \in Messages, SendData(m) PROVE Bounded
  <2>1. Insert(m) \in Blocks /\ Insert(m).op # "delivered" /\ moc' = Append(moc, Insert(m))
    BY <1>14, BlockTypes DEF SendData
  <2>2. b' = b
    BY <2>1, <1>1, <1>6, <1>12
  <2> QED BY <1>1, <1>13, <1>14, <2>2 DEF SendData, wireVars, timerVars
<1>15. CASE LoopWaits
  <2>1. Pass \in Blocks /\ Pass.op # "delivered" /\ moc' = Append(moc, Pass)
    BY <1>15, BlockTypes DEF LoopWaits
  <2>2. b' = b
    BY <2>1, <1>1, <1>6, <1>12
  <2> QED BY <1>1, <1>13, <1>15, <2>2 DEF LoopWaits, wireVars, timerVars
<1>16. CASE RunInsert
  <2>1. b' \in Nat /\ b' <= b /\ UNCHANGED <<state, flight, timer, strayTimers>>
    BY <1>1, <1>7, <1>12, <1>16 DEF RunInsert, wireVars, timerVars
  <2>2. d' = d
    BY <1>8, <1>9, <1>16 DEF RunInsert, Disturbances, d
  <2> QED BY <1>1, <1>2, <1>4, <1>12, <2>1, <2>2
<1>17. CASE LoopFetches
  <2>1. b' \in Nat /\ b' <= b
    BY <1>1, <1>7, <1>10, <1>12, <1>17, BlockTypes DEF LoopFetches
  <2> QED BY <1>13, <1>17, <2>1 DEF LoopFetches, wireVars, timerVars
<1>18. CASE LoopSends
  <2>1. b' \in Nat /\ b' <= b /\ d' = d /\ UNCHANGED <<timer, strayTimers>>
    BY <1>1, <1>7, <1>9, <1>12, <1>18, BlockTypes DEF LoopSends, HoldsQueue, timerVars
  <2>2. CASE state = "starting"
    <3>1. PICK m \in Messages : flight' = [flight EXCEPT ![m] = @ + 1]
      BY <1>18, <2>2 DEF LoopSends, TypeOK
    <3>2. IsFiniteSet(Requests') /\ c' = c + 1
      BY <1>1, <1>3, <3>1, Posted DEF c
    <3>3. One(state = "starting") = 1 /\ One(state' = "starting") = 0
      BY <1>12, <1>18, <2>2 DEF LoopSends
    <3> QED BY <1>1, <1>2, <1>12, <2>1, <3>2, <3>3
  <2>3. CASE state # "starting"
    BY <1>13, <1>18, <2>1, <2>3 DEF LoopSends
  <2> QED BY <2>2, <2>3
<1>19. ASSUME NEW m \in Messages, Delivered(m) PROVE Bounded
  <2>1. /\ Delete("delivered") \in Blocks /\ Delete("delivered").op = "delivered"
        /\ moc' = Append(moc, Delete("delivered"))
    BY <1>19, BlockTypes DEF Delivered
  <2>2. b' = b + 1 /\ d' = d
    BY <2>1, <1>1, <1>6, <1>9, <1>12, <1>19 DEF Delivered
  <2>3. IsFiniteSet(Requests') /\ c' = c - 1
    BY <1>5, <1>19 DEF Delivered
  <2>4. UNCHANGED <<timer, strayTimers>> /\ One(state' = "starting") = 0
    BY <1>12, <1>19 DEF Delivered, timerVars
  <2> QED BY <1>1, <1>2, <1>12, <2>2, <2>3, <2>4
<1>20. ASSUME NEW m \in Messages, Rejected(m) \/ Failed(m) PROVE Bounded
  <2>1. b' = b /\ d' = d
    <3>1. CASE Rejected(m)
      <4>1. /\ Delete("rejected") \in Blocks /\ Delete("rejected").op # "delivered"
            /\ moc' = Append(moc, Delete("rejected"))
        BY <3>1, BlockTypes DEF Rejected
      <4> QED BY <4>1, <1>1, <1>6, <1>9, <1>12, <3>1 DEF Rejected
    <3>2. CASE Failed(m)
      BY <1>9, <1>10, <3>2 DEF Failed, queueVars
    <3> QED BY <1>20, <3>1, <3>2
  <2>2. IsFiniteSet(Requests') /\ c' = c - 1
    BY <1>5, <1>20 DEF Rejected, Failed
  <2>3. /\ One(timer' = "armed") + strayTimers' = One(timer = "armed") + strayTimers + 1
        /\ One(state' = "starting") = 0
    BY <1>11, <1>12, <1>20 DEF Rejected, Failed
  <2>4. strayTimers' \in Nat /\ One(timer' = "armed") \in {0, 1}
    BY <1>1, <1>20 DEF Rejected, Failed, StartReconnectTimer, One
  <2>5. One(state = "starting") \in Nat /\ One(timer = "armed") \in Nat /\ c - 1 \in Int
    BY <1>1, <1>12
  <2>6. 0 + (c - 1) + b + One(timer' = "armed") + strayTimers' <= 1 + d
    BY <1>1, <1>2, <2>3, <2>4, <2>5, Trades
  <2> QED BY <2>1, <2>2, <2>3, <2>6
<1>21. CASE RunDelete
  <2>1. /\ UNCHANGED <<flight, timer, strayTimers>> /\ d' = d
        /\ moc # <<>> /\ moc' = Tail(moc)
    BY <1>9, <1>21 DEF RunDelete, wireVars, timerVars
  <2>2. b' \in Nat /\ b' <= b - One(Head(moc).op = "delivered")
    BY <1>7, <2>1
  <2>3. CASE Head(moc).op = "delivered"
    <3>1. One(Head(moc).op = "delivered") = 1
      BY <2>3 DEF One
    <3>2. b' \in Nat /\ b' <= b - 1
      BY <2>2, <3>1
    <3>3. One(timer' = "armed") = One(timer = "armed") /\ strayTimers' = strayTimers
      BY <1>12, <2>1
    <3>4. IsFiniteSet(Requests') /\ c' = c
      BY <1>4, <2>1
    <3>5. /\ One(state = "starting") \in Nat /\ One(timer = "armed") \in Nat
          /\ One(state' = "starting") \in {0, 1}
      BY <1>12
    <3>6. One(state' = "starting") + c + b' + One(timer = "armed") + strayTimers <= 1 + d
      BY <1>1, <1>2, <3>2, <3>5, Trades
    <3> QED BY <2>1, <3>3, <3>4, <3>6
  <2>4. CASE Head(moc).op # "delivered"
    <3>1. UNCHANGED state /\ b' <= b
      BY <1>1, <1>12, <1>21, <2>2, <2>4 DEF RunDelete
    <3> QED BY <1>1, <1>2, <1>4, <1>12, <2>1, <2>2, <3>1
  <2> QED BY <2>3, <2>4
<1>22. CASE Reconnect
  <2>1. /\ UNCHANGED <<flight, moc>> /\ d' = d /\ One(timer' = "armed") = 0
    BY <1>8, <1>9, <1>12, <1>22 DEF Reconnect, Disturbances, queueVars, wireVars, d
  <2>2. \/ One(timer = "armed") = 1 /\ strayTimers' = strayTimers
        \/ strayTimers' = strayTimers - 1
    BY <1>12, <1>22 DEF Reconnect
  <2> QED BY <1>1, <1>2, <1>4, <1>10, <1>12, <2>1, <2>2
<1>23. CASE ConnectHTTP
  <2>1. UNCHANGED <<flight, moc, timer, strayTimers>> /\ d' = d + 1
    BY <1>8, <1>23 DEF ConnectHTTP, Disturbances, queueVars, wireVars, timerVars, d
  <2> QED BY <1>1, <1>2, <1>4, <1>10, <1>12, <2>1
<1>24. CASE Reset
  <2>1. UNCHANGED <<state, flight, moc, timer, strayTimers>> /\ d' = d
    BY <1>8, <1>24 DEF Reset, Disturbances, wireVars, timerVars, d
  <2> QED BY <1>1, <1>2, <1>4, <1>10, <1>12, <2>1
<1>25. CASE Crash
  <2>1. flight' = [m \in Messages |-> 0] /\ moc' = <<>> /\ strayTimers' = 0
    BY <1>25 DEF Crash
  <2>2. Requests' = {} /\ Backs(moc') = {}
    BY <2>1 DEF Requests, Backs
  <2>3. IsFiniteSet(Requests') /\ c' = 0 /\ b' = 0
    BY <2>2, FS_EmptySet DEF c, b
  <2>4. d' = d /\ One(timer' = "armed") = 0
    BY <1>8, <1>12, <1>25 DEF Crash, Disturbances, d
  <2> QED BY <1>1, <1>12, <2>1, <2>3, <2>4
<1>26. CASE UNCHANGED vars
  BY <1>1, <1>10, <1>13, <1>26 DEF vars, queueVars, wireVars, timerVars
<1> QED BY <1>14, <1>15, <1>16, <1>17, <1>18, <1>19, <1>20, <1>21, <1>22, <1>23, <1>24,
           <1>25, <1>26 DEF Next

(* However often timers overtake requests and blocks run late, the number  *)
(* of requests on the wire at one time is at most one more than the number *)
(* of times connectHTTP has been called again.                             *)
THEOREM WireIsBounded == SafeSpec => []RequestsBounded
<1>1. TypeOK /\ BoundInv => RequestsBounded
  <2> SUFFICES ASSUME TypeOK, BoundInv PROVE RequestsBounded
    OBVIOUS
  <2>1. /\ Cardinality(Requests) \in Nat /\ Cardinality(Backs(moc)) \in Nat
        /\ strayTimers \in Nat /\ count["reconfigure"] \in Nat
    BY BacksFinite, FS_CardinalityType DEF TypeOK, BoundInv, Disturbances
  <2>2. One(state = "starting") \in Nat /\ One(timer = "armed") \in Nat
    BY DEF One
  <2> QED BY <2>1, <2>2 DEF BoundInv, Budget, RequestsBounded
<1> QED
  BY <1>1, InitType, NextType, InitHolds, NextHolds, InitBound, NextBound, PTL DEF SafeSpec

=============================================================================
