------------------------- MODULE MqttShimOrder_proofs -------------------------
(***************************************************************************)
(* Proofs about MqttShim: the drains publish in order, and each row once,  *)
(* as long as no drain has met another one or a crash.                     *)
(*                                                                         *)
(* The messages go through the shim in one line: those that have been      *)
(* published, then what is left of the batch, the other rows, the inserts  *)
(* that wait, and the one sendData is about to submit. One drain alone     *)
(* keeps the line in order: its batch is the oldest rows, a publish is of  *)
(* the oldest of the batch, and only inserts add to the line, at its end.  *)
(***************************************************************************)
EXTENDS MqttShim_proofs

(* Sequences of numbers in order, and what the shim does to its rows.      *)

Up(q)       == \A i, j \in 1..Len(q) : i < j => q[i] < q[j]
Below(S, T) == \A a \in S, b \in T : a < b

LEMMA RangeIs == ASSUME NEW S, NEW q \in Seq(S)
                 PROVE  /\ \A m : m \in Range(q) <=> \E i \in 1..Len(q) : q[i] = m
                        /\ Range(q) \subseteq S /\ Len(q) \in Nat
  BY LenProperties DEF Range

(* A newest element. *)
LEMMA UpAppend ==
  ASSUME NEW q \in Seq(Numbers), NEW m \in Numbers, Up(q), Below(Range(q), {m})
  PROVE  Up(Append(q, m))
<1>1. /\ Append(q, m) \in Seq(Numbers) /\ Len(Append(q, m)) = Len(q) + 1 /\ Len(q) \in Nat
      /\ \A i \in 1..Len(q) : Append(q, m)[i] = q[i]
      /\ Append(q, m)[Len(q) + 1] = m
  BY AppendProperties, LenProperties
<1>2. \A i \in 1..Len(q) : q[i] < m
  BY RangeIs DEF Below
<1>3. \A i \in 1..Len(q) + 1 : i \in 1..Len(q) \/ i = Len(q) + 1
  BY <1>1
<1>4. ASSUME NEW i \in 1..Len(q) + 1, NEW j \in 1..Len(q) + 1, i < j
      PROVE  Append(q, m)[i] < Append(q, m)[j]
  <2>1. i \in 1..Len(q)
    BY <1>1, <1>4
  <2>2. CASE j \in 1..Len(q)
    BY <1>1, <1>4, <2>1, <2>2 DEF Up
  <2>3. CASE j = Len(q) + 1
    BY <1>1, <1>2, <2>1, <2>3
  <2> QED BY <1>3, <2>2, <2>3
<1> QED BY <1>1, <1>4 DEF Up

LEMMA RangeAppend ==
  ASSUME NEW S, NEW q \in Seq(S), NEW m \in S
  PROVE  /\ Append(q, m) \in Seq(S)
         /\ Range(Append(q, m)) = Range(q) \union {m}
<1> DEFINE a == Append(q, m)
           n == Len(q)
<1>1. /\ a \in Seq(S) /\ Len(a) = n + 1 /\ n \in Nat
      /\ \A i \in 1..n : a[i] = q[i]
      /\ a[n + 1] = m
  BY AppendProperties, LenProperties
<1>2. \A x : x \in Range(q) <=> \E i \in 1..n : q[i] = x
  BY RangeIs
<1> HIDE DEF a, n
<1>3. \A x : x \in Range(a) <=> \E i \in 1..n + 1 : a[i] = x
  BY <1>1, RangeIs
<1>4. /\ n + 1 \in 1..n + 1
      /\ \A i \in 1..n + 1 : i \in 1..n \/ i = n + 1
      /\ \A i \in 1..n : i \in 1..n + 1
  BY <1>1
<1>5. \A x : x \in Range(a) <=> x \in Range(q) \/ x = m
  BY <1>1, <1>2, <1>3, <1>4
<1> QED BY <1>1, <1>5 DEF a

(* A piece of a sequence. *)
LEMMA UpPiece ==
  ASSUME NEW q \in Seq(Numbers), NEW k \in 1..Len(q) + 1, NEW n \in 0..Len(q), Up(q)
  PROVE  /\ Up(SubSeq(q, k, n)) /\ SubSeq(q, k, n) \in Seq(Numbers)
         /\ Range(SubSeq(q, k, n)) \subseteq Range(q)
         /\ k = 1 => \A r \in Range(q) \ Range(SubSeq(q, k, n)) :
                       Below(Range(SubSeq(q, k, n)), {r})
<1> DEFINE p == SubSeq(q, k, n)
           l == Len(p)
<1>1. /\ Len(q) \in Nat /\ k \in Nat \ {0} /\ n \in Nat /\ n <= Len(q)
      /\ \A i \in 1..Len(q) : q[i] \in Numbers
  BY LenProperties, ElementOfSeq
<1>2. /\ p \in Seq(Numbers) /\ l = (IF k <= n THEN n - k + 1 ELSE 0)
      /\ \A i \in 1..n - k + 1 : p[i] = q[k + i - 1]
  BY <1>1, SubSeqProperties
<1> HIDE DEF p, l
<1>3. /\ l \in Nat
      /\ \A i \in 1..l : /\ i \in Nat /\ k + i - 1 \in 1..Len(q) /\ k + i - 1 <= n
                         /\ p[i] = q[k + i - 1]
  BY <1>1, <1>2
<1>4. Up(p)
  <2> SUFFICES ASSUME NEW i \in 1..l, NEW j \in 1..l, i < j PROVE p[i] < p[j]
    BY DEF Up, l
  <2>1. k + i - 1 < k + j - 1
    BY <1>1, <1>3
  <2> QED BY <1>3, <2>1 DEF Up
<1>5. \A m : m \in Range(p) <=> \E i \in 1..l : p[i] = m
  BY <1>2, RangeIs DEF l
<1>6. Range(p) \subseteq Range(q)
  BY <1>3, <1>5, RangeIs
<1>7. ASSUME k = 1, NEW r \in Range(q), r \notin Range(p), NEW a \in Range(p) PROVE a < r
  <2>1. PICK j \in 1..Len(q) : q[j] = r
    BY RangeIs
  <2>2. PICK i \in 1..l : p[i] = a
    BY <1>5, <1>7
  <2>3. i <= n /\ i \in 1..Len(q) /\ a = q[i]
    BY <1>3, <1>7, <2>2
  <2>4. j > n
    <3> SUFFICES ASSUME j <= n PROVE FALSE
      BY <1>1
    <3>1. l = n /\ j \in 1..l
      BY <1>1, <1>2, <1>7
    <3>2. p[j] = q[j]
      BY <1>3, <1>7, <3>1
    <3> QED BY <1>5, <1>7, <2>1, <3>1, <3>2
  <2>5. i < j
    BY <1>1, <2>3, <2>4
  <2> QED BY <2>1, <2>3, <2>5 DEF Up
<1> QED BY <1>2, <1>4, <1>6, <1>7 DEF Below, p

(* The first element leaves. *)
LEMMA UpTail ==
  ASSUME NEW q \in Seq(Numbers), q # <<>>, Up(q)
  PROVE  /\ Up(Tail(q)) /\ Tail(q) \in Seq(Numbers) /\ Head(q) \in Numbers
         /\ Range(q) = Range(Tail(q)) \union {Head(q)}
         /\ Below({Head(q)}, Range(Tail(q)))
<1>1. /\ Tail(q) \in Seq(Numbers) /\ Len(Tail(q)) = Len(q) - 1 /\ Len(q) \in Nat /\ Len(q) # 0
      /\ \A i \in 1..Len(Tail(q)) : Tail(q)[i] = q[i + 1]
      /\ Head(q) = q[1] /\ Head(q) \in Numbers
  BY HeadTailProperties, LenProperties, EmptySeq
<1>2. /\ 1 \in 1..Len(q)
      /\ \A i \in 1..Len(Tail(q)) : i \in Nat /\ i + 1 \in 1..Len(q) /\ 1 < i + 1
      /\ \A i \in 1..Len(q) : i = 1 \/ (i - 1 \in 1..Len(Tail(q)) /\ (i - 1) + 1 = i)
  BY <1>1
<1>3. Up(Tail(q))
  <2> SUFFICES ASSUME NEW i \in 1..Len(Tail(q)), NEW j \in 1..Len(Tail(q)), i < j
               PROVE  Tail(q)[i] < Tail(q)[j]
    BY DEF Up
  <2>1. i + 1 < j + 1
    BY <1>2
  <2> QED BY <1>1, <1>2, <2>1 DEF Up
<1>4. \A m : /\ m \in Range(Tail(q)) <=> \E i \in 1..Len(Tail(q)) : Tail(q)[i] = m
             /\ m \in Range(q) <=> \E i \in 1..Len(q) : q[i] = m
  BY <1>1, RangeIs
<1>5. Below({Head(q)}, Range(Tail(q)))
  <2> SUFFICES ASSUME NEW b \in Range(Tail(q)) PROVE q[1] < b
    BY <1>1 DEF Below
  <2>1. PICK i \in 1..Len(Tail(q)) : Tail(q)[i] = b
    BY <1>4
  <2> QED BY <1>1, <1>2, <2>1 DEF Up
<1>6. ASSUME NEW m PROVE m \in Range(q) <=> m \in Range(Tail(q)) \/ m = Head(q)
  <2>1. ASSUME m \in Range(q) PROVE m \in Range(Tail(q)) \/ m = Head(q)
    <3>1. PICK i \in 1..Len(q) : q[i] = m
      BY <1>4, <2>1
    <3>2. CASE i = 1
      BY <1>1, <3>1, <3>2
    <3>3. CASE i # 1
      <4>1. i - 1 \in 1..Len(Tail(q)) /\ Tail(q)[i - 1] = q[i]
        BY <1>1, <1>2, <3>3
      <4> QED BY <1>4, <3>1, <4>1
    <3> QED BY <3>2, <3>3
  <2>2. ASSUME m \in Range(Tail(q)) \/ m = Head(q) PROVE m \in Range(q)
    BY <1>1, <1>2, <1>4, <2>2
  <2> QED BY <2>1, <2>2
<1> QED BY <1>1, <1>3, <1>5, <1>6

(* An element leaves a sequence that has it once. *)
LEMMA UpWithout ==
  ASSUME NEW q \in Seq(Numbers), NEW m, Up(q)
  PROVE  /\ Up(Without(q, m)) /\ Without(q, m) \in Seq(Numbers)
         /\ Range(Without(q, m)) = Range(q) \ {m}
<1>1. CASE m \in Range(q)
  <2> DEFINE k == CHOOSE i \in DOMAIN q : q[i] = m
             n == Len(q)
             w == Without(q, m)
             a == SubSeq(q, 1, k - 1)
             b == SubSeq(q, k + 1, n)
  <2>1. k \in 1..n /\ q[k] = m /\ n \in Nat /\ \A i \in 1..n : q[i] \in Numbers
    BY <1>1, LenProperties, ElementOfSeq DEF Range
  <2>2. /\ a \in Seq(Numbers) /\ Len(a) = k - 1
        /\ \A i \in 1..k - 1 : a[i] = q[i]
    BY <2>1
  <2>3. /\ b \in Seq(Numbers) /\ Len(b) = n - k
        /\ \A i \in 1..n - k : b[i] = q[k + i]
    BY <2>1
  <2>4. w = a \o b
    BY <1>1 DEF Without, RemoveAt
  <2> HIDE DEF k, n, a, b, w
  <2>5. /\ w \in Seq(Numbers)
        /\ Len(w) = Len(a) + Len(b)
        /\ \A i \in 1..Len(a) + Len(b) :
             w[i] = IF i <= Len(a) THEN a[i] ELSE b[i - Len(a)]
    BY <2>2, <2>3, <2>4, ConcatProperties
  <2>6. Len(w) = n - 1
    BY <2>1, <2>2, <2>3, <2>5
  <2>7. ASSUME NEW i \in 1..n - 1 PROVE w[i] = IF i < k THEN q[i] ELSE q[i + 1]
    <3>1. i \in 1..Len(a) + Len(b)
      BY <2>5, <2>6
    <3>2. CASE i < k
      <4>1. i <= Len(a) /\ i \in 1..k - 1
        BY <2>1, <2>2, <3>2
      <4> QED BY <2>2, <2>5, <3>1, <3>2, <4>1
    <3>3. CASE ~ i < k
      <4>1. ~ i <= Len(a) /\ i - Len(a) \in 1..n - k /\ k + (i - Len(a)) = i + 1
        BY <2>1, <2>2, <3>3
      <4> QED BY <2>3, <2>5, <3>1, <3>3, <4>1
    <3> QED BY <3>2, <3>3
  <2>8. Up(w)
    <3> SUFFICES ASSUME NEW i \in 1..n - 1, NEW j \in 1..n - 1, i < j PROVE w[i] < w[j]
      BY <2>6 DEF Up
    <3> DEFINE f == IF i < k THEN i ELSE i + 1
               g == IF j < k THEN j ELSE j + 1
    <3>1. f \in 1..n /\ g \in 1..n /\ f < g
      BY <2>1
    <3>2. w[i] = q[f] /\ w[j] = q[g]
      BY <2>7
    <3> HIDE DEF f, g
    <3> QED BY <3>1, <3>2 DEF Up, n
  <2>9. \A x : /\ x \in Range(w) <=> \E i \in 1..n - 1 : w[i] = x
               /\ x \in Range(q) <=> \E i \in 1..n : q[i] = x
    BY <2>5, <2>6, RangeIs DEF n
  <2>10. \A i, j \in 1..n : i # j => q[i] # q[j]
    <3> SUFFICES ASSUME NEW i \in 1..n, NEW j \in 1..n, i # j PROVE q[i] # q[j]
      OBVIOUS
    <3>1. i < j \/ j < i
      BY <2>1
    <3>2. q[i] < q[j] \/ q[j] < q[i]
      BY <3>1 DEF Up, n
    <3> QED BY <2>1, <3>2 DEF Numbers
  <2>11. ASSUME NEW x PROVE x \in Range(w) <=> x \in Range(q) /\ x # m
    <3>1. ASSUME x \in Range(w) PROVE x \in Range(q) /\ x # m
      <4>1. PICK i \in 1..n - 1 : w[i] = x
        BY <2>9, <3>1
      <4> DEFINE f == IF i < k THEN i ELSE i + 1
      <4>2. f \in 1..n /\ f # k
        BY <2>1
      <4>3. q[f] = x
        BY <2>7, <4>1
      <4> HIDE DEF f
      <4> QED BY <2>1, <2>9, <2>10, <4>2, <4>3
    <3>2. ASSUME x \in Range(q), x # m PROVE x \in Range(w)
      <4>1. PICK i \in 1..n : q[i] = x
        BY <2>9, <3>2
      <4>2. i # k
        BY <2>1, <3>2, <4>1
      <4>3. CASE i < k
        <5>1. i \in 1..n - 1 /\ w[i] = q[i]
          BY <2>1, <2>7, <4>3
        <5> QED BY <2>9, <4>1, <5>1
      <4>4. CASE i > k
        <5>1. i - 1 \in 1..n - 1 /\ ~ i - 1 < k /\ (i - 1) + 1 = i
          BY <2>1, <4>4
        <5>2. w[i - 1] = q[i]
          BY <2>7, <5>1
        <5> QED BY <2>9, <4>1, <5>1, <5>2
      <4> QED BY <2>1, <4>2, <4>3, <4>4
    <3> QED BY <3>1, <3>2
  <2> QED BY <2>5, <2>8, <2>11 DEF w
<1>2. CASE m \notin Range(q)
  BY <1>2 DEF Without
<1> QED BY <1>1, <1>2

(* The inserts of a queue of blocks, in the order of their messages.       *)
Sorted(q) == \A i, j \in 1..Len(q) :
               (q[i][1] = "insert" /\ q[j][1] = "insert" /\ i < j) => q[i][2] < q[j][2]

LEMMA InsertsIs ==
  ASSUME NEW q \in Seq(Blocks)
  PROVE  /\ \A m : m \in Inserts(q) <=> \E i \in 1..Len(q) : q[i][1] = "insert" /\ q[i][2] = m
         /\ Inserts(q) \subseteq Numbers /\ Len(q) \in Nat
<1>1. DOMAIN q = 1..Len(q) /\ Len(q) \in Nat /\ \A i \in 1..Len(q) : q[i] \in Blocks
  BY LenProperties, ElementOfSeq
<1>2. \A b \in Blocks : b[1] = "insert" => b[2] \in Numbers
  BY DEF Blocks
<1> QED BY <1>1, <1>2 DEF Inserts

LEMMA SortedTail ==
  ASSUME NEW q \in Seq(Blocks), q # <<>>, Sorted(q)
  PROVE  /\ Sorted(Tail(q)) /\ Inserts(Tail(q)) \subseteq Inserts(q)
         /\ Head(q)[1] = "insert" =>
              Head(q)[2] \in Inserts(q) /\ Below({Head(q)[2]}, Inserts(Tail(q)))
<1> DEFINE p == Tail(q)
<1>1. /\ p \in Seq(Blocks) /\ Len(p) = Len(q) - 1 /\ Len(q) \in Nat /\ Len(q) # 0
      /\ \A i \in 1..Len(p) : p[i] = q[i + 1]
      /\ Head(q) = q[1]
  BY HeadTailProperties, LenProperties, EmptySeq
<1> HIDE DEF p
<1>2. /\ 1 \in 1..Len(q)
      /\ \A i \in 1..Len(p) : i \in Nat /\ i + 1 \in 1..Len(q) /\ 1 < i + 1
  BY <1>1
<1>3. Sorted(p)
  <2> SUFFICES ASSUME NEW i \in 1..Len(p), NEW j \in 1..Len(p), i < j,
                      p[i][1] = "insert", p[j][1] = "insert"
               PROVE  p[i][2] < p[j][2]
    BY DEF Sorted
  <2>1. i + 1 < j + 1
    BY <1>2
  <2> QED BY <1>1, <1>2, <2>1 DEF Sorted
<1>4. /\ \A m : m \in Inserts(p) <=> \E i \in 1..Len(p) : p[i][1] = "insert" /\ p[i][2] = m
      /\ \A m : m \in Inserts(q) <=> \E i \in 1..Len(q) : q[i][1] = "insert" /\ q[i][2] = m
  BY <1>1, InsertsIs
<1>5. Inserts(p) \subseteq Inserts(q)
  BY <1>1, <1>2, <1>4
<1>6. ASSUME Head(q)[1] = "insert" PROVE Head(q)[2] \in Inserts(q)
  BY <1>1, <1>2, <1>4, <1>6
<1>7. ASSUME Head(q)[1] = "insert", NEW m \in Inserts(p) PROVE Head(q)[2] < m
  <2>1. PICK i \in 1..Len(p) : p[i][1] = "insert" /\ p[i][2] = m
    BY <1>4
  <2> QED BY <1>1, <1>2, <1>7, <2>1 DEF Sorted
<1> QED BY <1>3, <1>5, <1>6, <1>7 DEF Below, p

LEMMA SortedAppend ==
  ASSUME NEW q \in Seq(Blocks), Sorted(q), NEW b \in Blocks,
         b[1] = "insert" => Below(Inserts(q), {b[2]})
  PROVE  /\ Sorted(Append(q, b))
         /\ Inserts(Append(q, b)) = Inserts(q) \union {m \in {b[2]} : b[1] = "insert"}
<1> DEFINE a == Append(q, b)
           n == Len(q)
<1>1. /\ a \in Seq(Blocks) /\ Len(a) = n + 1 /\ n \in Nat
      /\ \A i \in 1..n : a[i] = q[i]
      /\ a[n + 1] = b
  BY AppendProperties, LenProperties
<1>2. \A m : m \in Inserts(q) <=> \E i \in 1..n : q[i][1] = "insert" /\ q[i][2] = m
  BY InsertsIs
<1>3. \A i, j \in 1..n :
        (q[i][1] = "insert" /\ q[j][1] = "insert" /\ i < j) => q[i][2] < q[j][2]
  BY DEF Sorted
<1> HIDE DEF a, n
<1>4. \A m : m \in Inserts(a) <=> \E i \in 1..n + 1 : a[i][1] = "insert" /\ a[i][2] = m
  BY <1>1, InsertsIs
<1>5. /\ n + 1 \in 1..n + 1
      /\ \A i \in 1..n + 1 : i \in 1..n \/ i = n + 1
      /\ \A i \in 1..n : i \in 1..n + 1
  BY <1>1
<1>6. \A m : m \in Inserts(a) <=> m \in Inserts(q) \/ (b[1] = "insert" /\ m = b[2])
  BY <1>1, <1>2, <1>4, <1>5
<1>7. ASSUME NEW i \in 1..n + 1, NEW j \in 1..n + 1, i < j,
             a[i][1] = "insert", a[j][1] = "insert"
      PROVE  a[i][2] < a[j][2]
  <2>1. i \in 1..n
    BY <1>1, <1>7
  <2>2. CASE j \in 1..n
    BY <1>1, <1>3, <1>7, <2>1, <2>2
  <2>3. CASE j = n + 1
    <3>1. a[i][2] \in Inserts(q)
      BY <1>1, <1>2, <1>7, <2>1
    <3> QED BY <1>1, <1>7, <2>3, <3>1 DEF Below
  <2> QED BY <1>5, <2>2, <2>3
<1>8. Sorted(a)
  BY <1>1, <1>7 DEF Sorted
<1> QED BY <1>6, <1>8 DEF a

LEMMA SortedRenamed ==
  ASSUME NEW q \in Seq(Blocks), Sorted(q)
  PROVE  Sorted(Renamed(q)) /\ Inserts(Renamed(q)) \subseteq Inserts(q)
<1> DEFINE p == Renamed(q)
<1>1. p \in Seq(Blocks) /\ Len(p) = Len(q)
  BY RenamedType
<1>2. ASSUME NEW i \in 1..Len(q), p[i][1] = "insert"
      PROVE  p[i] = q[i]
  <2>1. p[i] = IF q[i][1] # "insert" /\ q[i][2] = "url" THEN <<q[i][1], "old">> ELSE q[i]
    BY RenamedType
  <2> HIDE DEF p
  <2>2. CASE q[i][1] # "insert" /\ q[i][2] = "url"
    <3>1. p[i] = <<q[i][1], "old">>
      BY <2>1, <2>2
    <3> QED BY <1>2, <2>2, <3>1
  <2>3. CASE ~ (q[i][1] # "insert" /\ q[i][2] = "url")
    BY <2>1, <2>3
  <2> QED BY <2>2, <2>3
<1> HIDE DEF p
<1>3. Sorted(p)
  BY <1>1, <1>2 DEF Sorted
<1>4. Inserts(p) \subseteq Inserts(q)
  BY <1>1, <1>2, InsertsIs
<1> QED BY <1>3, <1>4 DEF p

-----------------------------------------------------------------------------
(* A drain that has a batch, what is left of it to be published, and the   *)
(* row that has been published and is about to be deleted.                 *)
Working(t)  == drain[t].pc \in {"check", "publish", "deleting"}
Batch(t)    == Range(drain[t].batch)
Left(t)     == IF drain[t].pc = "deleting" THEN Range(Tail(drain[t].batch)) ELSE Batch(t)
Deleting(r) == \E t \in Threads : drain[t].pc = "deleting" /\ Head(drain[t].batch) = r

(* There is one drain, running or scheduled.                               *)
One == /\ scheduled <= 1
       /\ \A t \in Threads : Active(t) => scheduled = 0
       /\ \A t, u \in Threads : Active(t) /\ Active(u) => t = u

(* What has been a row is older than what is going to be one.              *)
Known == Range(rows) \union Range(drained)
           \union UNION {Batch(t) : t \in {u \in Threads : Working(u)}}

Queued == /\ Sorted(moc)
          /\ Below(Known, Inserting)
          /\ \A m \in Known \union Inserting : m <= called
          /\ sender = "persist" => Below(Known \union Inserting, {called})

(* The batch is in order, and no row has come into the middle of it.       *)
Fetched == /\ Up(rows)
           /\ \A t \in Threads : Working(t) =>
                /\ Up(drain[t].batch)
                /\ \A r \in Range(rows) \ Batch(t) : Below(Batch(t), {r})

(* What has been published is older than what is left.                     *)
Published == /\ Up(drained)
             /\ \A t \in Threads : Working(t) => Below(Range(drained), Left(t))
             /\ \A r \in Range(rows) : Deleting(r) \/ Below(Range(drained), {r})

Ordered == One /\ Queued /\ Fetched /\ Published

(* The thread whose block is run has waited for it.                        *)
LEMMA RunsFor ==
  ASSUME TypeInv, BlocksInv, NEW kind \in {"fetch", "delete", "count"}, Runs(kind)
  PROVE  /\ Head(moc)[2] \in Threads /\ drain[Head(moc)[2]].pc = Awaits[kind]
         /\ moc \in Seq(Blocks) /\ moc # <<>> /\ Head(moc)[1] = kind /\ moc' = Tail(moc)
<1>1. moc \in Seq(Blocks) /\ moc # <<>> /\ Head(moc)[1] = kind /\ moc' = Tail(moc)
  BY DEF TypeInv, TypeOK, Runs
<1>2. Head(moc)[2] \in Threads
  BY <1>1, BlockTypes DEF TypeInv
<1>3. Matched(moc, drain) /\ Single(moc)
  BY DEF BlocksInv
<1>4. kind # "insert"
  OBVIOUS
<1> QED BY <1>1, <1>2, <1>3, <1>4, TailBlocks

LEMMA NextOne == TypeInv /\ BlocksInv /\ One /\ [Next]_vars /\ disturbed' = {} => One'
<1> SUFFICES ASSUME TypeInv, BlocksInv, One, [Next]_vars, disturbed' = {} PROVE One'
  OBVIOUS
<1>t. drain \in [Threads -> [pc : Pcs, batch : Seq(Numbers)]] /\ scheduled \in Nat
  BY DEF TypeInv, TypeOK
<1>u. UNCHANGED <<drain, scheduled>> => One'
  BY DEF One, Active
<1>v. ASSUME NEW t \in Threads, Active(t), scheduled' = scheduled,
             \A u \in Threads \ {t} : drain'[u] = drain[u]
      PROVE  One'
  <2>1. \A u \in Threads : u # t => drain'[u].pc = "off"
    BY <1>v DEF One, Active
  <2> QED BY <1>v, <2>1 DEF One, Active
<1>w. ASSUME NEW t \in Threads, \A u \in Threads : ~ Active(u), scheduled' = 0,
             \A u \in Threads \ {t} : drain'[u] = drain[u]
      PROVE  One'
  BY <1>w DEF One, Active
<1>1. CASE SendData \/ SendPublishes \/ SendPersists \/ RunInsert \/ Transmit \/ CleanConnect
           \/ (\E m \in sent : Puback(m)) \/ UNCHANGED vars
  BY <1>1, <1>u DEF SendData, SendPublishes, SendPersists, RunInsert, Transmit, CleanConnect,
     Puback, vars
<1>2. CASE RunFetch
  <2>1. Runs("fetch") /\ scheduled' = scheduled
    BY <1>2 DEF RunFetch
  <2>2. Head(moc)[2] \in Threads /\ Active(Head(moc)[2])
    BY <2>1, RunsFor DEF Active, Awaits
  <2>3. \A u \in Threads \ {Head(moc)[2]} : drain'[u] = drain[u]
    BY <1>t, <1>2 DEF RunFetch
  <2> QED BY <1>v, <2>1, <2>2, <2>3
<1>3. CASE RunDelete
  <2>1. Runs("delete") /\ scheduled' = scheduled
    BY <1>3 DEF RunDelete
  <2>2. Head(moc)[2] \in Threads /\ Active(Head(moc)[2])
    BY <2>1, RunsFor DEF Active, Awaits
  <2>3. \A u \in Threads \ {Head(moc)[2]} : drain'[u] = drain[u]
    BY <1>t, <1>3 DEF RunDelete
  <2> QED BY <1>v, <2>1, <2>2, <2>3
<1>4. CASE RunCount
  <2>1. Runs("count") /\ scheduled' \in {scheduled, scheduled + 1}
        /\ drain' = [drain EXCEPT ![Head(moc)[2]] = Off]
    BY <1>4 DEF RunCount
  <2>2. Head(moc)[2] \in Threads /\ Active(Head(moc)[2])
    BY <2>1, RunsFor DEF Active, Awaits
  <2>3. \A u \in Threads : drain'[u].pc = "off"
    BY <1>t, <2>1, <2>2 DEF One, Active, Off
  <2>4. scheduled' <= 1
    BY <2>1, <2>2 DEF One
  <2> QED BY <2>3, <2>4 DEF One, Active
<1>5. ASSUME NEW t \in Threads, Drain(t) PROVE One'
  <2>1. Active(t) /\ scheduled' = scheduled
    BY <1>5 DEF Drain, Check, PublishItem, Active
  <2>2. \A u \in Threads \ {t} : drain'[u] = drain[u]
    BY <1>t, <1>5 DEF Drain, Check, PublishItem, Waits
  <2> QED BY <1>v, <2>1, <2>2
<1>6. CASE Perform
  <2>1. scheduled' = 0 /\ \A u \in Threads : ~ Active(u)
    BY <1>t, <1>6 DEF Perform, One
  <2>2. "conn" \in Threads /\ \A u \in Threads \ {"conn"} : drain'[u] = drain[u]
    BY <1>t, <1>6 DEF Perform, Waits, Threads
  <2> QED BY <1>w, <2>1, <2>2
<1>7. ASSUME NEW present \in BOOLEAN, LinkUp(present) PROVE One'
  <2>1. scheduled = 0 /\ scheduled' = scheduled /\ \A u \in Threads : ~ Active(u)
    <3>1. /\ scheduled' = scheduled
          /\ disturbed' = IF scheduled > 0 \/ \E u \in Threads : Active(u)
                            THEN disturbed \union {"overlap"} ELSE disturbed
      BY <1>7 DEF LinkUp
    <3>2. ~ (scheduled > 0 \/ \E u \in Threads : Active(u))
      BY <3>1
    <3> QED BY <1>t, <3>1, <3>2
  <2>2. "url" \in Threads /\ \A u \in Threads \ {"url"} : drain'[u] = drain[u]
    BY <1>t, <1>7 DEF LinkUp, Waits, Threads
  <2> QED BY <1>w, <2>1, <2>2
<1>8. CASE LinkDown
  <2>1. CASE Active("url")
    <3>1. /\ drain' = [drain EXCEPT !["old"] = drain["url"], !["url"] = Off]
          /\ scheduled' = scheduled
      BY <1>8, <2>1 DEF LinkDown
    <3>2. scheduled = 0 /\ ~ Active("conn")
      BY <2>1 DEF One, Threads
    <3>3. drain'["url"].pc = "off" /\ drain'["conn"].pc = "off"
      BY <1>t, <3>1, <3>2 DEF Threads, Off, Active
    <3> QED BY <3>1, <3>2, <3>3 DEF One, Active, Threads
  <2>2. CASE ~ Active("url")
    BY <1>8, <1>u, <2>2 DEF LinkDown
  <2> QED BY <2>1, <2>2
<1>9. CASE Crash
  BY <1>9 DEF Crash, One, Active, Off
<1> QED BY <1>1, <1>2, <1>3, <1>4, <1>5, <1>6, <1>7, <1>8, <1>9 DEF Next, App

(* Most steps leave the batches alone: who has one has had it before, or   *)
(* has taken it over with the stream.                                      *)
Carried == \A t \in Threads : Working(t)' =>
             \E u \in Threads : /\ Working(u) /\ drain'[t].batch = drain[u].batch
                                /\ drain'[t].pc = "deleting" <=> drain[u].pc = "deleting"

LEMMA StepCarries ==
  ASSUME TypeInv, BlocksInv, [Next]_vars, disturbed' = {},
         ~ RunFetch, ~ RunDelete, \A t \in Threads : ~ PublishItem(t)
  PROVE  Carried /\ \A r : Deleting(r) => Deleting(r)'
<1> DEFINE Goal == Carried /\ \A r : Deleting(r) => Deleting(r)'
<1> SUFFICES Goal
  OBVIOUS
<1>t. drain \in [Threads -> [pc : Pcs, batch : Seq(Numbers)]]
  BY DEF TypeInv, TypeOK
<1>u. drain' = drain => Goal
  BY DEF Carried, Working, Deleting
<1>v. ASSUME NEW t \in Threads, drain[t].pc # "deleting",
             \A u \in Threads \ {t} : drain'[u] = drain[u],
             \/ drain'[t].pc \notin {"check", "publish", "deleting"}
             \/ /\ drain'[t].pc = "publish" /\ drain[t].pc = "check"
                /\ drain'[t].batch = drain[t].batch
      PROVE  Goal
  <2>1. Carried
    BY <1>v DEF Carried, Working
  <2>2. ASSUME NEW r, Deleting(r) PROVE Deleting(r)'
    BY <1>v, <2>2 DEF Deleting
  <2> QED BY <2>1, <2>2
<1> HIDE DEF Goal
<1>1. CASE SendData \/ SendPublishes \/ SendPersists \/ RunInsert \/ Transmit \/ CleanConnect
           \/ (\E m \in sent : Puback(m)) \/ UNCHANGED vars
  BY <1>1, <1>u DEF SendData, SendPublishes, SendPersists, RunInsert, Transmit, CleanConnect,
     Puback, vars
<1>2. CASE RunCount
  <2>1. Runs("count") /\ drain' = [drain EXCEPT ![Head(moc)[2]] = Off]
    BY <1>2 DEF RunCount
  <2>2. Head(moc)[2] \in Threads /\ drain[Head(moc)[2]].pc # "deleting"
    BY <2>1, RunsFor DEF Awaits
  <2>3. /\ drain'[Head(moc)[2]].pc = "off"
        /\ \A u \in Threads \ {Head(moc)[2]} : drain'[u] = drain[u]
    BY <1>t, <2>1, <2>2 DEF Off
  <2> QED BY <1>v, <2>2, <2>3
<1>3. ASSUME NEW t \in Threads, Check(t) PROVE Goal
  <2>1. drain[t].pc = "check" /\ \A u \in Threads \ {t} : drain'[u] = drain[u]
    BY <1>t, <1>3 DEF Check, Waits
  <2>2. \/ drain'[t].pc = "counting"
        \/ drain'[t].pc = "publish" /\ drain'[t].batch = drain[t].batch
    BY <1>t, <1>3 DEF Check, Waits
  <2> QED BY <1>v, <2>1, <2>2
<1>4. CASE Perform
  <2>1. "conn" \in Threads /\ drain["conn"].pc = "off"
    BY <1>4 DEF Perform, Threads, Active
  <2>2. drain' = drain \/ drain' = [drain EXCEPT !["conn"].pc = "fetching"]
    BY <1>4 DEF Perform, Waits
  <2>3. drain' = drain \/ (/\ drain'["conn"].pc = "fetching"
                           /\ \A u \in Threads \ {"conn"} : drain'[u] = drain[u])
    BY <1>t, <2>1, <2>2
  <2> QED BY <1>u, <1>v, <2>1, <2>3
<1>5. ASSUME NEW present \in BOOLEAN, LinkUp(present) PROVE Goal
  <2>1. "url" \in Threads /\ drain["url"].pc = "off"
    BY <1>5 DEF LinkUp, Threads, BlocksInv, Parked
  <2>2. drain' = [drain EXCEPT !["url"].pc = "fetching"]
    BY <1>5 DEF LinkUp, Waits
  <2>3. drain'["url"].pc = "fetching" /\ \A u \in Threads \ {"url"} : drain'[u] = drain[u]
    BY <1>t, <2>1, <2>2
  <2> QED BY <1>v, <2>1, <2>3
<1>6. CASE LinkDown
  <2>1. CASE Active("url")
    <3>1. drain' = [drain EXCEPT !["old"] = drain["url"], !["url"] = Off]
          /\ ~ Active("old")
      BY <1>6, <2>1 DEF LinkDown
    <3>2. /\ drain'["old"] = drain["url"] /\ drain'["conn"] = drain["conn"]
          /\ drain'["url"].pc = "off" /\ drain["old"].pc = "off"
      BY <1>t, <3>1 DEF Threads, Off, Active
    <3>3. Carried
      BY <3>2 DEF Carried, Working, Threads
    <3>4. ASSUME NEW r, Deleting(r) PROVE Deleting(r)'
      BY <3>2, <3>4 DEF Deleting, Threads
    <3> QED BY <3>3, <3>4 DEF Goal
  <2>2. CASE ~ Active("url")
    BY <1>6, <1>u, <2>2 DEF LinkDown
  <2> QED BY <2>1, <2>2
<1>7. CASE Crash
  <2>1. \A t \in Threads : drain'[t].pc = "off" /\ drain[t].pc # "deleting"
    BY <1>7 DEF Crash, Off
  <2> QED BY <2>1 DEF Goal, Carried, Working, Deleting
<1> QED BY <1>1, <1>2, <1>3, <1>4, <1>5, <1>6, <1>7 DEF Next, App, Drain

LEMMA KnownIs ==
  /\ \A m : m \in Known <=> \/ m \in Range(rows) \/ m \in Range(drained)
                            \/ \E t \in Threads : Working(t) /\ m \in Batch(t)
  /\ (\A m : m \in Known <=> \/ m \in Range(rows) \/ m \in Range(drained)
                             \/ \E t \in Threads : Working(t) /\ m \in Batch(t))'
  BY DEF Known

(* What the line consists of. *)
LEMMA LineTypes ==
  ASSUME TypeInv
  PROVE  /\ Range(rows) \subseteq Numbers /\ Range(drained) \subseteq Numbers
         /\ \A t \in Threads : drain[t].batch \in Seq(Numbers) /\ Batch(t) \subseteq Numbers
         /\ \A t \in Threads : drain[t].pc \in {"publish", "deleting"} => drain[t].batch # <<>>
         /\ Known \subseteq Numbers /\ Inserting \subseteq Numbers /\ called \in Nat
<1>1. /\ rows \in Seq(Numbers) /\ drained \in Seq(Numbers) /\ moc \in Seq(Blocks)
      /\ drain \in [Threads -> [pc : Pcs, batch : Seq(Numbers)]] /\ called \in Nat
      /\ \A t \in Threads : drain[t].pc \in {"publish", "deleting"} => drain[t].batch # <<>>
  BY BoundsAssumption DEF TypeInv, TypeOK
<1>2. Range(rows) \subseteq Numbers /\ Range(drained) \subseteq Numbers
  BY <1>1, RangeIs
<1>3. \A t \in Threads : drain[t].batch \in Seq(Numbers) /\ Batch(t) \subseteq Numbers
  BY <1>1, RangeIs DEF Batch
<1>4. Known \subseteq Numbers
  BY <1>2, <1>3, KnownIs
<1>5. Inserting = Inserts(moc)
  BY DEF Inserting, Inserts
<1> QED BY <1>1, <1>2, <1>3, <1>4, <1>5, InsertsIs

(* The batch a fetch reads, and the one a delete leaves.                   *)
LEMMA FetchGives ==
  ASSUME TypeInv, BlocksInv, RunFetch
  PROVE  \E t \in Threads :
           /\ drain[t].pc = "fetching" /\ \A u \in Threads \ {t} : drain'[u] = drain[u]
           /\ \/ drain'[t].pc = "off"
              \/ /\ drain'[t].pc = "check"
                 /\ \E n \in 0..Len(rows) : drain'[t].batch = SubSeq(rows, 1, n)
<1> DEFINE t == Head(moc)[2]
<1>t. /\ drain \in [Threads -> [pc : Pcs, batch : Seq(Numbers)]]
      /\ rows \in Seq(Numbers) /\ Len(rows) \in Nat
  BY LenProperties DEF TypeInv, TypeOK
<1>1. t \in Threads /\ drain[t].pc = "fetching"
  <2>1. Runs("fetch")
    BY DEF RunFetch
  <2> QED BY <2>1, RunsFor DEF Awaits
<1>2. drain' = [drain EXCEPT ![t] =
                 IF rows = <<>> THEN Off
                 ELSE [pc |-> "check",
                       batch |-> IF Len(rows) <= BatchSize THEN rows
                                 ELSE SubSeq(rows, 1, BatchSize)]]
  BY DEF RunFetch
<1> HIDE DEF t
<1>3. \A u \in Threads \ {t} : drain'[u] = drain[u]
  BY <1>t, <1>1, <1>2
<1>4. CASE rows = <<>>
  <2>1. drain'[t].pc = "off"
    BY <1>t, <1>1, <1>2, <1>4 DEF Off
  <2> QED BY <1>1, <1>3, <2>1
<1>5. CASE rows # <<>>
  <2>1. drain'[t].pc = "check"
        /\ drain'[t].batch = IF Len(rows) <= BatchSize THEN rows ELSE SubSeq(rows, 1, BatchSize)
    BY <1>t, <1>1, <1>2, <1>5
  <2>2. rows = SubSeq(rows, 1, Len(rows))
    BY <1>t, SubSeqFull
  <2>3. \E n \in 0..Len(rows) : drain'[t].batch = SubSeq(rows, 1, n)
    <3>1. CASE Len(rows) <= BatchSize
      <4>1. Len(rows) \in 0..Len(rows)
        BY <1>t
      <4> QED BY <2>1, <2>2, <3>1, <4>1
    <3>2. CASE ~ Len(rows) <= BatchSize
      <4>1. BatchSize \in 0..Len(rows)
        BY <1>t, <3>2, SizesAssumption
      <4> QED BY <2>1, <3>2, <4>1
    <3> QED BY <3>1, <3>2
  <2> QED BY <1>1, <1>3, <2>1, <2>3
<1> QED BY <1>4, <1>5

LEMMA DeleteGives ==
  ASSUME TypeInv, BlocksInv, RunDelete
  PROVE  \E t \in Threads :
           /\ drain[t].pc = "deleting" /\ \A u \in Threads \ {t} : drain'[u] = drain[u]
           /\ drain'[t].pc = "check" /\ drain'[t].batch = Tail(drain[t].batch)
           /\ rows' = Without(rows, Head(drain[t].batch))
<1> DEFINE t == Head(moc)[2]
<1>t. drain \in [Threads -> [pc : Pcs, batch : Seq(Numbers)]]
  BY DEF TypeInv, TypeOK
<1>1. t \in Threads /\ drain[t].pc = "deleting"
  <2>1. Runs("delete")
    BY DEF RunDelete
  <2> QED BY <2>1, RunsFor DEF Awaits
<1>2. /\ rows' = Without(rows, Head(drain[t].batch))
      /\ drain' = [drain EXCEPT ![t] = [pc |-> "check", batch |-> Tail(@.batch)]]
  BY DEF RunDelete
<1> HIDE DEF t
<1>3. /\ drain'[t].pc = "check" /\ drain'[t].batch = Tail(drain[t].batch)
      /\ \A u \in Threads \ {t} : drain'[u] = drain[u]
  BY <1>t, <1>1, <1>2
<1> QED BY <1>1, <1>2, <1>3

(* A publish, by the drain that is at it. *)
LEMMA PublishGives ==
  ASSUME TypeInv, NEW t \in Threads, PublishItem(t)
  PROVE  /\ drain[t].pc = "publish" /\ \A u \in Threads \ {t} : drain'[u] = drain[u]
         /\ drain'[t].pc = "deleting" /\ drain'[t].batch = drain[t].batch
         /\ drained' = Append(drained, Head(drain[t].batch)) /\ rows' = rows
<1>t. drain \in [Threads -> [pc : Pcs, batch : Seq(Numbers)]]
  BY DEF TypeInv, TypeOK
<1>1. drain' = [drain EXCEPT ![t].pc = "deleting"]
  BY DEF PublishItem, Waits
<1> QED BY <1>t, <1>1 DEF PublishItem

(* An insert: the newest row, and perhaps the oldest ones leave.           *)
LEMMA InsertGives ==
  ASSUME TypeInv, RunInsert
  PROVE  /\ moc \in Seq(Blocks) /\ moc # <<>> /\ moc' = Tail(moc) /\ Head(moc)[1] = "insert"
         /\ Head(moc)[2] \in Numbers /\ drain' = drain /\ drained' = drained
         /\ \E k \in 1..Len(Append(rows, Head(moc)[2])) + 1 :
              rows' = SubSeq(Append(rows, Head(moc)[2]), k, Len(Append(rows, Head(moc)[2])))
<1> DEFINE all == Append(rows, Head(moc)[2])
           excess == IF Len(all) > Capacity THEN Len(all) - Kept ELSE 0
<1>1. moc \in Seq(Blocks) /\ moc # <<>> /\ moc' = Tail(moc) /\ Head(moc)[1] = "insert"
  BY DEF TypeInv, TypeOK, RunInsert, Runs
<1>2. Head(moc)[2] \in Numbers
  BY <1>1, BlockTypes DEF TypeInv
<1>3. Len(all) \in Nat
  <2>1. rows \in Seq(Numbers)
    BY DEF TypeInv, TypeOK
  <2> QED BY <1>2, <2>1, AppendProperties, LenProperties
<1>4. rows' = SubSeq(all, excess + 1, Len(all)) /\ drain' = drain /\ drained' = drained
  BY DEF RunInsert
<1> HIDE DEF all
<1>5. excess + 1 \in 1..Len(all) + 1
  BY <1>3, SizesAssumption
<1> HIDE DEF excess
<1>6. \E k \in 1..Len(all) + 1 : rows' = SubSeq(all, k, Len(all))
  BY <1>4, <1>5
<1> QED BY <1>1, <1>2, <1>4, <1>6 DEF all

(* What a step does to the inserts and to the messages of the line.        *)
LEMMA StepSorts ==
  ASSUME TypeInv, Sorted(moc), [Next]_vars, ~ SendPersists
  PROVE  Sorted(moc') /\ Inserting' \subseteq Inserting
<1> DEFINE Goal == Sorted(moc') /\ Inserting' \subseteq Inserting
<1> SUFFICES Goal
  OBVIOUS
<1>q. moc \in Seq(Blocks)
  BY DEF TypeInv, TypeOK
<1>i. Inserting = Inserts(moc) /\ Inserting' = Inserts(moc')
  BY DEF Inserting, Inserts
<1>u. moc' = moc => Goal
  BY <1>i
<1>r. moc # <<>> /\ moc' = Tail(moc) => Goal
  BY <1>q, <1>i, SortedTail
<1>w. ASSUME NEW t \in Threads, NEW kind \in {"fetch", "delete", "count"},
             moc' = Append(moc, <<kind, t>>)
      PROVE  Goal
  <2>1. <<kind, t>> \in Blocks /\ <<kind, t>>[1] # "insert"
    BY DEF Blocks
  <2> QED BY <1>q, <1>i, <1>w, <2>1, SortedAppend
<1> HIDE DEF Goal
<1>1. CASE SendData \/ SendPublishes \/ Transmit \/ CleanConnect
        \/ (\E m \in sent : Puback(m)) \/ UNCHANGED vars
  BY <1>1, <1>u DEF SendData, SendPublishes, Transmit, CleanConnect, Puback, vars
<1>2. CASE RunInsert \/ RunFetch \/ RunDelete \/ RunCount
  BY <1>2, <1>r DEF RunInsert, RunFetch, RunDelete, RunCount, Runs
<1>3. ASSUME NEW t \in Threads, Drain(t) PROVE Goal
  <2>1. moc' = moc \/ \E kind \in {"count", "delete"} : moc' = Append(moc, <<kind, t>>)
    BY <1>3 DEF Drain, Check, PublishItem, Waits
  <2> QED BY <1>u, <1>w, <2>1
<1>4. CASE Perform
  <2>1. moc' = moc \/ moc' = Append(moc, <<"fetch", "conn">>)
    BY <1>4 DEF Perform, Waits
  <2> QED BY <1>u, <1>w, <2>1 DEF Threads
<1>5. ASSUME NEW present \in BOOLEAN, LinkUp(present) PROVE Goal
  <2>1. moc' = Append(moc, <<"fetch", "url">>)
    BY <1>5 DEF LinkUp, Waits
  <2> QED BY <1>w, <2>1 DEF Threads
<1>6. CASE LinkDown
  <2>1. moc' = moc \/ moc' = Renamed(moc)
    BY <1>6 DEF LinkDown, Renamed
  <2>2. Sorted(Renamed(moc)) /\ Inserts(Renamed(moc)) \subseteq Inserts(moc)
    BY <1>q, SortedRenamed
  <2> QED BY <1>u, <1>i, <2>1, <2>2 DEF Goal
<1>7. CASE Crash
  <2>1. moc' = <<>> /\ Len(moc') = 0 /\ DOMAIN moc' = {}
    BY <1>7 DEF Crash
  <2> QED BY <1>i, <2>1 DEF Goal, Sorted, Inserts
<1> QED BY <1>1, <1>2, <1>3, <1>4, <1>5, <1>6, <1>7 DEF Next, App

LEMMA StepKnows ==
  ASSUME TypeInv, BlocksInv, Fetched, [Next]_vars, disturbed' = {}, ~ RunInsert
  PROVE  Known' \subseteq Known
<1>k. ASSUME \A m \in Range(rows') : m \in Known, \A m \in Range(drained') : m \in Known,
             \A t \in Threads : Working(t)' => \A m \in Batch(t)' : m \in Known
      PROVE  Known' \subseteq Known
  BY <1>k, KnownIs
<1>o. \A t \in Threads : Working(t)' /\ drain'[t] = drain[t] => \A m \in Batch(t)' : m \in Known
  BY KnownIs DEF Working, Batch
<1>s. /\ \A m \in Range(rows) : m \in Known
      /\ \A m \in Range(drained) : m \in Known
      /\ \A t \in Threads : Working(t) => \A m \in Batch(t) : m \in Known
  BY KnownIs
<1>1. CASE RunFetch
  <2>1. PICK t \in Threads :
           /\ drain[t].pc = "fetching" /\ \A u \in Threads \ {t} : drain'[u] = drain[u]
           /\ \/ drain'[t].pc = "off"
              \/ /\ drain'[t].pc = "check"
                 /\ \E n \in 0..Len(rows) : drain'[t].batch = SubSeq(rows, 1, n)
    BY <1>1, FetchGives
  <2>2. rows' = rows /\ drained' = drained
    BY <1>1 DEF RunFetch
  <2>3. ASSUME Working(t)', NEW m \in Batch(t)' PROVE m \in Known
    <3>1. PICK n \in 0..Len(rows) : drain'[t].batch = SubSeq(rows, 1, n)
      BY <2>1, <2>3 DEF Working
    <3>2. rows \in Seq(Numbers) /\ Up(rows) /\ 1 \in 1..Len(rows) + 1
      BY LenProperties DEF TypeInv, TypeOK, Fetched
    <3>3. Range(SubSeq(rows, 1, n)) \subseteq Range(rows)
      BY <3>2, UpPiece
    <3> QED BY <1>s, <3>1, <3>3 DEF Batch
  <2> QED BY <1>k, <1>o, <1>s, <2>1, <2>2, <2>3
<1>2. CASE RunDelete
  <2>1. PICK t \in Threads :
           /\ drain[t].pc = "deleting" /\ \A u \in Threads \ {t} : drain'[u] = drain[u]
           /\ drain'[t].pc = "check" /\ drain'[t].batch = Tail(drain[t].batch)
           /\ rows' = Without(rows, Head(drain[t].batch))
    BY <1>2, DeleteGives
  <2>2. rows \in Seq(Numbers) /\ Up(rows) /\ Up(drain[t].batch) /\ Working(t)
    BY <2>1 DEF TypeInv, TypeOK, Fetched, Working
  <2>3. Range(rows') \subseteq Range(rows)
    BY <2>1, <2>2, UpWithout
  <2>4. drain[t].batch \in Seq(Numbers) /\ drain[t].batch # <<>>
    BY <2>1, LineTypes
  <2>5. Batch(t)' \subseteq Batch(t)
    BY <2>1, <2>2, <2>4, UpTail DEF Batch
  <2>6. drained' = drained
    BY <1>2 DEF RunDelete
  <2> QED BY <1>k, <1>o, <1>s, <2>1, <2>2, <2>3, <2>5, <2>6
<1>3. ASSUME NEW t \in Threads, PublishItem(t) PROVE Known' \subseteq Known
  <2>1. /\ drain[t].pc = "publish" /\ \A u \in Threads \ {t} : drain'[u] = drain[u]
        /\ drain'[t].pc = "deleting" /\ drain'[t].batch = drain[t].batch
        /\ drained' = Append(drained, Head(drain[t].batch)) /\ rows' = rows
    BY <1>3, PublishGives
  <2>2. drain[t].batch \in Seq(Numbers) /\ drain[t].batch # <<>> /\ Working(t)
    BY <2>1, LineTypes DEF Working
  <2>3. Head(drain[t].batch) \in Batch(t) /\ Head(drain[t].batch) \in Numbers
    BY <2>2, UpTail DEF Batch, Fetched
  <2>4. Range(drained') = Range(drained) \union {Head(drain[t].batch)}
    <3>1. drained \in Seq(Numbers)
      BY DEF TypeInv, TypeOK
    <3> QED BY <2>1, <2>3, <3>1, RangeAppend
  <2>5. Batch(t)' = Batch(t)
    BY <2>1 DEF Batch
  <2> QED BY <1>k, <1>o, <1>s, <2>1, <2>2, <2>3, <2>4, <2>5
<1>4. CASE ~ RunFetch /\ ~ RunDelete /\ \A t \in Threads : ~ PublishItem(t)
  <2>1. Carried
    BY <1>4, StepCarries
  <2>2. rows' = rows /\ drained' = drained
    BY <1>4 DEF Next, App, Drain, SendData, SendPublishes, SendPersists, RunCount, Perform, Check,
       LinkUp, LinkDown, CleanConnect, Transmit, Crash, Puback, vars
  <2>3. \A t \in Threads : Working(t)' => \A m \in Batch(t)' : m \in Known
    BY <1>s, <2>1 DEF Carried, Batch
  <2> QED BY <1>k, <1>s, <2>2, <2>3
<1> QED BY <1>1, <1>2, <1>3, <1>4

LEMMA NextQueued ==
  TypeInv /\ BlocksInv /\ Fetched /\ Queued /\ [Next]_vars /\ disturbed' = {} => Queued'
<1> SUFFICES ASSUME TypeInv, BlocksInv, Fetched, Queued, [Next]_vars, disturbed' = {} PROVE Queued'
  OBVIOUS
<1>t. /\ Known \subseteq Numbers /\ Inserting \subseteq Numbers
      /\ called \in Nat /\ moc \in Seq(Blocks)
      /\ \A m \in Numbers : m \in Nat
  BY LineTypes DEF TypeInv, TypeOK, Numbers
<1>i. Inserting = Inserts(moc) /\ Inserting' = Inserts(moc')
  BY DEF Inserting, Inserts
<1>q. /\ Sorted(moc) /\ Below(Known, Inserting)
      /\ \A m \in Known \union Inserting : m <= called
      /\ sender = "persist" => Below(Known \union Inserting, {called})
  BY DEF Queued
<1>1. CASE SendPersists
  <2>1. /\ sender = "persist" /\ sender' = "idle" /\ moc' = Append(moc, <<"insert", called>>)
        /\ called' = called
    BY <1>1 DEF SendPersists
  <2>2. called \in Numbers
    BY <2>1 DEF TypeInv, TypeOK, Busy, Numbers
  <2>3. <<"insert", called>> \in Blocks /\ <<"insert", called>>[1] = "insert"
        /\ <<"insert", called>>[2] = called
    BY <2>2 DEF Blocks
  <2>4. Below(Inserts(moc), {called})
    BY <1>i, <1>q, <2>1 DEF Below
  <2>5. Sorted(moc') /\ Inserting' = Inserting \union {called}
    BY <1>t, <1>i, <1>q, <2>1, <2>3, <2>4, SortedAppend
  <2>6. Known' \subseteq Known
    <3>1. ~ RunInsert
      BY <1>1 DEF SendPersists, RunInsert, Runs
    <3> QED BY <3>1, StepKnows
  <2>7. Below(Known', Inserting')
    BY <1>q, <2>1, <2>5, <2>6 DEF Below
  <2>8. \A m \in Known' \union Inserting' : m <= called'
    BY <1>t, <1>q, <2>1, <2>5, <2>6
  <2> QED BY <2>1, <2>5, <2>7, <2>8 DEF Queued
<1>2. CASE RunInsert
  <2> DEFINE h == Head(moc)[2]
             all == Append(rows, h)
  <2>1. /\ moc # <<>> /\ moc' = Tail(moc) /\ Head(moc)[1] = "insert" /\ h \in Numbers
        /\ drain' = drain /\ drained' = drained
    BY <1>2, InsertGives
  <2>2. PICK k \in 1..Len(all) + 1 : rows' = SubSeq(all, k, Len(all))
    BY <1>2, InsertGives
  <2>3. UNCHANGED <<called, sender>> /\ sender = "idle"
    BY <1>2 DEF RunInsert, Runs
  <2>4. Sorted(moc') /\ Inserting' \subseteq Inserting /\ h \in Inserting /\ Below({h}, Inserting')
    BY <1>t, <1>i, <1>q, <2>1, SortedTail
  <2>5. rows \in Seq(Numbers) /\ Up(rows) /\ Below(Range(rows), {h})
    BY <1>q, <2>4, KnownIs DEF TypeInv, TypeOK, Fetched, Below
  <2>6. all \in Seq(Numbers) /\ Range(all) = Range(rows) \union {h} /\ Up(all)
    BY <2>1, <2>5, RangeAppend, UpAppend
  <2> HIDE DEF h, all
  <2>7. Range(rows') \subseteq Range(rows) \union {h}
    <3>1. Len(all) \in 0..Len(all)
      BY <2>6, LenProperties
    <3> QED BY <2>2, <2>6, <3>1, UpPiece
  <2>8. Known' \subseteq Known \union {h}
    BY <2>1, <2>7, KnownIs DEF Working, Batch
  <2>9. Below(Known', Inserting')
    BY <1>q, <2>4, <2>8 DEF Below
  <2>10. \A m \in Known' \union Inserting' : m <= called'
    BY <1>q, <2>3, <2>4, <2>8
  <2> QED BY <2>3, <2>4, <2>9, <2>10 DEF Queued
<1>3. CASE ~ SendPersists /\ ~ RunInsert
  <2>1. Sorted(moc') /\ Inserting' \subseteq Inserting /\ Known' \subseteq Known
    BY <1>q, <1>3, StepSorts, StepKnows
  <2>2. \/ called' = called /\ sender' \in {sender, "idle"}
        \/ called' = called + 1
    BY <1>3 DEF Next, App, Drain, SendData, SendPublishes, RunFetch, RunDelete, RunCount, Perform,
       Check, PublishItem, LinkUp, LinkDown, CleanConnect, Transmit, Crash, Puback, vars
  <2>3. Below(Known', Inserting')
    BY <1>q, <2>1 DEF Below
  <2>4. \A m \in Known' \union Inserting' : m <= called'
    BY <1>t, <1>q, <2>1, <2>2
  <2>5. sender' = "persist" => Below(Known' \union Inserting', {called'})
    <3>1. CASE called' = called + 1
      BY <1>t, <1>q, <2>1, <3>1 DEF Below
    <3>2. CASE called' = called /\ sender' \in {sender, "idle"}
      BY <1>q, <2>1, <3>2 DEF Below
    <3> QED BY <2>2, <3>1, <3>2
  <2> QED BY <2>1, <2>3, <2>4, <2>5 DEF Queued
<1> QED BY <1>1, <1>2, <1>3

LEMMA NextFetched ==
  TypeInv /\ BlocksInv /\ Fetched /\ Queued /\ [Next]_vars /\ disturbed' = {} => Fetched'
<1> SUFFICES ASSUME TypeInv, BlocksInv, Fetched, Queued, [Next]_vars, disturbed' = {} PROVE Fetched'
  OBVIOUS
<1>t. rows \in Seq(Numbers) /\ moc \in Seq(Blocks)
  BY DEF TypeInv, TypeOK
<1>q. /\ Up(rows)
      /\ \A t \in Threads : Working(t) =>
           Up(drain[t].batch) /\ \A r \in Range(rows) \ Batch(t) : Below(Batch(t), {r})
  BY DEF Fetched
<1>f. ASSUME Up(rows'),
             \A t \in Threads : Working(t)' =>
               Up(drain'[t].batch) /\ \A r \in Range(rows') \ Batch(t)' : Below(Batch(t)', {r})
      PROVE  Fetched'
  BY <1>f DEF Fetched
<1>o. \A t \in Threads : drain'[t] = drain[t] =>
        (Working(t)' <=> Working(t)) /\ Batch(t)' = Batch(t)
  BY DEF Working, Batch
<1>1. CASE RunInsert
  <2> DEFINE h == Head(moc)[2]
             all == Append(rows, h)
  <2>1. /\ moc # <<>> /\ moc' = Tail(moc) /\ Head(moc)[1] = "insert" /\ h \in Numbers
        /\ drain' = drain /\ drained' = drained
    BY <1>1, InsertGives
  <2>2. PICK k \in 1..Len(all) + 1 : rows' = SubSeq(all, k, Len(all))
    BY <1>1, InsertGives
  <2>3. h \in Inserting
    <3>1. Inserting = Inserts(moc)
      BY DEF Inserting, Inserts
    <3> QED BY <1>t, <2>1, <3>1, SortedTail DEF Queued
  <2>4. \A m \in Known : m < h
    BY <2>3 DEF Queued, Below
  <2>5. Below(Range(rows), {h})
    BY <2>4, KnownIs DEF Below
  <2>6. all \in Seq(Numbers) /\ Range(all) = Range(rows) \union {h} /\ Up(all)
    BY <1>t, <1>q, <2>1, <2>5, RangeAppend, UpAppend
  <2> HIDE DEF h, all
  <2>7. Up(rows') /\ Range(rows') \subseteq Range(rows) \union {h}
    <3>1. Len(all) \in 0..Len(all)
      BY <2>6, LenProperties
    <3> QED BY <2>2, <2>6, <3>1, UpPiece
  <2>8. ASSUME NEW t \in Threads, Working(t)', NEW r \in Range(rows'), r \notin Batch(t)'
        PROVE  Below(Batch(t)', {r})
    <3>1. Working(t) /\ Batch(t)' = Batch(t)
      BY <1>o, <2>1, <2>8
    <3>2. CASE r \in Range(rows)
      BY <1>q, <2>8, <3>1, <3>2
    <3>3. CASE r = h
      BY <2>4, <3>1, <3>3, KnownIs DEF Below
    <3> QED BY <2>7, <2>8, <3>2, <3>3
  <2>9. \A t \in Threads : Working(t)' => Up(drain'[t].batch)
    BY <1>q, <2>1 DEF Working
  <2> QED BY <1>f, <2>7, <2>8, <2>9
<1>2. CASE RunFetch
  <2>1. PICK t \in Threads :
           /\ drain[t].pc = "fetching" /\ \A u \in Threads \ {t} : drain'[u] = drain[u]
           /\ \/ drain'[t].pc = "off"
              \/ /\ drain'[t].pc = "check"
                 /\ \E n \in 0..Len(rows) : drain'[t].batch = SubSeq(rows, 1, n)
    BY <1>2, FetchGives
  <2>2. rows' = rows
    BY <1>2 DEF RunFetch
  <2>3. ASSUME Working(t)'
        PROVE  Up(drain'[t].batch) /\ \A r \in Range(rows) \ Batch(t)' : Below(Batch(t)', {r})
    <3>1. PICK n \in 0..Len(rows) : drain'[t].batch = SubSeq(rows, 1, n)
      BY <2>1, <2>3 DEF Working
    <3>2. 1 \in 1..Len(rows) + 1
      BY <1>t, LenProperties
    <3>3. /\ Up(SubSeq(rows, 1, n))
          /\ \A r \in Range(rows) \ Range(SubSeq(rows, 1, n)) :
               Below(Range(SubSeq(rows, 1, n)), {r})
      BY <1>t, <1>q, <3>2, UpPiece
    <3> QED BY <3>1, <3>3 DEF Batch
  <2> QED BY <1>f, <1>o, <1>q, <2>1, <2>2, <2>3
<1>3. CASE RunDelete
  <2>1. PICK t \in Threads :
           /\ drain[t].pc = "deleting" /\ \A u \in Threads \ {t} : drain'[u] = drain[u]
           /\ drain'[t].pc = "check" /\ drain'[t].batch = Tail(drain[t].batch)
           /\ rows' = Without(rows, Head(drain[t].batch))
    BY <1>3, DeleteGives
  <2>2. Up(rows') /\ Range(rows') = Range(rows) \ {Head(drain[t].batch)}
    BY <1>t, <1>q, <2>1, UpWithout
  <2>3. Working(t) /\ drain[t].batch \in Seq(Numbers) /\ drain[t].batch # <<>>
    BY <2>1, LineTypes DEF Working
  <2>4. Up(drain'[t].batch) /\ Batch(t) = Batch(t)' \union {Head(drain[t].batch)}
    BY <1>q, <2>1, <2>3, UpTail DEF Batch
  <2>5. \A r \in Range(rows') \ Batch(t)' : Below(Batch(t)', {r})
    BY <1>q, <2>2, <2>3, <2>4 DEF Below
  <2>6. ASSUME NEW u \in Threads, u # t, Working(u)'
        PROVE  Up(drain'[u].batch) /\ \A r \in Range(rows') \ Batch(u)' : Below(Batch(u)', {r})
    BY <1>o, <1>q, <2>1, <2>2, <2>6
  <2> QED BY <1>f, <2>2, <2>4, <2>5, <2>6
<1>4. ASSUME NEW t \in Threads, PublishItem(t) PROVE Fetched'
  <2>1. /\ \A u \in Threads \ {t} : drain'[u] = drain[u]
        /\ drain[t].pc = "publish" /\ drain'[t].batch = drain[t].batch /\ rows' = rows
    BY <1>4, PublishGives
  <2>2. Working(t) /\ Batch(t)' = Batch(t)
    BY <2>1 DEF Working, Batch
  <2> QED BY <1>f, <1>o, <1>q, <2>1, <2>2
<1>5. CASE ~ RunInsert /\ ~ RunFetch /\ ~ RunDelete /\ \A t \in Threads : ~ PublishItem(t)
  <2>1. Carried
    BY <1>5, StepCarries
  <2>2. rows' = rows
    BY <1>5 DEF Next, App, Drain, SendData, SendPublishes, SendPersists, RunCount, Perform, Check,
       LinkUp, LinkDown, CleanConnect, Transmit, Crash, Puback, vars
  <2> QED BY <1>f, <1>q, <2>1, <2>2 DEF Carried, Batch
<1> QED BY <1>1, <1>2, <1>3, <1>4, <1>5

LEMMA NextPublished ==
  TypeInv /\ BlocksInv /\ Ordered /\ [Next]_vars /\ disturbed' = {} => Published'
<1> SUFFICES ASSUME TypeInv, BlocksInv, Ordered, [Next]_vars, disturbed' = {} PROVE Published'
  OBVIOUS
<1>t. /\ rows \in Seq(Numbers) /\ moc \in Seq(Blocks) /\ drained \in Seq(Numbers)
      /\ Up(rows) /\ \A t \in Threads : Working(t) => Up(drain[t].batch)
  BY DEF TypeInv, TypeOK, Ordered, Fetched
<1>q. /\ Up(drained)
      /\ \A t \in Threads : Working(t) => Below(Range(drained), Left(t))
      /\ \A r \in Range(rows) : Deleting(r) \/ Below(Range(drained), {r})
  BY DEF Ordered, Published
<1>a. \A t, u \in Threads : drain[t].pc # "off" /\ u # t => drain[u].pc = "off"
  BY DEF Ordered, One, Active
<1>f. ASSUME Up(drained'),
             \A t \in Threads : Working(t)' => Below(Range(drained'), Left(t)'),
             \A r \in Range(rows') : Deleting(r)' \/ Below(Range(drained'), {r})
      PROVE  Published'
  BY <1>f DEF Published
<1>1. CASE RunInsert
  <2> DEFINE h == Head(moc)[2]
             all == Append(rows, h)
  <2>1. /\ moc # <<>> /\ moc' = Tail(moc) /\ Head(moc)[1] = "insert" /\ h \in Numbers
        /\ drain' = drain /\ drained' = drained
    BY <1>1, InsertGives
  <2>2. PICK k \in 1..Len(all) + 1 : rows' = SubSeq(all, k, Len(all))
    BY <1>1, InsertGives
  <2>3. h \in Inserting
    <3>1. Inserting = Inserts(moc)
      BY DEF Inserting, Inserts
    <3> QED BY <1>t, <2>1, <3>1, SortedTail DEF Ordered, Queued
  <2>4. \A m \in Known : m < h
    BY <2>3 DEF Ordered, Queued, Below
  <2>5. Below(Range(rows), {h}) /\ Below(Range(drained), {h})
    BY <2>4, KnownIs DEF Below
  <2>6. all \in Seq(Numbers) /\ Range(all) = Range(rows) \union {h} /\ Up(all)
    BY <1>t, <2>1, <2>5, RangeAppend, UpAppend
  <2> HIDE DEF h, all
  <2>7. Range(rows') \subseteq Range(rows) \union {h}
    <3>1. Len(all) \in 0..Len(all)
      BY <2>6, LenProperties
    <3> QED BY <2>2, <2>6, <3>1, UpPiece
  <2>8. \A r \in Range(rows') : Deleting(r)' \/ Below(Range(drained'), {r})
    BY <1>q, <2>1, <2>5, <2>7 DEF Deleting
  <2>9. \A t \in Threads : Working(t)' => Below(Range(drained'), Left(t)')
    BY <1>q, <2>1 DEF Working, Left, Batch
  <2> QED BY <1>f, <1>q, <2>1, <2>8, <2>9
<1>2. CASE RunFetch
  <2>1. PICK t \in Threads :
           /\ drain[t].pc = "fetching" /\ \A u \in Threads \ {t} : drain'[u] = drain[u]
           /\ \/ drain'[t].pc = "off"
              \/ /\ drain'[t].pc = "check"
                 /\ \E n \in 0..Len(rows) : drain'[t].batch = SubSeq(rows, 1, n)
    BY <1>2, FetchGives
  <2>2. rows' = rows /\ drained' = drained
    BY <1>2 DEF RunFetch
  <2>3. \A u \in Threads : drain[u].pc # "deleting"
    BY <1>a, <2>1
  <2>4. Below(Range(drained), Range(rows))
    BY <1>q, <2>3 DEF Deleting, Below
  <2>5. ASSUME Working(t)' PROVE Below(Range(drained), Left(t)')
    <3>1. PICK n \in 0..Len(rows) : drain'[t].batch = SubSeq(rows, 1, n)
      BY <2>1, <2>5 DEF Working
    <3>2. 1 \in 1..Len(rows) + 1
      BY <1>t, LenProperties
    <3>3. Range(SubSeq(rows, 1, n)) \subseteq Range(rows)
      BY <1>t, <3>2, UpPiece
    <3>4. Left(t)' \subseteq Range(rows)
      BY <2>1, <2>5, <3>1, <3>3 DEF Left, Batch, Working
    <3> QED BY <2>4, <3>4 DEF Below
  <2>6. \A u \in Threads : u # t => ~ Working(u)'
    BY <1>a, <2>1 DEF Working
  <2>7. \A r \in Range(rows) : Below(Range(drained), {r})
    BY <2>4 DEF Below
  <2> QED BY <1>f, <1>q, <2>2, <2>5, <2>6, <2>7
<1>3. CASE RunDelete
  <2>1. PICK t \in Threads :
           /\ drain[t].pc = "deleting" /\ \A u \in Threads \ {t} : drain'[u] = drain[u]
           /\ drain'[t].pc = "check" /\ drain'[t].batch = Tail(drain[t].batch)
           /\ rows' = Without(rows, Head(drain[t].batch))
    BY <1>3, DeleteGives
  <2>2. Range(rows') = Range(rows) \ {Head(drain[t].batch)} /\ drained' = drained
    BY <1>3, <1>t, <2>1, UpWithout DEF RunDelete
  <2>3. \A u \in Threads : u # t => drain[u].pc = "off" /\ ~ Working(u)'
    BY <1>a, <2>1 DEF Working
  <2>4. \A r \in Range(rows') : Below(Range(drained), {r})
    BY <1>q, <2>2, <2>3 DEF Deleting
  <2>5. Left(t)' = Left(t) /\ Working(t)
    BY <2>1 DEF Left, Batch, Working
  <2> QED BY <1>f, <1>q, <2>2, <2>3, <2>4, <2>5
<1>4. ASSUME NEW t \in Threads, PublishItem(t) PROVE Published'
  <2> DEFINE h == Head(drain[t].batch)
             rest == Range(Tail(drain[t].batch))
  <2>1. /\ drain[t].pc = "publish" /\ \A u \in Threads \ {t} : drain'[u] = drain[u]
        /\ drain'[t].pc = "deleting" /\ drain'[t].batch = drain[t].batch
        /\ drained' = Append(drained, h) /\ rows' = rows
    BY <1>4, PublishGives
  <2>2. drain[t].batch \in Seq(Numbers) /\ drain[t].batch # <<>> /\ Working(t)
    BY <2>1, LineTypes DEF Working
  <2>3. h \in Numbers /\ Batch(t) = rest \union {h} /\ Below({h}, rest)
    BY <1>t, <2>2, UpTail DEF Batch
  <2>4. Below(Range(drained), Batch(t))
    BY <1>q, <2>1, <2>2 DEF Left
  <2>5. Left(t)' = rest
    BY <2>1 DEF Left
  <2> HIDE DEF h, rest
  <2>6. Up(drained') /\ Range(drained') = Range(drained) \union {h}
    <3>1. Below(Range(drained), {h})
      BY <2>3, <2>4 DEF Below
    <3> QED BY <1>t, <1>q, <2>1, <2>3, <3>1, UpAppend, RangeAppend
  <2>7. Below(Range(drained'), Left(t)')
    BY <2>3, <2>4, <2>5, <2>6 DEF Below
  <2>8. \A u \in Threads : u # t => drain[u].pc = "off" /\ ~ Working(u)'
    BY <1>a, <2>1 DEF Working
  <2>9. ASSUME NEW r \in Range(rows') PROVE Deleting(r)' \/ Below(Range(drained'), {r})
    <3>1. CASE r = h
      BY <2>1, <3>1 DEF Deleting, h
    <3>2. CASE r # h
      <4>1. ~ Deleting(r)
        BY <2>1, <2>8 DEF Deleting
      <4>2. Below(Range(drained), {r})
        BY <1>q, <2>1, <2>9, <4>1
      <4>3. h < r
        <5>1. CASE r \in Batch(t)
          BY <2>3, <3>2, <5>1 DEF Below
        <5>2. CASE r \notin Batch(t)
          BY <2>1, <2>2, <2>3, <2>9, <5>2 DEF Ordered, Fetched, Below
        <5> QED BY <5>1, <5>2
      <4> QED BY <2>6, <4>2, <4>3 DEF Below
    <3> QED BY <3>1, <3>2
  <2>10. \A u \in Threads : Working(u)' => Below(Range(drained'), Left(u)')
    BY <2>7, <2>8
  <2> QED BY <1>f, <2>6, <2>9, <2>10
<1>5. CASE ~ RunInsert /\ ~ RunFetch /\ ~ RunDelete /\ \A t \in Threads : ~ PublishItem(t)
  <2>1. Carried /\ \A r : Deleting(r) => Deleting(r)'
    BY <1>5, StepCarries
  <2>2. rows' = rows /\ drained' = drained
    BY <1>5 DEF Next, App, Drain, SendData, SendPublishes, SendPersists, RunCount, Perform, Check,
       LinkUp, LinkDown, CleanConnect, Transmit, Crash, Puback, vars
  <2>3. \A t \in Threads : Working(t)' => \E u \in Threads : Working(u) /\ Left(t)' = Left(u)
    BY <2>1 DEF Carried, Left, Batch
  <2> QED BY <1>f, <1>q, <2>1, <2>2, <2>3
<1> QED BY <1>1, <1>2, <1>3, <1>4, <1>5

LEMMA AlwaysOrdered == SafeSpec => [](disturbed = {} => Ordered)
<1> DEFINE OInv == disturbed = {} => Ordered
<1>1. Init => OInv
  <2> SUFFICES ASSUME Init PROVE Ordered
    OBVIOUS
  <2>1. Len(moc) = 0 /\ Len(rows) = 0 /\ Len(drained) = 0 /\ DOMAIN moc = {}
        /\ Range(rows) = {} /\ Range(drained) = {} /\ sender = "idle" /\ scheduled = 0
    BY DEF Init, Range
  <2>2. \A t \in Threads : drain[t].pc = "off"
    BY DEF Init, Off
  <2>3. Known = {} /\ Inserting = {}
    BY <2>1, <2>2 DEF Known, Inserting, Working
  <2> QED BY <2>1, <2>2, <2>3
          DEF Ordered, One, Queued, Fetched, Published, Active, Working, Sorted, Up, Below
<1>2. IInv /\ OInv /\ [Next]_vars => OInv'
  <2> SUFFICES ASSUME IInv, OInv, [Next]_vars, disturbed' = {} PROVE Ordered'
    OBVIOUS
  <2>1. disturbed = {}
    BY DEF Next, App, Drain, SendData, SendPublishes, SendPersists, RunInsert, RunFetch, RunDelete,
       RunCount, Perform, Check, PublishItem, LinkUp, LinkDown, CleanConnect, Transmit, Crash, Puback, vars, pastVars
  <2>2. TypeInv /\ BlocksInv /\ Ordered
    BY <2>1 DEF IInv
  <2> QED BY <2>2, NextOne, NextQueued, NextFetched, NextPublished DEF Ordered
<1> QED BY <1>1, <1>2, Inductive, PTL DEF SafeSpec

(* The drains publish the rows in the order they were stored in, each row  *)
(* once, as long as no link has come up over a drain at work and no        *)
(* process has died between a publish and its delete.                      *)
THEOREM DrainsInOrder == SafeSpec => []DrainedOnceInOrder
<1>1. TypeOK /\ (disturbed = {} => Ordered) => DrainedOnceInOrder
  <2> SUFFICES ASSUME TypeOK, disturbed = {}, Up(drained) PROVE DrainedOnceInOrder
    BY DEF Ordered, Published, DrainedOnceInOrder
  <2>1. DOMAIN drained = 1..Len(drained)
    BY LenProperties DEF TypeOK
  <2> QED BY <2>1 DEF DrainedOnceInOrder, Up
<1> QED BY <1>1, TypeCorrect, AlwaysOrdered, PTL
=============================================================================
