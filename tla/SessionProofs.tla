---------------------------- MODULE SessionProofs ----------------------------
(***************************************************************************)
(* What Session.set leaves in the queue, for every page and every list of  *)
(* autoruns, and what is under way between a page and a server.            *)
(***************************************************************************)
EXTENDS Session, SequenceTheorems, TLAPS

-----------------------------------------------------------------------------
(* The loop of Session.set.                                                *)

EnqueueFold == INSTANCE FoldProofs WITH Op <- Enqueue

LEMMA EnqueueAllIsFold ==
  ASSUME NEW b, NEW q
  PROVE  EnqueueAll(b, q) = EnqueueFold!Result(b, q)
  BY Zenon DEF EnqueueAll, FoldLeft, MapThenFoldSet, Max, EnqueueFold!Result, EnqueueFold!IsFold, EnqueueFold!Max

\* An autorun waits in a queue to which another is appended.
LEMMA EnqueueContains ==
  ASSUME NEW S, NEW b \in Seq(S), NEW x \in S
  PROVE  /\ Enqueue(b, x) \in Seq(S)
         /\ \A y : Contains(Enqueue(b, x), y) <=> Contains(b, y) \/ y = x
<1>1. CASE Contains(b, x)
  BY <1>1 DEF Enqueue
<1>2. CASE ~Contains(b, x)
  <2>1. Enqueue(b, x) = Append(b, x)
    BY <1>2 DEF Enqueue
  <2>2. /\ Append(b, x) \in Seq(S) /\ Len(Append(b, x)) = Len(b) + 1
        /\ \A i \in 1 .. Len(b) : Append(b, x)[i] = b[i]
        /\ Append(b, x)[Len(b) + 1] = x
    BY AppendProperties
  <2> DEFINE c == Append(b, x)
  <2> HIDE DEF c
  <2>3. PICK l \in Nat : l = Len(b)
    OBVIOUS
  <2>4. \A y : Contains(c, y) <=> Contains(b, y) \/ y = x
    BY <2>2, <2>3 DEF Contains, c
  <2> QED
    BY <2>1, <2>2, <2>4 DEF c
<1> QED
  BY <1>1, <1>2

\* Session.set queues every autorun of the list, and keeps what waits.
LEMMA EnqueueAllContains ==
  ASSUME NEW S, NEW b \in Seq(S), NEW q \in Seq(S)
  PROVE  /\ EnqueueAll(b, q) \in Seq(S)
         /\ \A y : Contains(EnqueueAll(b, q), y) <=> Contains(b, y) \/ Contains(q, y)
<1>1. PICK n \in Nat : n = Len(q) /\ DOMAIN q = 1 .. n
  OBVIOUS
<1>a. PICK r : EnqueueFold!Steps(r, b, q, n)
  BY <1>1, EnqueueFold!FoldSteps
<1>2. /\ r[0] = b /\ EnqueueAll(b, q) = r[n]
      /\ \A i \in 1 .. n : r[i] = Enqueue(r[i - 1], q[i])
  BY <1>a, EnqueueAllIsFold DEF EnqueueFold!Steps
<1> DEFINE W(i) == \A y : Contains(r[i], y) <=> Contains(b, y) \/ \E j \in 1 .. i : q[j] = y
           T == {i \in 0 .. n : r[i] \in Seq(S) /\ W(i)}
<1>3. 0 \in T
  BY <1>2
<1>4. ASSUME NEW i \in 1 .. n, i - 1 \in T PROVE i \in T
  <2>1. r[i - 1] \in Seq(S) /\ W(i - 1)
    BY <1>4
  <2>2. q[i] \in S /\ r[i] = Enqueue(r[i - 1], q[i])
    BY <1>1, <1>2
  <2>3. /\ r[i] \in Seq(S)
        /\ \A y : Contains(r[i], y) <=> Contains(r[i - 1], y) \/ y = q[i]
    <3>1. PICK c \in Seq(S), x \in S : c = r[i - 1] /\ x = q[i]
      BY <2>1, <2>2
    <3>2. Enqueue(c, x) \in Seq(S) /\ \A y : Contains(Enqueue(c, x), y) <=> Contains(c, y) \/ y = x
      BY EnqueueContains
    <3> QED
      BY <2>2, <3>1, <3>2
  <2>4. \A j : j \in 1 .. i <=> j \in 1 .. (i - 1) \/ j = i
    OBVIOUS
  <2>5. W(i)
    BY <2>1, <2>3, <2>4
  <2> QED
    BY <2>3, <2>5
<1> HIDE DEF T
<1>5. n \in T
  <2>1. 0 .. n \subseteq T
    BY <1>3, <1>4, EnqueueFold!UpTo
  <2> QED
    BY <2>1
<1>6. r[n] \in Seq(S) /\ W(n)
  BY <1>5 DEF T
<1>7. \A y : Contains(q, y) <=> \E j \in 1 .. n : q[j] = y
  BY <1>1 DEF Contains
<1> QED
  BY <1>2, <1>6, <1>7

-----------------------------------------------------------------------------
(* Requests and answers that are kept in order.                            *)

\* Some element of q is in A, and none behind it in B.
LastIn(q, A, B) == \E i \in DOMAIN q : q[i] \in A /\ \A j \in DOMAIN q : j > i => q[j] \notin B

NoneIn(q, B) == \A i \in DOMAIN q : q[i] \notin B

\* What is wanted is there, or on its way: asked for behind everything that
\* spoils it, or told behind everything that overwrites it.
Coming(out, Asks, Spoils, msgs, Tells, Overwrites, there) ==
  \/ LastIn(out, Asks, Spoils)
  \/ /\ NoneIn(out, Spoils)
     /\ LastIn(msgs, Tells, Overwrites) \/ (NoneIn(msgs, Overwrites) /\ there)

\* Something is sent.
LEMMA InAppend ==
  ASSUME NEW S, NEW q \in Seq(S), NEW x \in S, NEW A, NEW B
  PROVE  /\ Append(q, x) \in Seq(S)
         /\ x \in A => LastIn(Append(q, x), A, B)
         /\ x \notin B /\ LastIn(q, A, B) => LastIn(Append(q, x), A, B)
         /\ x \notin B /\ NoneIn(q, B) => NoneIn(Append(q, x), B)
<1>1. /\ Append(q, x) \in Seq(S) /\ Len(Append(q, x)) = Len(q) + 1
      /\ \A i \in 1 .. Len(q) : Append(q, x)[i] = q[i]
      /\ Append(q, x)[Len(q) + 1] = x
  BY AppendProperties
<1> DEFINE r == Append(q, x)
<1>2. PICK l \in Nat : l = Len(q) /\ DOMAIN q = 1 .. l
  OBVIOUS
<1>3. DOMAIN r = 1 .. (l + 1)
  BY <1>1, <1>2
<1> HIDE DEF r
<1>4. r[l + 1] = x /\ \A i \in 1 .. l : r[i] = q[i]
  BY <1>1, <1>2 DEF r
<1>5. \A i \in 1 .. (l + 1) : i \in 1 .. l \/ i = l + 1
  OBVIOUS
<1>6. x \in A => LastIn(r, A, B)
  <2>1. l + 1 \in DOMAIN r /\ \A j \in DOMAIN r : ~(j > l + 1)
    BY <1>3
  <2> QED
    BY <1>4, <2>1 DEF LastIn
<1>7. ASSUME x \notin B, LastIn(q, A, B) PROVE LastIn(r, A, B)
  <2>1. PICK i \in 1 .. l : q[i] \in A /\ \A j \in 1 .. l : j > i => q[j] \notin B
    BY <1>2, <1>7 DEF LastIn
  <2>2. i \in DOMAIN r /\ r[i] \in A
    BY <1>3, <1>4, <2>1
  <2>3. ASSUME NEW j \in DOMAIN r, j > i PROVE r[j] \notin B
    BY <1>3, <1>4, <1>5, <1>7, <2>1, <2>3
  <2> QED
    BY <2>2, <2>3 DEF LastIn
<1>8. ASSUME x \notin B, NoneIn(q, B) PROVE NoneIn(r, B)
  BY <1>2, <1>3, <1>4, <1>5, <1>8 DEF NoneIn
<1> QED
  BY <1>1, <1>6, <1>7, <1>8 DEF r

\* Something is received.
LEMMA InTail ==
  ASSUME NEW S, NEW q \in Seq(S), q # <<>>, NEW A, NEW B
  PROVE  /\ Head(q) \in S /\ Tail(q) \in Seq(S)
         /\ LastIn(q, A, B) => LastIn(Tail(q), A, B) \/ (Head(q) \in A /\ NoneIn(Tail(q), B))
         /\ NoneIn(q, B) => Head(q) \notin B /\ NoneIn(Tail(q), B)
<1>1. /\ Head(q) \in S /\ Tail(q) \in Seq(S) /\ Len(Tail(q)) = Len(q) - 1
      /\ \A i \in 1 .. Len(Tail(q)) : Tail(q)[i] = q[i + 1]
  BY HeadTailProperties
<1>2. Head(q) = q[1]
  OBVIOUS
<1> DEFINE r == Tail(q)
<1>3. PICK l \in Nat : l = Len(q) /\ DOMAIN q = 1 .. l /\ l >= 1
  OBVIOUS
<1>4. DOMAIN r = 1 .. (l - 1) /\ \A i \in 1 .. (l - 1) : r[i] = q[i + 1]
  BY <1>1, <1>3
<1> HIDE DEF r
<1>5. ASSUME LastIn(q, A, B) PROVE LastIn(r, A, B) \/ (q[1] \in A /\ NoneIn(r, B))
  <2>1. PICK i \in 1 .. l : q[i] \in A /\ \A j \in 1 .. l : j > i => q[j] \notin B
    BY <1>3, <1>5 DEF LastIn
  <2>2. CASE i = 1
    <3>1. \A j \in 1 .. (l - 1) : r[j] \notin B
      <4>1. \A j \in 1 .. (l - 1) : j + 1 \in 1 .. l /\ j + 1 > 1
        BY <1>3
      <4> QED
        BY <1>4, <2>1, <2>2, <4>1
    <3> QED
      BY <1>4, <2>1, <2>2, <3>1 DEF NoneIn
  <2>3. CASE i # 1
    <3>1. i - 1 \in 1 .. (l - 1) /\ (i - 1) + 1 = i
      BY <1>3, <2>3
    <3>2. r[i - 1] \in A
      BY <1>4, <2>1, <3>1
    <3>3. ASSUME NEW j \in 1 .. (l - 1), j > i - 1 PROVE r[j] \notin B
      <4>1. j + 1 \in 1 .. l /\ j + 1 > i
        BY <1>3, <3>3
      <4> QED
        BY <1>4, <2>1, <4>1
    <3> QED
      BY <1>4, <3>1, <3>2, <3>3 DEF LastIn
  <2> QED
    BY <2>2, <2>3
<1>6. ASSUME NoneIn(q, B) PROVE q[1] \notin B /\ NoneIn(r, B)
  <2>1. \A j \in 1 .. (l - 1) : j + 1 \in 1 .. l
    BY <1>3
  <2>2. 1 \in 1 .. l
    BY <1>3
  <2> QED
    BY <1>3, <1>4, <1>6, <2>1, <2>2 DEF NoneIn
<1> QED
  BY <1>1, <1>2, <1>5, <1>6 DEF r

\* Nothing is under way.
LEMMA InEmpty ==
  ASSUME NEW A, NEW B
  PROVE  ~LastIn(<<>>, A, B) /\ NoneIn(<<>>, B)
  BY DEF LastIn, NoneIn
=============================================================================
